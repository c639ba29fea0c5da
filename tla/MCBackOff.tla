------------------------------- MODULE MCBackOff -------------------------------
(****************************************************************************)
(* BackOff as TLC checks it: keys are interchangeable.                        *)
(****************************************************************************)
EXTENDS BackOff, TLC

KeySymmetry == Permutations(Keys)
==============================================================================
