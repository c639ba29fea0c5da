------------------------------ MODULE MCOperator ------------------------------
(****************************************************************************)
(* Operator as TLC checks it.  The configurations choose services, workers,   *)
(* hosts, and which edits and faults happen how often.                        *)
(****************************************************************************)
EXTENDS Operator, TLC

(* Workers are interchangeable; only the runs without liveness use it. *)
WorkerSymmetry == Permutations(Workers)

(* So are ports, where a service of other ports is created again. *)
PortSymmetry == Permutations(Ports)

(* A user's tunnel with a token secret of the user's own, one without, and one
   that names no service. *)
TunnelManifests ==
    {[serviceRef |-> TRUE, auth |-> "spec"], [serviceRef |-> TRUE, auth |-> "none"],
     [serviceRef |-> FALSE, auth |-> "none"]}

NoManifests == {}
==============================================================================
