------------------------------ MODULE WorkQueue ------------------------------
(****************************************************************************)
(* What the controller relies on when it uses workqueue.RateLimitingInterface*)
(* (controller.go:83-87): keys that were added come back after some delay,  *)
(* each is handed to at most one worker at a time, and none is forgotten or *)
(* starved.  RateLimitedQueue is shown to implement this module; the        *)
(* controller's own modules are built on it.                                *)
(****************************************************************************)
EXTENDS Integers, FiniteSets

CONSTANTS
    Keys,       \* "namespace/name" of the objects that can be queued
    Workers,    \* the goroutines started by Controller.Run
    NoKey,      \* what a worker holds between Done and Get
    MaxPending  \* calls for one key that are told apart, more are merged

VARIABLES
    pending,    \* for each key, the calls of AddRateLimited not served yet
    claim,      \* the key each worker got and has not called Done for
    open        \* FALSE once ShutDown was called

queueVars == <<pending, claim, open>>

QueueTypeOK ==
    /\ pending \in [Keys -> 0..MaxPending]
    /\ claim \in [Workers -> Keys \cup {NoKey}]
    /\ open \in BOOLEAN

Claimed == {claim[w] : w \in Workers} \ {NoKey}

Init ==
    /\ pending = [k \in Keys |-> 0]
    /\ claim = [w \in Workers |-> NoKey]
    /\ open = TRUE

------------------------------------------------------------------------------

(* A call of AddRateLimited for each of the keys.  Calls after ShutDown are
   ignored. *)
AddAll(keys) ==
    /\ pending' = [k \in Keys |->
          IF open /\ k \in keys /\ pending[k] < MaxPending
          THEN pending[k] + 1 ELSE pending[k]]
    /\ UNCHANGED <<claim, open>>

AddRateLimited(k) == AddAll({k})

(* Calls for a key that already waits are merged, sooner or later. *)
Merge(k) ==
    /\ pending[k] > 1
    /\ pending' = [pending EXCEPT ![k] = @ - 1]
    /\ UNCHANGED <<claim, open>>

(* A back-off has ended and worker w gets k.  A key that some worker still
   processes is not given out. *)
Get(w, k) ==
    /\ claim[w] = NoKey
    /\ pending[k] > 0 /\ k \notin Claimed
    /\ claim' = [claim EXCEPT ![w] = k]
    /\ pending' = [pending EXCEPT ![k] = @ - 1]
    /\ UNCHANGED open

(* Worker w gives its key back. *)
Done(w) ==
    /\ claim[w] # NoKey
    /\ claim' = [claim EXCEPT ![w] = NoKey]
    /\ UNCHANGED <<pending, open>>

(* ShutDown.  Keys whose back-off has not elapsed are dropped with it. *)
ShutDown ==
    /\ open
    /\ open' = FALSE
    /\ pending' \in [Keys -> 0..MaxPending]
    /\ \A k \in Keys : pending'[k] <= pending[k]
    /\ UNCHANGED claim

Next ==
    \/ \E k \in Keys : AddRateLimited(k) \/ Merge(k)
    \/ \E w \in Workers : Done(w) \/ \E k \in Keys : Get(w, k)
    \/ ShutDown

(* A pending key's back-off ends and it is not starved (the queue is first in
   first out, hence strong fairness for each key), and every sync returns. *)
Fairness ==
    /\ \A k \in Keys : SF_queueVars(\E w \in Workers : Get(w, k))
    /\ \A w \in Workers : WF_queueVars(Done(w))

Spec == Init /\ [][Next]_queueVars /\ Fairness

------------------------------------------------------------------------------

(* A key whose addition was accepted is handed to a worker, whatever else is
   queued or retried meanwhile, unless the queue is shut down. *)
NothingLost ==
    \A k \in Keys : pending[k] > 0 ~> (k \in Claimed \/ ~open)
==============================================================================
