---------------------------- MODULE TunnelLifecycle ----------------------------
(****************************************************************************)
(* What the operator promises about a tunnel and its cloud host, whatever its *)
(* workers, the listener, stale caches and failures do: a tunnel records one   *)
(* host, that was ordered and that no other tunnel has, becomes active when    *)
(* the host is, keeps the host as long as it exists, and a host is deleted     *)
(* only when no tunnel has it.  Operator is shown to implement this module.    *)
(* It does not promise that each host ordered is recorded, nor that each one   *)
(* is deleted.                                                                *)
(****************************************************************************)

CONSTANTS Services, Hosts, None

VARIABLES
    stage,      \* of the tunnel of each service
    hostOf,     \* the host it has recorded
    cloud       \* the hosts of the cloud account

vars == <<stage, hostOf, cloud>>

Init ==
    /\ stage = [s \in Services |-> "absent"]
    /\ hostOf = [s \in Services |-> None]
    /\ cloud = [h \in Hosts |-> "free"]

Create(s) ==
    /\ stage[s] = "absent"
    /\ stage' = [stage EXCEPT ![s] = "requested"]
    /\ UNCHANGED <<hostOf, cloud>>

Remove(s) ==
    /\ stage[s] # "absent"
    /\ stage' = [stage EXCEPT ![s] = "absent"]
    /\ hostOf' = [hostOf EXCEPT ![s] = None]
    /\ UNCHANGED cloud

(* A worker orders a host; nobody has recorded it yet. *)
Order(h) ==
    /\ cloud[h] = "free"
    /\ cloud' = [cloud EXCEPT ![h] = "booting"]
    /\ UNCHANGED <<stage, hostOf>>

Boot(h) ==
    /\ cloud[h] = "booting"
    /\ cloud' = [cloud EXCEPT ![h] = "active"]
    /\ UNCHANGED <<stage, hostOf>>

(* The tunnel records its host. *)
Record(s, h) ==
    /\ stage[s] = "requested"
    /\ cloud[h] \in {"booting", "active"}
    /\ \A x \in Services : hostOf[x] # h
    /\ stage' = [stage EXCEPT ![s] = "provisioning"]
    /\ hostOf' = [hostOf EXCEPT ![s] = h]
    /\ UNCHANGED cloud

Activate(s) ==
    /\ stage[s] = "provisioning"
    /\ cloud[hostOf[s]] = "active"
    /\ stage' = [stage EXCEPT ![s] = "active"]
    /\ UNCHANGED <<hostOf, cloud>>

Release(h) ==
    /\ cloud[h] \in {"booting", "active"}
    /\ \A s \in Services : hostOf[s] # h
    /\ cloud' = [cloud EXCEPT ![h] = "gone"]
    /\ UNCHANGED <<stage, hostOf>>

Next ==
    \/ \E s \in Services : \/ Create(s) \/ Remove(s) \/ Activate(s)
                           \/ \E h \in Hosts : Record(s, h)
    \/ \E h \in Hosts : Order(h) \/ Boot(h) \/ Release(h)

Spec == Init /\ [][Next]_vars
==============================================================================
