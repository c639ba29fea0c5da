---------------------------- MODULE EventHandlers ----------------------------
(****************************************************************************)
(* The informers and the event handlers NewController registers.  Caches are *)
(* filled from the watch streams, so they lag behind the API server; the      *)
(* handlers put keys on the work queue, and the tunnel DeleteFunc deletes     *)
(* the host and withdraws its address itself, on the listener's goroutine.    *)
(*                                                                          *)
(* A handler that only enqueues is merged with the cache update it follows:   *)
(* the delay between the two is a longer back-off, which is unbounded here    *)
(* anyway.  Deletions keep a queue of their own, because handling one takes   *)
(* several requests.                                                         *)
(****************************************************************************)
EXTENDS ServiceStatus

CONSTANT MaxPending     \* see WorkQueue

VARIABLES
    pending, claim, open,   \* the work queue, see WorkQueue
    serviceCache,           \* the store behind serviceLister
    tunnelCache,            \* the store behind tunnelsLister
    deletions               \* deleted tunnels DeleteFunc has yet to be called with

queueVars == <<pending, claim, open>>
cacheVars == <<serviceCache, tunnelCache, deletions>>

ServiceKey(s) == <<"service", s>>
TunnelKey(s) == <<"tunnel", s>>
Keys == {"service", "tunnel"} \X Services

ASSUME QueueAssumption == None \notin Keys /\ MaxPending \in Nat \ {0}

Queue == INSTANCE WorkQueue WITH NoKey <- None

CacheTypeOK ==
    /\ serviceCache \in [Services -> ServiceView \cup {None}]
    /\ tunnelCache \in [Services -> TunnelRecord \cup {None}]
    /\ deletions \in Seq([name: Services, object: TunnelRecord])

CacheInit ==
    /\ Queue!Init
    /\ serviceCache = [s \in Services |-> None]
    /\ tunnelCache = [s \in Services |-> None]
    /\ deletions = <<>>

enqueueService(s) == Queue!AddRateLimited(ServiceKey(s))
enqueueTunnel(s) == Queue!AddRateLimited(TunnelKey(s))

------------------------------------------------------------------------------
(* The tunnel informer: AddFunc and UpdateFunc enqueue every event, DeleteFunc
   is called later with the object the DELETED event carries. *)

DeliverTunnel(s) ==
    /\ tunnelStream[s] # <<>>
    /\ LET e == Head(tunnelStream[s])
       IN  IF e.type = "set"
           THEN /\ tunnelCache' = [tunnelCache EXCEPT ![s] = e.object]
                /\ enqueueTunnel(s)
                /\ UNCHANGED deletions
           ELSE /\ tunnelCache' = [tunnelCache EXCEPT ![s] = None]
                /\ deletions' = Append(deletions, [name |-> s, object |-> e.object])
                /\ UNCHANGED queueVars
    /\ tunnelStream' = [tunnelStream EXCEPT ![s] = Tail(@)]
    /\ UNCHANGED <<objectVars, host, serviceStream, uids, budgetVars, procVars,
                   serviceCache>>

(* The informer factory's resync, every 30 seconds, calls UpdateFunc for each
   cached tunnel.  (Service and deployment handlers drop resyncs.) *)
Resync(s) ==
    /\ tunnelCache[s] # None
    /\ enqueueTunnel(s)
    /\ UNCHANGED <<clusterVars, procVars, cacheVars>>

(* handleObject: an event of a deployment that a tunnel of this name owns or
   owned, its deletion included, enqueues the tunnel that the cache has now.
   The deployment informer may be late, so the event is not tied to the
   deployment's present state. *)
handleObject(s) ==
    /\ tunnelCache[s] # None
    /\ enqueueTunnel(s)
    /\ UNCHANGED <<clusterVars, procVars, cacheVars>>

(* The service informer.  AddFunc and UpdateFunc enqueue what is now of type
   LoadBalancer (checkServiceType) if its spec or annotations are new, as they
   are in every event of the stream, see PutService.  There is no DeleteFunc. *)
DeliverService(s) ==
    /\ serviceStream[s] # <<>>
    /\ LET e == Head(serviceStream[s])
       IN  IF e.type = "set"
           THEN /\ serviceCache' = [serviceCache EXCEPT ![s] = e.object]
                /\ IF e.object.lb
                   THEN enqueueService(s)
                   ELSE UNCHANGED queueVars
           ELSE /\ serviceCache' = [serviceCache EXCEPT ![s] = None]
                /\ UNCHANGED queueVars
    /\ serviceStream' = [serviceStream EXCEPT ![s] = Tail(@)]
    /\ UNCHANGED <<objectVars, host, tunnelStream, uids, budgetVars, procVars,
                   tunnelCache, deletions>>

(* A watch ends with its history expired and the reflector lists again.  A
   tunnel that is missing from the list is passed to DeleteFunc as a
   DeletedFinalStateUnknown, which checkCustomResourceType rejects; one that
   was deleted and created again is passed to UpdateFunc. *)
RelistTunnels ==
    /\ Fault("relist")
    /\ \E s \in Services : tunnelStream[s] # <<>>
    /\ tunnelCache' = tunnel
    /\ tunnelStream' = [s \in Services |-> <<>>]
    /\ Queue!AddAll({TunnelKey(s) : s \in {x \in Services : tunnel[x] # None}})
    /\ UNCHANGED <<objectVars, host, serviceStream, uids, edits, procVars,
                   serviceCache, deletions>>

(* The same for services: deletion and creation in between look like an update
   with the old object, and are passed on only if they differ. *)
SameSpecAndAnnotations(old, new) ==
    /\ old.lb = new.lb /\ old.ports = new.ports /\ old.ips = new.ips
    /\ old.manage = new.manage

RelistServices ==
    /\ Fault("relist")
    /\ \E s \in Services : serviceStream[s] # <<>>
    /\ serviceCache' = [s \in Services |->
          IF service[s] = None THEN None ELSE View(service[s])]
    /\ serviceStream' = [s \in Services |-> <<>>]
    /\ Queue!AddAll({ServiceKey(s) : s \in {x \in Services :
              /\ service[x] # None /\ service[x].lb
              /\ \/ serviceCache[x] = None
                 \/ ~SameSpecAndAnnotations(serviceCache[x], service[x])}})
    /\ UNCHANGED <<objectVars, host, tunnelStream, uids, edits, procVars,
                   tunnelCache, deletions>>

------------------------------------------------------------------------------
(* DeleteFunc of the tunnel informer, run by the listener. *)

(* Mutant of DeleteFunc: only hosts that have an address are deleted. *)
DeleteFuncActiveOnly ==
    /\ pc[Listener] = "idle" /\ deletions # <<>>
    /\ deletions' = Tail(deletions)
    /\ LET r == Head(deletions).object
           l == [Nothing EXCEPT !.name = Head(deletions).name, !.target = HostIP(r)]
       IN  IF HostIP(r) = None
           THEN UNCHANGED <<host, procVars, faults>>
           ELSE /\ host' = [host EXCEPT ![r.hostID] = "gone"]
                /\ Goto(Listener, AfterHostChange(r), l)
                /\ UNCHANGED faults
    /\ UNCHANGED <<objectVars, streamVars, uids, edits, queueVars, serviceCache,
                   tunnelCache>>

(* The host's deletion is requested by ID; when the request fails, DeleteFunc
   returns and nothing tries again. *)
DeleteFunc ==
    /\ pc[Listener] = "idle" /\ deletions # <<>>
    /\ deletions' = Tail(deletions)
    /\ LET r == Head(deletions).object
           l == [Nothing EXCEPT !.name = Head(deletions).name, !.target = HostIP(r)]
           gone == [host EXCEPT ![r.hostID] = "gone"]
       IN  \/ /\ r.hostID = None
              /\ UNCHANGED <<host, procVars, faults>>
           \/ /\ r.hostID # None
              /\ host' = gone
              /\ Goto(Listener, AfterHostChange(r), l)
              /\ UNCHANGED faults
           \/ /\ r.hostID # None
              /\ \/ Fault("cloud") /\ UNCHANGED host
                 \/ Fault("lostReply") /\ host' = gone
              /\ UNCHANGED procVars
    /\ UNCHANGED <<objectVars, streamVars, uids, edits, queueVars, serviceCache,
                   tunnelCache>>

ListenerStep ==
    \/ DeleteFunc
    \/ updateService(Listener) /\ UNCHANGED <<queueVars, cacheVars>>

Informers ==
    \/ \E s \in Services : DeliverTunnel(s) \/ DeliverService(s) \/ Resync(s)
                           \/ handleObject(s)
    \/ RelistTunnels \/ RelistServices
==============================================================================
