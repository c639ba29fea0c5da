------------------------------- MODULE Operator -------------------------------
(****************************************************************************)
(* The operator in its cluster: workers, listener, informers, users, garbage *)
(* collector, cloud, faults and restarts, and what must be true of them       *)
(* together.                                                                 *)
(****************************************************************************)
EXTENDS Reconciler

vars == <<clusterVars, procVars, queueVars, cacheVars>>
operatorVars == <<procVars, queueVars, cacheVars>>

TypeOK ==
    /\ ClusterTypeOK
    /\ ProcTypeOK
    /\ Queue!QueueTypeOK
    /\ CacheTypeOK

Init == ClusterInit /\ ProcInit /\ CacheInit

------------------------------------------------------------------------------

(* The stop signal: Controller.Run returns and its deferred ShutDown closes the
   work queue.  Goroutines run on until the process exits, see Restart. *)
Stop ==
    /\ Fault("stop")
    /\ Queue!ShutDown
    /\ UNCHANGED <<objectVars, host, streamVars, uids, edits, procVars, cacheVars>>

(* The process dies, or exits after Stop, and is started again: queue, caches
   and goroutines are lost, deletions nobody was told of are never heard of.
   Controller.Run waits for the tunnels to be listed, not for the services. *)
Restart ==
    /\ Fault("crash") \/ (~open /\ UNCHANGED faults)
    /\ pc' = [p \in Goroutines |-> "idle"]
    /\ at' = [p \in Goroutines |-> Nothing]
    /\ pending' = [k \in Keys |->
          IF k = TunnelKey(k[2]) /\ tunnel[k[2]] # None THEN 1 ELSE 0]
    /\ open' = TRUE
    /\ claim' = [w \in Workers |-> None]
    /\ tunnelCache' = tunnel
    /\ tunnelStream' = [s \in Services |-> <<>>]
    /\ serviceCache' = [s \in Services |-> None]
    /\ serviceStream' = [s \in Services |->
          IF service[s] = None THEN <<>>
          ELSE <<[type |-> "set", object |-> View(service[s])]>>]
    /\ deletions' = <<>>
    /\ UNCHANGED <<objectVars, host, uids, edits>>

Merge(k) == Queue!Merge(k) /\ UNCHANGED <<clusterVars, procVars, cacheVars>>

Next ==
    \/ \E w \in Workers : Worker(w)
    \/ ListenerStep
    \/ Informers
    \/ \E k \in Keys : Merge(k)
    \/ Environment /\ UNCHANGED operatorVars
    \/ Stop \/ Restart

(* Goroutines run, watches deliver, back-offs end, resyncs come every 30 s; a
   queued key is not overtaken for ever (RateLimitedQueue).  Of the cluster and
   the cloud: ordered hosts boot, and garbage is collected.  Users, faults and
   restarts owe nothing. *)
Fairness ==
    /\ \A w \in Workers :
          WF_vars(syncHandler(w) \/ Requeue(w) \/ Finish(w))
    /\ \A k \in Keys : SF_vars(\E w \in Workers : Take(w, k))
    /\ WF_vars(ListenerStep)
    /\ \A s \in Services :
          /\ WF_vars(DeliverTunnel(s)) /\ WF_vars(DeliverService(s))
          /\ WF_vars(Resync(s))
          /\ WF_vars(CollectTunnel(s) /\ UNCHANGED operatorVars)
          /\ WF_vars(CollectSecret(s) /\ UNCHANGED operatorVars)
          /\ WF_vars(CollectDeployment(s) /\ UNCHANGED operatorVars)
    /\ \A h \in Hosts : WF_vars(Boot(h) /\ UNCHANGED operatorVars)

Spec == Init /\ [][Next]_vars
FairSpec == Spec /\ Fairness

------------------------------------------------------------------------------
(* Safety. *)

(* A tunnel that exists never refers to a host that was deleted: DeleteFunc,
   late as it may run, only deletes hosts of tunnels that are gone, although
   tunnels are created again under the same name (controller.go:133-169). *)
NoTunnelOnDeletedHost ==
    \A s \in Services :
        tunnel[s] # None /\ tunnel[s].hostID # None
            => host[tunnel[s].hostID] \in {"booting", "active"}

(* updateService appends the address unconditionally (controller.go:1088), yet
   no sync, retry, lost reply or restart publishes a host's address twice. *)
AddressesPublishedOnce ==
    \A s \in Services : service[s] # None =>
        \A h \in Hosts : service[s].ips[h] <= 1

(* A tunnel that a user created leaves the service's addresses alone
   (ownsService, controller.go:1121-1126). *)
UserTunnelSetsNoAddress ==
    \A s \in Services :
        (service[s] # None /\ tunnel[s] # None /\ tunnel[s].owner = 0
            /\ tunnel[s].hostID # None)
        => service[s].ips[tunnel[s].hostID] = 0

(* A read-modify-write of externalIPs by a worker or the listener never drops
   an address that the user put there meanwhile (controller.go:1071-1093). *)
UserAddressKept ==
    [][\A s \in Services :
          service[s] # None /\ service'[s] # None /\ service[s].uid = service'[s].uid
          => service[s].ips[UserIP] <= service'[s].ips[UserIP]]_vars

(* A client Deployment is never handed to another tunnel nor pointed at another
   host, although it is replaced from a cached tunnel, without a resource version
   and under a name that tunnels created again share: a tunnel that finds its
   predecessor's waits for the garbage collector, and no sync of the predecessor
   comes late enough to take the successor's (controller.go:648-742). *)
ClientNeverChangesHands ==
    [][\A s \in Services :
          deployment[s] # None /\ deployment'[s] # None
          => /\ deployment'[s].owner = deployment[s].owner
             /\ deployment'[s].hostIP = deployment[s].hostIP]_vars

Stage(t) == CASE t.hostStatus = ""             -> 0
              [] t.hostStatus = "provisioning" -> 1
              [] t.hostStatus = "active"       -> 2

(* Status writes made from stale copies take nothing back: the stage only
   advances, a recorded host is never forgotten or exchanged, and what another
   sync recorded (Generated, AuthTokenRef, the client's name) stays. *)
StatusNeverRegresses ==
    [][\A s \in Services :
          tunnel[s] # None /\ tunnel'[s] # None /\ tunnel[s].uid = tunnel'[s].uid
          => /\ Stage(tunnel[s]) <= Stage(tunnel'[s])
             /\ tunnel[s].hostID \in {None, tunnel'[s].hostID}
             /\ tunnel[s].generated => tunnel'[s].generated
             /\ tunnel[s].auth \in {"none", tunnel'[s].auth}
             /\ tunnel[s].clientRef = "named" => tunnel'[s].clientRef = "named"]_vars

Recorded(h) == \E s \in Services : tunnel[s] # None /\ tunnel[s].hostID = h

(* The deletion of a tunnel with host h is on its way to DeleteFunc. *)
Deleting(h) ==
    \/ \E s \in Services : \E i \in DOMAIN tunnelStream[s] :
          /\ tunnelStream[s][i].type = "deleted"
          /\ tunnelStream[s][i].object.hostID = h
    \/ \E i \in DOMAIN deletions : deletions[i].object.hostID = h

Tracked(h) == Recorded(h) \/ Deleting(h)

(* The operator loses track of a recorded host only when it deletes the host,
   when a request or a watch fails, and when the process goes.  Its tunnel may be
   deleted before the host is active, the deletion wait behind others, or the name
   be in use again by then (controller.go:133-169). *)
RecordedHostTracked ==
    [][\A h \in Hosts : Tracked(h) =>
          \/ Tracked(h)' \/ host'[h] = "gone"
          \/ faults' # faults \/ (~open /\ open')]_vars

(* No step takes a tunnel or a host through anything but the life that
   TunnelLifecycle describes: one host for a tunnel, recorded once, never shared,
   never handed on to a tunnel created again under the name, deleted only when no
   tunnel has it; stale copies of tunnels and late deletions included
   (controller.go:133-169, 381-447, 920-946). *)
Life == INSTANCE TunnelLifecycle WITH
    stage <- [s \in Services |->
        CASE tunnel[s] = None                       -> "absent"
          [] tunnel[s] # None /\ tunnel[s].hostStatus = "" -> "requested"
          [] OTHER                                  -> tunnel[s].hostStatus],
    hostOf <- [s \in Services |->
        IF tunnel[s] = None THEN None ELSE tunnel[s].hostID],
    cloud <- host

ImplementsLifecycle == Life!Spec

------------------------------------------------------------------------------
(* Liveness. *)

Wanted(s) == service[s] # None /\ service[s].lb /\ manageService(service[s])

Published(s) ==
    /\ service[s] # None /\ tunnel[s] # None
    /\ HostIP(tunnel[s]) # None
    /\ service[s].ips[HostIP(tunnel[s])] = 1
    /\ service[s].ingress[HostIP(tunnel[s])] = 1

Connected(s) ==
    /\ tunnel[s] # None /\ service[s] # None /\ deployment[s] # None
    /\ deployment[s].owner = tunnel[s].uid
    /\ deployment[s].ports = service[s].ports

(* "any Service of type LoadBalancer will get an IP address, unless you exclude
   it with an annotation" (README.md): its host's, once as external IP and in
   the ingress. *)
EventuallyPublished ==
    \A s \in Services : <>[]Wanted(s) => <>[]Published(s)

(* The copy of the service that a worker is about to publish an address in is
   not the service's present version. *)
Outdated(s) ==
    \E w \in Workers : /\ pc[w] \in {"updateService", "updateIngress"}
                      /\ at[w].name = s /\ ~Current(service[s], at[w].svc)

(* Nothing but a conflicting edit between the requests of updateService keeps a
   wanted service from its address (controller.go:935-940, 1064-1119). *)
PublishedUnlessOutdated ==
    \A s \in Services : <>[]Wanted(s) => (<>[]Published(s) \/ <>Outdated(s))

(* A wanted service gets a client that forwards the service's ports, also when
   the ports or the license are edited meanwhile. *)
EventuallyConnected ==
    \A s \in Services : <>[]Wanted(s) => <>[]Connected(s)

(* "Deleting the service or annotating it will cause the cloud VM to be
   deleted" (README.md), for a host whose ID the tunnel has recorded. *)
RecordedHostReleased ==
    \A h \in Hosts : Recorded(h) ~> (host[h] = "gone" \/ []Recorded(h))

(* A service that is annotated as unmanaged loses its tunnel. *)
UnmanagedLosesTunnel ==
    \A s \in Services :
        <>[](service[s] # None /\ service[s].lb /\ ~manageService(service[s]))
            => <>[](tunnel[s] = None)

------------------------------------------------------------------------------
(* What the documentation says of the operator and its runs refute. *)

(* "Deleting the service or annotating it will cause the cloud VM to be deleted"
   (README.md): once the services are gone for good, so are all hosts. *)
HostsReleased ==
    <>[](\A s \in Services : service[s] = None)
        => <>[](\A h \in Hosts : host[h] \in {"free", "gone"})

(* "any Service of type LoadBalancer will get an IP address" (README.md): a
   wanted service gets a tunnel, although another service of its name had one
   before. *)
EventuallyTunnelled ==
    \A s \in Services : <>[]Wanted(s) => <>[](tunnel[s] # None)
==============================================================================
