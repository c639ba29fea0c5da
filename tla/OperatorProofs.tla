---------------------------- MODULE OperatorProofs ----------------------------
(****************************************************************************)
(* Proofs about Operator, for any number of services, workers, hosts, edits  *)
(* and faults.                                                               *)
(****************************************************************************)
EXTENDS Operator, TLAPS

(* The copies a goroutine holds when it is about to make a request: TypeOK is
   not inductive without them, as each request works on these copies. *)
WithTunnel ==
    {"setGenerated", "getSecret", "createSecret", "setAuthRef", "hostConfig",
     "provision", "setProvisioning", "hostStatus", "setActive", "getLicense",
     "createLicense", "updateLicense", "readClient", "updateClient",
     "createClient", "setClientRef"}
WithCachedService == {"getTunnel", "createTunnel"}
WithService == {"updateService", "updateIngress", "updateClient", "createClient"}
Resting == {"idle", "succeeded", "failed", "done"}

Holds(label, l) ==
    /\ label \notin Resting => l.name \in Services
    /\ label \in WithTunnel => l.tun \in TunnelRecord
    /\ label \in WithCachedService => l.svc \in ServiceView
    /\ label \in WithService => l.svc \in ServiceRecord

CopiesOK == \A p \in Goroutines : Holds(pc[p], at[p])

ProcsOK == ProcTypeOK /\ CopiesOK

(* The inductive invariant behind TypeOK. *)
TypeInv ==
    ClusterTypeOK /\ ProcsOK /\ Queue!QueueTypeOK /\ CacheTypeOK

LEMMA NothingType == Nothing \in Local
BY DEF Nothing, Local

LEMMA GotoType ==
    ASSUME ProcTypeOK, CopiesOK,
           NEW p \in Goroutines, NEW label \in Labels, NEW l \in Local,
           label \notin {"succeeded", "failed"} => Holds(label, l),
           Goto(p, label, l)
    PROVE  ProcTypeOK' /\ CopiesOK'
<1>1. ProcTypeOK'
  BY NothingType DEF Goto, ProcTypeOK, Labels
<1>2. CopiesOK'
  <2> SUFFICES ASSUME NEW q \in Goroutines PROVE Holds(pc[q], at[q])'
    BY DEF CopiesOK
  <2>1. CASE q # p
    BY <2>1 DEF Goto, CopiesOK, ProcTypeOK, Holds
  <2>2. CASE q = p /\ label \in {"succeeded", "failed"}
    BY <2>2 DEF Goto, ProcTypeOK, Holds, Resting, WithTunnel, WithCachedService, WithService
  <2>3. CASE q = p /\ label \notin {"succeeded", "failed"}
    BY <2>3 DEF Goto, ProcTypeOK, Holds
  <2> QED BY <2>1, <2>2, <2>3
<1> QED BY <1>1, <1>2

------------------------------------------------------------------------------
(* Types of the operators that make objects and events. *)

LEMMA EmitType ==
    ASSUME NEW R, NEW stream \in [Services -> Seq(Event(R))],
           NEW s \in Services, NEW type \in {"set", "deleted"}, NEW object \in R
    PROVE  Emit(stream, s, type, object) \in [Services -> Seq(Event(R))]
<1>1. [type |-> type, object |-> object] \in Event(R)
  BY DEF Event
<1>2. Append(stream[s], [type |-> type, object |-> object]) \in Seq(Event(R))
  BY <1>1
<1> QED BY <1>2 DEF Emit

LEMMA HeadTail ==
    ASSUME NEW S, NEW q \in Seq(S), q # <<>>
    PROVE  Head(q) \in S /\ Tail(q) \in Seq(S)
OBVIOUS

LEMMA EmptyStreams ==
    \A R : [s \in Services |-> <<>>] \in [Services -> Seq(Event(R))]
OBVIOUS

LEMMA ViewType ==
    ASSUME NEW svc \in ServiceRecord
    PROVE  View(svc) \in ServiceView
BY DEF View, ServiceRecord, ServiceView

LEMMA BumpedType ==
    /\ \A svc \in ServiceRecord : Bumped(svc) \in ServiceRecord
    /\ \A t \in TunnelRecord : Bumped(t) \in TunnelRecord
<1>1. ASSUME NEW svc \in ServiceRecord PROVE Bumped(svc) \in ServiceRecord
  <2>1. svc.rv \in Nat
    BY DEF ServiceRecord
  <2>2. \A n \in Nat : [svc EXCEPT !.rv = n] \in ServiceRecord
    BY DEF ServiceRecord
  <2> QED BY <2>1, <2>2 DEF Bumped
<1>2. ASSUME NEW t \in TunnelRecord PROVE Bumped(t) \in TunnelRecord
  <2>1. t.rv \in Nat
    BY DEF TunnelRecord
  <2>2. \A n \in Nat : [t EXCEPT !.rv = n] \in TunnelRecord
    BY DEF TunnelRecord
  <2> QED BY <2>1, <2>2 DEF Bumped
<1> QED BY <1>1, <1>2

LEMMA HostIPType ==
    ASSUME NEW t \in TunnelRecord
    PROVE  HostIP(t) \in Hosts \cup {None}
BY DEF HostIP, TunnelRecord

(* The next versions of a service that the actions write. *)
LEMMA ServiceEdits ==
    ASSUME NEW svc \in ServiceRecord
    PROVE  /\ \A m \in {"absent", "yes", "no"} : [svc EXCEPT !.manage = m] \in ServiceRecord
           /\ \A lb \in BOOLEAN : [svc EXCEPT !.lb = lb] \in ServiceRecord
           /\ \A q \in Ports : [svc EXCEPT !.ports = q] \in ServiceRecord
           /\ [svc EXCEPT !.ips[UserIP] = 1] \in ServiceRecord
           /\ [svc EXCEPT !.ingress = svc.ips] \in ServiceRecord
           /\ \A h : WithAddress(svc, h) \in ServiceRecord
           /\ \A h : WithoutAddress(svc, h) \in ServiceRecord
<1>1. /\ svc.ips \in [Addresses -> Nat]
      /\ \A f \in [Addresses -> Nat] : [svc EXCEPT !.ips = f] \in ServiceRecord
  BY DEF ServiceRecord
<1>2. ASSUME NEW h PROVE WithAddress(svc, h) \in ServiceRecord
  <2>1. [svc.ips EXCEPT ![h] = svc.ips[h] + 1] \in [Addresses -> Nat]
    <3>1. CASE h \in Addresses
      <4>1. svc.ips[h] + 1 \in Nat
        BY <1>1, <3>1
      <4> QED BY <1>1, <4>1
    <3>2. CASE h \notin Addresses
      BY <1>1, <3>2
    <3> QED BY <3>1, <3>2
  <2> QED BY <1>1, <2>1 DEF WithAddress
<1>3. ASSUME NEW h PROVE WithoutAddress(svc, h) \in ServiceRecord
  <2>1. [a \in Addresses |-> IF a = h THEN 0 ELSE svc.ips[a]] \in [Addresses -> Nat]
    BY <1>1
  <2> QED BY <1>1, <2>1 DEF WithoutAddress
<1>4. [svc EXCEPT !.ips[UserIP] = 1] \in ServiceRecord
  <2>1. [svc.ips EXCEPT ![UserIP] = 1] \in [Addresses -> Nat]
    BY <1>1
  <2> QED BY <1>1, <2>1
<1> QED BY <1>1, <1>2, <1>3, <1>4 DEF ServiceRecord

(* The next versions of a tunnel that the workers write. *)
LEMMA TunnelEdits ==
    ASSUME NEW t \in TunnelRecord
    PROVE  /\ [t EXCEPT !.generated = TRUE] \in TunnelRecord
           /\ [t EXCEPT !.auth = "status"] \in TunnelRecord
           /\ \A h \in Hosts \cup {None} :
                 [t EXCEPT !.hostStatus = "provisioning", !.hostID = h] \in TunnelRecord
           /\ [t EXCEPT !.hostStatus = "active"] \in TunnelRecord
           /\ \A ref \in {"named", "unnamed"} :
                 [t EXCEPT !.clientRef = ref] \in TunnelRecord
BY DEF TunnelRecord

LEMMA NewServiceType ==
    ASSUME ClusterTypeOK, NEW lb \in Types, NEW m \in Annotations, NEW p \in Ports
    PROVE  NewService(lb, m, p) \in ServiceRecord
<1>1. NoAddress \in [Addresses -> Nat]
  BY DEF NoAddress
<1> QED BY <1>1, ClusterAssumption DEF NewService, ServiceRecord, ClusterTypeOK

LEMMA NewTunnelType ==
    ASSUME ClusterTypeOK, NEW owner \in Nat, NEW serviceRef \in BOOLEAN,
           NEW auth \in {"none", "spec"}
    PROVE  NewTunnel(owner, serviceRef, auth) \in TunnelRecord
<1>1. uids.service + 1 \in Nat /\ uids.tunnel + 1 \in Nat
  BY DEF ClusterTypeOK
<1> QED BY <1>1 DEF NewTunnel, TunnelRecord

LEMMA UidsType ==
    ASSUME ClusterTypeOK
    PROVE  /\ [uids EXCEPT !.service = uids.service + 1] \in [service: Nat, tunnel: Nat]
           /\ [uids EXCEPT !.tunnel = uids.tunnel + 1] \in [service: Nat, tunnel: Nat]
<1>1. uids \in [service: Nat, tunnel: Nat]
  BY DEF ClusterTypeOK
<1>2. uids.service + 1 \in Nat /\ uids.tunnel + 1 \in Nat
  BY <1>1
<1>3. \A n \in Nat : /\ [uids EXCEPT !.service = n] \in [service: Nat, tunnel: Nat]
                     /\ [uids EXCEPT !.tunnel = n] \in [service: Nat, tunnel: Nat]
  BY <1>1
<1> QED BY <1>2, <1>3

LEMMA PutServiceType ==
    ASSUME ClusterTypeOK, NEW s \in Services, service[s] # None,
           NEW svc \in ServiceRecord, PutService(s, svc)
    PROVE  /\ service' \in [Services -> ServiceRecord \cup {None}]
           /\ service'[s] \in ServiceRecord
           /\ serviceStream' \in [Services -> Seq(Event(ServiceView))]
<1>1. service[s] \in ServiceRecord
  BY DEF ClusterTypeOK
<1>2. Bumped(svc) \in ServiceRecord /\ View(svc) \in ServiceView
  BY BumpedType, ViewType
<1>3. service' = [service EXCEPT ![s] = IF svc = service[s] THEN service[s] ELSE Bumped(svc)]
  BY DEF PutService
<1>4. serviceStream' \in [Services -> Seq(Event(ServiceView))]
  BY <1>2, EmitType DEF PutService, ClusterTypeOK
<1> QED BY <1>1, <1>2, <1>3, <1>4 DEF ClusterTypeOK

LEMMA PutTunnelType ==
    ASSUME ClusterTypeOK, NEW s \in Services, NEW t \in TunnelRecord, PutTunnel(s, t)
    PROVE  /\ tunnel' \in [Services -> TunnelRecord \cup {None}]
           /\ tunnelStream' \in [Services -> Seq(Event(TunnelRecord))]
<1>1. Bumped(t) \in TunnelRecord
  BY BumpedType
<1>2. Emit(tunnelStream, s, "set", Bumped(t)) \in [Services -> Seq(Event(TunnelRecord))]
  BY <1>1, EmitType DEF ClusterTypeOK
<1> QED BY <1>1, <1>2 DEF PutTunnel, ClusterTypeOK

LEMMA AddTunnelType ==
    ASSUME ClusterTypeOK, NEW s \in Services, NEW t \in TunnelRecord, AddTunnel(s, t)
    PROVE  /\ tunnel' \in [Services -> TunnelRecord \cup {None}]
           /\ tunnelStream' \in [Services -> Seq(Event(TunnelRecord))]
           /\ uids' \in [service: Nat, tunnel: Nat]
<1>1. Emit(tunnelStream, s, "set", t) \in [Services -> Seq(Event(TunnelRecord))]
  BY EmitType DEF ClusterTypeOK
<1> QED BY <1>1, UidsType DEF AddTunnel, ClusterTypeOK

LEMMA RemoveTunnelType ==
    ASSUME ClusterTypeOK, NEW s \in Services, tunnel[s] # None, RemoveTunnel(s)
    PROVE  /\ tunnel' \in [Services -> TunnelRecord \cup {None}]
           /\ tunnelStream' \in [Services -> Seq(Event(TunnelRecord))]
<1>1. tunnel[s] \in TunnelRecord
  BY DEF ClusterTypeOK
<1>2. Emit(tunnelStream, s, "deleted", tunnel[s]) \in [Services -> Seq(Event(TunnelRecord))]
  BY <1>1, EmitType DEF ClusterTypeOK
<1> QED BY <1>2 DEF RemoveTunnel, ClusterTypeOK

------------------------------------------------------------------------------
(* Requests: what they leave of the types, whoever makes them. *)

LEMMA LocalEdits ==
    ASSUME NEW l \in Local
    PROVE  /\ \A x \in ServiceRecord \cup ServiceView \cup {None} :
                 LET m == [l EXCEPT !.svc = x]
                 IN  m \in Local /\ m.name = l.name /\ m.tun = l.tun /\ m.svc = x
           /\ \A x \in TunnelRecord \cup {None} :
                 LET m == [l EXCEPT !.tun = x]
                 IN  m \in Local /\ m.name = l.name /\ m.tun = x /\ m.svc = l.svc
           /\ \A x \in Hosts \cup {None} :
                 LET m == [l EXCEPT !.target = x]
                 IN  m \in Local /\ m.name = l.name /\ m.tun = l.tun /\ m.svc = l.svc
           /\ \A x \in Services :
                 LET m == [l EXCEPT !.name = x]
                 IN  m \in Local /\ m.name = x /\ m.tun = l.tun /\ m.svc = l.svc
BY DEF Local

LEMMA FaultType ==
    ASSUME ClusterTypeOK, NEW kind, Fault(kind)
    PROVE  faults' \in Nat
BY DEF Fault, ClusterTypeOK

LEMMA ClusterStutter ==
    ASSUME ClusterTypeOK, UNCHANGED clusterVars
    PROVE  ClusterTypeOK'
BY DEF ClusterTypeOK, clusterVars, objectVars, streamVars, budgetVars

LEMMA ProcsStutter ==
    ASSUME ProcsOK, UNCHANGED procVars
    PROVE  ProcsOK'
BY DEF ProcsOK, ProcTypeOK, CopiesOK, Holds, procVars

LEMMA TransientErrorType ==
    ASSUME ClusterTypeOK, ProcsOK, NEW p \in Goroutines, NEW label \in Labels,
           NEW l \in Local, label \notin {"succeeded", "failed"} => Holds(label, l),
           TransientError(p, label, l)
    PROVE  ClusterTypeOK' /\ ProcsOK'
<1>1. ProcsOK'
  BY GotoType DEF TransientError, ProcsOK
<1>2. faults' \in Nat
  BY FaultType DEF TransientError
<1>3. ClusterTypeOK'
  BY <1>2 DEF TransientError, ClusterTypeOK, objectVars, streamVars
<1> QED BY <1>1, <1>3

LEMMA ReplyType ==
    ASSUME ClusterTypeOK, ProcsOK, NEW p \in Goroutines,
           NEW label \in Labels, NEW error \in Labels, NEW l \in Local,
           label \notin {"succeeded", "failed"} => Holds(label, l),
           error \notin {"succeeded", "failed"} => Holds(error, l),
           Reply(p, label, l, error)
    PROVE  faults' \in Nat /\ ProcsOK'
<1>1. ProcsOK'
  BY GotoType DEF Reply, ProcsOK
<1>2. faults' \in Nat
  BY FaultType DEF Reply, ClusterTypeOK
<1> QED BY <1>1, <1>2

LEMMA UpdateTunnelStatusType ==
    ASSUME ClusterTypeOK, ProcsOK, NEW p \in Goroutines, at[p].name \in Services,
           NEW t \in TunnelRecord, NEW label \in {"succeeded", "getService"},
           NEW error \in {"succeeded", "failed"},
           UpdateTunnelStatus(p, t, label, error)
    PROVE  ClusterTypeOK' /\ ProcsOK'
<1> DEFINE s == at[p].name
<1>1. at[p] \in Local
  BY DEF ProcsOK, ProcTypeOK
<1>2. label \in Labels /\ error \in Labels
  BY DEF Labels
<1>3. CASE PutTunnel(s, t) /\ Reply(p, label, [at[p] EXCEPT !.tun = None], error)
           /\ UNCHANGED <<service, secret, deployment, license, host,
                          serviceStream, uids, edits>>
  <2> DEFINE l == [at[p] EXCEPT !.tun = None]
  <2>1. l \in Local /\ l.name = s
    BY <1>1, LocalEdits
  <2>2. /\ label \notin {"succeeded", "failed"} => Holds(label, l)
        /\ error \notin {"succeeded", "failed"} => Holds(error, l)
    BY <2>1 DEF Holds, WithTunnel, WithCachedService, WithService
  <2>3. faults' \in Nat /\ ProcsOK'
    BY <1>2, <1>3, <2>1, <2>2, ReplyType
  <2>4. ClusterTypeOK'
    BY <1>3, <2>3, PutTunnelType DEF ClusterTypeOK
  <2> QED BY <2>3, <2>4
<1>4. CASE Goto(p, error, at[p]) /\ UNCHANGED clusterVars
  BY <1>1, <1>2, <1>4, GotoType, ClusterStutter DEF ProcsOK
<1>5. CASE TransientError(p, error, at[p])
  BY <1>1, <1>2, <1>5, TransientErrorType
<1> QED BY <1>3, <1>4, <1>5 DEF UpdateTunnelStatus

LEMMA WriteServiceType ==
    ASSUME ClusterTypeOK, ProcsOK, NEW p \in Goroutines, at[p].name \in Services,
           NEW svc \in ServiceRecord, NEW label \in {"updateIngress", "succeeded"},
           WriteService(p, svc, label)
    PROVE  ClusterTypeOK' /\ ProcsOK'
<1> DEFINE s == at[p].name
<1>1. at[p] \in Local
  BY DEF ProcsOK, ProcTypeOK
<1>2. label \in Labels /\ "failed" \in Labels
  BY DEF Labels
<1>3. CASE Current(service[s], svc) /\ PutService(s, svc)
           /\ Reply(p, label, [at[p] EXCEPT !.svc = service'[s]], "failed")
           /\ UNCHANGED <<tunnel, secret, deployment, license, host,
                          tunnelStream, uids, edits>>
  <2> DEFINE l == [at[p] EXCEPT !.svc = service'[s]]
  <2>1. /\ service' \in [Services -> ServiceRecord \cup {None}]
        /\ service'[s] \in ServiceRecord
        /\ serviceStream' \in [Services -> Seq(Event(ServiceView))]
    BY <1>3, PutServiceType DEF Current
  <2>2. l \in Local /\ l.name = s /\ l.svc = service'[s]
    BY <1>1, <2>1, LocalEdits
  <2>3. label \notin {"succeeded", "failed"} => Holds(label, l)
    BY <2>1, <2>2 DEF Holds, WithTunnel, WithCachedService, WithService
  <2>4. faults' \in Nat /\ ProcsOK'
    BY <1>2, <1>3, <2>2, <2>3, ReplyType
  <2>5. ClusterTypeOK'
    BY <1>3, <2>1, <2>4 DEF ClusterTypeOK
  <2> QED BY <2>4, <2>5
<1>4. CASE Goto(p, "failed", at[p]) /\ UNCHANGED clusterVars
  BY <1>1, <1>2, <1>4, GotoType, ClusterStutter DEF ProcsOK
<1>5. CASE TransientError(p, "failed", at[p])
  BY <1>1, <1>2, <1>5, TransientErrorType
<1> QED BY <1>3, <1>4, <1>5 DEF WriteService

------------------------------------------------------------------------------
(* Steps of updateService, of a worker or the listener. *)

LEMMA updateServiceType ==
    ASSUME ClusterTypeOK, ProcsOK, NEW p \in Goroutines, updateService(p)
    PROVE  ClusterTypeOK' /\ ProcsOK'
<1> DEFINE s == at[p].name
<1>1. at[p] \in Local /\ Holds(pc[p], at[p])
  BY DEF ProcsOK, ProcTypeOK, CopiesOK
<1>2. CASE GetService(p)
  <2>1. s \in Services
    BY <1>1, <1>2 DEF GetService, Holds, Resting
  <2>2. CASE service[s] = None /\ Goto(p, "failed", at[p]) /\ UNCHANGED clusterVars
    BY <1>1, <2>2, GotoType, ClusterStutter DEF ProcsOK, Labels
  <2>3. CASE /\ service[s] # None
             /\ Goto(p, "updateService", [at[p] EXCEPT !.svc = service[s]])
             /\ UNCHANGED clusterVars
    <3> DEFINE l == [at[p] EXCEPT !.svc = service[s]]
    <3>1. service[s] \in ServiceRecord
      BY <2>1, <2>3 DEF ClusterTypeOK
    <3>2. l \in Local /\ l.name = s /\ l.svc = service[s]
      BY <1>1, <3>1, LocalEdits
    <3>3. Holds("updateService", l)
      BY <2>1, <3>1, <3>2 DEF Holds, WithTunnel, WithCachedService
    <3> QED BY <2>3, <3>2, <3>3, GotoType, ClusterStutter DEF ProcsOK, Labels
  <2>4. CASE TransientError(p, "failed", at[p])
    BY <1>1, <2>4, TransientErrorType DEF Labels
  <2> QED BY <1>2, <2>2, <2>3, <2>4 DEF GetService
<1>3. CASE UpdateService(p)
  <2>1. s \in Services /\ at[p].svc \in ServiceRecord
    BY <1>1, <1>3 DEF UpdateService, Holds, Resting, WithService
  <2>2. /\ WithoutAddress(at[p].svc, at[p].target) \in ServiceRecord
        /\ WithAddress(at[p].svc, at[p].target) \in ServiceRecord
    BY <2>1, ServiceEdits
  <2> DEFINE svc == IF p = Listener
                    THEN WithoutAddress(at[p].svc, at[p].target)
                    ELSE WithAddress(at[p].svc, at[p].target)
  <2>3. svc \in ServiceRecord /\ WriteService(p, svc, "updateIngress")
    BY <1>3, <2>2 DEF UpdateService
  <2> QED BY <2>1, <2>3, WriteServiceType
<1>4. CASE UpdateIngress(p)
  <2>1. s \in Services /\ at[p].svc \in ServiceRecord
    BY <1>1, <1>4 DEF UpdateIngress, Holds, Resting, WithService
  <2> DEFINE svc == [at[p].svc EXCEPT !.ingress = at[p].svc.ips]
  <2>2. svc \in ServiceRecord /\ WriteService(p, svc, "succeeded")
    BY <1>4, <2>1, ServiceEdits DEF UpdateIngress
  <2> QED BY <2>1, <2>2, WriteServiceType
<1> QED BY <1>2, <1>3, <1>4 DEF updateService

------------------------------------------------------------------------------
(* The work queue, used by every handler and worker. *)

LEMMA QueueStutter ==
    ASSUME Queue!QueueTypeOK, UNCHANGED queueVars
    PROVE  Queue!QueueTypeOK'
BY DEF Queue!QueueTypeOK, queueVars

LEMMA CacheStutter ==
    ASSUME CacheTypeOK, UNCHANGED cacheVars
    PROVE  CacheTypeOK'
BY DEF CacheTypeOK, cacheVars

LEMMA AddAllType ==
    ASSUME Queue!QueueTypeOK, NEW keys, Queue!AddAll(keys)
    PROVE  Queue!QueueTypeOK'
<1>1. ASSUME NEW k \in Keys
      PROVE  (IF open /\ k \in keys /\ pending[k] < MaxPending
              THEN pending[k] + 1 ELSE pending[k]) \in 0..MaxPending
  BY QueueAssumption DEF Queue!QueueTypeOK
<1> QED BY <1>1 DEF Queue!QueueTypeOK, Queue!AddAll

LEMMA GetType ==
    ASSUME Queue!QueueTypeOK, NEW k \in Keys, NEW w \in Workers, Queue!Get(w, k)
    PROVE  Queue!QueueTypeOK'
<1>1. pending[k] - 1 \in 0..MaxPending
  BY QueueAssumption DEF Queue!QueueTypeOK, Queue!Get
<1> QED BY <1>1 DEF Queue!QueueTypeOK, Queue!Get

------------------------------------------------------------------------------
(* Informers and event handlers. *)

LEMMA EnqueueType ==
    ASSUME Queue!QueueTypeOK, NEW s \in Services,
           enqueueService(s) \/ enqueueTunnel(s) \/ UNCHANGED queueVars
    PROVE  Queue!QueueTypeOK'
BY AddAllType, QueueStutter DEF enqueueService, enqueueTunnel, Queue!AddRateLimited

LEMMA DeliverTunnelType ==
    ASSUME TypeInv, NEW s \in Services, DeliverTunnel(s)
    PROVE  TypeInv'
<1> DEFINE e == Head(tunnelStream[s])
<1>1. /\ tunnelStream[s] \in Seq(Event(TunnelRecord)) /\ tunnelStream[s] # <<>>
      /\ tunnelStream' = [tunnelStream EXCEPT ![s] = Tail(@)]
  BY DEF DeliverTunnel, TypeInv, ClusterTypeOK
<1>2. e \in Event(TunnelRecord) /\ Tail(tunnelStream[s]) \in Seq(Event(TunnelRecord))
  BY <1>1
<1>3. e.object \in TunnelRecord
  BY <1>2 DEF Event
<1>4. ClusterTypeOK'
  <2>1. tunnelStream' \in [Services -> Seq(Event(TunnelRecord))]
    BY <1>1, <1>2 DEF TypeInv, ClusterTypeOK
  <2> QED BY <2>1 DEF DeliverTunnel, TypeInv, ClusterTypeOK, objectVars, budgetVars
<1>5. ProcsOK'
  BY ProcsStutter DEF DeliverTunnel, TypeInv
<1>6. Queue!QueueTypeOK'
  BY EnqueueType DEF DeliverTunnel, TypeInv
<1>7. CacheTypeOK'
  <2>1. CASE tunnelCache' = [tunnelCache EXCEPT ![s] = e.object] /\ UNCHANGED deletions
    BY <1>3, <2>1 DEF DeliverTunnel, TypeInv, CacheTypeOK
  <2>2. CASE /\ tunnelCache' = [tunnelCache EXCEPT ![s] = None]
             /\ deletions' = Append(deletions, [name |-> s, object |-> e.object])
    <3>1. [name |-> s, object |-> e.object] \in [name: Services, object: TunnelRecord]
      BY <1>3
    <3>2. deletions' \in Seq([name: Services, object: TunnelRecord])
      BY <2>2, <3>1 DEF TypeInv, CacheTypeOK
    <3> QED BY <2>2, <3>2 DEF DeliverTunnel, TypeInv, CacheTypeOK
  <2> QED BY <2>1, <2>2 DEF DeliverTunnel
<1> QED BY <1>4, <1>5, <1>6, <1>7 DEF TypeInv

LEMMA DeliverServiceType ==
    ASSUME TypeInv, NEW s \in Services, DeliverService(s)
    PROVE  TypeInv'
<1> DEFINE e == Head(serviceStream[s])
<1>1. /\ serviceStream[s] \in Seq(Event(ServiceView)) /\ serviceStream[s] # <<>>
      /\ serviceStream' = [serviceStream EXCEPT ![s] = Tail(@)]
  BY DEF DeliverService, TypeInv, ClusterTypeOK
<1>2. e \in Event(ServiceView) /\ Tail(serviceStream[s]) \in Seq(Event(ServiceView))
  BY <1>1
<1>3. e.object \in ServiceView
  BY <1>2 DEF Event
<1>4. ClusterTypeOK'
  <2>1. serviceStream' \in [Services -> Seq(Event(ServiceView))]
    BY <1>1, <1>2 DEF TypeInv, ClusterTypeOK
  <2> QED BY <2>1 DEF DeliverService, TypeInv, ClusterTypeOK, objectVars, budgetVars
<1>5. ProcsOK'
  BY ProcsStutter DEF DeliverService, TypeInv
<1>6. Queue!QueueTypeOK'
  BY EnqueueType DEF DeliverService, TypeInv
<1>7. CacheTypeOK'
  BY <1>3 DEF DeliverService, TypeInv, CacheTypeOK
<1> QED BY <1>4, <1>5, <1>6, <1>7 DEF TypeInv

LEMMA RelistType ==
    ASSUME TypeInv, RelistTunnels \/ RelistServices
    PROVE  TypeInv'
<1>1. faults' \in Nat
  BY FaultType DEF RelistTunnels, RelistServices, TypeInv
<1>2. \A s \in Services : service[s] # None => View(service[s]) \in ServiceView
  BY ViewType DEF TypeInv, ClusterTypeOK
<1>3. ProcsOK'
  BY ProcsStutter DEF RelistTunnels, RelistServices, TypeInv
<1>4. Queue!QueueTypeOK'
  BY AddAllType DEF RelistTunnels, RelistServices, TypeInv
<1>5. ClusterTypeOK'
  <2>1. /\ serviceStream' \in [Services -> Seq(Event(ServiceView))]
        /\ tunnelStream' \in [Services -> Seq(Event(TunnelRecord))]
    <3>1. /\ serviceStream \in [Services -> Seq(Event(ServiceView))]
          /\ tunnelStream \in [Services -> Seq(Event(TunnelRecord))]
      BY DEF TypeInv, ClusterTypeOK
    <3> QED BY <3>1, EmptyStreams DEF RelistTunnels, RelistServices
  <2>2. UNCHANGED <<objectVars, host, uids, edits>>
    BY DEF RelistTunnels, RelistServices
  <2> QED BY <1>1, <2>1, <2>2 DEF TypeInv, ClusterTypeOK, objectVars
<1>6. CacheTypeOK'
  <2>1. CASE RelistTunnels
    BY <2>1 DEF RelistTunnels, TypeInv, CacheTypeOK, ClusterTypeOK
  <2>2. CASE RelistServices
    BY <1>2, <2>2 DEF RelistServices, TypeInv, CacheTypeOK
  <2> QED BY <2>1, <2>2
<1> QED BY <1>3, <1>4, <1>5, <1>6 DEF TypeInv

LEMMA InformersType ==
    ASSUME TypeInv, Informers
    PROVE  TypeInv'
<1>1. ASSUME NEW s \in Services, Resync(s) \/ handleObject(s) PROVE TypeInv'
  <2>1. Queue!QueueTypeOK'
    BY <1>1, EnqueueType DEF Resync, handleObject, TypeInv
  <2> QED
    BY <1>1, <2>1, ClusterStutter, ProcsStutter, CacheStutter
       DEF Resync, handleObject, TypeInv
<1> QED BY <1>1, DeliverTunnelType, DeliverServiceType, RelistType DEF Informers

LEMMA DeleteFuncType ==
    ASSUME TypeInv, DeleteFunc
    PROVE  TypeInv'
<1> DEFINE d == Head(deletions)
           r == d.object
           l == [Nothing EXCEPT !.name = d.name, !.target = HostIP(r)]
<1>1. /\ deletions \in Seq([name: Services, object: TunnelRecord]) /\ deletions # <<>>
      /\ deletions' = Tail(deletions)
  BY DEF DeleteFunc, TypeInv, CacheTypeOK
<1>2. d.name \in Services /\ r \in TunnelRecord
  <2>1. d \in [name: Services, object: TunnelRecord]
    BY <1>1, HeadTail
  <2> QED BY <2>1
<1>3. CacheTypeOK'
  BY <1>1 DEF DeleteFunc, TypeInv, CacheTypeOK
<1>4. Queue!QueueTypeOK'
  BY QueueStutter DEF DeleteFunc, TypeInv
<1>5. faults' \in Nat
  BY FaultType DEF DeleteFunc, TypeInv, ClusterTypeOK
<1>6. ClusterTypeOK'
  BY <1>5 DEF DeleteFunc, TypeInv, ClusterTypeOK, objectVars, streamVars
<1>7. ProcsOK'
  <2>1. l \in Local /\ l.name = d.name
    BY <1>2, HostIPType DEF Local, Nothing
  <2>2. AfterHostChange(r) \in {"getService", "succeeded"}
    BY DEF AfterHostChange
  <2>3. AfterHostChange(r) # "succeeded" => Holds(AfterHostChange(r), l)
    BY <1>2, <2>1, <2>2 DEF Holds, WithTunnel, WithCachedService, WithService
  <2>4. CASE Goto(Listener, AfterHostChange(r), l)
    BY <2>1, <2>2, <2>3, <2>4, GotoType DEF TypeInv, ProcsOK, Labels, Goroutines
  <2>5. CASE UNCHANGED procVars
    BY <2>5, ProcsStutter DEF TypeInv
  <2> QED BY <2>4, <2>5 DEF DeleteFunc
<1> QED BY <1>3, <1>4, <1>6, <1>7 DEF TypeInv

LEMMA ListenerStepType ==
    ASSUME TypeInv, ListenerStep
    PROVE  TypeInv'
<1>1. CASE updateService(Listener) /\ UNCHANGED <<queueVars, cacheVars>>
  <2>1. ClusterTypeOK' /\ ProcsOK'
    BY <1>1, updateServiceType DEF TypeInv, Goroutines
  <2> QED BY <1>1, <2>1, QueueStutter, CacheStutter DEF TypeInv
<1> QED BY <1>1, DeleteFuncType DEF ListenerStep

------------------------------------------------------------------------------
(* The workers' requests.  Each lemma is about the steps of one function of
   the controller. *)

LEMMA AtWork ==
    ASSUME ProcsOK, NEW w \in Workers
    PROVE  /\ w \in Goroutines /\ at[w] \in Local
           /\ pc[w] \notin Resting => at[w].name \in Services
           /\ pc[w] \in WithTunnel => at[w].tun \in TunnelRecord
           /\ pc[w] \in WithCachedService => at[w].svc \in ServiceView
           /\ pc[w] \in WithService => at[w].svc \in ServiceRecord
BY DEF ProcsOK, ProcTypeOK, CopiesOK, Holds, Goroutines

(* Going on with the same copies, to a request that needs no more of them. *)
LEMMA StayType ==
    ASSUME ClusterTypeOK, ProcsOK, NEW w \in Workers, pc[w] \notin Resting,
           NEW label \in Labels,
           label \in WithTunnel => pc[w] \in WithTunnel,
           label \in WithCachedService => pc[w] \in WithCachedService,
           label \in WithService => pc[w] \in WithService
    PROVE  /\ Goto(w, label, at[w]) => ProcsOK'
           /\ TransientError(w, label, at[w]) => ClusterTypeOK' /\ ProcsOK'
           /\ \A error \in {"succeeded", "failed"} :
                 Reply(w, label, at[w], error) => faults' \in Nat /\ ProcsOK'
<1>1. w \in Goroutines /\ at[w] \in Local /\ Holds(label, at[w])
  BY AtWork DEF Holds
<1>2. {"succeeded", "failed"} \subseteq Labels
  BY DEF Labels
<1>3. Goto(w, label, at[w]) => ProcsOK'
  BY <1>1, GotoType DEF ProcsOK
<1>4. TransientError(w, label, at[w]) => ClusterTypeOK' /\ ProcsOK'
  BY <1>1, TransientErrorType
<1>5. ASSUME NEW error \in {"succeeded", "failed"}, Reply(w, label, at[w], error)
      PROVE  faults' \in Nat /\ ProcsOK'
  BY <1>1, <1>2, <1>5, ReplyType
<1> QED BY <1>3, <1>4, <1>5

LEMMA createTunnelResourceType ==
    ASSUME ClusterTypeOK, ProcsOK, NEW w \in Workers, createTunnelResource(w)
    PROVE  ClusterTypeOK' /\ ProcsOK'
<1> DEFINE s == at[w].name
<1> USE DEF Labels, Resting, WithTunnel, WithCachedService, WithService
<1>1. CASE GetTunnel(w)
  BY <1>1, StayType, ClusterStutter DEF GetTunnel
<1>2. CASE CreateTunnel(w)
  <2> DEFINE t == NewTunnel(at[w].svc.uid, TRUE, "none")
             l == [at[w] EXCEPT !.tun = t, !.svc = None]
  <2>1. w \in Goroutines /\ at[w] \in Local /\ s \in Services /\ at[w].svc \in ServiceView
    BY <1>2, AtWork DEF CreateTunnel
  <2>2. at[w].svc.uid \in Nat
    BY <2>1 DEF ServiceView
  <2>3. t \in TunnelRecord
    BY <2>2, NewTunnelType
  <2>4. l \in Local /\ l.name = s /\ l.tun = t
    BY <2>1, <2>3 DEF Local
  <2>5. CASE /\ AddTunnel(s, t) /\ Reply(w, "setGenerated", l, "succeeded")
             /\ UNCHANGED <<service, secret, deployment, license, host,
                            serviceStream, edits>>
    <3>1. Holds("setGenerated", l)
      BY <2>1, <2>3, <2>4 DEF Holds
    <3>2. faults' \in Nat /\ ProcsOK'
      BY <2>1, <2>4, <2>5, <3>1, ReplyType
    <3>3. ClusterTypeOK'
      BY <2>1, <2>3, <2>5, <3>2, AddTunnelType DEF ClusterTypeOK
    <3> QED BY <3>2, <3>3
  <2>6. CASE Goto(w, "succeeded", at[w]) /\ UNCHANGED clusterVars
    BY <1>2, <2>6, StayType, ClusterStutter DEF CreateTunnel
  <2>7. CASE TransientError(w, "succeeded", at[w])
    BY <1>2, <2>7, StayType DEF CreateTunnel
  <2> QED BY <1>2, <2>5, <2>6, <2>7 DEF CreateTunnel
<1>3. CASE SetGenerated(w)
  <2>1. /\ w \in Goroutines /\ s \in Services
        /\ [at[w].tun EXCEPT !.generated = TRUE] \in TunnelRecord
    BY <1>3, AtWork, TunnelEdits DEF SetGenerated
  <2> QED BY <1>3, <2>1, UpdateTunnelStatusType DEF SetGenerated
<1>4. CASE DeleteTunnel(w)
  <2>1. s \in Services
    BY <1>4, AtWork DEF DeleteTunnel
  <2>2. CASE /\ tunnel[s] # None /\ RemoveTunnel(s)
             /\ Reply(w, "succeeded", at[w], "succeeded")
             /\ UNCHANGED <<service, secret, deployment, license, host,
                            serviceStream, uids, edits>>
    <3>1. faults' \in Nat /\ ProcsOK'
      BY <1>4, <2>2, StayType DEF DeleteTunnel
    <3>2. ClusterTypeOK'
      BY <2>1, <2>2, <3>1, RemoveTunnelType DEF ClusterTypeOK
    <3> QED BY <3>1, <3>2
  <2>3. CASE Goto(w, "succeeded", at[w]) /\ UNCHANGED clusterVars
    BY <1>4, <2>3, StayType, ClusterStutter DEF DeleteTunnel
  <2>4. CASE TransientError(w, "succeeded", at[w])
    BY <1>4, <2>4, StayType DEF DeleteTunnel
  <2> QED BY <1>4, <2>2, <2>3, <2>4 DEF DeleteTunnel
<1> QED BY <1>1, <1>2, <1>3, <1>4 DEF createTunnelResource

LEMMA createTunnelAuthTokenSecretType ==
    ASSUME ClusterTypeOK, ProcsOK, NEW w \in Workers, createTunnelAuthTokenSecret(w)
    PROVE  ClusterTypeOK' /\ ProcsOK'
<1> DEFINE s == at[w].name
<1> USE DEF Labels, Resting, WithTunnel, WithCachedService, WithService
<1>1. CASE GetSecret(w)
  BY <1>1, StayType, ClusterStutter DEF GetSecret
<1>2. CASE CreateSecret(w)
  <2>1. s \in Services /\ at[w].tun \in TunnelRecord
    BY <1>2, AtWork DEF CreateSecret
  <2>2. CASE /\ secret' = [secret EXCEPT ![s] = at[w].tun.uid]
             /\ Reply(w, "setAuthRef", at[w], "failed")
             /\ UNCHANGED <<service, tunnel, deployment, license, host,
                            streamVars, uids, edits>>
    <3>1. faults' \in Nat /\ ProcsOK'
      BY <1>2, <2>2, StayType DEF CreateSecret
    <3>2. at[w].tun.uid \in Nat
      BY <2>1 DEF TunnelRecord
    <3>3. ClusterTypeOK'
      BY <2>1, <2>2, <3>1, <3>2 DEF ClusterTypeOK, streamVars
    <3> QED BY <3>1, <3>3
  <2>3. CASE Goto(w, "setAuthRef", at[w]) /\ UNCHANGED clusterVars
    BY <1>2, <2>3, StayType, ClusterStutter DEF CreateSecret
  <2>4. CASE TransientError(w, "failed", at[w])
    BY <1>2, <2>4, StayType DEF CreateSecret
  <2> QED BY <1>2, <2>2, <2>3, <2>4 DEF CreateSecret
<1>3. CASE SetAuthRef(w)
  <2>1. /\ w \in Goroutines /\ s \in Services
        /\ [at[w].tun EXCEPT !.auth = "status"] \in TunnelRecord
    BY <1>3, AtWork, TunnelEdits DEF SetAuthRef
  <2> QED BY <1>3, <2>1, UpdateTunnelStatusType DEF SetAuthRef
<1> QED BY <1>1, <1>2, <1>3 DEF createTunnelAuthTokenSecret

LEMMA NewHostType ==
    (\E h \in Hosts : host[h] = "free") => NewHost \in Hosts /\ host[NewHost] = "free"
BY DEF NewHost

LEMMA ProvisionType ==
    ASSUME ClusterTypeOK, ProcsOK, NEW w \in Workers,
           HostConfig(w) \/ Provision(w) \/ SetProvisioning(w)
    PROVE  ClusterTypeOK' /\ ProcsOK'
<1> USE DEF Labels, Resting, WithTunnel, WithCachedService, WithService
<1>1. CASE HostConfig(w)
  BY <1>1, StayType, ClusterStutter DEF HostConfig
<1>2. CASE Provision(w)
  <2> DEFINE l == [at[w] EXCEPT !.target = NewHost]
  <2>1. CASE /\ \E h \in Hosts : host[h] = "free"
             /\ host' = [host EXCEPT ![NewHost] = "booting"]
             /\ Reply(w, "setProvisioning", l, "failed")
             /\ UNCHANGED <<objectVars, streamVars, uids, edits>>
    <3>1. /\ w \in Goroutines /\ at[w] \in Local
          /\ at[w].name \in Services /\ at[w].tun \in TunnelRecord
      BY <1>2, AtWork DEF Provision
    <3>2. l \in Local /\ l.name = at[w].name /\ l.tun = at[w].tun
      BY <2>1, <3>1, NewHostType, LocalEdits
    <3>3. Holds("setProvisioning", l)
      BY <3>1, <3>2 DEF Holds
    <3>4. faults' \in Nat /\ ProcsOK'
      BY <2>1, <3>1, <3>2, <3>3, ReplyType
    <3>5. ClusterTypeOK'
      BY <2>1, <3>4 DEF ClusterTypeOK, objectVars, streamVars
    <3> QED BY <3>4, <3>5
  <2>2. CASE Goto(w, "failed", at[w]) /\ UNCHANGED clusterVars
    BY <1>2, <2>2, StayType, ClusterStutter DEF Provision
  <2>3. CASE /\ Fault("cloud") /\ Goto(w, "failed", at[w])
             /\ UNCHANGED <<objectVars, host, streamVars, uids, edits>>
    <3>1. ProcsOK'
      BY <1>2, <2>3, StayType DEF Provision
    <3> QED BY <2>3, <3>1, FaultType DEF ClusterTypeOK, objectVars, streamVars
  <2> QED BY <1>2, <2>1, <2>2, <2>3 DEF Provision
<1>3. CASE SetProvisioning(w)
  <2>1. /\ w \in Goroutines /\ at[w] \in Local /\ at[w].name \in Services
        /\ at[w].tun \in TunnelRecord
    BY <1>3, AtWork DEF SetProvisioning
  <2>2. at[w].target \in Hosts \cup {None}
    BY <2>1 DEF Local
  <2>3. [at[w].tun EXCEPT !.hostStatus = "provisioning", !.hostID = at[w].target]
           \in TunnelRecord
    BY <2>1, <2>2, TunnelEdits
  <2> QED BY <1>3, <2>1, <2>3, UpdateTunnelStatusType DEF SetProvisioning
<1> QED BY <1>1, <1>2, <1>3

LEMMA syncProvisioningHostStatusType ==
    ASSUME ClusterTypeOK, ProcsOK, NEW w \in Workers, syncProvisioningHostStatus(w)
    PROVE  ClusterTypeOK' /\ ProcsOK'
<1> USE DEF Labels, Resting, WithTunnel, WithCachedService, WithService
<1>1. CASE HostStatus(w)
  <2> DEFINE h == at[w].tun.hostID
             l == [at[w] EXCEPT !.target = h]
             label == CASE host[h] = "active"  -> "setActive"
                        [] host[h] = "booting" -> "succeeded"
                        [] OTHER               -> "failed"
  <2>1. /\ w \in Goroutines /\ at[w] \in Local /\ at[w].name \in Services
        /\ at[w].tun \in TunnelRecord
    BY <1>1, AtWork DEF HostStatus
  <2>2. CASE Goto(w, label, l) /\ UNCHANGED clusterVars
    <3>1. h \in Hosts \cup {None}
      BY <2>1 DEF TunnelRecord
    <3>2. l \in Local /\ l.name = at[w].name /\ l.tun = at[w].tun
      BY <2>1, <3>1, LocalEdits
    <3>3. label \in {"setActive", "succeeded", "failed"}
      OBVIOUS
    <3>4. label \notin {"succeeded", "failed"} => Holds(label, l)
      BY <2>1, <3>2, <3>3 DEF Holds
    <3>5. ProcsOK'
      BY <2>1, <2>2, <3>2, <3>3, <3>4, GotoType DEF ProcsOK
    <3> QED BY <2>2, <3>5, ClusterStutter
  <2>3. CASE /\ Fault("cloud") /\ Goto(w, "failed", at[w])
             /\ UNCHANGED <<objectVars, host, streamVars, uids, edits>>
    <3>1. ProcsOK'
      BY <1>1, <2>3, StayType DEF HostStatus
    <3> QED BY <2>3, <3>1, FaultType DEF ClusterTypeOK, objectVars, streamVars
  <2> QED BY <1>1, <2>2, <2>3 DEF HostStatus
<1>2. CASE SetActive(w)
  <2>1. /\ w \in Goroutines /\ at[w].name \in Services
        /\ [at[w].tun EXCEPT !.hostStatus = "active"] \in TunnelRecord
    BY <1>2, AtWork, TunnelEdits DEF SetActive
  <2>2. AfterHostChange(at[w].tun) \in {"succeeded", "getService"}
    BY DEF AfterHostChange
  <2> QED BY <1>2, <2>1, <2>2, UpdateTunnelStatusType DEF SetActive
<1>3. CASE updateService(w)
  BY <1>3, updateServiceType DEF Goroutines
<1> QED BY <1>1, <1>2, <1>3 DEF syncProvisioningHostStatus

LEMMA syncLicenseType ==
    ASSUME ClusterTypeOK, ProcsOK, NEW w \in Workers, GetLicense(w) \/ WriteLicense(w)
    PROVE  ClusterTypeOK' /\ ProcsOK'
<1> USE DEF Labels, Resting, WithTunnel, WithCachedService, WithService
<1>1. CASE GetLicense(w)
  <2> DEFINE label == CASE license = "current" -> "readClient"
                        [] license = "stale"   -> "updateLicense"
                        [] license = "absent"  -> "createLicense"
  <2>1. label \in {"readClient", "updateLicense", "createLicense"}
    BY DEF ClusterTypeOK
  <2>2. Goto(w, label, at[w]) => ProcsOK'
    BY <1>1, <2>1, StayType DEF GetLicense
  <2> QED BY <1>1, <2>2, StayType, ClusterStutter DEF GetLicense
<1>2. CASE WriteLicense(w)
  <2>1. CASE /\ license' = "current" /\ Reply(w, "readClient", at[w], "failed")
             /\ UNCHANGED <<service, tunnel, secret, deployment, host,
                            streamVars, uids, edits>>
    <3>1. faults' \in Nat /\ ProcsOK'
      BY <1>2, <2>1, StayType DEF WriteLicense
    <3> QED BY <2>1, <3>1 DEF ClusterTypeOK, streamVars
  <2>2. CASE Goto(w, "failed", at[w]) /\ UNCHANGED clusterVars
    BY <1>2, <2>2, StayType, ClusterStutter DEF WriteLicense
  <2>3. CASE TransientError(w, "failed", at[w])
    BY <1>2, <2>3, StayType DEF WriteLicense
  <2> QED BY <1>2, <2>1, <2>2, <2>3 DEF WriteLicense
<1> QED BY <1>1, <1>2

LEMMA makeClientDeploymentType ==
    ASSUME NEW t \in TunnelRecord, NEW svc \in ServiceRecord
    PROVE  makeClientDeployment(t, svc) \in DeploymentRecord
<1>1. t.uid \in Nat /\ svc.ports \in Ports
  BY DEF TunnelRecord, ServiceRecord
<1> QED BY <1>1, HostIPType DEF makeClientDeployment, DeploymentRecord

LEMMA updateClientDeploymentRefType ==
    ASSUME ClusterTypeOK, ProcsOK, NEW w \in Workers,
           ReadClient(w) \/ UpdateClient(w) \/ SetClientRef(w)
    PROVE  ClusterTypeOK' /\ ProcsOK'
<1> DEFINE s == at[w].name
<1> USE DEF Labels, Resting, WithTunnel, WithCachedService, WithService
<1>1. CASE ReadClient(w)
  <2> DEFINE l == [at[w] EXCEPT !.svc = service[s]]
  <2>1. /\ w \in Goroutines /\ at[w] \in Local /\ s \in Services
        /\ at[w].tun \in TunnelRecord
    BY <1>1, AtWork DEF ReadClient
  <2>2. CASE Goto(w, "failed", at[w]) /\ UNCHANGED clusterVars
    BY <1>1, <2>2, StayType, ClusterStutter DEF ReadClient
  <2>3. ASSUME NEW label \in {"createClient", "succeeded", "updateClient"},
               service[s] # None, Goto(w, label, l), UNCHANGED clusterVars
        PROVE  ClusterTypeOK' /\ ProcsOK'
    <3>1. service[s] \in ServiceRecord
      BY <2>1, <2>3 DEF ClusterTypeOK
    <3>2. l \in Local /\ l.name = s /\ l.tun = at[w].tun /\ l.svc = service[s]
      BY <2>1, <3>1, LocalEdits
    <3>3. Holds(label, l)
      BY <2>1, <3>1, <3>2 DEF Holds
    <3>4. ProcsOK'
      BY <2>1, <2>3, <3>2, <3>3, GotoType DEF ProcsOK
    <3> QED BY <2>3, <3>4, ClusterStutter
  <2>4. CASE TransientError(w, "failed", at[w])
    BY <1>1, <2>4, StayType DEF ReadClient
  <2> QED BY <1>1, <2>2, <2>3, <2>4 DEF ReadClient
<1>2. CASE UpdateClient(w)
  <2> DEFINE d == makeClientDeployment(at[w].tun, at[w].svc)
  <2>1. s \in Services /\ d \in DeploymentRecord
    BY <1>2, AtWork, makeClientDeploymentType DEF UpdateClient
  <2>2. CASE PutDeployment(s, d) /\ Reply(w, "succeeded", at[w], "succeeded")
    <3>1. faults' \in Nat /\ ProcsOK'
      BY <1>2, <2>2, StayType DEF UpdateClient
    <3> QED BY <2>1, <2>2, <3>1 DEF PutDeployment, ClusterTypeOK, streamVars
  <2>3. CASE Goto(w, "succeeded", at[w]) /\ UNCHANGED clusterVars
    BY <1>2, <2>3, StayType, ClusterStutter DEF UpdateClient
  <2>4. CASE TransientError(w, "succeeded", at[w])
    BY <1>2, <2>4, StayType DEF UpdateClient
  <2> QED BY <1>2, <2>2, <2>3, <2>4 DEF UpdateClient
<1>3. CASE SetClientRef(w)
  <2>1. w \in Goroutines /\ s \in Services /\ at[w].tun \in TunnelRecord
    BY <1>3, AtWork DEF SetClientRef
  <2> QED BY <1>3, <2>1, UpdateTunnelStatusType DEF SetClientRef
<1> QED BY <1>1, <1>2, <1>3

(* The only request that also changes the cache. *)
LEMMA CreateClientType ==
    ASSUME ClusterTypeOK, ProcsOK, CacheTypeOK, NEW w \in Workers, CreateClient(w)
    PROVE  ClusterTypeOK' /\ ProcsOK' /\ CacheTypeOK'
<1> DEFINE s == at[w].name
           t == at[w].tun
           d == makeClientDeployment(t, at[w].svc)
           l(ref) == [at[w] EXCEPT !.tun.clientRef = ref, !.svc = None]
           Refer(ref) ==
               tunnelCache' = [tunnelCache EXCEPT
                   ![s] = IF Current(@, t) THEN [@ EXCEPT !.clientRef = ref] ELSE @]
<1> USE DEF Labels, Resting, WithTunnel, WithCachedService, WithService
<1>1. /\ w \in Goroutines /\ at[w] \in Local /\ s \in Services
      /\ t \in TunnelRecord /\ d \in DeploymentRecord
  BY AtWork, makeClientDeploymentType DEF CreateClient
<1>2. ASSUME NEW ref \in {"named", "unnamed"}
      PROVE  l(ref) \in Local /\ Holds("setClientRef", l(ref))
  <2> DEFINE u == [t EXCEPT !.clientRef = ref]
  <2>1. u \in TunnelRecord
    BY <1>1, TunnelEdits
  <2>2. l(ref) = [at[w] EXCEPT !.tun = u, !.svc = None]
    BY <1>1 DEF Local
  <2>3. l(ref) \in Local /\ l(ref).name = s /\ l(ref).tun = u
    BY <1>1, <2>1, <2>2 DEF Local
  <2> QED BY <1>1, <2>1, <2>3 DEF Holds
<1>3. ASSUME NEW ref \in {"named", "unnamed"}, Refer(ref) PROVE CacheTypeOK'
  <2>1. tunnelCache \in [Services -> TunnelRecord \cup {None}]
    BY DEF CacheTypeOK
  <2>2. Current(tunnelCache[s], t) => [tunnelCache[s] EXCEPT !.clientRef = ref] \in TunnelRecord
    BY <1>1, <2>1, TunnelEdits DEF Current
  <2>3. tunnelCache' \in [Services -> TunnelRecord \cup {None}]
    BY <1>1, <1>3, <2>1, <2>2
  <2> QED BY <2>3 DEF CreateClient, CacheTypeOK
<1>4. ASSUME NEW ref \in {"named", "unnamed"}, Goto(w, "setClientRef", l(ref))
      PROVE  ProcsOK'
  BY <1>1, <1>2, <1>4, GotoType DEF ProcsOK
<1>5. CASE /\ PutDeployment(s, d)
           /\ \/ /\ Goto(w, "setClientRef", l("named")) /\ Refer("named")
                 /\ UNCHANGED faults
              \/ /\ Fault("lostReply")
                 /\ Goto(w, "setClientRef", l("unnamed")) /\ Refer("unnamed")
  <2>1. ClusterTypeOK' <=> faults' \in Nat
    BY <1>1, <1>5 DEF PutDeployment, ClusterTypeOK, streamVars
  <2>2. CASE /\ Goto(w, "setClientRef", l("named")) /\ Refer("named")
             /\ UNCHANGED faults
    BY <1>3, <1>4, <2>1, <2>2 DEF ClusterTypeOK
  <2>3. CASE /\ Fault("lostReply")
             /\ Goto(w, "setClientRef", l("unnamed")) /\ Refer("unnamed")
    BY <1>3, <1>4, <2>1, <2>3, FaultType
  <2> QED BY <1>5, <2>2, <2>3
<1>6. CASE /\ Goto(w, "setClientRef", l("unnamed")) /\ Refer("unnamed")
           /\ UNCHANGED clusterVars
  BY <1>3, <1>4, <1>6, ClusterStutter
<1>7. CASE TransientError(w, "setClientRef", l("unnamed")) /\ Refer("unnamed")
  BY <1>1, <1>2, <1>3, <1>7, TransientErrorType
<1> QED BY <1>5, <1>6, <1>7 DEF CreateClient

LEMMA TakeType ==
    ASSUME TypeInv, NEW w \in Workers, NEW k \in Keys, Take(w, k)
    PROVE  TypeInv'
<1> DEFINE s == k[2]
           l == [Nothing EXCEPT !.name = s]
           lsvc == [l EXCEPT !.svc = serviceCache[s]]
           ltun == [l EXCEPT !.tun = tunnelCache[s]]
<1> USE DEF Labels, Resting, WithTunnel, WithCachedService, WithService
<1>1. s \in Services /\ w \in Goroutines
  BY DEF Keys, Goroutines
<1>2. l \in Local /\ l.name = s
  BY <1>1 DEF Nothing, Local
<1>3. ProcsOK'
  <2>1. CASE serviceCache[s] # None /\ Goto(w, "getTunnel", lsvc)
    <3>1. serviceCache[s] \in ServiceView
      BY <1>1, <2>1 DEF TypeInv, CacheTypeOK
    <3>2. lsvc \in Local /\ lsvc.name = s /\ lsvc.svc = serviceCache[s]
      <4> HIDE DEF l
      <4> QED BY <1>2, <3>1, LocalEdits
    <3>3. Holds("getTunnel", lsvc)
      BY <1>1, <3>1, <3>2 DEF Holds
    <3> QED BY <1>1, <2>1, <3>2, <3>3, GotoType DEF TypeInv, ProcsOK
  <2>2. CASE tunnelCache[s] # None /\ Goto(w, SyncLabel(tunnelCache[s]), ltun)
    <3> DEFINE label == SyncLabel(tunnelCache[s])
    <3>1. tunnelCache[s] \in TunnelRecord
      BY <1>1, <2>2 DEF TypeInv, CacheTypeOK
    <3>2. ltun \in Local /\ ltun.name = s /\ ltun.tun = tunnelCache[s]
      <4> HIDE DEF l
      <4> QED BY <1>2, <3>1, LocalEdits
    <3>3. label \in {"failed", "getLicense", "hostStatus", "getSecret", "hostConfig"}
      BY DEF SyncLabel
    <3>4. label # "failed" => Holds(label, ltun)
      BY <1>1, <3>1, <3>2, <3>3 DEF Holds
    <3> QED BY <1>1, <2>2, <3>2, <3>3, <3>4, GotoType DEF TypeInv, ProcsOK
  <2>3. CASE Goto(w, "succeeded", l)
    BY <1>1, <1>2, <2>3, GotoType DEF TypeInv, ProcsOK
  <2> QED BY <2>1, <2>2, <2>3 DEF Take
<1>4. Queue!QueueTypeOK'
  BY GetType DEF Take, TypeInv
<1> QED BY <1>3, <1>4, ClusterStutter, CacheStutter DEF Take, TypeInv

LEMMA EndOfSyncType ==
    ASSUME TypeInv, NEW w \in Workers, Requeue(w) \/ Finish(w)
    PROVE  TypeInv'
<1>1. w \in Goroutines /\ {"done", "idle"} \subseteq Labels
  BY DEF Goroutines, Labels
<1>2. Holds("done", Nothing) /\ Holds("idle", Nothing)
  BY DEF Holds, Resting, WithTunnel, WithCachedService, WithService
<1>3. ProcsOK'
  BY <1>1, <1>2, NothingType, GotoType DEF Requeue, Finish, TypeInv, ProcsOK
<1>4. Queue!QueueTypeOK'
  <2>1. CASE Requeue(w)
    BY <2>1, AddAllType DEF Requeue, Queue!AddRateLimited, TypeInv
  <2>2. CASE Finish(w)
    BY <2>2 DEF Finish, Queue!Done, Queue!QueueTypeOK, TypeInv
  <2> QED BY <2>1, <2>2
<1> QED BY <1>3, <1>4, ClusterStutter, CacheStutter DEF Requeue, Finish, TypeInv

LEMMA WorkerType ==
    ASSUME TypeInv, NEW w \in Workers, Worker(w)
    PROVE  TypeInv'
<1>1. CASE syncHandler(w)
  <2>1. CASE /\ \/ createTunnelResource(w) \/ createTunnelAuthTokenSecret(w)
                \/ HostConfig(w) \/ Provision(w) \/ SetProvisioning(w)
                \/ syncProvisioningHostStatus(w)
             /\ UNCHANGED <<queueVars, cacheVars>>
    <3>1. ClusterTypeOK' /\ ProcsOK'
      BY <2>1, createTunnelResourceType, createTunnelAuthTokenSecretType,
         ProvisionType, syncProvisioningHostStatusType DEF TypeInv
    <3> QED BY <2>1, <3>1, QueueStutter, CacheStutter DEF TypeInv
  <2>2. CASE /\ \/ GetLicense(w) \/ WriteLicense(w) \/ ReadClient(w)
                \/ UpdateClient(w) \/ SetClientRef(w)
             /\ UNCHANGED <<queueVars, cacheVars>>
    <3>1. ClusterTypeOK' /\ ProcsOK'
      BY <2>2, syncLicenseType, updateClientDeploymentRefType DEF TypeInv
    <3> QED BY <2>2, <3>1, QueueStutter, CacheStutter DEF TypeInv
  <2>3. CASE CreateClient(w) /\ UNCHANGED queueVars
    BY <2>3, CreateClientType, QueueStutter DEF TypeInv
  <2> QED BY <1>1, <2>1, <2>2, <2>3 DEF syncHandler, syncActive
<1> QED BY <1>1, TakeType, EndOfSyncType DEF Worker

------------------------------------------------------------------------------
(* Environment, shutdown and restart. *)

LEMMA CollectType ==
    ASSUME ClusterTypeOK, NEW s \in Services,
           CollectTunnel(s) \/ CollectSecret(s) \/ CollectDeployment(s)
    PROVE  ClusterTypeOK'
<1>1. CASE CollectTunnel(s)
  BY <1>1, RemoveTunnelType DEF CollectTunnel, ClusterTypeOK, budgetVars
<1>2. CASE CollectSecret(s)
  BY <1>2 DEF CollectSecret, ClusterTypeOK, streamVars, budgetVars
<1>3. CASE CollectDeployment(s)
  BY <1>3 DEF CollectDeployment, ClusterTypeOK, streamVars, budgetVars
<1> QED BY <1>1, <1>2, <1>3

LEMMA EditType ==
    ASSUME ClusterTypeOK, NEW op, Edit(op)
    PROVE  edits' \in Nat /\ host' = host /\ faults' = faults
BY DEF Edit, ClusterTypeOK

LEMMA EditServiceType ==
    ASSUME ClusterTypeOK, NEW s \in Services, EditService(s)
    PROVE  ClusterTypeOK'
<1>1. service[s] \in ServiceRecord /\ service[s] # None
  BY DEF EditService, ClusterTypeOK
<1>2. edits' \in Nat /\ host' = host /\ faults' = faults
  BY EditType DEF EditService
<1>3. PICK svc \in ServiceRecord : PutService(s, svc)
  <2> USE ClusterAssumption
  <2>1. CASE \E m \in Annotations : PutService(s, [service[s] EXCEPT !.manage = m])
    BY <1>1, <2>1, ServiceEdits
  <2>2. CASE \E lb \in Types : PutService(s, [service[s] EXCEPT !.lb = lb])
    BY <1>1, <2>2, ServiceEdits
  <2>3. CASE \E q \in Ports : PutService(s, [service[s] EXCEPT !.ports = q])
    BY <1>1, <2>3, ServiceEdits
  <2>4. CASE PutService(s, [service[s] EXCEPT !.ips[UserIP] = 1])
    BY <1>1, <2>4, ServiceEdits
  <2> QED BY <2>1, <2>2, <2>3, <2>4 DEF EditService
<1> QED BY <1>1, <1>2, <1>3, PutServiceType DEF EditService, ClusterTypeOK

LEMMA UserEditType ==
    ASSUME ClusterTypeOK, NEW s \in Services, UserEdit(s)
    PROVE  ClusterTypeOK'
<1>1. CASE CreateService(s)
  <2>1. PICK svc \in ServiceRecord :
            /\ service' = [service EXCEPT ![s] = svc]
            /\ serviceStream' = Emit(serviceStream, s, "set", View(svc))
    BY <1>1, NewServiceType DEF CreateService
  <2>2. serviceStream' \in [Services -> Seq(Event(ServiceView))]
    BY <2>1, ViewType, EmitType DEF ClusterTypeOK
  <2>3. edits' \in Nat /\ host' = host /\ faults' = faults
    BY <1>1, EditType DEF CreateService
  <2> QED BY <1>1, <2>1, <2>2, <2>3, UidsType DEF CreateService, ClusterTypeOK
<1>2. CASE DeleteService(s)
  <2>1. View(service[s]) \in ServiceView
    BY <1>2, ViewType DEF DeleteService, ClusterTypeOK
  <2>2. serviceStream' \in [Services -> Seq(Event(ServiceView))]
    BY <1>2, <2>1, EmitType DEF DeleteService, ClusterTypeOK
  <2>3. edits' \in Nat /\ host' = host /\ faults' = faults
    BY <1>2, EditType DEF DeleteService
  <2> QED BY <1>2, <2>2, <2>3 DEF DeleteService, ClusterTypeOK
<1>3. CASE EditTunnel(s)
  <2>1. edits' \in Nat /\ host' = host /\ faults' = faults
    BY <1>3, EditType DEF EditTunnel
  <2>2. CASE \E t \in UserTunnels : AddTunnel(s, NewTunnel(0, t.serviceRef, t.auth))
    <3>1. PICK t \in UserTunnels : AddTunnel(s, NewTunnel(0, t.serviceRef, t.auth))
      BY <2>2
    <3>2. t.serviceRef \in BOOLEAN /\ t.auth \in {"none", "spec"}
      BY ClusterAssumption
    <3>3. NewTunnel(0, t.serviceRef, t.auth) \in TunnelRecord
      BY <3>2, NewTunnelType
    <3> QED BY <1>3, <2>1, <3>1, <3>3, AddTunnelType DEF EditTunnel, ClusterTypeOK
  <2>3. CASE tunnel[s] # None /\ RemoveTunnel(s) /\ UNCHANGED uids
    BY <1>3, <2>1, <2>3, RemoveTunnelType DEF EditTunnel, ClusterTypeOK
  <2> QED BY <1>3, <2>2, <2>3 DEF EditTunnel
<1>4. CASE EditOther(s)
  <2>1. edits' \in Nat /\ host' = host /\ faults' = faults
    BY <1>4, EditType DEF EditOther
  <2> QED BY <1>4, <2>1 DEF EditOther, ClusterTypeOK, streamVars
<1> QED BY <1>1, <1>2, <1>3, <1>4, EditServiceType DEF UserEdit

LEMMA EnvironmentType ==
    ASSUME TypeInv, Environment, UNCHANGED operatorVars
    PROVE  TypeInv'
<1>1. ASSUME NEW h \in Hosts, Boot(h) PROVE ClusterTypeOK'
  BY <1>1 DEF Boot, TypeInv, ClusterTypeOK, objectVars, streamVars, budgetVars
<1>2. ClusterTypeOK'
  BY <1>1, UserEditType, CollectType DEF Environment, TypeInv
<1> QED BY <1>2, ProcsStutter, QueueStutter, CacheStutter DEF operatorVars, TypeInv

LEMMA StopType ==
    ASSUME TypeInv, Stop
    PROVE  TypeInv'
<1>1. Queue!QueueTypeOK'
  BY DEF Stop, Queue!ShutDown, Queue!QueueTypeOK, TypeInv
<1>2. ClusterTypeOK'
  BY FaultType DEF Stop, TypeInv, ClusterTypeOK, objectVars, streamVars
<1> QED BY <1>1, <1>2, ProcsStutter, CacheStutter DEF Stop, TypeInv

LEMMA RestartType ==
    ASSUME TypeInv, Restart
    PROVE  TypeInv'
<1>1. ProcsOK'
  <2>1. ProcTypeOK'
    BY NothingType DEF Restart, ProcTypeOK, Labels
  <2>2. CopiesOK'
    BY DEF Restart, CopiesOK, Holds, Resting, WithTunnel, WithCachedService, WithService
  <2> QED BY <2>1, <2>2 DEF ProcsOK
<1>2. Queue!QueueTypeOK'
  BY QueueAssumption DEF Restart, Queue!QueueTypeOK
<1>3. CacheTypeOK'
  BY DEF Restart, CacheTypeOK, TypeInv, ClusterTypeOK
<1>4. ClusterTypeOK'
  <2>1. faults' \in Nat
    BY FaultType DEF Restart, TypeInv, ClusterTypeOK
  <2>2. tunnelStream' \in [Services -> Seq(Event(TunnelRecord))]
    BY EmptyStreams DEF Restart
  <2>3. ASSUME NEW s \in Services, service[s] # None
        PROVE  <<[type |-> "set", object |-> View(service[s])]>> \in Seq(Event(ServiceView))
    <3>1. View(service[s]) \in ServiceView
      BY <2>3, ViewType DEF TypeInv, ClusterTypeOK
    <3>2. [type |-> "set", object |-> View(service[s])] \in Event(ServiceView)
      BY <3>1 DEF Event
    <3> QED BY <3>2
  <2>4. serviceStream' \in [Services -> Seq(Event(ServiceView))]
    BY <2>3 DEF Restart
  <2> QED BY <2>1, <2>2, <2>4 DEF Restart, TypeInv, ClusterTypeOK, objectVars
<1> QED BY <1>1, <1>2, <1>3, <1>4 DEF TypeInv

------------------------------------------------------------------------------
(* Type correctness. *)

LEMMA TypeInvInit == Init => TypeInv
<1> SUFFICES ASSUME Init PROVE TypeInv
  OBVIOUS
<1>1. ClusterTypeOK
  BY EmptyStreams DEF Init, ClusterInit, ClusterTypeOK
<1>2. ProcsOK
  BY NothingType DEF Init, ProcInit, ProcsOK, ProcTypeOK, CopiesOK, Holds, Labels,
                     Resting, WithTunnel, WithCachedService, WithService
<1>3. Queue!QueueTypeOK
  BY QueueAssumption DEF Init, CacheInit, Queue!Init, Queue!QueueTypeOK
<1>4. CacheTypeOK
  BY DEF Init, CacheInit, CacheTypeOK
<1> QED BY <1>1, <1>2, <1>3, <1>4 DEF TypeInv

LEMMA TypeInvStep == TypeInv /\ [Next]_vars => TypeInv'
<1> SUFFICES ASSUME TypeInv, [Next]_vars PROVE TypeInv'
  OBVIOUS
<1>1. ASSUME NEW w \in Workers, Worker(w) PROVE TypeInv'
  BY <1>1, WorkerType
<1>2. CASE ListenerStep
  BY <1>2, ListenerStepType
<1>3. CASE Informers
  BY <1>3, InformersType
<1>4. ASSUME NEW k \in Keys, Merge(k) PROVE TypeInv'
  <2>1. Queue!QueueTypeOK'
    BY <1>4, QueueAssumption DEF Merge, Queue!Merge, Queue!QueueTypeOK, TypeInv
  <2> QED BY <1>4, <2>1, ClusterStutter, ProcsStutter, CacheStutter DEF Merge, TypeInv
<1>5. CASE Environment /\ UNCHANGED operatorVars
  BY <1>5, EnvironmentType
<1>6. CASE Stop
  BY <1>6, StopType
<1>7. CASE Restart
  BY <1>7, RestartType
<1>8. CASE UNCHANGED vars
  BY <1>8, ClusterStutter, ProcsStutter, QueueStutter, CacheStutter DEF vars, TypeInv
<1> QED BY <1>1, <1>2, <1>3, <1>4, <1>5, <1>6, <1>7, <1>8 DEF Next

THEOREM TypeInvariant == Spec => []TypeInv
BY TypeInvInit, TypeInvStep, PTL DEF Spec

(* Every variable keeps its type, and no request is made without the copies
   it works on. *)
THEOREM TypeCorrect == Spec => []TypeOK
<1>1. TypeInv => TypeOK
  BY DEF TypeInv, TypeOK, ProcsOK
<1> QED BY <1>1, TypeInvariant, PTL
==============================================================================
