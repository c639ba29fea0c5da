---------------------------- MODULE ServiceProofs ----------------------------
(****************************************************************************)
(* Optimistic concurrency on services: updateService writes from the copies   *)
(* it read, so nothing that users put on a service meanwhile is lost.         *)
(****************************************************************************)
EXTENDS OperatorProofs

(* The requests that write a service. *)
Publishing == {"updateService", "updateIngress"}

(* A worker with one of these is to append its host's address. *)
Appending == {"getService", "updateService"}

Updating == Appending \cup Publishing

(* svc was read as the service s: it is that service as it is now, unless the
   version is a later one. *)
ServiceCopyOf(svc, s) ==
    /\ svc.uid <= uids.service
    /\ service[s] # None /\ service[s].uid = svc.uid =>
          /\ svc.rv <= service[s].rv
          /\ svc.rv = service[s].rv => svc = service[s]

UidsGivenOut == \A s \in Services : service[s] # None => service[s].uid <= uids.service

ServiceCopiesTrue ==
    \A p \in Goroutines : pc[p] \in Publishing => ServiceCopyOf(at[p].svc, at[p].name)

(* The inductive invariant behind UserAddressKept. *)
ServiceInv == TypeInv /\ UidsGivenOut /\ ServiceCopiesTrue

(* A host's address is withdrawn, or appended by a worker that is then done
   with it. *)
HostAddressMoves(old, new, h) ==
    \/ new[h] \in {old[h], 0}
    \/ /\ new[h] = old[h] + 1
       /\ \E w \in Workers : /\ pc[w] = "updateService" /\ at[w].target = h
                             /\ pc'[w] \notin Appending

(* The worker records that the host is active, on a tunnel the service owns. *)
Activates(w) ==
    LET s == at[w].name
        t == at[w].tun
    IN  /\ pc[w] = "setActive" /\ at'[w].target = at[w].target /\ ownsService(t)
        /\ Current(tunnel[s], t) /\ PutTunnel(s, [t EXCEPT !.hostStatus = "active"])
        /\ \A q \in Goroutines \ {w} : pc'[q] = pc[q] /\ at'[q] = at[q]

(* What every step does: a service stays, goes, is new, or gets its next
   version, and keeps the user's address as long as it lives ... *)
Evolves ==
    /\ uids.service <= uids'.service
    /\ \A s \in Services :
          \/ service'[s] = service[s]
          \/ service'[s] = None
          \/ /\ service[s] = None /\ service'[s].uid = uids.service + 1
             /\ uids'.service = uids.service + 1
             /\ service'[s].ips = NoAddress
          \/ /\ service[s] # None /\ service'[s].uid = service[s].uid
             /\ service'[s].rv = service[s].rv + 1
             /\ service[s].ips[UserIP] <= service'[s].ips[UserIP]
             /\ \A h \in Hosts : HostAddressMoves(service[s].ips, service'[s].ips, h)

(* ... and a goroutine that is about to write one has read it just now, or has
   not moved.  A worker is sent to append an address by its own write of the
   tunnel's activation. *)
Moves ==
    \A p \in Goroutines :
        /\ \/ pc'[p] \notin Publishing
           \/ pc'[p] = pc[p] /\ at'[p] = at[p]
           \/ at'[p].svc = service'[at'[p].name]
        /\ \/ pc'[p] \notin Appending \/ p = Listener
           \/ pc'[p] = pc[p] /\ at'[p] = at[p]
           \/ pc[p] = "getService" /\ at'[p].target = at[p].target
           \/ Activates(p)

Kept ==
    \A s \in Services :
        service[s] # None /\ service'[s] # None /\ service[s].uid = service'[s].uid
        => service[s].ips[UserIP] <= service'[s].ips[UserIP]

LEMMA KeptByEvolution ==
    ASSUME ServiceInv, Evolves
    PROVE  Kept
<1> SUFFICES ASSUME NEW s \in Services, service[s] # None, service'[s] # None,
                    service[s].uid = service'[s].uid
             PROVE  service[s].ips[UserIP] <= service'[s].ips[UserIP]
  BY DEF Kept
<1>1. service[s] \in ServiceRecord
  BY DEF ServiceInv, TypeInv, ClusterTypeOK
<1>2. service[s].ips[UserIP] \in Nat
  BY <1>1 DEF ServiceRecord, Addresses
<1> QED BY <1>2 DEF Evolves

LEMMA StepKeepsInv ==
    ASSUME ServiceInv, TypeInv', Evolves, Moves
    PROVE  ServiceInv'
<1>1. /\ uids.service \in Nat /\ uids'.service \in Nat
      /\ uids.service <= uids'.service
  BY DEF ServiceInv, TypeInv, ClusterTypeOK, Evolves
<1>2. \A s \in Services : /\ service[s] # None => service[s] \in ServiceRecord
                          /\ service'[s] # None => service'[s] \in ServiceRecord
  BY DEF ServiceInv, TypeInv, ClusterTypeOK
<1>3. \A svc \in ServiceRecord : svc.uid \in Nat /\ svc.rv \in Nat
  BY DEF ServiceRecord
<1>4. UidsGivenOut'
  <2> SUFFICES ASSUME NEW s \in Services, service'[s] # None
               PROVE  service'[s].uid <= uids'.service
    BY DEF UidsGivenOut
  <2>1. service[s] # None => service[s].uid <= uids.service /\ service[s].uid \in Nat
    BY <1>2, <1>3 DEF ServiceInv, UidsGivenOut
  <2> QED BY <1>1, <1>2, <1>3, <2>1 DEF Evolves
<1>5. ServiceCopiesTrue'
  <2> SUFFICES ASSUME NEW p \in Goroutines, pc'[p] \in Publishing
               PROVE  ServiceCopyOf(at[p].svc, at[p].name)'
    BY DEF ServiceCopiesTrue
  <2>1. /\ at'[p].name \in Services /\ at'[p].svc \in ServiceRecord
    BY DEF TypeInv, ProcsOK, CopiesOK, Holds, Publishing, Resting, WithService
  <2> DEFINE s == at'[p].name
             svc == at'[p].svc
  <2>2. CASE svc = service'[s]
    <3>1. service'[s] # None
      BY <2>1, <2>2, NoneAssumption
    <3>2. service'[s].uid <= uids'.service
      BY <1>4, <2>1, <3>1 DEF UidsGivenOut
    <3> QED BY <1>3, <2>1, <2>2, <3>2 DEF ServiceCopyOf
  <2>3. CASE pc'[p] = pc[p] /\ at'[p] = at[p]
    <3>1. ServiceCopyOf(svc, s)
      BY <2>3 DEF ServiceInv, ServiceCopiesTrue
    <3>2. svc.uid \in Nat /\ svc.rv \in Nat
      BY <1>3, <2>1
    <3>3. svc.uid <= uids'.service
      BY <1>1, <3>1, <3>2 DEF ServiceCopyOf
    <3>4. ASSUME service'[s] # None, service'[s].uid = svc.uid
          PROVE  /\ svc.rv <= service'[s].rv
                 /\ svc.rv = service'[s].rv => svc = service'[s]
      <4>1. CASE service'[s] = service[s]
        BY <3>1, <3>4, <4>1 DEF ServiceCopyOf
      <4>2. CASE service'[s].uid = uids.service + 1
        BY <1>1, <3>1, <3>2, <3>4, <4>2 DEF ServiceCopyOf
      <4>3. CASE /\ service[s] # None /\ service'[s].uid = service[s].uid
                 /\ service'[s].rv = service[s].rv + 1
        <5>1. service[s].rv \in Nat
          BY <1>2, <1>3, <2>1, <4>3
        <5>2. svc.rv <= service[s].rv
          BY <3>1, <3>4, <4>3 DEF ServiceCopyOf
        <5> QED BY <3>2, <4>3, <5>1, <5>2
      <4> QED BY <2>1, <3>4, <4>1, <4>2, <4>3 DEF Evolves
    <3> QED BY <3>3, <3>4 DEF ServiceCopyOf
  <2> QED BY <2>2, <2>3 DEF Moves
<1> QED BY <1>4, <1>5 DEF ServiceInv

------------------------------------------------------------------------------
(* Steps that write no service. *)

LEMMA Still ==
    ASSUME TypeInv, UNCHANGED <<service, uids>>
    PROVE  Evolves
BY DEF Evolves, TypeInv, ClusterTypeOK

LEMMA GotoMoves ==
    ASSUME ProcTypeOK, NEW p \in Goroutines, NEW label \in Labels \ Updating,
           NEW l, Goto(p, label, l)
    PROVE  Moves
BY DEF Moves, Goto, ProcTypeOK, Publishing, Appending, Updating

LEMMA GotoWithFreshCopy ==
    ASSUME ProcTypeOK, NEW p \in Goroutines, NEW label, NEW l,
           l.svc = service'[l.name], Goto(p, label, l),
           \/ label \notin Appending
           \/ label = "updateService" /\ pc[p] = "getService" /\ l.target = at[p].target
    PROVE  Moves
BY DEF Moves, Goto, ProcTypeOK, Publishing, Appending

LEMMA ReplyMoves ==
    ASSUME ProcTypeOK, NEW p \in Goroutines, NEW label \in Labels \ Updating,
           NEW error \in Labels \ Updating, NEW l, Reply(p, label, l, error)
    PROVE  Moves
BY GotoMoves DEF Reply

LEMMA TransientErrorStep ==
    ASSUME TypeInv, NEW p \in Goroutines, NEW label \in Labels \ Updating,
           NEW l, TransientError(p, label, l)
    PROVE  Evolves /\ Moves
BY Still, GotoMoves DEF TransientError, objectVars, TypeInv, ProcsOK

LEMMA UpdateTunnelStatusStep ==
    ASSUME TypeInv, NEW p \in Goroutines, NEW label \in Labels \ Updating,
           NEW error \in Labels \ Updating, NEW t,
           UpdateTunnelStatus(p, t, label, error)
    PROVE  Evolves /\ Moves
<1>1. ProcTypeOK
  BY DEF TypeInv, ProcsOK
<1> DEFINE l == [at[p] EXCEPT !.tun = None]
<1>2. CASE Reply(p, label, l, error) /\ UNCHANGED <<service, uids>>
  BY <1>1, <1>2, Still, ReplyMoves
<1>3. CASE Goto(p, error, at[p]) /\ UNCHANGED clusterVars
  BY <1>1, <1>3, Still, GotoMoves DEF clusterVars, objectVars
<1>4. CASE TransientError(p, error, at[p])
  BY <1>4, TransientErrorStep
<1> QED BY <1>2, <1>3, <1>4 DEF UpdateTunnelStatus

------------------------------------------------------------------------------
(* Steps that write one. *)

LEMMA PutServiceEvolves ==
    ASSUME TypeInv, NEW s \in Services, NEW svc \in ServiceRecord,
           service[s] # None, svc.uid = service[s].uid, svc.rv = service[s].rv,
           service[s].ips[UserIP] <= svc.ips[UserIP],
           \A h \in Hosts : HostAddressMoves(service[s].ips, svc.ips, h),
           PutService(s, svc), UNCHANGED uids
    PROVE  Evolves
<1>1. service \in [Services -> ServiceRecord \cup {None}] /\ uids \in [service: Nat, tunnel: Nat]
  BY DEF TypeInv, ClusterTypeOK
<1>2. \A x \in Services : x # s => service'[x] = service[x]
  BY <1>1 DEF PutService
<1>3. service'[s] = service[s] \/ service'[s] = Bumped(svc)
  BY <1>1 DEF PutService
<1>4. Bumped(svc).uid = svc.uid /\ Bumped(svc).rv = svc.rv + 1 /\ Bumped(svc).ips = svc.ips
  BY DEF Bumped, ServiceRecord
<1> QED BY <1>1, <1>2, <1>3, <1>4 DEF Evolves

LEMMA WriteServiceStep ==
    ASSUME ServiceInv, NEW p \in Goroutines, pc[p] \in Publishing,
           NEW svc \in ServiceRecord, NEW label \in {"updateIngress", "succeeded"},
           svc.uid = at[p].svc.uid, svc.rv = at[p].svc.rv,
           svc.ips[UserIP] = at[p].svc.ips[UserIP],
           \A h \in Hosts :
              \/ svc.ips[h] \in {at[p].svc.ips[h], 0}
              \/ /\ p \in Workers /\ pc[p] = "updateService" /\ at[p].target = h
                 /\ svc.ips[h] = at[p].svc.ips[h] + 1,
           WriteService(p, svc, label)
    PROVE  Evolves /\ Moves
<1> DEFINE s == at[p].name
           l == [at[p] EXCEPT !.svc = service'[s]]
<1>1. TypeInv /\ ProcTypeOK
  BY DEF ServiceInv, TypeInv, ProcsOK
<1>2. s \in Services /\ at[p] \in Local
  BY DEF ServiceInv, TypeInv, ProcsOK, ProcTypeOK, CopiesOK, Holds, Publishing, Resting
<1>3. "failed" \in Labels \ Updating
  BY DEF Labels, Updating, Appending, Publishing
<1>4. CASE /\ Current(service[s], svc) /\ PutService(s, svc)
           /\ Reply(p, label, l, "failed") /\ UNCHANGED uids
  <2>1. service[s] # None /\ at[p].svc = service[s]
    BY <1>4 DEF Current, ServiceInv, ServiceCopiesTrue, ServiceCopyOf
  <2>2. service[s].ips[UserIP] <= svc.ips[UserIP]
    <3>1. service[s] \in ServiceRecord
      BY <1>2, <2>1 DEF ServiceInv, TypeInv, ClusterTypeOK
    <3>2. service[s].ips[UserIP] \in Nat
      BY <3>1 DEF ServiceRecord, Addresses
    <3> QED BY <2>1, <3>2
  <2>3. \A h \in Hosts : HostAddressMoves(service[s].ips, svc.ips, h)
    <3>1. pc'[p] \notin Appending
      BY <1>1, <1>4 DEF Reply, Goto, ProcTypeOK, Appending
    <3> QED BY <2>1, <3>1 DEF HostAddressMoves
  <2>4. Evolves
    BY <1>1, <1>2, <1>4, <2>1, <2>2, <2>3, PutServiceEvolves
  <2>5. l.svc = service'[l.name]
    BY <1>2 DEF Local
  <2>6. Moves
    <3>1. label \notin Appending /\ "failed" \notin Appending
      BY DEF Appending
    <3> HIDE DEF l
    <3> QED BY <1>1, <1>4, <2>5, <3>1, GotoWithFreshCopy DEF Reply
  <2> QED BY <2>4, <2>6
<1>5. CASE Goto(p, "failed", at[p]) /\ UNCHANGED clusterVars
  BY <1>1, <1>3, <1>5, Still, GotoMoves DEF clusterVars, objectVars
<1>6. CASE TransientError(p, "failed", at[p])
  BY <1>1, <1>3, <1>6, TransientErrorStep
<1> QED BY <1>4, <1>5, <1>6 DEF WriteService

(* The host's address is not the user's, so only the host's entry changes. *)
LEMMA updateServiceStep ==
    ASSUME ServiceInv, NEW p \in Goroutines, updateService(p)
    PROVE  Evolves /\ Moves
<1> DEFINE s == at[p].name
           svc == at[p].svc
           h == at[p].target
<1>1. TypeInv /\ ProcTypeOK
  BY DEF ServiceInv, TypeInv, ProcsOK
<1>2. at[p] \in Local /\ h # UserIP
  BY <1>1, ClusterAssumption DEF ProcTypeOK, Local
<1>3. {"failed"} \subseteq Labels \ Updating
  BY DEF Labels, Updating, Appending, Publishing
<1>4. CASE GetService(p)
  <2> DEFINE l == [at[p] EXCEPT !.svc = service[s]]
  <2>1. CASE Goto(p, "failed", at[p]) /\ UNCHANGED clusterVars
    BY <1>1, <1>3, <2>1, Still, GotoMoves DEF clusterVars, objectVars
  <2>2. CASE Goto(p, "updateService", l) /\ UNCHANGED clusterVars
    <3>1. service' = service /\ uids' = uids
      BY <2>2 DEF clusterVars, objectVars
    <3>2. l.svc = service'[l.name] /\ l.target = at[p].target
      BY <1>2, <3>1 DEF Local
    <3>3. Moves
      <4> HIDE DEF l
      <4> QED BY <1>1, <1>4, <2>2, <3>2, GotoWithFreshCopy DEF GetService
    <3> QED BY <1>1, <3>1, <3>3, Still
  <2>3. CASE TransientError(p, "failed", at[p])
    BY <1>1, <1>3, <2>3, TransientErrorStep
  <2> QED BY <1>4, <2>1, <2>2, <2>3 DEF GetService
<1>5. pc[p] \in Publishing => svc \in ServiceRecord
  BY <1>1 DEF TypeInv, ProcsOK, CopiesOK, Holds, Publishing, WithService
<1>6. CASE UpdateService(p)
  <2>1. svc \in ServiceRecord /\ pc[p] \in Publishing
    BY <1>5, <1>6 DEF UpdateService, Publishing
  <2> DEFINE added == WithAddress(svc, h)
             dropped == WithoutAddress(svc, h)
  <2>2. ASSUME NEW new, new = dropped \/ (new = added /\ p \in Workers)
        PROVE  /\ new \in ServiceRecord /\ new.uid = svc.uid /\ new.rv = svc.rv
               /\ new.ips[UserIP] = svc.ips[UserIP]
               /\ \A g \in Hosts :
                     \/ new.ips[g] \in {svc.ips[g], 0}
                     \/ /\ p \in Workers /\ pc[p] = "updateService" /\ at[p].target = g
                        /\ new.ips[g] = svc.ips[g] + 1
    <3>1. new \in ServiceRecord
      <4>1. added \in ServiceRecord /\ dropped \in ServiceRecord
        BY <2>1, ServiceEdits
      <4> HIDE DEF added, dropped
      <4> QED BY <2>2, <4>1
    <3>2. svc.ips \in [Addresses -> Nat] /\ UserIP \in Addresses
          /\ Hosts \subseteq Addresses
      BY <2>1 DEF ServiceRecord, Addresses
    <3>3. new.uid = svc.uid /\ new.rv = svc.rv /\ new.ips[UserIP] = svc.ips[UserIP]
      BY <1>2, <2>1, <2>2, <3>2 DEF WithAddress, WithoutAddress, ServiceRecord
    <3>4. ASSUME NEW g \in Hosts
          PROVE  /\ dropped.ips[g] \in {svc.ips[g], 0}
                 /\ g # h => added.ips[g] = svc.ips[g]
                 /\ g = h => added.ips[g] = svc.ips[g] + 1
      BY <2>1, <3>2 DEF WithAddress, WithoutAddress, ServiceRecord
    <3>5. pc[p] = "updateService"
      BY <1>6 DEF UpdateService
    <3> HIDE DEF added, dropped
    <3> QED BY <2>2, <3>1, <3>3, <3>4, <3>5
  <2>3. PICK new :
            /\ WriteService(p, new, "updateIngress")
            /\ new = dropped \/ (new = added /\ p \in Workers)
    BY <1>6 DEF UpdateService, Goroutines
  <2> HIDE DEF added, dropped
  <2> QED BY <2>1, <2>2, <2>3, WriteServiceStep
<1>7. CASE UpdateIngress(p)
  <2> DEFINE new == [svc EXCEPT !.ingress = svc.ips]
  <2>1. svc \in ServiceRecord /\ pc[p] \in Publishing
    BY <1>5, <1>7 DEF UpdateIngress, Publishing
  <2>2. new \in ServiceRecord /\ new.uid = svc.uid /\ new.rv = svc.rv /\ new.ips = svc.ips
    BY <2>1, ServiceEdits DEF ServiceRecord
  <2>3. WriteService(p, new, "succeeded")
    BY <1>7 DEF UpdateIngress
  <2> QED
    <3> HIDE DEF new
    <3> QED BY <2>1, <2>2, <2>3, WriteServiceStep
<1> QED BY <1>4, <1>6, <1>7 DEF updateService

------------------------------------------------------------------------------
(* Every action of the system. *)

LEMMA createTunnelResourceStep ==
    ASSUME TypeInv, NEW w \in Workers, createTunnelResource(w)
    PROVE  Evolves /\ Moves
<1>1. w \in Goroutines /\ ProcTypeOK /\ uids \in [service: Nat, tunnel: Nat]
  BY DEF Goroutines, TypeInv, ProcsOK, ClusterTypeOK
<1>2. {"succeeded", "failed", "createTunnel", "deleteTunnel", "setGenerated"}
      \subseteq Labels \ Updating
  BY DEF Labels, Updating, Appending, Publishing
<1>3. CASE GetTunnel(w)
  BY <1>1, <1>2, <1>3, Still, GotoMoves, TransientErrorStep
  DEF GetTunnel, clusterVars, objectVars
<1>4. CASE CreateTunnel(w)
  <2> DEFINE t == NewTunnel(at[w].svc.uid, TRUE, "none")
             l == [at[w] EXCEPT !.tun = t, !.svc = None]
  <2>1. CASE AddTunnel(at[w].name, t) /\ Reply(w, "setGenerated", l, "succeeded")
             /\ UNCHANGED service
    <3>1. Evolves
      BY <1>1, <2>1 DEF AddTunnel, Evolves
    <3>2. Moves
      BY <1>1, <1>2, <2>1, ReplyMoves
    <3> QED BY <3>1, <3>2
  <2>2. CASE Goto(w, "succeeded", at[w]) /\ UNCHANGED clusterVars
    BY <1>1, <1>2, <2>2, Still, GotoMoves DEF clusterVars, objectVars
  <2>3. CASE TransientError(w, "succeeded", at[w])
    BY <1>1, <1>2, <2>3, TransientErrorStep
  <2> QED BY <1>4, <2>1, <2>2, <2>3 DEF CreateTunnel
<1>5. CASE SetGenerated(w)
  BY <1>1, <1>2, <1>5, UpdateTunnelStatusStep DEF SetGenerated
<1>6. CASE DeleteTunnel(w)
  BY <1>1, <1>2, <1>6, Still, GotoMoves, ReplyMoves, TransientErrorStep
  DEF DeleteTunnel, clusterVars, objectVars
<1> QED BY <1>3, <1>4, <1>5, <1>6 DEF createTunnelResource

LEMMA createTunnelAuthTokenSecretStep ==
    ASSUME TypeInv, NEW w \in Workers, createTunnelAuthTokenSecret(w)
    PROVE  Evolves /\ Moves
<1>1. w \in Goroutines /\ ProcTypeOK
  BY DEF Goroutines, TypeInv, ProcsOK
<1>2. {"succeeded", "failed", "createSecret", "setAuthRef"} \subseteq Labels \ Updating
  BY DEF Labels, Updating, Appending, Publishing
<1>3. CASE GetSecret(w)
  BY <1>1, <1>2, <1>3, Still, GotoMoves, TransientErrorStep
  DEF GetSecret, clusterVars, objectVars
<1>4. CASE CreateSecret(w)
  BY <1>1, <1>2, <1>4, Still, GotoMoves, ReplyMoves, TransientErrorStep
  DEF CreateSecret, clusterVars, objectVars
<1>5. CASE SetAuthRef(w)
  BY <1>1, <1>2, <1>5, UpdateTunnelStatusStep DEF SetAuthRef
<1> QED BY <1>3, <1>4, <1>5 DEF createTunnelAuthTokenSecret

LEMMA ProvisionStep ==
    ASSUME TypeInv, NEW w \in Workers,
           HostConfig(w) \/ Provision(w) \/ SetProvisioning(w)
    PROVE  Evolves /\ Moves
<1>1. w \in Goroutines /\ ProcTypeOK
  BY DEF Goroutines, TypeInv, ProcsOK
<1>2. {"succeeded", "failed", "provision", "setProvisioning"} \subseteq Labels \ Updating
  BY DEF Labels, Updating, Appending, Publishing
<1>3. CASE HostConfig(w)
  BY <1>1, <1>2, <1>3, Still, GotoMoves, TransientErrorStep
  DEF HostConfig, clusterVars, objectVars
<1>4. CASE Provision(w)
  BY <1>1, <1>2, <1>4, Still, GotoMoves, ReplyMoves
  DEF Provision, clusterVars, objectVars
<1>5. CASE SetProvisioning(w)
  BY <1>1, <1>2, <1>5, UpdateTunnelStatusStep DEF SetProvisioning
<1> QED BY <1>3, <1>4, <1>5

(* The write that makes a worker publish its host's address. *)
LEMMA SetActiveStep ==
    ASSUME TypeInv, NEW w \in Workers, SetActive(w)
    PROVE  Evolves /\ Moves
<1> DEFINE t == at[w].tun
           l == [at[w] EXCEPT !.tun = None]
<1>1. w \in Goroutines /\ ProcTypeOK /\ at[w] \in Local
  BY DEF Goroutines, TypeInv, ProcsOK, ProcTypeOK
<1>2. {"succeeded", "failed"} \subseteq Labels \ Updating
  BY DEF Labels, Updating, Appending, Publishing
<1>3. CASE ~ownsService(t)
  BY <1>1, <1>2, <1>3, UpdateTunnelStatusStep DEF SetActive, AfterHostChange
<1>4. CASE ownsService(t)
  <2>1. pc[w] = "setActive"
        /\ UpdateTunnelStatus(w, [t EXCEPT !.hostStatus = "active"], "getService", "failed")
    BY <1>4 DEF SetActive, AfterHostChange
  <2> DEFINE new == [t EXCEPT !.hostStatus = "active"]
  <2>2. CASE /\ Current(tunnel[at[w].name], new) /\ PutTunnel(at[w].name, new)
             /\ Reply(w, "getService", l, "failed") /\ UNCHANGED <<service, uids>>
    <3>1. CASE Goto(w, "failed", l)
      BY <1>1, <1>2, <2>2, <3>1, Still, GotoMoves
    <3>2. CASE Goto(w, "getService", l)
      <4>1. /\ pc'[w] = "getService" /\ at'[w].target = at[w].target
            /\ \A q \in Goroutines \ {w} : pc'[q] = pc[q] /\ at'[q] = at[q]
        BY <1>1, <3>2 DEF Goto, ProcTypeOK, Local
      <4>2. t \in TunnelRecord
        BY <1>1, <2>1, AtWork DEF TypeInv, WithTunnel
      <4>3. new.uid = t.uid /\ new.rv = t.rv
        BY <4>2 DEF TunnelRecord
      <4>4. Activates(w)
        <5>1. Current(tunnel[at[w].name], t)
          BY <2>2, <4>3 DEF Current
        <5> QED BY <1>4, <2>1, <2>2, <4>1, <5>1 DEF Activates
      <4>5. Moves
        BY <4>1, <4>4 DEF Moves, Publishing
      <4> QED BY <2>2, <4>5, Still
    <3> QED BY <2>2, <3>1, <3>2 DEF Reply
  <2>3. CASE Goto(w, "failed", at[w]) /\ UNCHANGED clusterVars
    BY <1>1, <1>2, <2>3, Still, GotoMoves DEF clusterVars, objectVars
  <2>4. CASE TransientError(w, "failed", at[w])
    BY <1>1, <1>2, <2>4, TransientErrorStep
  <2> QED BY <2>1, <2>2, <2>3, <2>4 DEF UpdateTunnelStatus
<1> QED BY <1>3, <1>4

LEMMA syncProvisioningHostStatusStep ==
    ASSUME ServiceInv, NEW w \in Workers, syncProvisioningHostStatus(w)
    PROVE  Evolves /\ Moves
<1>1. w \in Goroutines /\ ProcTypeOK /\ TypeInv
  BY DEF Goroutines, ServiceInv, TypeInv, ProcsOK
<1>2. {"succeeded", "failed", "setActive"} \subseteq Labels \ Updating
  BY DEF Labels, Updating, Appending, Publishing
<1>3. CASE HostStatus(w)
  BY <1>1, <1>2, <1>3, Still, GotoMoves DEF HostStatus, clusterVars, objectVars
<1> QED BY <1>1, <1>3, SetActiveStep, updateServiceStep DEF syncProvisioningHostStatus

LEMMA syncActiveStep ==
    ASSUME TypeInv, NEW w \in Workers, syncActive(w)
    PROVE  Evolves /\ Moves
<1>1. w \in Goroutines /\ ProcTypeOK
  BY DEF Goroutines, TypeInv, ProcsOK
<1>2. {"succeeded", "failed", "readClient", "createLicense", "updateLicense",
       "createClient", "updateClient", "setClientRef"} \subseteq Labels \ Updating
  BY DEF Labels, Updating, Appending, Publishing
<1>3. CASE GetLicense(w)
  <2>1. license \in {"absent", "stale", "current"}
    BY DEF TypeInv, ClusterTypeOK
  <2>2. PICK label \in {"readClient", "updateLicense", "createLicense", "failed"} :
            \/ Goto(w, label, at[w]) /\ UNCHANGED clusterVars
            \/ TransientError(w, label, at[w])
    BY <1>3, <2>1 DEF GetLicense
  <2> QED BY <1>1, <1>2, <2>2, Still, GotoMoves, TransientErrorStep
          DEF clusterVars, objectVars
<1>4. CASE WriteLicense(w)
  BY <1>1, <1>2, <1>4, Still, GotoMoves, ReplyMoves, TransientErrorStep
  DEF WriteLicense, clusterVars, objectVars
<1>5. CASE ReadClient(w)
  BY <1>1, <1>2, <1>5, Still, GotoMoves, TransientErrorStep
  DEF ReadClient, clusterVars, objectVars
<1>6. CASE UpdateClient(w)
  BY <1>1, <1>2, <1>6, Still, GotoMoves, ReplyMoves, TransientErrorStep
  DEF UpdateClient, PutDeployment, clusterVars, objectVars
<1>7. CASE CreateClient(w)
  BY <1>1, <1>2, <1>7, Still, GotoMoves, TransientErrorStep
  DEF CreateClient, PutDeployment, clusterVars, objectVars
<1>8. CASE SetClientRef(w)
  BY <1>1, <1>2, <1>8, UpdateTunnelStatusStep DEF SetClientRef
<1> QED BY <1>3, <1>4, <1>5, <1>6, <1>7, <1>8 DEF syncActive

LEMMA WorkerStep ==
    ASSUME ServiceInv, NEW w \in Workers, Worker(w)
    PROVE  Evolves /\ Moves
<1>1. w \in Goroutines /\ ProcTypeOK /\ TypeInv
  BY DEF Goroutines, ServiceInv, TypeInv, ProcsOK
<1>2. {"succeeded", "failed", "done", "idle", "getTunnel", "getLicense",
       "hostStatus", "getSecret", "hostConfig"} \subseteq Labels \ Updating
  BY DEF Labels, Updating, Appending, Publishing
<1>3. ASSUME NEW k \in Keys, Take(w, k) PROVE Evolves /\ Moves
  <2>1. PICK label \in Labels \ Updating : \E l : Goto(w, label, l)
    BY <1>2, <1>3 DEF Take, SyncLabel
  <2> QED BY <1>1, <1>3, <2>1, Still, GotoMoves DEF Take, clusterVars, objectVars
<1>4. CASE Requeue(w) \/ Finish(w)
  BY <1>1, <1>2, <1>4, Still, GotoMoves DEF Requeue, Finish, clusterVars, objectVars
<1>5. CASE syncHandler(w)
  BY <1>1, <1>5, createTunnelResourceStep, createTunnelAuthTokenSecretStep,
     ProvisionStep, syncProvisioningHostStatusStep, syncActiveStep DEF syncHandler
<1> QED BY <1>3, <1>4, <1>5 DEF Worker

LEMMA ListenerStepEvolves ==
    ASSUME ServiceInv, ListenerStep
    PROVE  Evolves /\ Moves
<1>1. Listener \in Goroutines /\ ProcTypeOK /\ TypeInv
  BY DEF Goroutines, ServiceInv, TypeInv, ProcsOK
<1>2. {"succeeded", "getService"} \subseteq Labels \ Publishing
  BY DEF Labels, Publishing
<1>3. CASE DeleteFunc
  <2>1. service' = service /\ uids' = uids
    BY <1>3 DEF DeleteFunc, objectVars
  <2>2. \/ UNCHANGED procVars
        \/ \E label \in Labels \ Publishing : \E l : Goto(Listener, label, l)
    BY <1>2, <1>3 DEF DeleteFunc, AfterHostChange
  <2>3. Moves
    BY <1>1, <2>2 DEF Moves, Goto, ProcTypeOK, procVars, Publishing
  <2> QED BY <1>1, <2>1, <2>3, Still
<1> QED BY <1>1, <1>3, updateServiceStep DEF ListenerStep

LEMMA EditsKeep ==
    ASSUME NEW svc \in ServiceRecord, NEW new, NEW value,
           \/ new = [svc EXCEPT !.manage = value]
           \/ new = [svc EXCEPT !.lb = value]
           \/ new = [svc EXCEPT !.ports = value]
    PROVE  new.uid = svc.uid /\ new.rv = svc.rv /\ new.ips = svc.ips
BY DEF ServiceRecord

LEMMA AddIPKeeps ==
    ASSUME NEW svc \in ServiceRecord, NEW new, new = [svc EXCEPT !.ips[UserIP] = 1]
    PROVE  /\ new.uid = svc.uid /\ new.rv = svc.rv /\ new.ips[UserIP] = 1
           /\ \A h \in Hosts : new.ips[h] = svc.ips[h]
<1>1. /\ svc.ips \in [Addresses -> Nat] /\ UserIP \in Addresses
      /\ Hosts \subseteq Addresses /\ UserIP \notin Hosts
  BY ClusterAssumption DEF ServiceRecord, Addresses
<1> QED BY <1>1 DEF ServiceRecord

(* No goroutine moves. *)
LEMMA EnvironmentStep ==
    ASSUME TypeInv, Environment
    PROVE  Evolves
<1>1. service \in [Services -> ServiceRecord \cup {None}] /\ uids \in [service: Nat, tunnel: Nat]
  BY DEF TypeInv, ClusterTypeOK
<1>2. ASSUME NEW s \in Services, CreateService(s) PROVE Evolves
  <2>1. PICK svc : /\ svc.uid = uids.service + 1 /\ svc.ips = NoAddress
                   /\ service' = [service EXCEPT ![s] = svc]
    BY <1>2 DEF CreateService, NewService
  <2>2. service[s] = None /\ uids'.service = uids.service + 1
    BY <1>2 DEF CreateService
  <2> QED BY <1>1, <2>1, <2>2 DEF Evolves
<1>3. ASSUME NEW s \in Services, DeleteService(s) PROVE Evolves
  BY <1>1, <1>3 DEF DeleteService, Evolves
<1>4. ASSUME NEW s \in Services, EditService(s) PROVE Evolves
  <2>1. service[s] \in ServiceRecord /\ service[s] # None
    BY <1>1, <1>4 DEF EditService
  <2>2. service[s].ips \in [Addresses -> Nat] /\ UserIP \in Addresses
    BY <2>1 DEF ServiceRecord, Addresses
  <2>3. PICK svc \in ServiceRecord :
            /\ PutService(s, svc)
            /\ svc.uid = service[s].uid /\ svc.rv = service[s].rv
            /\ \/ svc.ips = service[s].ips
               \/ service[s].ips[UserIP] = 0 /\ svc.ips[UserIP] = 1
            /\ \A h \in Hosts : svc.ips[h] = service[s].ips[h]
    <3>1. CASE \E m \in Annotations : PutService(s, [service[s] EXCEPT !.manage = m])
      <4>1. PICK m \in Annotations : PutService(s, [service[s] EXCEPT !.manage = m])
        BY <3>1
      <4> DEFINE svc == [service[s] EXCEPT !.manage = m]
      <4>2. svc \in ServiceRecord
        BY <2>1, ServiceEdits, ClusterAssumption
      <4>3. svc.uid = service[s].uid /\ svc.rv = service[s].rv /\ svc.ips = service[s].ips
        BY <2>1, EditsKeep
      <4> QED BY <4>1, <4>2, <4>3
    <3>2. CASE \E lb \in Types : PutService(s, [service[s] EXCEPT !.lb = lb])
      <4>1. PICK lb \in Types : PutService(s, [service[s] EXCEPT !.lb = lb])
        BY <3>2
      <4> DEFINE svc == [service[s] EXCEPT !.lb = lb]
      <4>2. svc \in ServiceRecord
        BY <2>1, ServiceEdits, ClusterAssumption
      <4>3. svc.uid = service[s].uid /\ svc.rv = service[s].rv /\ svc.ips = service[s].ips
        BY <2>1, EditsKeep
      <4> QED BY <4>1, <4>2, <4>3
    <3>3. CASE \E q \in Ports : PutService(s, [service[s] EXCEPT !.ports = q])
      <4>1. PICK q \in Ports : PutService(s, [service[s] EXCEPT !.ports = q])
        BY <3>3
      <4> DEFINE svc == [service[s] EXCEPT !.ports = q]
      <4>2. svc \in ServiceRecord
        BY <2>1, ServiceEdits
      <4>3. svc.uid = service[s].uid /\ svc.rv = service[s].rv /\ svc.ips = service[s].ips
        BY <2>1, EditsKeep
      <4> QED BY <4>1, <4>2, <4>3
    <3>4. CASE /\ service[s].ips[UserIP] = 0
               /\ PutService(s, [service[s] EXCEPT !.ips[UserIP] = 1])
      <4> DEFINE svc == [service[s] EXCEPT !.ips[UserIP] = 1]
      <4>1. svc \in ServiceRecord
        BY <2>1, ServiceEdits
      <4> QED BY <2>1, <3>4, <4>1, AddIPKeeps
    <3> QED BY <1>4, <3>1, <3>2, <3>3, <3>4 DEF EditService
  <2>4. service[s].ips[UserIP] <= svc.ips[UserIP]
    BY <2>2, <2>3
  <2>5. \A h \in Hosts : HostAddressMoves(service[s].ips, svc.ips, h)
    BY <2>3 DEF HostAddressMoves
  <2> QED BY <1>4, <2>1, <2>3, <2>4, <2>5, PutServiceEvolves DEF EditService
<1>5. ASSUME NEW s \in Services, EditTunnel(s) PROVE Evolves
  BY <1>1, <1>5 DEF EditTunnel, AddTunnel, Evolves
<1>6. ASSUME NEW s \in Services, EditOther(s) PROVE Evolves
  BY <1>6, Still DEF EditOther
<1>7. ASSUME NEW s \in Services,
             CollectTunnel(s) \/ CollectSecret(s) \/ CollectDeployment(s)
      PROVE  Evolves
  BY <1>7, Still DEF CollectTunnel, CollectSecret, CollectDeployment
<1>8. ASSUME NEW h \in Hosts, Boot(h) PROVE Evolves
  BY <1>8, Still DEF Boot, objectVars
<1> QED BY <1>2, <1>3, <1>4, <1>5, <1>6, <1>7, <1>8 DEF Environment, UserEdit

LEMMA NextStep ==
    ASSUME ServiceInv, [Next]_vars
    PROVE  Evolves /\ Moves
<1>1. TypeInv
  BY DEF ServiceInv
<1>2. UNCHANGED procVars => Moves
  BY DEF procVars, Moves
<1>3. CASE Informers
  BY <1>1, <1>2, <1>3, Still
  DEF Informers, DeliverTunnel, DeliverService, Resync, handleObject, RelistTunnels,
      RelistServices, clusterVars, objectVars
<1>4. ASSUME NEW k \in Keys, Merge(k) PROVE Evolves /\ Moves
  BY <1>1, <1>2, <1>4, Still DEF Merge, clusterVars, objectVars
<1>5. CASE Environment /\ UNCHANGED operatorVars
  BY <1>1, <1>2, <1>5, EnvironmentStep DEF operatorVars
<1>6. CASE Stop
  BY <1>1, <1>2, <1>6, Still DEF Stop, objectVars
<1>7. CASE Restart
  <2>1. Moves
    BY <1>7 DEF Restart, Moves, Publishing, Appending
  <2> QED BY <1>1, <1>7, <2>1, Still DEF Restart, objectVars
<1>8. CASE UNCHANGED vars
  BY <1>1, <1>2, <1>8, Still DEF vars, clusterVars, objectVars
<1> QED
  BY <1>3, <1>4, <1>5, <1>6, <1>7, <1>8, WorkerStep, ListenerStepEvolves DEF Next

LEMMA ServiceInvariant == Spec => []ServiceInv
<1>1. Init => ServiceInv
  <2> SUFFICES ASSUME Init PROVE UidsGivenOut /\ ServiceCopiesTrue
    BY TypeInvInit DEF ServiceInv
  <2> QED BY DEF Init, ClusterInit, ProcInit, UidsGivenOut, ServiceCopiesTrue, Publishing
<1>2. ServiceInv /\ [Next]_vars => ServiceInv'
  <2> SUFFICES ASSUME ServiceInv, [Next]_vars PROVE ServiceInv'
    OBVIOUS
  <2>1. TypeInv'
    BY TypeInvStep DEF ServiceInv
  <2> QED BY <2>1, NextStep, StepKeepsInv
<1> QED BY <1>1, <1>2, PTL DEF Spec

(* Whoever updates a service - a worker that publishes a new host's address or
   the listener that withdraws a deleted one's - never drops an address that
   the user added since it was read (updateService, controller.go:1071-1093). *)
THEOREM UserAddressesKept == Spec => UserAddressKept
<1>1. ServiceInv /\ [Next]_vars => [Kept]_vars
  BY NextStep, KeptByEvolution
<1>2. Spec => [][Kept]_vars
  BY <1>1, ServiceInvariant, PTL DEF Spec
<1>3. [Kept]_vars <=>
      [\A s \in Services :
          service[s] # None /\ service'[s] # None /\ service[s].uid = service'[s].uid
          => service[s].ips[UserIP] <= service'[s].ips[UserIP]]_vars
  BY DEF Kept
<1> QED BY <1>2, <1>3, PTL DEF UserAddressKept
==============================================================================
