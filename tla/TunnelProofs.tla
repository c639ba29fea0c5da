----------------------------- MODULE TunnelProofs -----------------------------
(****************************************************************************)
(* Optimistic concurrency on tunnels: whatever copy of a tunnel a worker      *)
(* holds, the cache has or an event carries, it is the tunnel as it is or an  *)
(* earlier version of it, so writing a status from it takes nothing back.     *)
(****************************************************************************)
EXTENDS OperatorProofs

(* The requests that write a tunnel's status, and what they write. *)
StatusWrites ==
    {"setGenerated", "setAuthRef", "setProvisioning", "setActive", "setClientRef"}

NewStatus(label, l) ==
    CASE label = "setGenerated"    -> [l.tun EXCEPT !.generated = TRUE]
      [] label = "setAuthRef"      -> [l.tun EXCEPT !.auth = "status"]
      [] label = "setProvisioning" -> [l.tun EXCEPT !.hostStatus = "provisioning",
                                                    !.hostID = l.target]
      [] label = "setActive"       -> [l.tun EXCEPT !.hostStatus = "active"]
      [] label = "setClientRef"    -> l.tun

WithActiveTunnel ==
    {"getLicense", "createLicense", "updateLicense", "readClient",
     "updateClient", "createClient", "setClientRef"}

(* What the branches that led a worker to a request tell of its copies. *)
Knows(label, l) ==
    /\ label \in {"getSecret", "createSecret", "setAuthRef"}
          => l.tun.hostStatus = "" /\ l.tun.auth = "none"
    /\ label \in {"hostConfig", "provision", "setProvisioning"}
          => l.tun.hostStatus = ""
    /\ label = "setProvisioning" => l.target \in Hosts
    /\ label \in {"hostStatus", "setActive"} => l.tun.hostStatus = "provisioning"
    /\ label = "setActive" => l.target = l.tun.hostID
    /\ label \in WithActiveTunnel => l.tun.hostStatus = "active"
    /\ label = "createClient" => l.tun.clientRef # "named"

KnowsOK == \A p \in Goroutines : Knows(pc[p], at[p])

(* Where tunnel s is known: at the API server, in the cache, in events on
   their way, in deletions to be handled and in the workers' variables. *)
InStream(t, s) ==
    \E i \in DOMAIN tunnelStream[s] : tunnelStream[s][i].object = t
InDeletions(t, s) ==
    \E i \in DOMAIN deletions : deletions[i].name = s /\ deletions[i].object = t
InWork(t, s) ==
    \E p \in Goroutines :
        pc[p] \in WithTunnel /\ at[p].name = s /\ at[p].tun = t

IsCopy(t, s) ==
    \/ t = tunnel[s] \/ t = tunnelCache[s]
    \/ InStream(t, s) \/ InDeletions(t, s) \/ InWork(t, s)

IsDeleted(t, s) ==
    \/ InDeletions(t, s)
    \/ \E i \in DOMAIN tunnelStream[s] :
          tunnelStream[s][i].type = "deleted" /\ tunnelStream[s][i].object = t

SameButClient(t, c) == [t EXCEPT !.clientRef = "none"] = [c EXCEPT !.clientRef = "none"]

(* A copy is the tunnel or an earlier version, in which at most the host was
   not recorded yet.  createClientDeployment sets the client's name in the
   cached object before the API server has it. *)
CopyOf(t, s) ==
    /\ t.uid <= uids.tunnel
    /\ t.hostStatus = "" <=> t.hostID = None
    /\ tunnel[s] # None /\ tunnel[s].uid = t.uid =>
          /\ t.rv <= tunnel[s].rv
          /\ t.hostID \in {None, tunnel[s].hostID}
          /\ t.rv = tunnel[s].rv =>
                /\ SameButClient(t, tunnel[s])
                /\ tunnel[s].clientRef = "named" => t.clientRef = "named"

CopiesTrue == \A s \in Services, t \in TunnelRecord : IsCopy(t, s) => CopyOf(t, s)

TunnelInv == TypeInv /\ KnowsOK /\ CopiesTrue

------------------------------------------------------------------------------
(* What every step does to tunnels, hosts and what is known of them. *)

Created(s) ==
    /\ tunnel[s] = None /\ tunnel'[s] \in TunnelRecord
    /\ uids'.tunnel = uids.tunnel + 1 /\ tunnel'[s].uid = uids'.tunnel
    /\ tunnel'[s].hostStatus = "" /\ tunnel'[s].hostID = None

Removed(s) == tunnel[s] # None /\ tunnel'[s] = None

Written(s) ==
    \E w \in Workers :
        /\ pc[w] \in StatusWrites /\ pc'[w] \notin WithTunnel
        /\ at[w].name = s /\ Current(tunnel[s], at[w].tun)
        /\ tunnel'[s] = Bumped(NewStatus(pc[w], at[w]))

(* One tunnel changes at a time, and no host with it. *)
TunnelsEvolve ==
    /\ uids.tunnel <= uids'.tunnel
    /\ \/ tunnel' = tunnel
       \/ /\ host' = host
          /\ \E s \in Services :
                /\ \A x \in Services \ {s} : tunnel'[x] = tunnel[x]
                /\ Created(s) \/ Removed(s) \/ Written(s)

(* A host is deleted for a tunnel that was. *)
HostsEvolve ==
    \/ host' = host
    \/ \E h \in Hosts :
          /\ \A x \in Hosts \ {h} : host'[x] = host[x]
          /\ \/ host[h] = "free" /\ host'[h] = "booting"
             \/ host[h] = "booting" /\ host'[h] = "active"
             \/ /\ host'[h] = "gone"
                /\ \E s \in Services, t \in TunnelRecord :
                      IsDeleted(t, s) /\ t.hostID = h

(* A copy in which createClientDeployment has set the client's reference. *)
Renamed(t, s) ==
    \E c, d \in TunnelRecord :
        /\ IsCopy(c, s) /\ IsCopy(d, s)
        /\ SameButClient(t, c)
        /\ c.uid = d.uid /\ c.rv = d.rv /\ d.clientRef # "named"

CopiesMove ==
    \A s \in Services, t \in TunnelRecord :
        IsCopy(t, s)' => IsCopy(t, s) \/ t = tunnel'[s] \/ Renamed(t, s)

DeletionsMove ==
    \A s \in Services, t \in TunnelRecord :
        IsDeleted(t, s)' => IsDeleted(t, s) \/ (t = tunnel[s] /\ tunnel'[s] = None)

(* A host to be recorded was ordered just now, one to be made active is. *)
WorkersMove ==
    \A p \in Goroutines :
        /\ pc'[p] = "setProvisioning" =>
              \/ pc[p] = "setProvisioning" /\ at'[p] = at[p]
              \/ /\ host[at'[p].target] = "free" /\ host'[at'[p].target] = "booting"
                 /\ \A q \in Goroutines \ {p} : pc'[q] = pc[q] /\ at'[q] = at[q]
        /\ pc'[p] = "setActive" =>
              \/ pc[p] = "setActive" /\ at'[p] = at[p]
              \/ host[at'[p].target] = "active" /\ host' = host

DeploymentsMove ==
    \A s \in Services :
        \/ deployment'[s] \in {deployment[s], None}
        \/ \E w \in Workers :
              /\ pc[w] \in {"createClient", "updateClient"} /\ at[w].name = s
              /\ deployment'[s].owner = at[w].tun.uid
              /\ deployment'[s].hostIP = HostIP(at[w].tun)

TunnelStep ==
    /\ TunnelsEvolve /\ HostsEvolve /\ CopiesMove /\ DeletionsMove
    /\ WorkersMove /\ DeploymentsMove

------------------------------------------------------------------------------
(* Steps that only move a goroutine. *)

tunnelVars == <<tunnel, tunnelStream, tunnelCache, deletions>>

(* Whoever has a tunnel had it before. *)
Carried ==
    \A p \in Goroutines : pc'[p] \in WithTunnel =>
        pc[p] \in WithTunnel /\ at'[p].name = at[p].name /\ at'[p].tun = at[p].tun

LEMMA QuietCopies ==
    ASSUME Carried, UNCHANGED tunnelVars
    PROVE  CopiesMove /\ DeletionsMove
<1>1. ASSUME NEW s \in Services, NEW t \in TunnelRecord
      PROVE  /\ IsCopy(t, s)' => IsCopy(t, s)
             /\ IsDeleted(t, s)' => IsDeleted(t, s)
  <2>1. InWork(t, s)' => InWork(t, s)
    BY DEF Carried, InWork
  <2> QED BY <2>1 DEF tunnelVars, IsCopy, IsDeleted, InStream, InDeletions
<1> QED BY <1>1 DEF CopiesMove, DeletionsMove

LEMMA QuietStep ==
    ASSUME TypeInv, Carried, WorkersMove, UNCHANGED <<tunnelVars, host, uids>>,
           DeploymentsMove
    PROVE  TunnelStep
<1>1. TunnelsEvolve
  BY DEF TunnelsEvolve, tunnelVars, TypeInv, ClusterTypeOK
<1>2. HostsEvolve
  BY DEF HostsEvolve
<1> QED BY <1>1, <1>2, QuietCopies DEF TunnelStep

LEMMA GotoQuiet ==
    ASSUME TypeInv, KnowsOK, NEW p \in Goroutines, NEW label \in Labels, NEW l,
           label \notin {"setProvisioning", "setActive"},
           label \in WithTunnel =>
               pc[p] \in WithTunnel /\ l.name = at[p].name /\ l.tun = at[p].tun,
           label \notin {"succeeded", "failed"} => Knows(label, l),
           Goto(p, label, l)
    PROVE  KnowsOK' /\ Carried /\ WorkersMove
<1>1. ProcTypeOK
  BY DEF TypeInv, ProcsOK
<1>2. \A q \in Goroutines : q # p => pc'[q] = pc[q] /\ at'[q] = at[q]
  BY <1>1 DEF Goto, ProcTypeOK
<1>3. /\ pc'[p] = label \/ pc'[p] \in {"idle", "succeeded", "failed"}
      /\ label \notin {"succeeded", "failed"} => pc'[p] = label /\ at'[p] = l
  BY <1>1 DEF Goto, ProcTypeOK
<1>4. \A m : Knows("idle", m) /\ Knows("succeeded", m) /\ Knows("failed", m)
  BY DEF Knows, WithActiveTunnel
<1>5. KnowsOK'
  <2> SUFFICES ASSUME NEW q \in Goroutines PROVE Knows(pc'[q], at'[q])
    BY DEF KnowsOK, Knows
  <2>1. CASE q = p
    BY <1>3, <1>4, <2>1
  <2>2. CASE q # p
    BY <1>2, <2>2 DEF KnowsOK
  <2> QED BY <2>1, <2>2
<1>6. Carried
  BY <1>2, <1>3 DEF Carried, WithTunnel
<1>7. WorkersMove
  BY <1>2, <1>3 DEF WorkersMove
<1> QED BY <1>5, <1>6, <1>7

LEMMA StillProcs ==
    ASSUME KnowsOK, UNCHANGED procVars
    PROVE  KnowsOK' /\ Carried /\ WorkersMove
BY DEF procVars, KnowsOK, Knows, Carried, WorkersMove

LEMMA StillDeployment ==
    ASSUME UNCHANGED deployment
    PROVE  DeploymentsMove
BY DEF DeploymentsMove

------------------------------------------------------------------------------
(* Steps that change a tunnel. *)

LEMMA EmitAdds ==
    ASSUME NEW R, NEW stream \in [Services -> Seq(Event(R))],
           NEW s \in Services, NEW type, NEW object, NEW x \in Services,
           NEW i \in DOMAIN Emit(stream, s, type, object)[x]
    PROVE  LET e == Emit(stream, s, type, object)[x][i]
           IN  \/ i \in DOMAIN stream[x] /\ e = stream[x][i]
               \/ x = s /\ e = [type |-> type, object |-> object]
<1>1. CASE x # s
  BY <1>1 DEF Emit
<1>2. CASE x = s
  <2>1. Emit(stream, s, type, object)[x] = Append(stream[s], [type |-> type, object |-> object])
    BY <1>2 DEF Emit
  <2> QED BY <1>2, <2>1
<1> QED BY <1>1, <1>2

(* A version that was put at the API server is in its event and, at most, in
   the hands of the worker that made it. *)
LEMMA EmitStep ==
    ASSUME TypeInv, NEW s \in Services, NEW type \in {"set", "deleted"},
           NEW t \in TunnelRecord,
           tunnelStream' = Emit(tunnelStream, s, type, t),
           UNCHANGED <<tunnelCache, deletions>>,
           \A x \in Services \ {s} : tunnel'[x] = tunnel[x],
           type = "set" => t = tunnel'[s],
           type = "deleted" => t = tunnel[s] /\ tunnel'[s] = None,
           \A p \in Goroutines : pc'[p] \in WithTunnel =>
              \/ pc[p] \in WithTunnel /\ at'[p].name = at[p].name /\ at'[p].tun = at[p].tun
              \/ at'[p].name = s /\ at'[p].tun = tunnel'[s]
    PROVE  CopiesMove /\ DeletionsMove
<1> SUFFICES ASSUME NEW x \in Services, NEW u \in TunnelRecord
             PROVE  /\ IsCopy(u, x)' => IsCopy(u, x) \/ u = tunnel'[x]
                    /\ IsDeleted(u, x)' => IsDeleted(u, x) \/ (u = tunnel[x] /\ tunnel'[x] = None)
  BY DEF CopiesMove, DeletionsMove
<1>1. tunnelStream \in [Services -> Seq(Event(TunnelRecord))]
  BY DEF TypeInv, ClusterTypeOK
<1>2. ASSUME NEW i \in DOMAIN tunnelStream'[x]
      PROVE  \/ i \in DOMAIN tunnelStream[x] /\ tunnelStream'[x][i] = tunnelStream[x][i]
             \/ x = s /\ tunnelStream'[x][i] = [type |-> type, object |-> t]
  BY <1>1, <1>2, EmitAdds
<1>3. InStream(u, x)' => InStream(u, x) \/ (x = s /\ u = t)
  BY <1>2 DEF InStream
<1>4. InWork(u, x)' => InWork(u, x) \/ (x = s /\ u = tunnel'[s])
  BY DEF InWork
<1>5. InDeletions(u, x)' <=> InDeletions(u, x)
  BY DEF InDeletions
<1>6. IsCopy(u, x)' => IsCopy(u, x) \/ u = tunnel'[x]
  BY <1>3, <1>4, <1>5 DEF IsCopy
<1>7. IsDeleted(u, x)' => IsDeleted(u, x) \/ (u = tunnel[x] /\ tunnel'[x] = None)
  BY <1>2, <1>5 DEF IsDeleted
<1> QED BY <1>6, <1>7

LEMMA StatusWriteStep ==
    ASSUME TypeInv, KnowsOK, NEW w \in Workers, pc[w] \in StatusWrites,
           NEW label \in {"succeeded", "getService"}, NEW error \in {"succeeded", "failed"},
           UpdateTunnelStatus(w, NewStatus(pc[w], at[w]), label, error),
           UNCHANGED cacheVars
    PROVE  TunnelStep /\ KnowsOK'
<1> DEFINE s == at[w].name
           t == NewStatus(pc[w], at[w])
           l == [at[w] EXCEPT !.tun = None]
<1> USE DEF Labels, Resting, WithTunnel, WithActiveTunnel, StatusWrites
<1>1. /\ w \in Goroutines /\ at[w] \in Local /\ s \in Services /\ at[w].tun \in TunnelRecord
      /\ Knows(pc[w], at[w])
  BY AtWork DEF TypeInv, KnowsOK
<1>2. t \in TunnelRecord /\ t.uid = at[w].tun.uid /\ t.rv = at[w].tun.rv
  <2>1. pc[w] = "setProvisioning" => at[w].target \in Hosts
    BY <1>1 DEF Knows
  <2>2. t \in TunnelRecord
    BY <1>1, <2>1, TunnelEdits DEF NewStatus
  <2>3. t.uid = at[w].tun.uid /\ t.rv = at[w].tun.rv
    BY <1>1 DEF NewStatus, TunnelRecord
  <2> QED BY <2>2, <2>3
<1>3. \A m : /\ label # "succeeded" => Knows(label, m)
             /\ label \in Labels /\ error \in Labels
  BY DEF Knows
<1>4. CASE /\ Current(tunnel[s], t) /\ PutTunnel(s, t) /\ Reply(w, label, l, error)
           /\ UNCHANGED <<deployment, host, uids>>
  <2>1. PICK q \in {label, error} : Goto(w, q, l)
    BY <1>4 DEF Reply
  <2>2. KnowsOK' /\ Carried /\ WorkersMove
    <3> HIDE DEF l
    <3> QED BY <1>1, <1>3, <2>1, GotoQuiet
  <2>3. CASE UNCHANGED <<tunnel, tunnelStream>>
    BY <1>4, <2>2, <2>3, QuietStep, StillDeployment DEF tunnelVars, cacheVars
  <2>4. CASE /\ tunnel' = [tunnel EXCEPT ![s] = Bumped(t)]
             /\ tunnelStream' = Emit(tunnelStream, s, "set", Bumped(t))
    <3>1. Bumped(t) \in TunnelRecord /\ tunnel'[s] = Bumped(t)
          /\ \A x \in Services \ {s} : tunnel'[x] = tunnel[x]
      BY <1>1, <1>2, <2>4, BumpedType DEF TypeInv, ClusterTypeOK
    <3>2. CopiesMove /\ DeletionsMove
      BY <1>1, <2>2, <2>4, <3>1, EmitStep DEF Carried, cacheVars
    <3>3. pc'[w] \notin WithTunnel
      BY <1>1, <2>1 DEF Goto, TypeInv, ProcsOK, ProcTypeOK
    <3>4. Current(tunnel[s], at[w].tun)
      BY <1>2, <1>4 DEF Current
    <3>5. TunnelsEvolve
      <4>1. Written(s)
        BY <3>1, <3>3, <3>4 DEF Written
      <4>2. uids.tunnel \in Nat /\ uids' = uids /\ host' = host
        BY <1>4 DEF TypeInv, ClusterTypeOK
      <4> QED BY <1>1, <3>1, <4>1, <4>2 DEF TunnelsEvolve
    <3>6. HostsEvolve /\ DeploymentsMove
      BY <1>4, StillDeployment DEF HostsEvolve
    <3> QED BY <2>2, <3>2, <3>5, <3>6 DEF TunnelStep
  <2> QED BY <1>4, <2>3, <2>4 DEF PutTunnel
<1>5. CASE Goto(w, error, at[w]) /\ UNCHANGED clusterVars
  <2>1. KnowsOK' /\ Carried /\ WorkersMove
    BY <1>1, <1>3, <1>5, GotoQuiet
  <2> QED BY <1>5, <2>1, QuietStep, StillDeployment
          DEF clusterVars, objectVars, streamVars, tunnelVars, cacheVars
<1>6. CASE TransientError(w, error, at[w])
  <2>1. KnowsOK' /\ Carried /\ WorkersMove
    BY <1>1, <1>3, <1>6, GotoQuiet DEF TransientError
  <2> QED BY <1>6, <2>1, QuietStep, StillDeployment
          DEF TransientError, objectVars, streamVars, tunnelVars, cacheVars
<1> QED BY <1>4, <1>5, <1>6 DEF UpdateTunnelStatus

(* A worker goes on with the tunnel it has. *)
LEMMA GoOnStep ==
    ASSUME TypeInv, KnowsOK, NEW w \in Workers, NEW label \in Labels, NEW l,
           label \notin {"setProvisioning", "setActive"},
           label \in WithTunnel =>
               pc[w] \in WithTunnel /\ l.name = at[w].name /\ l.tun = at[w].tun,
           label \notin {"succeeded", "failed"} => Knows(label, l),
           Goto(w, label, l),
           UNCHANGED <<tunnelVars, host, uids>>, DeploymentsMove
    PROVE  TunnelStep /\ KnowsOK'
<1>1. w \in Goroutines
  BY DEF Goroutines
<1>2. KnowsOK' /\ Carried /\ WorkersMove
  BY <1>1, GotoQuiet
<1> QED BY <1>2, QuietStep

LEMMA GoOnUnchanged ==
    ASSUME TypeInv, KnowsOK, NEW w \in Workers, NEW label \in Labels,
           label \notin {"setProvisioning", "setActive"},
           label \in WithTunnel => pc[w] \in WithTunnel,
           label \notin {"succeeded", "failed"} => Knows(label, at[w]),
           \/ Goto(w, label, at[w]) /\ UNCHANGED clusterVars
           \/ TransientError(w, label, at[w]),
           UNCHANGED cacheVars
    PROVE  TunnelStep /\ KnowsOK'
<1>1. Goto(w, label, at[w]) /\ UNCHANGED <<tunnelVars, host, uids, deployment>>
  BY DEF clusterVars, objectVars, streamVars, TransientError, tunnelVars, cacheVars
<1>2. DeploymentsMove
  BY <1>1, StillDeployment
<1> QED BY <1>1, <1>2, GoOnStep

LEMMA RemoveTunnelStep ==
    ASSUME TypeInv, NEW s \in Services, tunnel[s] # None, RemoveTunnel(s),
           Carried, WorkersMove,
           UNCHANGED <<tunnelCache, deletions, host, uids, deployment>>
    PROVE  TunnelStep
<1>1. tunnel[s] \in TunnelRecord /\ tunnel' = [tunnel EXCEPT ![s] = None]
      /\ tunnelStream' = Emit(tunnelStream, s, "deleted", tunnel[s])
      /\ tunnel \in [Services -> TunnelRecord \cup {None}]
  BY DEF RemoveTunnel, TypeInv, ClusterTypeOK
<1>2. tunnel'[s] = None /\ \A x \in Services \ {s} : tunnel'[x] = tunnel[x]
  BY <1>1
<1>3. CopiesMove /\ DeletionsMove
  BY <1>1, <1>2, EmitStep DEF Carried
<1>4. TunnelsEvolve
  <2>1. uids.tunnel <= uids'.tunnel
    BY DEF TypeInv, ClusterTypeOK
  <2> QED BY <1>1, <1>2, <2>1 DEF TunnelsEvolve, Removed
<1>5. HostsEvolve /\ DeploymentsMove
  BY StillDeployment DEF HostsEvolve
<1> QED BY <1>3, <1>4, <1>5 DEF TunnelStep

LEMMA NextUid ==
    ASSUME ClusterTypeOK, uids' = [uids EXCEPT !.tunnel = @ + 1]
    PROVE  uids'.tunnel = uids.tunnel + 1 /\ uids.tunnel <= uids'.tunnel
<1>1. uids \in [service: Nat, tunnel: Nat]
  BY DEF ClusterTypeOK
<1>2. uids.tunnel \in Nat
  BY <1>1
<1> QED BY <1>1, <1>2

LEMMA AddTunnelStep ==
    ASSUME TypeInv, NEW s \in Services, tunnel[s] = None, NEW t \in TunnelRecord,
           t.uid = uids.tunnel + 1, t.hostStatus = "", t.hostID = None,
           AddTunnel(s, t), WorkersMove,
           \A p \in Goroutines : pc'[p] \in WithTunnel =>
              \/ pc[p] \in WithTunnel /\ at'[p].name = at[p].name /\ at'[p].tun = at[p].tun
              \/ at'[p].name = s /\ at'[p].tun = t,
           UNCHANGED <<tunnelCache, deletions, host, deployment>>
    PROVE  TunnelStep
<1>1. tunnel' = [tunnel EXCEPT ![s] = t]
      /\ tunnelStream' = Emit(tunnelStream, s, "set", t)
      /\ tunnel \in [Services -> TunnelRecord \cup {None}]
      /\ uids \in [service: Nat, tunnel: Nat]
      /\ uids' = [uids EXCEPT !.tunnel = uids.tunnel + 1]
  BY DEF AddTunnel, TypeInv, ClusterTypeOK
<1>2. tunnel'[s] = t /\ \A x \in Services \ {s} : tunnel'[x] = tunnel[x]
  BY <1>1
<1>3. CopiesMove /\ DeletionsMove
  BY <1>1, <1>2, EmitStep
<1>4. uids'.tunnel = uids.tunnel + 1 /\ uids.tunnel <= uids'.tunnel
  BY NextUid DEF AddTunnel, TypeInv
<1>5. TunnelsEvolve
  BY <1>2, <1>4 DEF TunnelsEvolve, Created
<1>6. HostsEvolve /\ DeploymentsMove
  BY StillDeployment DEF HostsEvolve
<1> QED BY <1>3, <1>5, <1>6 DEF TunnelStep

LEMMA NewTunnelFields ==
    ASSUME ClusterTypeOK, NEW owner \in Nat, NEW serviceRef \in BOOLEAN,
           NEW auth \in {"none", "spec"}
    PROVE  LET t == NewTunnel(owner, serviceRef, auth)
           IN  /\ t \in TunnelRecord /\ t.uid = uids.tunnel + 1
               /\ t.hostStatus = "" /\ t.hostID = None
<1>1. NewTunnel(owner, serviceRef, auth) \in TunnelRecord
  BY NewTunnelType
<1> QED BY <1>1 DEF NewTunnel

------------------------------------------------------------------------------
(* The workers' requests. *)

LEMMA createTunnelResourceTunnelStep ==
    ASSUME TypeInv, KnowsOK, NEW w \in Workers, createTunnelResource(w),
           UNCHANGED cacheVars
    PROVE  TunnelStep /\ KnowsOK'
<1> DEFINE s == at[w].name
<1> USE DEF Labels, Resting, WithTunnel, WithCachedService, WithActiveTunnel
<1>1. ASSUME NEW label \in {"succeeded", "createTunnel", "deleteTunnel"}
      PROVE  \A m : Knows(label, m)
  BY DEF Knows
<1>2. CASE GetTunnel(w)
  <2>1. PICK label \in {"succeeded", "createTunnel", "deleteTunnel"} :
            \/ Goto(w, label, at[w]) /\ UNCHANGED clusterVars
            \/ TransientError(w, label, at[w])
    BY <1>2 DEF GetTunnel
  <2> QED BY <1>1, <2>1, GoOnUnchanged
<1>3. CASE CreateTunnel(w)
  <2> DEFINE t == NewTunnel(at[w].svc.uid, TRUE, "none")
             l == [at[w] EXCEPT !.tun = t, !.svc = None]
  <2>1. w \in Goroutines /\ at[w] \in Local /\ s \in Services /\ at[w].svc.uid \in Nat
    BY <1>3, AtWork DEF CreateTunnel, TypeInv, ServiceView
  <2>2. /\ t \in TunnelRecord /\ t.uid = uids.tunnel + 1
        /\ t.hostStatus = "" /\ t.hostID = None
    BY <2>1, NewTunnelFields DEF TypeInv
  <2>3. l.name = s /\ l.tun = t
    BY <2>1 DEF Local
  <2>4. CASE /\ tunnel[s] = None /\ AddTunnel(s, t)
             /\ Reply(w, "setGenerated", l, "succeeded")
             /\ UNCHANGED <<service, secret, deployment, license, host,
                            serviceStream, edits>>
    <3> HIDE DEF t, l
    <3>1. PICK label \in {"setGenerated", "succeeded"} : Goto(w, label, l)
      BY <2>4 DEF Reply
    <3>2. \A q \in Goroutines : q # w => pc'[q] = pc[q] /\ at'[q] = at[q]
      BY <3>1 DEF Goto, TypeInv, ProcsOK, ProcTypeOK
    <3>3. \/ pc'[w] = "setGenerated" /\ at'[w] = l
          \/ pc'[w] \in {"idle", "succeeded"}
      BY <2>1, <3>1 DEF Goto, TypeInv, ProcsOK, ProcTypeOK
    <3>4. KnowsOK'
      <4> SUFFICES ASSUME NEW q \in Goroutines PROVE Knows(pc'[q], at'[q])
        BY DEF KnowsOK, Knows
      <4> QED BY <3>2, <3>3 DEF KnowsOK, Knows
    <3>5. WorkersMove
      BY <3>2, <3>3 DEF WorkersMove
    <3>6. \A q \in Goroutines : pc'[q] \in WithTunnel =>
              \/ pc[q] \in WithTunnel /\ at'[q].name = at[q].name /\ at'[q].tun = at[q].tun
              \/ at'[q].name = s /\ at'[q].tun = t
      BY <2>3, <3>2, <3>3
    <3> QED BY <2>1, <2>2, <2>4, <3>4, <3>5, <3>6, AddTunnelStep DEF cacheVars
  <2>5. CASE \/ Goto(w, "succeeded", at[w]) /\ UNCHANGED clusterVars
             \/ TransientError(w, "succeeded", at[w])
    BY <2>5, GoOnUnchanged
  <2> QED BY <1>3, <2>4, <2>5 DEF CreateTunnel
<1>4. CASE SetGenerated(w)
  BY <1>4, StatusWriteStep DEF SetGenerated, NewStatus, StatusWrites
<1>5. CASE DeleteTunnel(w)
  <2>1. w \in Goroutines /\ s \in Services
    BY <1>5, AtWork DEF DeleteTunnel, TypeInv
  <2>2. CASE /\ tunnel[s] # None /\ RemoveTunnel(s)
             /\ Reply(w, "succeeded", at[w], "succeeded")
             /\ UNCHANGED <<deployment, host, uids>>
    <3>1. Goto(w, "succeeded", at[w])
      BY <2>2 DEF Reply
    <3>2. KnowsOK' /\ Carried /\ WorkersMove
      BY <2>1, <3>1, GotoQuiet
    <3> QED BY <2>1, <2>2, <3>2, RemoveTunnelStep DEF cacheVars
  <2>3. CASE \/ Goto(w, "succeeded", at[w]) /\ UNCHANGED clusterVars
             \/ TransientError(w, "succeeded", at[w])
    BY <2>3, GoOnUnchanged
  <2> QED BY <1>5, <2>2, <2>3 DEF DeleteTunnel
<1> QED BY <1>2, <1>3, <1>4, <1>5 DEF createTunnelResource

LEMMA createTunnelAuthTokenSecretTunnelStep ==
    ASSUME TypeInv, KnowsOK, NEW w \in Workers, createTunnelAuthTokenSecret(w),
           UNCHANGED cacheVars
    PROVE  TunnelStep /\ KnowsOK'
<1> DEFINE s == at[w].name
<1> USE DEF Labels, Resting, WithTunnel, WithActiveTunnel
<1>1. Knows(pc[w], at[w])
  BY AtWork DEF TypeInv, KnowsOK
<1>2. CASE GetSecret(w)
  <2>1. PICK label \in {"createSecret", "setAuthRef"} :
            \/ Goto(w, label, at[w]) /\ UNCHANGED clusterVars
            \/ TransientError(w, label, at[w])
    BY <1>2 DEF GetSecret
  <2>2. pc[w] \in WithTunnel /\ Knows(label, at[w])
    BY <1>1, <1>2 DEF GetSecret, Knows
  <2> QED BY <2>1, <2>2, GoOnUnchanged
<1>3. CASE CreateSecret(w)
  <2>1. pc[w] \in WithTunnel /\ Knows("setAuthRef", at[w])
    BY <1>1, <1>3 DEF CreateSecret, Knows
  <2>2. CASE /\ Reply(w, "setAuthRef", at[w], "failed")
             /\ UNCHANGED <<tunnel, deployment, host, streamVars, uids>>
    <3>1. PICK label \in {"setAuthRef", "failed"} : Goto(w, label, at[w])
      BY <2>2 DEF Reply
    <3>2. UNCHANGED <<tunnelVars, host, uids>>
      BY <2>2 DEF streamVars, tunnelVars, cacheVars
    <3>3. DeploymentsMove
      BY <2>2, StillDeployment
    <3> QED BY <2>1, <3>1, <3>2, <3>3, GoOnStep
  <2>3. CASE Goto(w, "setAuthRef", at[w]) /\ UNCHANGED clusterVars
    BY <2>1, <2>3, GoOnUnchanged
  <2>4. CASE TransientError(w, "failed", at[w])
    BY <2>4, GoOnUnchanged
  <2> QED BY <1>3, <2>2, <2>3, <2>4 DEF CreateSecret
<1>4. CASE SetAuthRef(w)
  BY <1>4, StatusWriteStep DEF SetAuthRef, NewStatus, StatusWrites
<1> QED BY <1>2, <1>3, <1>4 DEF createTunnelAuthTokenSecret

(* A cloud that refuses: the sync ends. *)
LEMMA CloudErrorStep ==
    ASSUME TypeInv, KnowsOK, NEW w \in Workers, Goto(w, "failed", at[w]),
           UNCHANGED <<objectVars, host, streamVars, uids>>, UNCHANGED cacheVars
    PROVE  TunnelStep /\ KnowsOK'
<1>1. "failed" \in Labels /\ "failed" \notin WithTunnel
  BY DEF Labels, WithTunnel
<1>2. UNCHANGED <<tunnelVars, host, uids>>
  BY DEF objectVars, streamVars, tunnelVars, cacheVars
<1>3. DeploymentsMove
  BY StillDeployment DEF objectVars
<1> QED BY <1>1, <1>2, <1>3, GoOnStep

LEMMA ProvisionTunnelStep ==
    ASSUME TypeInv, KnowsOK, NEW w \in Workers,
           HostConfig(w) \/ Provision(w) \/ SetProvisioning(w),
           UNCHANGED cacheVars
    PROVE  TunnelStep /\ KnowsOK'
<1> USE DEF Labels, Resting, WithTunnel, WithActiveTunnel
<1>1. w \in Goroutines /\ Knows(pc[w], at[w]) /\ at[w] \in Local
  BY AtWork DEF TypeInv, KnowsOK
<1>2. CASE HostConfig(w)
  <2>1. PICK label \in {"provision", "failed"} :
            \/ Goto(w, label, at[w]) /\ UNCHANGED clusterVars
            \/ TransientError(w, label, at[w])
    BY <1>2 DEF HostConfig
  <2>2. pc[w] \in WithTunnel /\ Knows(label, at[w])
    BY <1>1, <1>2 DEF HostConfig, Knows
  <2> QED BY <2>1, <2>2, GoOnUnchanged
<1>3. CASE Provision(w)
  <2> DEFINE l == [at[w] EXCEPT !.target = NewHost]
  <2>1. CASE /\ \E h \in Hosts : host[h] = "free"
             /\ host' = [host EXCEPT ![NewHost] = "booting"]
             /\ Reply(w, "setProvisioning", l, "failed")
             /\ UNCHANGED <<objectVars, streamVars, uids, edits>>
    <3>1. NewHost \in Hosts /\ host[NewHost] = "free"
      BY <2>1, NewHostType
    <3>2. host \in [Hosts -> {"free", "booting", "active", "gone"}]
      BY DEF TypeInv, ClusterTypeOK
    <3>3. /\ host'[NewHost] = "booting"
          /\ \A h \in Hosts \ {NewHost} : host'[h] = host[h]
      BY <2>1, <3>1, <3>2
    <3>4. l.name = at[w].name /\ l.tun = at[w].tun /\ l.target = NewHost
      BY <1>1 DEF Local
    <3>5. /\ pc[w] = "provision" /\ UNCHANGED <<tunnelVars, uids, deployment>>
          /\ Reply(w, "setProvisioning", l, "failed")
      BY <1>3, <2>1 DEF Provision, tunnelVars, objectVars, streamVars, cacheVars
    <3> HIDE DEF l
    <3>6. PICK label \in {"setProvisioning", "failed"} : Goto(w, label, l)
      BY <3>5 DEF Reply
    <3>7. \A q \in Goroutines : q # w => pc'[q] = pc[q] /\ at'[q] = at[q]
      BY <3>6 DEF Goto, TypeInv, ProcsOK, ProcTypeOK
    <3>8. \/ pc'[w] = "setProvisioning" /\ at'[w] = l
          \/ pc'[w] \in {"idle", "failed"}
      BY <1>1, <3>6 DEF Goto, TypeInv, ProcsOK, ProcTypeOK
    <3>9. KnowsOK'
      <4> SUFFICES ASSUME NEW q \in Goroutines PROVE Knows(pc'[q], at'[q])
        BY DEF KnowsOK, Knows
      <4>1. Knows("setProvisioning", l)
        BY <1>1, <3>1, <3>4, <3>5 DEF Knows
      <4>2. \A m : Knows("idle", m) /\ Knows("failed", m)
        BY DEF Knows
      <4> QED BY <3>7, <3>8, <4>1, <4>2 DEF KnowsOK
    <3>10. Carried
      BY <3>4, <3>5, <3>7, <3>8 DEF Carried
    <3>11. WorkersMove
      BY <1>1, <3>1, <3>3, <3>4, <3>7, <3>8 DEF WorkersMove
    <3>12. TunnelsEvolve
      BY <3>5 DEF TunnelsEvolve, tunnelVars, TypeInv, ClusterTypeOK
    <3>13. HostsEvolve
      BY <3>1, <3>3 DEF HostsEvolve
    <3>14. CopiesMove /\ DeletionsMove
      BY <3>5, <3>10, QuietCopies
    <3>15. DeploymentsMove
      BY <3>5, StillDeployment
    <3> QED BY <3>9, <3>11, <3>12, <3>13, <3>14, <3>15 DEF TunnelStep
  <2>2. CASE Goto(w, "failed", at[w]) /\ UNCHANGED clusterVars
    BY <2>2, GoOnUnchanged
  <2>3. CASE /\ Goto(w, "failed", at[w])
             /\ UNCHANGED <<objectVars, host, streamVars, uids>>
    BY <2>3, CloudErrorStep
  <2> QED BY <1>3, <2>1, <2>2, <2>3 DEF Provision
<1>4. CASE SetProvisioning(w)
  BY <1>4, StatusWriteStep DEF SetProvisioning, NewStatus, StatusWrites
<1> QED BY <1>2, <1>3, <1>4

(* updateService has no tunnel at hand any more. *)
LEMMA updateServiceTunnelStep ==
    ASSUME TypeInv, KnowsOK, NEW p \in Goroutines, updateService(p), UNCHANGED cacheVars
    PROVE  TunnelStep /\ KnowsOK'
<1> USE DEF Labels, WithTunnel, WithActiveTunnel
<1>1. ASSUME NEW label \in {"failed", "updateService", "updateIngress", "succeeded"},
             NEW l, Goto(p, label, l), UNCHANGED <<tunnel, host, tunnelStream, uids, deployment>>
      PROVE  TunnelStep /\ KnowsOK'
  <2>1. Knows(label, l)
    BY DEF Knows
  <2>2. KnowsOK' /\ Carried /\ WorkersMove
    BY <1>1, <2>1, GotoQuiet
  <2>3. UNCHANGED <<tunnelVars, host, uids>>
    BY <1>1 DEF tunnelVars, cacheVars
  <2> QED BY <1>1, <2>2, <2>3, QuietStep, StillDeployment
<1>2. ASSUME NEW svc, NEW label \in {"updateIngress", "succeeded"},
             WriteService(p, svc, label)
      PROVE  TunnelStep /\ KnowsOK'
  <2> DEFINE l == [at[p] EXCEPT !.svc = service'[at[p].name]]
  <2>1. CASE /\ Reply(p, label, l, "failed")
             /\ UNCHANGED <<tunnel, deployment, host, tunnelStream, uids>>
    <3> HIDE DEF l
    <3> QED BY <1>1, <2>1 DEF Reply
  <2>2. CASE Goto(p, "failed", at[p]) /\ UNCHANGED clusterVars
    BY <1>1, <2>2 DEF clusterVars, objectVars, streamVars
  <2>3. CASE TransientError(p, "failed", at[p])
    BY <1>1, <2>3 DEF TransientError, objectVars, streamVars
  <2> QED BY <1>2, <2>1, <2>2, <2>3 DEF WriteService
<1>3. CASE GetService(p)
  <2>1. CASE TransientError(p, "failed", at[p])
    BY <1>1, <2>1 DEF TransientError, objectVars, streamVars
  <2>2. CASE /\ UNCHANGED clusterVars
             /\ \/ Goto(p, "failed", at[p])
                \/ Goto(p, "updateService", [at[p] EXCEPT !.svc = service[at[p].name]])
    BY <1>1, <2>2 DEF clusterVars, objectVars, streamVars
  <2> QED BY <1>3, <2>1, <2>2 DEF GetService
<1>4. CASE UpdateService(p)
  BY <1>2, <1>4 DEF UpdateService
<1>5. CASE UpdateIngress(p)
  BY <1>2, <1>5 DEF UpdateIngress
<1> QED BY <1>3, <1>4, <1>5 DEF updateService

LEMMA syncProvisioningHostStatusTunnelStep ==
    ASSUME TypeInv, KnowsOK, NEW w \in Workers, syncProvisioningHostStatus(w),
           UNCHANGED cacheVars
    PROVE  TunnelStep /\ KnowsOK'
<1> USE DEF Labels, Resting, WithTunnel, WithActiveTunnel
<1>1. w \in Goroutines /\ Knows(pc[w], at[w]) /\ at[w] \in Local
  BY AtWork DEF TypeInv, KnowsOK
<1>2. CASE HostStatus(w)
  <2> DEFINE h == at[w].tun.hostID
             l == [at[w] EXCEPT !.target = h]
  <2>1. l.name = at[w].name /\ l.tun = at[w].tun /\ l.target = h
    BY <1>1 DEF Local
  <2>2. pc[w] = "hostStatus" /\ at[w].tun.hostStatus = "provisioning"
    BY <1>1, <1>2 DEF HostStatus, Knows
  <2>3. CASE host[h] = "active" /\ Goto(w, "setActive", l) /\ UNCHANGED clusterVars
    <3> HIDE DEF l
    <3>1. \A q \in Goroutines : q # w => pc'[q] = pc[q] /\ at'[q] = at[q]
      BY <2>3 DEF Goto, TypeInv, ProcsOK, ProcTypeOK
    <3>2. pc'[w] = "setActive" /\ at'[w] = l
      BY <1>1, <2>3 DEF Goto, TypeInv, ProcsOK, ProcTypeOK
    <3>3. KnowsOK'
      <4> SUFFICES ASSUME NEW q \in Goroutines PROVE Knows(pc'[q], at'[q])
        BY DEF KnowsOK, Knows
      <4> QED BY <2>1, <2>2, <3>1, <3>2 DEF KnowsOK, Knows
    <3>4. Carried
      BY <2>1, <2>2, <3>1, <3>2 DEF Carried
    <3>5. UNCHANGED <<tunnelVars, host, uids, deployment>>
      BY <2>3 DEF clusterVars, objectVars, streamVars, tunnelVars, cacheVars
    <3>6. WorkersMove
      BY <2>1, <2>3, <3>1, <3>2, <3>5 DEF WorkersMove
    <3> QED BY <3>3, <3>4, <3>5, <3>6, QuietStep, StillDeployment
  <2>4. ASSUME NEW label \in {"succeeded", "failed"}, Goto(w, label, l),
               UNCHANGED clusterVars
        PROVE  TunnelStep /\ KnowsOK'
    <3>1. UNCHANGED <<tunnelVars, host, uids, deployment>>
      BY <2>4 DEF clusterVars, objectVars, streamVars, tunnelVars, cacheVars
    <3> QED BY <2>4, <3>1, GoOnStep, StillDeployment
  <2>5. CASE /\ Goto(w, "failed", at[w])
             /\ UNCHANGED <<objectVars, host, streamVars, uids>>
    BY <2>5, CloudErrorStep
  <2> QED BY <1>2, <2>3, <2>4, <2>5 DEF HostStatus
<1>3. CASE SetActive(w)
  <2>1. AfterHostChange(at[w].tun) \in {"succeeded", "getService"}
    BY DEF AfterHostChange
  <2> QED BY <1>3, <2>1, StatusWriteStep DEF SetActive, NewStatus, StatusWrites
<1> QED BY <1>1, <1>2, <1>3, updateServiceTunnelStep DEF syncProvisioningHostStatus

(* A deployment is made from the worker's copy of the tunnel. *)
LEMMA PutDeploymentMoves ==
    ASSUME TypeInv, NEW w \in Workers, pc[w] \in {"createClient", "updateClient"},
           PutDeployment(at[w].name, makeClientDeployment(at[w].tun, at[w].svc))
    PROVE  DeploymentsMove
<1> DEFINE d == makeClientDeployment(at[w].tun, at[w].svc)
<1>1. at[w].name \in Services
  BY AtWork DEF TypeInv, Resting
<1>2. d.owner = at[w].tun.uid /\ d.hostIP = HostIP(at[w].tun)
  BY DEF makeClientDeployment
<1>3. deployment' = [deployment EXCEPT ![at[w].name] = d]
  BY DEF PutDeployment
<1> HIDE DEF d
<1> QED BY <1>1, <1>2, <1>3 DEF DeploymentsMove, TypeInv, ClusterTypeOK

LEMMA syncActiveTunnelStep ==
    ASSUME TypeInv, KnowsOK, NEW w \in Workers,
           \/ GetLicense(w) \/ WriteLicense(w) \/ ReadClient(w)
           \/ UpdateClient(w) \/ SetClientRef(w),
           UNCHANGED cacheVars
    PROVE  TunnelStep /\ KnowsOK'
<1> USE DEF Labels, Resting, WithTunnel, WithActiveTunnel
<1>1. w \in Goroutines /\ Knows(pc[w], at[w]) /\ at[w] \in Local
  BY AtWork DEF TypeInv, KnowsOK
<1>2. ASSUME pc[w] \in WithActiveTunnel,
             NEW label \in {"readClient", "createLicense", "updateLicense",
                            "updateClient", "succeeded", "failed"}
      PROVE  Knows(label, at[w]) /\ pc[w] \in WithTunnel /\ label \in Labels
             /\ label \notin {"setProvisioning", "setActive"}
  BY <1>1, <1>2 DEF Knows
<1>3. CASE GetLicense(w)
  <2>1. license \in {"absent", "stale", "current"}
    BY DEF TypeInv, ClusterTypeOK
  <2>2. PICK label \in {"readClient", "updateLicense", "createLicense", "failed"} :
            \/ Goto(w, label, at[w]) /\ UNCHANGED clusterVars
            \/ TransientError(w, label, at[w])
    BY <1>3, <2>1 DEF GetLicense
  <2>3. pc[w] \in WithActiveTunnel
    BY <1>3 DEF GetLicense
  <2> QED BY <1>2, <2>2, <2>3, GoOnUnchanged
<1>4. CASE WriteLicense(w)
  <2>1. pc[w] \in WithActiveTunnel
    BY <1>4 DEF WriteLicense
  <2>2. CASE /\ Reply(w, "readClient", at[w], "failed")
             /\ UNCHANGED <<tunnel, deployment, host, streamVars, uids>>
    <3>1. PICK label \in {"readClient", "failed"} : Goto(w, label, at[w])
      BY <2>2 DEF Reply
    <3>2. UNCHANGED <<tunnelVars, host, uids>>
      BY <2>2 DEF streamVars, tunnelVars, cacheVars
    <3>3. DeploymentsMove
      BY <2>2, StillDeployment
    <3> QED BY <1>2, <2>1, <3>1, <3>2, <3>3, GoOnStep
  <2>3. CASE \/ Goto(w, "failed", at[w]) /\ UNCHANGED clusterVars
             \/ TransientError(w, "failed", at[w])
    BY <2>3, GoOnUnchanged
  <2> QED BY <1>4, <2>2, <2>3 DEF WriteLicense
<1>5. CASE ReadClient(w)
  <2> DEFINE l == [at[w] EXCEPT !.svc = service[at[w].name]]
  <2>1. l.name = at[w].name /\ l.tun = at[w].tun
    BY <1>1 DEF Local
  <2>2. pc[w] \in WithActiveTunnel
    BY <1>5 DEF ReadClient
  <2>3. ASSUME UNCHANGED clusterVars
        PROVE  UNCHANGED <<tunnelVars, host, uids>> /\ DeploymentsMove
    BY <2>3, StillDeployment
    DEF clusterVars, objectVars, streamVars, tunnelVars, cacheVars
  <2>4. CASE \/ Goto(w, "failed", at[w]) /\ UNCHANGED clusterVars
             \/ TransientError(w, "failed", at[w])
    BY <2>4, GoOnUnchanged
  <2>5. ASSUME NEW label \in {"succeeded", "updateClient", "createClient"},
               label = "createClient" => at[w].tun.clientRef # "named",
               Goto(w, label, l), UNCHANGED clusterVars
        PROVE  TunnelStep /\ KnowsOK'
    <3> HIDE DEF l
    <3>1. Knows(label, l)
      BY <1>1, <2>1, <2>2, <2>5 DEF Knows
    <3> QED BY <1>2, <2>1, <2>2, <2>3, <2>5, <3>1, GoOnStep
  <2> QED BY <1>5, <2>4, <2>5 DEF ReadClient
<1>6. CASE UpdateClient(w)
  <2>1. CASE /\ PutDeployment(at[w].name, makeClientDeployment(at[w].tun, at[w].svc))
             /\ Reply(w, "succeeded", at[w], "succeeded")
    <3>1. Goto(w, "succeeded", at[w])
      BY <2>1 DEF Reply
    <3>2. DeploymentsMove
      BY <1>6, <2>1, PutDeploymentMoves DEF UpdateClient
    <3>3. UNCHANGED <<tunnelVars, host, uids>>
      BY <2>1 DEF PutDeployment, streamVars, tunnelVars, cacheVars
    <3> QED BY <3>1, <3>2, <3>3, GoOnStep
  <2>2. CASE \/ Goto(w, "succeeded", at[w]) /\ UNCHANGED clusterVars
             \/ TransientError(w, "succeeded", at[w])
    BY <2>2, GoOnUnchanged
  <2> QED BY <1>6, <2>1, <2>2 DEF UpdateClient
<1>7. CASE SetClientRef(w)
  BY <1>7, StatusWriteStep DEF SetClientRef, NewStatus, StatusWrites
<1> QED BY <1>3, <1>4, <1>5, <1>6, <1>7

(* The reference is set in the worker's copy and in the cached object. *)
LEMMA CreateClientTunnelStep ==
    ASSUME TypeInv, KnowsOK, NEW w \in Workers, CreateClient(w)
    PROVE  TunnelStep /\ KnowsOK'
<1> DEFINE s == at[w].name
           t == at[w].tun
           d == makeClientDeployment(t, at[w].svc)
           l(ref) == [at[w] EXCEPT !.tun.clientRef = ref, !.svc = None]
           Refer(ref) ==
               tunnelCache' = [tunnelCache EXCEPT
                   ![s] = IF Current(@, t) THEN [@ EXCEPT !.clientRef = ref] ELSE @]
<1>1. /\ w \in Goroutines /\ at[w] \in Local /\ s \in Services /\ t \in TunnelRecord
      /\ Knows(pc[w], at[w]) /\ pc[w] = "createClient"
  BY AtWork DEF CreateClient, TypeInv, KnowsOK, Resting, WithTunnel
<1>2. PICK ref \in {"named", "unnamed"} :
          /\ Goto(w, "setClientRef", l(ref)) /\ Refer(ref)
          /\ UNCHANGED <<tunnel, tunnelStream, deletions, host, uids>>
          /\ PutDeployment(s, d) \/ UNCHANGED deployment
  BY DEF CreateClient, TransientError, PutDeployment, clusterVars, objectVars, streamVars
<1> DEFINE u == [t EXCEPT !.clientRef = ref]
<1>3. u \in TunnelRecord /\ SameButClient(u, t) /\ u.hostStatus = t.hostStatus
  <2>1. u \in TunnelRecord
    BY <1>1, TunnelEdits
  <2>2. SameButClient(u, t)
    BY <1>1 DEF SameButClient, TunnelRecord
  <2>3. u.hostStatus = t.hostStatus
    BY <1>1 DEF TunnelRecord
  <2> QED BY <2>1, <2>2, <2>3
<1>4. l(ref).name = s /\ l(ref).tun = u
  BY <1>1 DEF Local
<1>5. t.clientRef # "named" /\ t.hostStatus = "active"
  BY <1>1 DEF Knows, WithActiveTunnel
<1>6. IsCopy(t, s)
  BY <1>1 DEF IsCopy, InWork, WithTunnel
<1>7. DeploymentsMove
  BY <1>1, <1>2, PutDeploymentMoves, StillDeployment
<1>8. Goto(w, "setClientRef", l(ref))
  BY <1>2
<1>9. /\ pc'[w] = "setClientRef" /\ at'[w].name = s /\ at'[w].tun = u
      /\ \A q \in Goroutines : q # w => pc'[q] = pc[q] /\ at'[q] = at[q]
  <2> HIDE DEF l
  <2> QED BY <1>1, <1>4, <1>8 DEF Goto, TypeInv, ProcsOK, ProcTypeOK
<1>10. KnowsOK'
  <2> SUFFICES ASSUME NEW q \in Goroutines PROVE Knows(pc'[q], at'[q])
    BY DEF KnowsOK, Knows
  <2>1. Knows("setClientRef", at'[w])
    BY <1>3, <1>5, <1>9 DEF Knows, WithActiveTunnel
  <2> QED BY <1>9, <2>1 DEF KnowsOK
<1>11. WorkersMove
  BY <1>9 DEF WorkersMove
<1>12. \A x \in Services : x # s => tunnelCache'[x] = tunnelCache[x]
  BY <1>1, <1>2 DEF TypeInv, CacheTypeOK
<1>13. \/ tunnelCache'[s] = tunnelCache[s]
       \/ /\ tunnelCache[s] \in TunnelRecord /\ Current(tunnelCache[s], t)
          /\ tunnelCache'[s] = [tunnelCache[s] EXCEPT !.clientRef = ref]
  BY <1>1, <1>2 DEF TypeInv, CacheTypeOK, Current
<1>14. CopiesMove /\ DeletionsMove
  <2> SUFFICES ASSUME NEW x \in Services, NEW c \in TunnelRecord
               PROVE  /\ IsCopy(c, x)' => IsCopy(c, x) \/ Renamed(c, x)
                      /\ IsDeleted(c, x)' => IsDeleted(c, x)
    BY DEF CopiesMove, DeletionsMove
  <2>1. UNCHANGED <<tunnel, tunnelStream, deletions>>
    BY <1>2
  <2>2. Renamed(u, s)
    BY <1>1, <1>3, <1>5, <1>6 DEF Renamed
  <2>3. InWork(c, x)' => InWork(c, x) \/ Renamed(c, x)
    BY <1>9, <2>2 DEF InWork
  <2>4. c = tunnelCache'[x] => c = tunnelCache[x] \/ Renamed(c, x)
    <3> SUFFICES ASSUME x = s, c = tunnelCache'[s], tunnelCache[s] \in TunnelRecord,
                        Current(tunnelCache[s], t),
                        tunnelCache'[s] = [tunnelCache[s] EXCEPT !.clientRef = ref]
                 PROVE  Renamed(c, s)
      BY <1>12, <1>13
    <3>1. SameButClient(c, tunnelCache[s])
      BY DEF SameButClient, TunnelRecord
    <3>2. IsCopy(tunnelCache[s], s)
      BY DEF IsCopy
    <3> QED BY <1>1, <1>5, <1>6, <3>1, <3>2 DEF Renamed, Current
  <2> QED BY <2>1, <2>3, <2>4 DEF IsCopy, IsDeleted, InStream, InDeletions
<1>15. TunnelsEvolve /\ HostsEvolve
  BY <1>2 DEF TunnelsEvolve, HostsEvolve, TypeInv, ClusterTypeOK
<1> QED BY <1>7, <1>10, <1>11, <1>14, <1>15 DEF TunnelStep

LEMMA TakeTunnelStep ==
    ASSUME TypeInv, KnowsOK, NEW w \in Workers, NEW k \in Keys, Take(w, k)
    PROVE  TunnelStep /\ KnowsOK'
<1> DEFINE s == k[2]
           l == [Nothing EXCEPT !.name = s]
           ltun == [l EXCEPT !.tun = tunnelCache[s]]
<1> USE DEF Labels, Resting, WithTunnel, WithActiveTunnel
<1>1. s \in Services /\ w \in Goroutines
  BY DEF Keys, Goroutines
<1>2. UNCHANGED <<tunnelVars, host, uids, deployment>>
  BY DEF Take, clusterVars, objectVars, streamVars, tunnelVars, cacheVars
<1>3. ASSUME NEW label \in {"getTunnel", "succeeded"}, NEW m, Goto(w, label, m)
      PROVE  TunnelStep /\ KnowsOK'
  <2>1. Knows(label, m)
    BY DEF Knows
  <2> QED BY <1>2, <1>3, <2>1, GoOnStep, StillDeployment
<1>4. CASE tunnelCache[s] # None /\ Goto(w, SyncLabel(tunnelCache[s]), ltun)
  <2> DEFINE t == tunnelCache[s]
  <2>1. t \in TunnelRecord
    BY <1>1, <1>4 DEF TypeInv, CacheTypeOK
  <2>2. ltun.name = s /\ ltun.tun = t
    BY DEF Nothing
  <2> HIDE DEF ltun
  <2>3. /\ SyncLabel(t) \in {"failed", "getLicense", "hostStatus", "getSecret", "hostConfig"}
        /\ SyncLabel(t) \notin {"failed"} => Knows(SyncLabel(t), ltun)
    BY <2>1, <2>2 DEF SyncLabel, Knows, TunnelRecord
  <2>4. \A q \in Goroutines : q # w => pc'[q] = pc[q] /\ at'[q] = at[q]
    BY <1>4 DEF Goto, TypeInv, ProcsOK, ProcTypeOK
  <2>5. \/ pc'[w] = SyncLabel(t) /\ SyncLabel(t) # "failed" /\ at'[w] = ltun
        \/ pc'[w] \in {"idle", "failed"}
    BY <1>1, <1>4, <2>3 DEF Goto, TypeInv, ProcsOK, ProcTypeOK
  <2>6. KnowsOK'
    <3> SUFFICES ASSUME NEW q \in Goroutines PROVE Knows(pc'[q], at'[q])
      BY DEF KnowsOK, Knows
    <3>1. \A m : Knows("idle", m) /\ Knows("failed", m)
      BY DEF Knows
    <3> QED BY <2>3, <2>4, <2>5, <3>1 DEF KnowsOK
  <2>7. WorkersMove
    BY <2>3, <2>4, <2>5 DEF WorkersMove
  <2>8. CopiesMove /\ DeletionsMove
    <3> SUFFICES ASSUME NEW x \in Services, NEW c \in TunnelRecord
                 PROVE  /\ IsCopy(c, x)' => IsCopy(c, x)
                        /\ IsDeleted(c, x)' => IsDeleted(c, x)
      BY DEF CopiesMove, DeletionsMove
    <3>1. InWork(c, x)' => InWork(c, x) \/ c = tunnelCache[x]
      BY <2>2, <2>4, <2>5 DEF InWork
    <3> QED BY <1>2, <3>1
            DEF tunnelVars, IsCopy, IsDeleted, InStream, InDeletions
  <2>9. TunnelsEvolve /\ HostsEvolve /\ DeploymentsMove
    BY <1>2, StillDeployment
    DEF tunnelVars, TunnelsEvolve, HostsEvolve, TypeInv, ClusterTypeOK
  <2> QED BY <2>6, <2>7, <2>8, <2>9 DEF TunnelStep
<1> QED BY <1>3, <1>4 DEF Take

LEMMA WorkerTunnelStep ==
    ASSUME TypeInv, KnowsOK, NEW w \in Workers, Worker(w)
    PROVE  TunnelStep /\ KnowsOK'
<1>1. ASSUME NEW k \in Keys, Take(w, k) PROVE TunnelStep /\ KnowsOK'
  BY <1>1, TakeTunnelStep
<1>2. CASE Requeue(w) \/ Finish(w)
  <2>1. PICK label \in {"done", "idle"} : Goto(w, label, Nothing)
    BY <1>2 DEF Requeue, Finish
  <2>2. UNCHANGED <<tunnelVars, host, uids, deployment>>
    BY <1>2 DEF Requeue, Finish, clusterVars, objectVars, streamVars, tunnelVars, cacheVars
  <2>3. Knows(label, Nothing) /\ label \in Labels /\ label \notin WithTunnel
        /\ label \notin {"setProvisioning", "setActive"}
    BY DEF Knows, Labels, WithTunnel, WithActiveTunnel
  <2> QED BY <2>1, <2>2, <2>3, GoOnStep, StillDeployment
<1>3. CASE CreateClient(w)
  BY <1>3, CreateClientTunnelStep
<1>4. CASE syncHandler(w) /\ ~CreateClient(w)
  BY <1>4, createTunnelResourceTunnelStep, createTunnelAuthTokenSecretTunnelStep,
     ProvisionTunnelStep, syncProvisioningHostStatusTunnelStep, syncActiveTunnelStep
  DEF syncHandler, syncActive
<1> QED BY <1>1, <1>2, <1>3, <1>4 DEF Worker

------------------------------------------------------------------------------
(* Informers, listener and the rest of the world. *)

LEMMA QueueShift ==
    ASSUME NEW S, NEW q \in Seq(S), q # <<>>
    PROVE  /\ 1 \in DOMAIN q /\ Head(q) = q[1] /\ Head(q) \in S
           /\ \A i \in DOMAIN Tail(q) : i + 1 \in DOMAIN q /\ Tail(q)[i] = q[i + 1]
OBVIOUS

LEMMA DeliverTunnelTunnelStep ==
    ASSUME TypeInv, KnowsOK, NEW s \in Services, DeliverTunnel(s)
    PROVE  TunnelStep /\ KnowsOK'
<1> DEFINE q == tunnelStream[s]
           e == Head(q)
<1>1. /\ q \in Seq(Event(TunnelRecord)) /\ q # <<>>
      /\ tunnelStream \in [Services -> Seq(Event(TunnelRecord))]
      /\ tunnelCache \in [Services -> TunnelRecord \cup {None}]
      /\ deletions \in Seq([name: Services, object: TunnelRecord])
      /\ tunnelStream' = [tunnelStream EXCEPT ![s] = Tail(q)]
  BY DEF DeliverTunnel, TypeInv, ClusterTypeOK, CacheTypeOK
<1>2. /\ UNCHANGED <<tunnel, host, uids, deployment>> /\ UNCHANGED procVars
  BY DEF DeliverTunnel, objectVars
<1>3. KnowsOK' /\ Carried /\ WorkersMove
  BY <1>2, StillProcs
<1>4. /\ 1 \in DOMAIN q /\ e = q[1] /\ e \in Event(TunnelRecord)
      /\ \A i \in DOMAIN Tail(q) : i + 1 \in DOMAIN q /\ Tail(q)[i] = q[i + 1]
  BY <1>1, QueueShift
<1>5. \A x \in Services : x # s => tunnelStream'[x] = tunnelStream[x]
  BY <1>1
<1>6. tunnelStream'[s] = Tail(q)
  BY <1>1
<1>7. \/ /\ tunnelCache' = [tunnelCache EXCEPT ![s] = e.object]
         /\ UNCHANGED deletions
      \/ /\ e.type = "deleted"
         /\ tunnelCache' = [tunnelCache EXCEPT ![s] = None]
         /\ deletions' = Append(deletions, [name |-> s, object |-> e.object])
  BY <1>4 DEF DeliverTunnel, Event
<1>8. \A x \in Services :
          \/ tunnelCache'[x] \in {tunnelCache[x], None}
          \/ x = s /\ tunnelCache'[x] = e.object
  <2>1. PICK v \in {None, e.object} : tunnelCache' = [tunnelCache EXCEPT ![s] = v]
    BY <1>7
  <2>2. tunnelCache'[s] = v /\ \A x \in Services : x # s => tunnelCache'[x] = tunnelCache[x]
    BY <1>1, <2>1
  <2> QED BY <2>1, <2>2
<1>9. \A i \in DOMAIN deletions' :
          \/ i \in DOMAIN deletions /\ deletions'[i] = deletions[i]
          \/ deletions'[i] = [name |-> s, object |-> e.object] /\ e.type = "deleted"
  <2>1. ASSUME NEW v, NEW i \in DOMAIN Append(deletions, v)
        PROVE  \/ i \in DOMAIN deletions /\ Append(deletions, v)[i] = deletions[i]
               \/ Append(deletions, v)[i] = v
    BY <1>1, <2>1
  <2> QED BY <1>7, <2>1
<1>10. CopiesMove /\ DeletionsMove
  <2> SUFFICES ASSUME NEW x \in Services, NEW c \in TunnelRecord
               PROVE  /\ IsCopy(c, x)' => IsCopy(c, x)
                      /\ IsDeleted(c, x)' => IsDeleted(c, x)
    BY DEF CopiesMove, DeletionsMove
  <2>1. InStream(e.object, s)
    BY <1>4 DEF InStream
  <2>2. InStream(c, x)' => InStream(c, x)
    <3>1. CASE x = s
      <4> SUFFICES ASSUME NEW i \in DOMAIN Tail(q), Tail(q)[i].object = c
                   PROVE  InStream(c, s)
        BY <1>6, <3>1 DEF InStream
      <4>1. i + 1 \in DOMAIN q /\ q[i + 1].object = c
        BY <1>4
      <4> QED BY <4>1 DEF InStream
    <3>2. CASE x # s
      BY <1>5, <3>2 DEF InStream
    <3> QED BY <3>1, <3>2
  <2>3. InDeletions(c, x)' =>
            InDeletions(c, x) \/ (x = s /\ c = e.object /\ e.type = "deleted")
    BY <1>9 DEF InDeletions
  <2>4. c = tunnelCache'[x] => c = tunnelCache[x] \/ (x = s /\ c = e.object)
    BY <1>8, NoneAssumption
  <2>5. InWork(c, x)' => InWork(c, x)
    BY <1>2 DEF InWork, procVars
  <2>6. IsCopy(c, x)' => IsCopy(c, x)
    BY <1>2, <2>1, <2>2, <2>3, <2>4, <2>5 DEF IsCopy
  <2>7. IsDeleted(c, x)' => IsDeleted(c, x)
    <3>1. e.type = "deleted" => IsDeleted(e.object, s)
      BY <1>4 DEF IsDeleted
    <3>2. ASSUME NEW i \in DOMAIN tunnelStream'[x],
                 tunnelStream'[x][i].type = "deleted", tunnelStream'[x][i].object = c
          PROVE  IsDeleted(c, x)
      <4>1. CASE x = s
        <5>1. i \in DOMAIN Tail(q) /\ Tail(q)[i].type = "deleted" /\ Tail(q)[i].object = c
          BY <1>6, <3>2, <4>1
        <5>2. i + 1 \in DOMAIN q /\ q[i + 1].type = "deleted" /\ q[i + 1].object = c
          BY <1>4, <5>1
        <5> QED BY <4>1, <5>2 DEF IsDeleted
      <4>2. CASE x # s
        BY <1>5, <3>2, <4>2 DEF IsDeleted
      <4> QED BY <4>1, <4>2
    <3> QED BY <2>3, <3>1, <3>2 DEF IsDeleted
  <2> QED BY <2>6, <2>7
<1>11. TunnelsEvolve /\ HostsEvolve /\ DeploymentsMove
  BY <1>2, StillDeployment DEF TunnelsEvolve, HostsEvolve, TypeInv, ClusterTypeOK
<1> QED BY <1>3, <1>10, <1>11 DEF TunnelStep

(* The caches are filled anew, from the tunnels there are. *)
LEMMA RelistTunnelStep ==
    ASSUME TypeInv, KnowsOK, tunnelCache' = tunnel,
           tunnelStream' = [s \in Services |-> <<>>],
           \A i \in DOMAIN deletions' : i \in DOMAIN deletions /\ deletions'[i] = deletions[i],
           UNCHANGED <<tunnel, host, uids, deployment>>,
           \/ UNCHANGED procVars
           \/ \A p \in Goroutines : pc'[p] = "idle"
    PROVE  TunnelStep /\ KnowsOK'
<1>1. KnowsOK' /\ Carried /\ WorkersMove
  <2>1. CASE \A p \in Goroutines : pc'[p] = "idle"
    BY <2>1 DEF KnowsOK, Knows, WithActiveTunnel, Carried, WithTunnel, WorkersMove
  <2> QED BY <2>1, StillProcs
<1>2. CopiesMove /\ DeletionsMove
  <2> SUFFICES ASSUME NEW x \in Services, NEW c \in TunnelRecord
               PROVE  /\ IsCopy(c, x)' => IsCopy(c, x)
                      /\ IsDeleted(c, x)' => IsDeleted(c, x)
    BY DEF CopiesMove, DeletionsMove
  <2>1. tunnelStream'[x] = <<>>
    OBVIOUS
  <2>2. ~InStream(c, x)'
    BY <2>1 DEF InStream
  <2>3. InDeletions(c, x)' => InDeletions(c, x)
    BY DEF InDeletions
  <2>4. InWork(c, x)' => InWork(c, x)
    BY <1>1 DEF InWork, Carried
  <2> QED BY <2>1, <2>2, <2>3, <2>4 DEF IsCopy, IsDeleted
<1>3. TunnelsEvolve /\ HostsEvolve /\ DeploymentsMove
  BY StillDeployment DEF TunnelsEvolve, HostsEvolve, TypeInv, ClusterTypeOK
<1> QED BY <1>1, <1>2, <1>3 DEF TunnelStep

LEMMA InformersTunnelStep ==
    ASSUME TypeInv, KnowsOK, Informers
    PROVE  TunnelStep /\ KnowsOK'
<1>1. ASSUME NEW s \in Services, DeliverService(s) \/ Resync(s) \/ handleObject(s)
      PROVE  TunnelStep /\ KnowsOK'
  <2>1. UNCHANGED <<tunnelVars, host, uids, deployment>> /\ UNCHANGED procVars
    BY <1>1 DEF DeliverService, Resync, handleObject, clusterVars, objectVars,
       streamVars, cacheVars, tunnelVars
  <2> QED BY <2>1, StillProcs, StillDeployment, QuietStep
<1>2. CASE RelistServices
  <2>1. UNCHANGED <<tunnelVars, host, uids, deployment>> /\ UNCHANGED procVars
    BY <1>2 DEF RelistServices, objectVars, tunnelVars
  <2> QED BY <2>1, StillProcs, StillDeployment, QuietStep
<1>3. CASE RelistTunnels
  BY <1>3, RelistTunnelStep DEF RelistTunnels, objectVars
<1> QED BY <1>1, <1>2, <1>3, DeliverTunnelTunnelStep DEF Informers

LEMMA ListenerTunnelStep ==
    ASSUME TypeInv, KnowsOK, ListenerStep
    PROVE  TunnelStep /\ KnowsOK'
<1>1. CASE updateService(Listener) /\ UNCHANGED <<queueVars, cacheVars>>
  BY <1>1, updateServiceTunnelStep DEF Goroutines
<1>2. CASE DeleteFunc
  <2> DEFINE d == Head(deletions)
             r == d.object
             l == [Nothing EXCEPT !.name = d.name, !.target = HostIP(r)]
  <2>1. /\ deletions \in Seq([name: Services, object: TunnelRecord]) /\ deletions # <<>>
        /\ deletions' = Tail(deletions)
        /\ UNCHANGED <<tunnel, tunnelCache, tunnelStream, uids, deployment>>
        /\ host \in [Hosts -> {"free", "booting", "active", "gone"}]
    BY <1>2 DEF DeleteFunc, objectVars, streamVars, TypeInv, ClusterTypeOK, CacheTypeOK
  <2>2. /\ 1 \in DOMAIN deletions /\ d = deletions[1]
        /\ d \in [name: Services, object: TunnelRecord]
        /\ \A i \in DOMAIN Tail(deletions) :
              i + 1 \in DOMAIN deletions /\ Tail(deletions)[i] = deletions[i + 1]
    BY <2>1, QueueShift
  <2>3. d.name \in Services /\ r \in TunnelRecord
    BY <2>2
  <2>4. KnowsOK' /\ Carried /\ WorkersMove
    <3>1. CASE UNCHANGED procVars
      BY <3>1, StillProcs
    <3>2. CASE Goto(Listener, AfterHostChange(r), l)
      <4>1. AfterHostChange(r) \in {"succeeded", "getService"} /\ Listener \in Goroutines
        BY DEF AfterHostChange, Goroutines
      <4>2. ASSUME NEW label \in {"succeeded", "getService"}
            PROVE  /\ Knows(label, l) /\ label \in Labels /\ label \notin WithTunnel
                   /\ label \notin {"setProvisioning", "setActive"}
        BY DEF Knows, Labels, WithTunnel, WithActiveTunnel
      <4> HIDE DEF l
      <4> QED BY <3>2, <4>1, <4>2, GotoQuiet
    <3> QED BY <1>2, <3>1, <3>2 DEF DeleteFunc
  <2>5. CopiesMove /\ DeletionsMove
    <3> SUFFICES ASSUME NEW x \in Services, NEW c \in TunnelRecord
                 PROVE  /\ IsCopy(c, x)' => IsCopy(c, x)
                        /\ IsDeleted(c, x)' => IsDeleted(c, x)
      BY DEF CopiesMove, DeletionsMove
    <3>1. InDeletions(c, x)' => InDeletions(c, x)
      <4> SUFFICES ASSUME NEW i \in DOMAIN Tail(deletions),
                          Tail(deletions)[i].name = x, Tail(deletions)[i].object = c
                   PROVE  InDeletions(c, x)
        BY <2>1 DEF InDeletions
      <4>1. /\ i + 1 \in DOMAIN deletions
            /\ deletions[i + 1].name = x /\ deletions[i + 1].object = c
        BY <2>2
      <4> QED BY <4>1 DEF InDeletions
    <3>2. InWork(c, x)' => InWork(c, x)
      BY <2>4 DEF InWork, Carried
    <3> QED BY <2>1, <3>1, <3>2 DEF IsCopy, IsDeleted, InStream
  <2>6. HostsEvolve
    <3>1. IsDeleted(r, d.name)
      BY <2>2 DEF IsDeleted, InDeletions
    <3>2. CASE r.hostID # None /\ host' = [host EXCEPT ![r.hostID] = "gone"]
      <4>1. r.hostID \in Hosts
        BY <2>3, <3>2 DEF TunnelRecord
      <4>2. /\ host'[r.hostID] = "gone"
            /\ \A h \in Hosts \ {r.hostID} : host'[h] = host[h]
        BY <2>1, <3>2, <4>1
      <4> QED BY <2>3, <3>1, <4>1, <4>2 DEF HostsEvolve
    <3>3. CASE host' = host
      BY <3>3 DEF HostsEvolve
    <3> QED BY <1>2, <3>2, <3>3 DEF DeleteFunc
  <2>7. TunnelsEvolve /\ DeploymentsMove
    BY <2>1, StillDeployment DEF TunnelsEvolve, TypeInv, ClusterTypeOK
  <2> QED BY <2>4, <2>5, <2>6, <2>7 DEF TunnelStep
<1> QED BY <1>1, <1>2 DEF ListenerStep

LEMMA EnvironmentTunnelStep ==
    ASSUME TypeInv, KnowsOK, Environment, UNCHANGED operatorVars
    PROVE  TunnelStep /\ KnowsOK'
<1>1. /\ KnowsOK' /\ Carried /\ WorkersMove
      /\ UNCHANGED <<tunnelCache, deletions>> /\ pc' = pc /\ at' = at
  BY StillProcs DEF operatorVars, procVars, cacheVars
<1>2. ASSUME UNCHANGED <<tunnel, tunnelStream, host>>, uids'.tunnel = uids.tunnel,
             DeploymentsMove
      PROVE  TunnelStep
  <2>1. CopiesMove /\ DeletionsMove
    BY <1>1, <1>2, QuietCopies DEF tunnelVars
  <2>2. TunnelsEvolve /\ HostsEvolve
    BY <1>2 DEF TunnelsEvolve, HostsEvolve, TypeInv, ClusterTypeOK
  <2> QED BY <1>1, <1>2, <2>1, <2>2 DEF TunnelStep
<1>3. ASSUME NEW s \in Services, CreateService(s) PROVE TunnelStep
  <2>1. UNCHANGED <<tunnel, tunnelStream, host, deployment>>
    BY <1>3 DEF CreateService, Edit
  <2>2. uids'.tunnel = uids.tunnel
    BY <1>3 DEF CreateService, TypeInv, ClusterTypeOK
  <2> QED BY <1>2, <2>1, <2>2, StillDeployment
<1>4. ASSUME NEW s \in Services, DeleteService(s) \/ EditService(s) PROVE TunnelStep
  BY <1>2, <1>4, StillDeployment DEF DeleteService, EditService, Edit
<1>5. ASSUME NEW s \in Services, EditTunnel(s) PROVE TunnelStep
  <2>1. UNCHANGED <<deployment, host>>
    BY <1>5 DEF EditTunnel, Edit
  <2>2. CASE /\ tunnel[s] = None
             /\ \E t \in UserTunnels : AddTunnel(s, NewTunnel(0, t.serviceRef, t.auth))
    <3>1. PICK t \in UserTunnels : AddTunnel(s, NewTunnel(0, t.serviceRef, t.auth))
      BY <2>2
    <3> DEFINE new == NewTunnel(0, t.serviceRef, t.auth)
    <3>2. t.serviceRef \in BOOLEAN /\ t.auth \in {"none", "spec"}
      BY ClusterAssumption
    <3>3. /\ new \in TunnelRecord /\ new.uid = uids.tunnel + 1
          /\ new.hostStatus = "" /\ new.hostID = None
      BY <3>2, NewTunnelFields DEF TypeInv
    <3> HIDE DEF new
    <3> QED BY <1>1, <2>1, <2>2, <3>1, <3>3, AddTunnelStep DEF new
  <2>3. CASE tunnel[s] # None /\ RemoveTunnel(s) /\ UNCHANGED uids
    BY <1>1, <2>1, <2>3, RemoveTunnelStep
  <2> QED BY <1>5, <2>2, <2>3 DEF EditTunnel
<1>6. ASSUME NEW s \in Services, EditOther(s) PROVE TunnelStep
  <2>1. DeploymentsMove
    BY <1>6 DEF EditOther, DeploymentsMove, TypeInv, ClusterTypeOK
  <2> QED BY <1>2, <1>6, <2>1 DEF EditOther, Edit, streamVars
<1>7. ASSUME NEW s \in Services, CollectTunnel(s) PROVE TunnelStep
  BY <1>1, <1>7, RemoveTunnelStep DEF CollectTunnel
<1>8. ASSUME NEW s \in Services, CollectSecret(s) PROVE TunnelStep
  BY <1>2, <1>8, StillDeployment DEF CollectSecret, streamVars
<1>9. ASSUME NEW s \in Services, CollectDeployment(s) PROVE TunnelStep
  <2>1. DeploymentsMove
    BY <1>9 DEF CollectDeployment, DeploymentsMove, TypeInv, ClusterTypeOK
  <2> QED BY <1>2, <1>9, <2>1 DEF CollectDeployment, streamVars
<1>10. ASSUME NEW h \in Hosts, Boot(h) PROVE TunnelStep
  <2>1. UNCHANGED <<tunnel, tunnelStream, deployment, uids>>
    BY <1>10 DEF Boot, objectVars, streamVars
  <2>2. CopiesMove /\ DeletionsMove
    BY <1>1, <2>1, QuietCopies DEF tunnelVars
  <2>3. HostsEvolve
    BY <1>10 DEF Boot, HostsEvolve, TypeInv, ClusterTypeOK
  <2>4. TunnelsEvolve /\ DeploymentsMove
    BY <2>1, StillDeployment DEF TunnelsEvolve, TypeInv, ClusterTypeOK
  <2> QED BY <1>1, <2>2, <2>3, <2>4 DEF TunnelStep
<1> QED BY <1>1, <1>3, <1>4, <1>5, <1>6, <1>7, <1>8, <1>9, <1>10
        DEF Environment, UserEdit

LEMMA NextTunnelStep ==
    ASSUME TypeInv, KnowsOK, [Next]_vars
    PROVE  TunnelStep /\ KnowsOK'
<1>1. ASSUME UNCHANGED <<tunnelVars, host, uids, deployment>>, UNCHANGED procVars
      PROVE  TunnelStep /\ KnowsOK'
  BY <1>1, StillProcs, StillDeployment, QuietStep
<1>2. ASSUME NEW k \in Keys, Merge(k) PROVE TunnelStep /\ KnowsOK'
  BY <1>1, <1>2
  DEF Merge, clusterVars, objectVars, streamVars, tunnelVars, cacheVars
<1>3. CASE Stop
  BY <1>1, <1>3 DEF Stop, objectVars, streamVars, tunnelVars, cacheVars
<1>4. CASE Restart
  BY <1>4, RelistTunnelStep DEF Restart, objectVars
<1>5. CASE UNCHANGED vars
  BY <1>1, <1>5 DEF vars, clusterVars, objectVars, streamVars, tunnelVars, cacheVars
<1> QED
  BY <1>2, <1>3, <1>4, <1>5, WorkerTunnelStep, ListenerTunnelStep,
     InformersTunnelStep, EnvironmentTunnelStep DEF Next

------------------------------------------------------------------------------
(* What a write makes of a tunnel: a later stage, and nothing taken back. *)

Advances(old, new) ==
    /\ new \in TunnelRecord
    /\ new.uid = old.uid /\ new.rv = old.rv + 1 /\ new.owner = old.owner
    /\ Stage(old) <= Stage(new)
    /\ new.hostStatus = "" <=> new.hostID = None
    /\ old.hostID \in {None, new.hostID}
    /\ old.generated => new.generated
    /\ old.auth \in {"none", new.auth}
    /\ old.clientRef = "named" => new.clientRef = "named"

LEMMA SameButClientFields ==
    ASSUME NEW t \in TunnelRecord, NEW c \in TunnelRecord
    PROVE  SameButClient(t, c) <=>
              /\ t.uid = c.uid /\ t.rv = c.rv /\ t.owner = c.owner
              /\ t.serviceRef = c.serviceRef /\ t.auth = c.auth
              /\ t.generated = c.generated /\ t.hostStatus = c.hostStatus
              /\ t.hostID = c.hostID
<1> DEFINE Plain(x) == [x EXCEPT !.clientRef = "none"]
<1>1. ASSUME NEW x \in TunnelRecord
      PROVE  /\ Plain(x) \in TunnelRecord
             /\ Plain(x).uid = x.uid /\ Plain(x).rv = x.rv /\ Plain(x).owner = x.owner
             /\ Plain(x).serviceRef = x.serviceRef /\ Plain(x).auth = x.auth
             /\ Plain(x).generated = x.generated /\ Plain(x).hostStatus = x.hostStatus
             /\ Plain(x).hostID = x.hostID /\ Plain(x).clientRef = "none"
  BY DEF TunnelRecord
<1>2. ASSUME NEW x \in TunnelRecord, NEW y \in TunnelRecord
      PROVE  x = y <=>
              /\ x.uid = y.uid /\ x.rv = y.rv /\ x.owner = y.owner
              /\ x.serviceRef = y.serviceRef /\ x.auth = y.auth
              /\ x.generated = y.generated /\ x.hostStatus = y.hostStatus
              /\ x.hostID = y.hostID /\ x.clientRef = y.clientRef
  <2>1. ASSUME NEW z \in TunnelRecord
        PROVE  z = [uid |-> z.uid, rv |-> z.rv, owner |-> z.owner,
                    serviceRef |-> z.serviceRef, auth |-> z.auth,
                    generated |-> z.generated, hostStatus |-> z.hostStatus,
                    hostID |-> z.hostID, clientRef |-> z.clientRef]
    BY DEF TunnelRecord
  <2> QED BY <2>1
<1>3. SameButClient(t, c) <=> Plain(t) = Plain(c)
  BY DEF SameButClient
<1> HIDE DEF Plain
<1> QED BY <1>1, <1>2, <1>3

LEMMA StageOf ==
    ASSUME NEW t \in TunnelRecord
    PROVE  /\ t.hostStatus = "" => Stage(t) = 0
           /\ t.hostStatus = "provisioning" => Stage(t) = 1
           /\ t.hostStatus = "active" => Stage(t) = 2
           /\ t.hostStatus \in {"", "provisioning", "active"}
BY DEF Stage, TunnelRecord

LEMMA GeneratedFields ==
    ASSUME NEW t \in TunnelRecord
    PROVE  LET n == [t EXCEPT !.generated = TRUE]
           IN  /\ n.uid = t.uid /\ n.rv = t.rv /\ n.owner = t.owner
               /\ n.auth = t.auth /\ n.generated = TRUE
               /\ n.hostStatus = t.hostStatus /\ n.hostID = t.hostID
               /\ n.clientRef = t.clientRef
BY DEF TunnelRecord

LEMMA AuthFields ==
    ASSUME NEW t \in TunnelRecord
    PROVE  LET n == [t EXCEPT !.auth = "status"]
           IN  /\ n.uid = t.uid /\ n.rv = t.rv /\ n.owner = t.owner
               /\ n.auth = "status" /\ n.generated = t.generated
               /\ n.hostStatus = t.hostStatus /\ n.hostID = t.hostID
               /\ n.clientRef = t.clientRef
BY DEF TunnelRecord

LEMMA ActiveFields ==
    ASSUME NEW t \in TunnelRecord
    PROVE  LET n == [t EXCEPT !.hostStatus = "active"]
           IN  /\ n.uid = t.uid /\ n.rv = t.rv /\ n.owner = t.owner
               /\ n.auth = t.auth /\ n.generated = t.generated
               /\ n.hostStatus = "active" /\ n.hostID = t.hostID
               /\ n.clientRef = t.clientRef
BY DEF TunnelRecord

LEMMA WrittenAdvances ==
    ASSUME TunnelInv, NEW s \in Services, Written(s)
    PROVE  Advances(tunnel[s], tunnel'[s])
<1>1. PICK w \in Workers :
          /\ pc[w] \in StatusWrites /\ at[w].name = s /\ Current(tunnel[s], at[w].tun)
          /\ tunnel'[s] = Bumped(NewStatus(pc[w], at[w]))
  BY DEF Written
<1> DEFINE t == at[w].tun
           old == tunnel[s]
           n == NewStatus(pc[w], at[w])
<1>2. /\ t \in TunnelRecord /\ old \in TunnelRecord /\ w \in Goroutines
      /\ Knows(pc[w], at[w])
  BY <1>1, AtWork DEF TunnelInv, TypeInv, ClusterTypeOK, Current, WithTunnel,
                      StatusWrites, KnowsOK
<1>3. CopyOf(t, s)
  <2>1. IsCopy(t, s)
    BY <1>1, <1>2 DEF IsCopy, InWork, StatusWrites, WithTunnel
  <2> QED BY <1>2, <2>1 DEF TunnelInv, CopiesTrue
<1>4. /\ SameButClient(t, old) /\ (t.hostStatus = "" <=> t.hostID = None)
      /\ old.clientRef = "named" => t.clientRef = "named"
  BY <1>1, <1>3 DEF Current, CopyOf
<1>5. /\ t.uid = old.uid /\ t.rv = old.rv /\ t.owner = old.owner
      /\ t.serviceRef = old.serviceRef /\ t.auth = old.auth
      /\ t.generated = old.generated /\ t.hostStatus = old.hostStatus
      /\ t.hostID = old.hostID
  BY <1>2, <1>4, SameButClientFields
<1>6. /\ n \in TunnelRecord /\ n.uid = t.uid /\ n.rv = t.rv /\ n.owner = t.owner
      /\ Stage(t) <= Stage(n)
      /\ n.hostStatus = "" <=> n.hostID = None
      /\ t.hostID \in {None, n.hostID}
      /\ t.generated => n.generated
      /\ t.auth \in {"none", n.auth}
      /\ n.clientRef = t.clientRef
  <2>1. n \in TunnelRecord
    <3>1. pc[w] = "setProvisioning" => at[w].target \in Hosts
      BY <1>2 DEF Knows
    <3> QED BY <1>1, <1>2, <3>1, TunnelEdits DEF NewStatus, StatusWrites
  <2>2. /\ n.uid = t.uid /\ n.rv = t.rv /\ n.owner = t.owner
        /\ n.hostStatus = "" <=> n.hostID = None
        /\ t.hostID \in {None, n.hostID}
        /\ t.generated => n.generated
        /\ t.auth \in {"none", n.auth}
        /\ n.clientRef = t.clientRef
        /\ \/ n.hostStatus = t.hostStatus
           \/ t.hostStatus = "" /\ n.hostStatus = "provisioning"
           \/ t.hostStatus = "provisioning" /\ n.hostStatus = "active"
    <3>1. CASE pc[w] = "setGenerated"
      <4>1. n = [t EXCEPT !.generated = TRUE]
        BY <3>1 DEF NewStatus
      <4> HIDE DEF n, t
      <4> QED BY <1>2, <1>4, <4>1, GeneratedFields
    <3>2. CASE pc[w] = "setAuthRef"
      <4>1. n = [t EXCEPT !.auth = "status"] /\ t.auth = "none"
        BY <1>2, <3>2 DEF NewStatus, Knows
      <4> HIDE DEF n, t
      <4>2. /\ n.uid = t.uid /\ n.rv = t.rv /\ n.owner = t.owner
            /\ n.auth = "status" /\ n.generated = t.generated
            /\ n.hostStatus = t.hostStatus /\ n.hostID = t.hostID
            /\ n.clientRef = t.clientRef
        BY <1>2, <4>1, AuthFields
      <4> QED BY <1>4, <4>1, <4>2
    <3>3. CASE pc[w] = "setProvisioning"
      <4> DEFINE h == at[w].target
      <4>1. /\ n = [t EXCEPT !.hostStatus = "provisioning", !.hostID = h]
            /\ t.hostStatus = "" /\ h \in Hosts
        BY <1>2, <3>3 DEF NewStatus, Knows
      <4>2. h # None
        BY <4>1, ClusterAssumption
      <4> HIDE DEF n, t, h
      <4>3. /\ n.uid = t.uid /\ n.rv = t.rv /\ n.owner = t.owner
            /\ n.auth = t.auth /\ n.generated = t.generated
            /\ n.hostStatus = "provisioning" /\ n.hostID = h
            /\ n.clientRef = t.clientRef
        BY <1>2, <4>1 DEF TunnelRecord
      <4> QED BY <1>4, <4>1, <4>2, <4>3
    <3>4. CASE pc[w] = "setActive"
      <4>1. n = [t EXCEPT !.hostStatus = "active"] /\ t.hostStatus = "provisioning"
        BY <1>2, <3>4 DEF NewStatus, Knows
      <4> HIDE DEF n, t
      <4>2. /\ n.uid = t.uid /\ n.rv = t.rv /\ n.owner = t.owner
            /\ n.auth = t.auth /\ n.generated = t.generated
            /\ n.hostStatus = "active" /\ n.hostID = t.hostID
            /\ n.clientRef = t.clientRef
        BY <1>2, <4>1, ActiveFields
      <4> QED BY <1>4, <4>1, <4>2
    <3>5. CASE pc[w] = "setClientRef"
      <4>1. n = t
        BY <3>5 DEF NewStatus
      <4> HIDE DEF n, t
      <4> QED BY <1>2, <1>4, <4>1
    <3> QED BY <1>1, <3>1, <3>2, <3>3, <3>4, <3>5 DEF StatusWrites
  <2>3. Stage(t) <= Stage(n)
    <3> HIDE DEF n, t
    <3>1. CASE n.hostStatus = t.hostStatus
      <4>1. Stage(n) = Stage(t) /\ Stage(t) \in {0, 1, 2}
        BY <1>2, <2>1, <3>1, StageOf
      <4> QED BY <4>1
    <3>2. CASE t.hostStatus = "" /\ n.hostStatus = "provisioning"
      <4>1. Stage(t) = 0 /\ Stage(n) = 1
        BY <1>2, <2>1, <3>2, StageOf
      <4> QED BY <4>1
    <3>3. CASE t.hostStatus = "provisioning" /\ n.hostStatus = "active"
      <4>1. Stage(t) = 1 /\ Stage(n) = 2
        BY <1>2, <2>1, <3>3, StageOf
      <4> QED BY <4>1
    <3> QED BY <2>2, <3>1, <3>2, <3>3
  <2> QED BY <2>1, <2>2, <2>3
<1>7. /\ Bumped(n) \in TunnelRecord /\ Bumped(n).uid = n.uid /\ Bumped(n).rv = n.rv + 1
      /\ Bumped(n).owner = n.owner /\ Bumped(n).hostStatus = n.hostStatus
      /\ Bumped(n).hostID = n.hostID /\ Bumped(n).generated = n.generated
      /\ Bumped(n).auth = n.auth /\ Bumped(n).clientRef = n.clientRef
  <2> HIDE DEF n
  <2>1. Bumped(n) \in TunnelRecord
    BY <1>6, BumpedType
  <2> QED BY <1>6, <2>1 DEF Bumped, TunnelRecord
<1>8. Stage(t) = Stage(old) /\ Stage(n) = Stage(Bumped(n))
  BY <1>5, <1>7 DEF Stage
<1> HIDE DEF n, t, old
<1>9. tunnel'[s] = Bumped(n)
  BY <1>1 DEF n
<1> QED BY <1>4, <1>5, <1>6, <1>7, <1>8, <1>9 DEF Advances, old

LEMMA TunnelsOneByOne ==
    ASSUME TunnelInv, TunnelsEvolve, NEW s \in Services
    PROVE  \/ tunnel'[s] = tunnel[s]
           \/ Removed(s) \/ Created(s)
           \/ tunnel[s] \in TunnelRecord /\ Advances(tunnel[s], tunnel'[s])
<1>1. Written(s) => tunnel[s] \in TunnelRecord
  BY DEF Written, Current, TunnelInv, TypeInv, ClusterTypeOK
<1> QED BY <1>1, WrittenAdvances DEF TunnelsEvolve

------------------------------------------------------------------------------
(* Copies stay true. *)

LEMMA Between ==
    ASSUME NEW i \in Nat, NEW j \in Nat, NEW k \in Nat, i <= j, j <= k
    PROVE  i <= k
OBVIOUS

LEMMA Beyond ==
    ASSUME NEW i \in Nat, NEW j \in Nat, NEW k, i <= j, k = j + 1
    PROVE  i <= k /\ i # k
OBVIOUS

(* A true copy stays true whatever becomes of its tunnel. *)
LEMMA CopyStaysTrue ==
    ASSUME TunnelInv, TypeInv', TunnelsEvolve,
           NEW s \in Services, NEW t \in TunnelRecord, CopyOf(t, s)
    PROVE  CopyOf(t, s)'
<1>1. /\ uids.tunnel \in Nat /\ uids'.tunnel \in Nat /\ uids.tunnel <= uids'.tunnel
      /\ t.uid \in Nat /\ t.rv \in Nat /\ t.uid <= uids.tunnel
      /\ t.hostStatus = "" <=> t.hostID = None
  <2>1. uids.tunnel \in Nat /\ uids'.tunnel \in Nat
    BY DEF TunnelInv, TypeInv, ClusterTypeOK
  <2>2. t.uid \in Nat /\ t.rv \in Nat
    BY DEF TunnelRecord
  <2> QED BY <2>1, <2>2 DEF TunnelsEvolve, CopyOf
<1>2. t.uid <= uids'.tunnel
  BY <1>1, Between
<1>3. CASE tunnel'[s] = tunnel[s]
  BY <1>1, <1>2, <1>3 DEF CopyOf
<1>4. CASE Removed(s)
  BY <1>1, <1>2, <1>4 DEF CopyOf, Removed
<1>5. CASE Created(s)
  <2>1. tunnel'[s].uid # t.uid
    BY <1>1, <1>5, Beyond DEF Created
  <2> QED BY <1>1, <1>2, <2>1 DEF CopyOf
<1>6. CASE tunnel[s] \in TunnelRecord /\ Advances(tunnel[s], tunnel'[s])
  <2>1. /\ tunnel[s].rv \in Nat /\ tunnel'[s].rv = tunnel[s].rv + 1
        /\ tunnel'[s].uid = tunnel[s].uid /\ tunnel[s] # None
        /\ tunnel[s].hostID \in {None, tunnel'[s].hostID}
    BY <1>6, NoneAssumption DEF Advances, TunnelRecord
  <2>2. CASE tunnel[s].uid = t.uid
    <3>1. t.rv <= tunnel[s].rv /\ t.hostID \in {None, tunnel[s].hostID}
      BY <2>1, <2>2 DEF CopyOf
    <3>2. t.rv <= tunnel'[s].rv /\ t.rv # tunnel'[s].rv
      BY <1>1, <2>1, <3>1, Beyond
    <3> QED BY <1>1, <1>2, <2>1, <3>1, <3>2 DEF CopyOf
  <2>3. CASE tunnel[s].uid # t.uid
    BY <1>1, <1>2, <2>1, <2>3 DEF CopyOf
  <2> QED BY <2>2, <2>3
<1> QED BY <1>3, <1>4, <1>5, <1>6, TunnelsOneByOne

(* The tunnel is a true copy of itself. *)
LEMMA TunnelOfItself ==
    ASSUME TunnelInv, TypeInv', TunnelsEvolve,
           NEW s \in Services, NEW t \in TunnelRecord, t = tunnel'[s]
    PROVE  CopyOf(t, s)'
<1>1. /\ uids.tunnel \in Nat /\ uids'.tunnel \in Nat /\ uids.tunnel <= uids'.tunnel
      /\ t.uid \in Nat /\ t.rv \in Nat
  <2>1. uids.tunnel \in Nat /\ uids'.tunnel \in Nat
    BY DEF TunnelInv, TypeInv, ClusterTypeOK
  <2> QED BY <2>1 DEF TunnelsEvolve, TunnelRecord
<1>2. t.uid <= uids'.tunnel /\ (t.hostStatus = "" <=> t.hostID = None)
  <2>1. CASE tunnel[s] \in TunnelRecord /\ t.uid = tunnel[s].uid
             /\ (tunnel'[s] = tunnel[s] \/ Advances(tunnel[s], tunnel'[s]))
    <3>1. CopyOf(tunnel[s], s)
      BY <2>1 DEF TunnelInv, CopiesTrue, IsCopy
    <3>2. t.uid <= uids.tunnel
      BY <2>1, <3>1 DEF CopyOf
    <3>3. t.uid <= uids'.tunnel
      BY <1>1, <3>2, Between
    <3>4. t.hostStatus = "" <=> t.hostID = None
      BY <2>1, <3>1 DEF CopyOf, Advances
    <3> QED BY <3>3, <3>4
  <2>2. CASE Removed(s)
    BY <2>2, NoneAssumption DEF Removed
  <2>3. CASE Created(s)
    <3>1. t.uid = uids'.tunnel
      BY <2>3 DEF Created
    <3>2. t.uid <= uids'.tunnel
      BY <1>1, <3>1
    <3> QED BY <2>3, <3>2 DEF Created
  <2> QED
    <3>1. tunnel'[s] = tunnel[s] => tunnel[s] \in TunnelRecord
      OBVIOUS
    <3>2. Advances(tunnel[s], tunnel'[s]) => t.uid = tunnel[s].uid
      BY DEF Advances
    <3> QED BY <2>1, <2>2, <2>3, <3>1, <3>2, TunnelsOneByOne
<1>3. t.rv <= t.rv
  BY <1>1
<1> QED BY <1>2, <1>3 DEF CopyOf, SameButClient

(* A copy that createClientDeployment renames is as true as before: it was not
   named in a version of which some copy had no name. *)
LEMMA RenamedIsTrue ==
    ASSUME TunnelInv, NEW s \in Services, NEW t \in TunnelRecord, Renamed(t, s)
    PROVE  CopyOf(t, s)
<1>1. PICK c \in TunnelRecord, d \in TunnelRecord :
          /\ IsCopy(c, s) /\ IsCopy(d, s) /\ SameButClient(t, c)
          /\ c.uid = d.uid /\ c.rv = d.rv /\ d.clientRef # "named"
  BY DEF Renamed
<1>2. CopyOf(c, s) /\ CopyOf(d, s)
  BY <1>1 DEF TunnelInv, CopiesTrue
<1>3. /\ t.uid = c.uid /\ t.rv = c.rv /\ t.hostStatus = c.hostStatus
      /\ t.hostID = c.hostID
  BY <1>1, SameButClientFields
<1>4. \A x : SameButClient(c, x) => SameButClient(t, x)
  BY <1>1 DEF SameButClient
<1> QED BY <1>1, <1>2, <1>3, <1>4 DEF CopyOf

LEMMA CopiesStayTrue ==
    ASSUME TunnelInv, TypeInv', TunnelStep
    PROVE  CopiesTrue'
<1> SUFFICES ASSUME NEW s \in Services, NEW t \in TunnelRecord, IsCopy(t, s)'
             PROVE  CopyOf(t, s)'
  BY DEF CopiesTrue
<1>1. CASE IsCopy(t, s) \/ Renamed(t, s)
  <2>1. CopyOf(t, s)
    BY <1>1, RenamedIsTrue DEF TunnelInv, CopiesTrue
  <2> QED BY <2>1, CopyStaysTrue DEF TunnelStep
<1>2. CASE t = tunnel'[s]
  BY <1>2, TunnelOfItself DEF TunnelStep
<1> QED BY <1>1, <1>2 DEF TunnelStep, CopiesMove

(* Nothing is known of any tunnel at the start. *)
LEMMA InitTunnelInv ==
    ASSUME Init
    PROVE  KnowsOK /\ CopiesTrue
<1>1. KnowsOK
  BY DEF Init, ProcInit, KnowsOK, Knows, WithActiveTunnel
<1>2. ASSUME NEW s \in Services, NEW t \in TunnelRecord
      PROVE  ~IsCopy(t, s)
  <2>1. ~InWork(t, s)
    BY DEF Init, ProcInit, InWork, WithTunnel
  <2>2. ~InStream(t, s) /\ ~InDeletions(t, s)
    BY DEF Init, ClusterInit, CacheInit, InStream, InDeletions
  <2>3. t # tunnel[s] /\ t # tunnelCache[s]
    BY NoneAssumption DEF Init, ClusterInit, CacheInit
  <2> QED BY <2>1, <2>2, <2>3 DEF IsCopy
<1> QED BY <1>1, <1>2 DEF CopiesTrue

LEMMA TunnelInvStep ==
    ASSUME TunnelInv, [Next]_vars
    PROVE  TunnelInv' /\ TunnelStep
<1>1. TypeInv' /\ TunnelStep /\ KnowsOK'
  BY TypeInvStep, NextTunnelStep DEF TunnelInv
<1> QED BY <1>1, CopiesStayTrue DEF TunnelInv

LEMMA TunnelInvariant == Spec => []TunnelInv
<1>1. Init => TunnelInv
  BY TypeInvInit, InitTunnelInv DEF TunnelInv
<1>2. TunnelInv /\ [Next]_vars => TunnelInv'
  BY TunnelInvStep
<1> QED BY <1>1, <1>2, PTL DEF Spec

------------------------------------------------------------------------------

NothingTakenBack ==
    \A s \in Services :
        tunnel[s] # None /\ tunnel'[s] # None /\ tunnel[s].uid = tunnel'[s].uid
        => /\ Stage(tunnel[s]) <= Stage(tunnel'[s])
           /\ tunnel[s].hostID \in {None, tunnel'[s].hostID}
           /\ tunnel[s].generated => tunnel'[s].generated
           /\ tunnel[s].auth \in {"none", tunnel'[s].auth}
           /\ tunnel[s].clientRef = "named" => tunnel'[s].clientRef = "named"

LEMMA StepTakesNothingBack ==
    ASSUME TunnelInv, TunnelsEvolve
    PROVE  NothingTakenBack
<1> SUFFICES ASSUME NEW s \in Services, tunnel[s] # None, tunnel'[s] # None
             PROVE  /\ Stage(tunnel[s]) <= Stage(tunnel'[s])
                    /\ tunnel[s].hostID \in {None, tunnel'[s].hostID}
                    /\ tunnel[s].generated => tunnel'[s].generated
                    /\ tunnel[s].auth \in {"none", tunnel'[s].auth}
                    /\ tunnel[s].clientRef = "named" => tunnel'[s].clientRef = "named"
  BY DEF NothingTakenBack
<1>1. tunnel[s] \in TunnelRecord
  BY DEF TunnelInv, TypeInv, ClusterTypeOK
<1>2. CASE tunnel'[s] = tunnel[s]
  <2>1. Stage(tunnel[s]) \in {0, 1, 2}
    BY <1>1, StageOf
  <2>2. Stage(tunnel[s]) <= Stage(tunnel[s])
    BY <2>1
  <2> QED BY <1>2, <2>2
<1>3. CASE Advances(tunnel[s], tunnel'[s])
  BY <1>3 DEF Advances
<1> QED BY <1>2, <1>3, TunnelsOneByOne DEF Created, Removed

(* No write of a tunnel's status, from whatever stale copy, takes back what is
   recorded there: workers, the listener's caches and lost replies included
   (controller.go:381-470, 640-658, 920-946). *)
THEOREM StatusKept == Spec => StatusNeverRegresses
<1>1. TunnelInv /\ [Next]_vars => [NothingTakenBack]_vars
  BY TunnelInvStep, StepTakesNothingBack DEF TunnelStep
<1>2. Spec => [][NothingTakenBack]_vars
  BY <1>1, TunnelInvariant, PTL DEF Spec
<1>3. [NothingTakenBack]_vars <=>
      [\A s \in Services :
          tunnel[s] # None /\ tunnel'[s] # None /\ tunnel[s].uid = tunnel'[s].uid
          => /\ Stage(tunnel[s]) <= Stage(tunnel'[s])
             /\ tunnel[s].hostID \in {None, tunnel'[s].hostID}
             /\ tunnel[s].generated => tunnel'[s].generated
             /\ tunnel[s].auth \in {"none", tunnel'[s].auth}
             /\ tunnel[s].clientRef = "named" => tunnel'[s].clientRef = "named"]_vars
  BY DEF NothingTakenBack
<1> QED BY <1>2, <1>3, PTL DEF StatusNeverRegresses
==============================================================================
