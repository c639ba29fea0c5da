------------------------------ MODULE HostProofs ------------------------------
(****************************************************************************)
(* Who may have a cloud host: copies of one tunnel only, or the worker that    *)
(* has ordered it and not recorded it yet.  A host is therefore deleted for     *)
(* the tunnel that had it and for no other, and the life of tunnels and hosts   *)
(* is the one TunnelLifecycle promises.                                        *)
(****************************************************************************)
EXTENDS TunnelProofs

(* No host is known from two tunnels, not even of the same name. *)
HostsNotShared ==
    \A r, s \in Services, t, u \in TunnelRecord :
        IsCopy(t, r) /\ IsCopy(u, s) /\ t.hostID = u.hostID /\ t.hostID # None
            => r = s /\ t.uid = u.uid

HostsOrdered ==
    \A s \in Services, t \in TunnelRecord :
        IsCopy(t, s) /\ t.hostID # None => host[t.hostID] # "free"

(* A host that a worker has yet to record is its alone. *)
OrdersExclusive ==
    \A p \in Goroutines : pc[p] = "setProvisioning" =>
        /\ host[at[p].target] \in {"booting", "active"}
        /\ \A s \in Services, t \in TunnelRecord :
              IsCopy(t, s) => t.hostID # at[p].target
        /\ \A q \in Goroutines :
              pc[q] = "setProvisioning" /\ at[q].target = at[p].target => q = p

DeletedAreGone ==
    \A s \in Services, t \in TunnelRecord :
        IsDeleted(t, s) => tunnel[s] = None \/ tunnel[s].uid # t.uid

(* The cloud said so, and hosts do not go back to booting. *)
ActivatedHosts ==
    \A p \in Goroutines :
        pc[p] = "setActive" => host[at[p].target] \in {"active", "gone"}

(* A client was made from a copy of the tunnel that had an active host. *)
ClientFor(owner, hostIP, s) ==
    /\ hostIP # None /\ owner <= uids.tunnel
    /\ tunnel[s] # None /\ tunnel[s].uid = owner => tunnel[s].hostID = hostIP

ClientsTrue ==
    \A s \in Services :
        deployment[s] # None => ClientFor(deployment[s].owner, deployment[s].hostIP, s)

HostInv ==
    /\ TunnelInv
    /\ HostsNotShared /\ HostsOrdered /\ OrdersExclusive
    /\ DeletedAreGone /\ ActivatedHosts /\ ClientsTrue /\ NoTunnelOnDeletedHost

------------------------------------------------------------------------------
(* Where a host that a copy mentions is from: an older copy of the same tunnel,
   or the worker that records it in this step. *)

KnownBefore(t, s) ==
    \E c \in TunnelRecord :
        IsCopy(c, s) /\ c.uid = t.uid /\ c.hostID = t.hostID

RecordedNow(t, s) ==
    /\ t = tunnel'[s] /\ host' = host
    /\ \E w \in Goroutines :
          /\ pc[w] = "setProvisioning" /\ pc'[w] # "setProvisioning"
          /\ at[w].name = s /\ at[w].target = t.hostID

LEMMA WrittenHost ==
    ASSUME TunnelInv, TunnelStep, NEW s \in Services, Written(s), host' = host,
           NEW t \in TunnelRecord, t = tunnel'[s]
    PROVE  KnownBefore(t, s) \/ RecordedNow(t, s)
<1>1. PICK w \in Workers :
          /\ pc[w] \in StatusWrites /\ pc'[w] \notin WithTunnel
          /\ at[w].name = s /\ Current(tunnel[s], at[w].tun)
          /\ tunnel'[s] = Bumped(NewStatus(pc[w], at[w]))
  BY DEF Written
<1> DEFINE c == at[w].tun
           n == NewStatus(pc[w], at[w])
<1>2. w \in Goroutines /\ c \in TunnelRecord
  BY <1>1, AtWork DEF TunnelInv, TypeInv, StatusWrites, WithTunnel
<1>3. IsCopy(c, s)
  BY <1>1, <1>2 DEF IsCopy, InWork, StatusWrites, WithTunnel
<1>4. n \in TunnelRecord
  <2>1. pc[w] = "setProvisioning" => at[w].target \in Hosts
    BY <1>2 DEF TunnelInv, KnowsOK, Knows
  <2> QED BY <1>1, <1>2, <2>1, TunnelEdits DEF NewStatus, StatusWrites
<1>5. t.hostID = n.hostID /\ t.uid = n.uid
  <2> HIDE DEF n
  <2> QED BY <1>1, <1>4 DEF Bumped, TunnelRecord, n
<1>6. CASE pc[w] = "setProvisioning"
  <2>1. n.hostID = at[w].target
    BY <1>2, <1>6 DEF NewStatus, TunnelRecord
  <2>2. pc'[w] # "setProvisioning"
    BY <1>1 DEF WithTunnel
  <2> QED BY <1>1, <1>2, <1>5, <1>6, <2>1, <2>2 DEF RecordedNow
<1>7. CASE pc[w] # "setProvisioning"
  <2>1. n.hostID = c.hostID /\ n.uid = c.uid
    BY <1>1, <1>2, <1>7 DEF NewStatus, StatusWrites, TunnelRecord
  <2> QED BY <1>2, <1>3, <1>5, <2>1 DEF KnownBefore
<1> QED BY <1>6, <1>7

LEMMA HostOrigin ==
    ASSUME TunnelInv, TunnelStep,
           NEW s \in Services, NEW t \in TunnelRecord, IsCopy(t, s)', t.hostID # None
    PROVE  KnownBefore(t, s) \/ RecordedNow(t, s)
<1>1. CASE IsCopy(t, s)
  BY <1>1 DEF KnownBefore
<1>2. CASE Renamed(t, s)
  <2>1. PICK c \in TunnelRecord : IsCopy(c, s) /\ SameButClient(t, c)
    BY <1>2 DEF Renamed
  <2>2. c.uid = t.uid /\ c.hostID = t.hostID
    BY <2>1, SameButClientFields
  <2> QED BY <2>1, <2>2 DEF KnownBefore
<1>3. CASE t = tunnel'[s]
  <2>1. CASE tunnel'[s] = tunnel[s]
    BY <1>1, <1>3, <2>1 DEF IsCopy
  <2>2. CASE tunnel'[s] # tunnel[s]
    <3>1. host' = host /\ (Created(s) \/ Removed(s) \/ Written(s))
      BY <2>2 DEF TunnelStep, TunnelsEvolve
    <3>2. ~Created(s) /\ ~Removed(s)
      BY <1>3, NoneAssumption DEF Created, Removed
    <3> QED BY <1>3, <3>1, <3>2, WrittenHost
  <2> QED BY <2>1, <2>2
<1> QED BY <1>1, <1>2, <1>3 DEF TunnelStep, CopiesMove

(* A host that is in use stays out of the pool of free ones, and is not deleted
   unless a deleted tunnel had it. *)
LEMMA HostMoves ==
    ASSUME HostInv, TunnelStep, NEW h \in Hosts, host[h] # "free"
    PROVE  /\ host'[h] # "free"
           /\ host[h] \in {"active", "gone"} => host'[h] \in {"active", "gone"}
           /\ host[h] \in {"booting", "active"} =>
                 \/ host'[h] \in {"booting", "active"}
                 \/ \E s \in Services, t \in TunnelRecord :
                       IsDeleted(t, s) /\ t.hostID = h
<1>1. CASE host' = host
  BY <1>1
<1>2. CASE host' # host
  <2>1. PICK g \in Hosts :
          /\ \A x \in Hosts \ {g} : host'[x] = host[x]
          /\ \/ host[g] = "free" /\ host'[g] = "booting"
             \/ host[g] = "booting" /\ host'[g] = "active"
             \/ /\ host'[g] = "gone"
                /\ \E s \in Services, t \in TunnelRecord :
                      IsDeleted(t, s) /\ t.hostID = g
    BY <1>2 DEF TunnelStep, HostsEvolve
  <2>2. CASE g = h
    BY <2>1, <2>2
  <2>3. CASE g # h
    BY <2>1, <2>3
  <2> QED BY <2>2, <2>3
<1> QED BY <1>1, <1>2

LEMMA DeletedIsCopy ==
    ASSUME NEW s \in Services, NEW t \in TunnelRecord, IsDeleted(t, s)
    PROVE  IsCopy(t, s)
BY DEF IsDeleted, IsCopy, InStream

------------------------------------------------------------------------------
(* The parts of the invariant, one by one. *)

(* What the tunnel records, older copies of it do not contradict. *)
LEMMA HostOfTunnel ==
    ASSUME TunnelInv, NEW s \in Services, NEW t \in TunnelRecord, IsCopy(t, s),
           t.hostID # None, tunnel[s] # None, tunnel[s].uid = t.uid
    PROVE  tunnel[s].hostID = t.hostID
BY DEF TunnelInv, CopiesTrue, CopyOf

LEMMA NotSharedStep ==
    ASSUME HostInv, TunnelStep
    PROVE  HostsNotShared'
<1> SUFFICES ASSUME NEW r \in Services, NEW s \in Services,
                    NEW t \in TunnelRecord, NEW u \in TunnelRecord,
                    IsCopy(t, r)', IsCopy(u, s)', t.hostID = u.hostID, t.hostID # None
             PROVE  r = s /\ t.uid = u.uid
  BY DEF HostsNotShared
<1>1. /\ KnownBefore(t, r) \/ RecordedNow(t, r)
      /\ KnownBefore(u, s) \/ RecordedNow(u, s)
  BY HostOrigin DEF HostInv
<1>2. CASE KnownBefore(t, r) /\ KnownBefore(u, s)
  BY <1>2 DEF KnownBefore, HostInv, HostsNotShared
<1>3. CASE RecordedNow(t, r) /\ RecordedNow(u, s)
  BY <1>3 DEF RecordedNow, HostInv, OrdersExclusive
<1>4. CASE KnownBefore(t, r) /\ RecordedNow(u, s)
  BY <1>4 DEF KnownBefore, RecordedNow, HostInv, OrdersExclusive
<1>5. CASE RecordedNow(t, r) /\ KnownBefore(u, s)
  BY <1>5 DEF KnownBefore, RecordedNow, HostInv, OrdersExclusive
<1> QED BY <1>1, <1>2, <1>3, <1>4, <1>5

LEMMA HostOfRecord ==
    ASSUME NEW t \in TunnelRecord, t.hostID # None
    PROVE  t.hostID \in Hosts
BY DEF TunnelRecord

LEMMA OrderedStep ==
    ASSUME HostInv, TunnelStep
    PROVE  HostsOrdered'
<1> SUFFICES ASSUME NEW s \in Services, NEW t \in TunnelRecord,
                    IsCopy(t, s)', t.hostID # None
             PROVE  host'[t.hostID] # "free"
  BY DEF HostsOrdered
<1>1. CASE KnownBefore(t, s)
  <2>1. host[t.hostID] # "free"
    BY <1>1 DEF KnownBefore, HostInv, HostsOrdered
  <2> QED BY <2>1, HostMoves, HostOfRecord
<1>2. CASE RecordedNow(t, s)
  BY <1>2 DEF RecordedNow, HostInv, OrdersExclusive
<1> QED BY <1>1, <1>2, HostOrigin DEF HostInv

LEMMA ExclusiveOrdersStep ==
    ASSUME HostInv, TunnelStep, KnowsOK'
    PROVE  OrdersExclusive'
<1> DEFINE Stays(p) == pc[p] = "setProvisioning" /\ at'[p] = at[p]
           Orders(p) == /\ host[at'[p].target] = "free" /\ host'[at'[p].target] = "booting"
                        /\ \A q \in Goroutines \ {p} : pc'[q] = pc[q] /\ at'[q] = at[q]
<1>1. ASSUME NEW p \in Goroutines, pc'[p] = "setProvisioning"
      PROVE  (Stays(p) \/ Orders(p)) /\ at'[p].target \in Hosts
  BY <1>1 DEF TunnelStep, WorkersMove, KnowsOK, Knows
<1>2. ASSUME NEW p \in Goroutines, Stays(p)
      PROVE  /\ host[at[p].target] \in {"booting", "active"}
             /\ \A s \in Services, t \in TunnelRecord :
                   IsCopy(t, s) => t.hostID # at[p].target
             /\ \A q \in Goroutines : Stays(q) /\ at[q].target = at[p].target => q = p
  BY <1>2 DEF HostInv, OrdersExclusive
<1> SUFFICES ASSUME NEW p \in Goroutines, pc'[p] = "setProvisioning"
             PROVE  /\ host'[at'[p].target] \in {"booting", "active"}
                    /\ \A s \in Services, t \in TunnelRecord :
                          IsCopy(t, s)' => t.hostID # at'[p].target
                    /\ \A q \in Goroutines :
                          pc'[q] = "setProvisioning" /\ at'[q].target = at'[p].target
                              => q = p
  BY DEF OrdersExclusive
<1>3. host'[at'[p].target] \in {"booting", "active"}
  <2>1. CASE Stays(p)
    <3>1. host[at[p].target] # "free" /\ at[p].target \in Hosts
      BY <1>1, <1>2, <2>1
    <3> QED BY <1>2, <2>1, <3>1, HostMoves, DeletedIsCopy
  <2>2. CASE Orders(p)
    BY <2>2
  <2> QED BY <1>1, <2>1, <2>2
<1>4. ASSUME NEW s \in Services, NEW t \in TunnelRecord, IsCopy(t, s)',
             t.hostID = at'[p].target
      PROVE  FALSE
  <2>1. t.hostID # None
    BY <1>1, <1>4, ClusterAssumption
  <2>2. CASE KnownBefore(t, s)
    <3>1. PICK c \in TunnelRecord : IsCopy(c, s) /\ c.hostID = t.hostID
      BY <2>2 DEF KnownBefore
    <3>2. CASE Stays(p)
      BY <1>2, <1>4, <3>1, <3>2
    <3>3. CASE Orders(p)
      BY <1>4, <2>1, <3>1, <3>3 DEF HostInv, HostsOrdered
    <3> QED BY <1>1, <3>2, <3>3
  <2>3. CASE RecordedNow(t, s)
    <3>1. PICK w \in Goroutines :
              /\ pc[w] = "setProvisioning" /\ pc'[w] # "setProvisioning"
              /\ at[w].target = t.hostID
      BY <2>3 DEF RecordedNow
    <3>2. CASE Stays(p)
      <4>1. w = p
        BY <1>4, <3>1, <3>2 DEF HostInv, OrdersExclusive
      <4> QED BY <3>1, <4>1
    <3>3. CASE Orders(p)
      BY <2>3, <3>3 DEF RecordedNow
    <3> QED BY <1>1, <3>2, <3>3
  <2> QED BY <1>4, <2>1, <2>2, <2>3, HostOrigin DEF HostInv
<1>5. ASSUME NEW q \in Goroutines, pc'[q] = "setProvisioning",
             at'[q].target = at'[p].target, q # p
      PROVE  FALSE
  <2>1. CASE Stays(p) /\ Stays(q)
    BY <1>2, <1>5, <2>1
  <2>2. CASE Orders(p)
    <3>1. Stays(q)
      BY <1>5, <2>2
    <3> QED BY <1>2, <1>5, <2>2, <3>1
  <2>3. CASE Orders(q)
    <3>1. Stays(p)
      BY <1>5, <2>3
    <3> QED BY <1>2, <1>5, <2>3, <3>1
  <2> QED BY <1>1, <1>5, <2>1, <2>2, <2>3
<1> QED BY <1>3, <1>4, <1>5

LEMMA GoneStep ==
    ASSUME HostInv, TunnelStep
    PROVE  DeletedAreGone'
<1> SUFFICES ASSUME NEW s \in Services, NEW t \in TunnelRecord, IsDeleted(t, s)'
             PROVE  tunnel'[s] = None \/ tunnel'[s].uid # t.uid
  BY DEF DeletedAreGone
<1>1. CASE t = tunnel[s] /\ tunnel'[s] = None
  BY <1>1
<1>2. CASE IsDeleted(t, s)
  <2>1. tunnel[s] = None \/ tunnel[s].uid # t.uid
    BY <1>2 DEF HostInv, DeletedAreGone
  <2>2. CASE Created(s)
    <3>1. t.uid <= uids.tunnel
      BY <1>2, DeletedIsCopy DEF HostInv, TunnelInv, CopiesTrue, CopyOf
    <3>2. t.uid \in Nat /\ uids.tunnel \in Nat
      BY DEF HostInv, TunnelInv, TypeInv, ClusterTypeOK, TunnelRecord
    <3> QED BY <2>2, <3>1, <3>2, Beyond DEF Created
  <2>3. CASE tunnel[s] \in TunnelRecord /\ Advances(tunnel[s], tunnel'[s])
    BY <2>1, <2>3, NoneAssumption DEF Advances
  <2> QED BY <2>1, <2>2, <2>3, TunnelsOneByOne DEF HostInv, TunnelStep, Removed
<1> QED BY <1>1, <1>2 DEF TunnelStep, DeletionsMove

LEMMA ActivatedStep ==
    ASSUME HostInv, TunnelStep, KnowsOK', TypeInv'
    PROVE  ActivatedHosts'
<1> SUFFICES ASSUME NEW p \in Goroutines, pc'[p] = "setActive"
             PROVE  host'[at'[p].target] \in {"active", "gone"}
  BY DEF ActivatedHosts
<1>1. CASE host[at'[p].target] = "active" /\ host' = host
  BY <1>1
<1>2. CASE pc[p] = "setActive" /\ at'[p] = at[p]
  <2>1. host[at[p].target] \in {"active", "gone"}
    BY <1>2 DEF HostInv, ActivatedHosts
  <2>2. at[p].target \in Hosts
    <3>1. /\ at[p].tun \in TunnelRecord /\ at[p].name \in Services
          /\ at[p].target = at[p].tun.hostID /\ at[p].tun.hostStatus = "provisioning"
      BY <1>2 DEF HostInv, TunnelInv, TypeInv, ProcsOK, CopiesOK, Holds, WithTunnel,
                  Resting, KnowsOK, Knows
    <3>2. CopyOf(at[p].tun, at[p].name)
      BY <1>2, <3>1 DEF HostInv, TunnelInv, CopiesTrue, IsCopy, InWork, WithTunnel
    <3> QED BY <3>1, <3>2, HostOfRecord DEF CopyOf
  <2> QED BY <1>2, <2>1, <2>2, HostMoves
<1> QED BY <1>1, <1>2 DEF TunnelStep, WorkersMove

LEMMA ClientStays ==
    ASSUME HostInv, TypeInv', TunnelStep, NEW s \in Services,
           NEW owner \in Nat, NEW hostIP, ClientFor(owner, hostIP, s)
    PROVE  ClientFor(owner, hostIP, s)'
<1>1. /\ uids.tunnel \in Nat /\ uids'.tunnel \in Nat /\ uids.tunnel <= uids'.tunnel
      /\ hostIP # None /\ owner <= uids.tunnel
  BY DEF HostInv, TunnelInv, TypeInv, ClusterTypeOK, TunnelStep, TunnelsEvolve, ClientFor
<1>2. owner <= uids'.tunnel
  BY <1>1, Between
<1>3. ASSUME tunnel'[s] # None, tunnel'[s].uid = owner PROVE tunnel'[s].hostID = hostIP
  <2>1. CASE tunnel'[s] = tunnel[s]
    BY <1>3, <2>1 DEF ClientFor
  <2>2. CASE Created(s)
    BY <1>1, <1>3, <2>2, Beyond DEF Created
  <2>3. CASE tunnel[s] \in TunnelRecord /\ Advances(tunnel[s], tunnel'[s])
    BY <1>1, <1>3, <2>3, NoneAssumption DEF Advances, ClientFor
  <2> QED BY <1>3, <2>1, <2>2, <2>3, TunnelsOneByOne DEF HostInv, TunnelStep, Removed
<1> QED BY <1>1, <1>2, <1>3 DEF ClientFor

LEMMA ClientsStep ==
    ASSUME HostInv, TypeInv', TunnelStep
    PROVE  ClientsTrue'
<1> SUFFICES ASSUME NEW s \in Services, deployment'[s] # None,
                    NEW owner, owner = deployment'[s].owner,
                    NEW hostIP, hostIP = deployment'[s].hostIP
             PROVE  ClientFor(owner, hostIP, s)'
  BY DEF ClientsTrue, ClientFor
<1>1. owner \in Nat
  BY DEF TypeInv, ClusterTypeOK, DeploymentRecord
<1>2. ClientFor(owner, hostIP, s)
  <2>1. CASE deployment'[s] = deployment[s]
    BY <2>1 DEF HostInv, ClientsTrue
  <2>2. ASSUME NEW w \in Workers,
               pc[w] \in {"createClient", "updateClient"}, at[w].name = s,
               owner = at[w].tun.uid, hostIP = HostIP(at[w].tun)
        PROVE  ClientFor(owner, hostIP, s)
    <3> DEFINE t == at[w].tun
    <3>1. w \in Goroutines /\ t \in TunnelRecord
      BY <2>2, AtWork DEF HostInv, TunnelInv, TypeInv, WithTunnel
    <3>2. CopyOf(t, s)
      BY <2>2, <3>1 DEF HostInv, TunnelInv, CopiesTrue, IsCopy, InWork, WithTunnel
    <3>3. t.hostStatus = "active"
      BY <2>2, <3>1 DEF HostInv, TunnelInv, KnowsOK, Knows, WithActiveTunnel
    <3>4. hostIP = t.hostID /\ t.hostID # None
      BY <2>2, <3>2, <3>3 DEF HostIP, CopyOf
    <3> HIDE DEF t
    <3> QED BY <2>2, <3>2, <3>4 DEF ClientFor, CopyOf, t
  <2> QED BY <2>1, <2>2 DEF TunnelStep, DeploymentsMove
<1> QED BY <1>1, <1>2, ClientStays

LEMMA NotOnDeletedStep ==
    ASSUME HostInv, TypeInv', TunnelStep
    PROVE  NoTunnelOnDeletedHost'
<1> SUFFICES ASSUME NEW s \in Services, tunnel'[s] # None, tunnel'[s].hostID # None
             PROVE  host'[tunnel'[s].hostID] \in {"booting", "active"}
  BY DEF NoTunnelOnDeletedHost
<1>1. PICK t \in TunnelRecord : t = tunnel'[s]
  BY DEF TypeInv, ClusterTypeOK
<1> DEFINE h == t.hostID
<1>2. h \in Hosts /\ h # None
  BY <1>1, HostOfRecord
<1>3. IsCopy(t, s)'
  BY <1>1 DEF IsCopy
<1>4. CASE RecordedNow(t, s)
  BY <1>1, <1>4 DEF RecordedNow, HostInv, OrdersExclusive
<1>5. CASE KnownBefore(t, s)
  <2>1. PICK c \in TunnelRecord : IsCopy(c, s) /\ c.uid = t.uid /\ c.hostID = h
    BY <1>5 DEF KnownBefore
  <2>2. /\ tunnel[s] # None /\ tunnel[s] \in TunnelRecord /\ tunnel[s].uid = t.uid
        /\ c.uid <= uids.tunnel /\ c.uid \in Nat /\ uids.tunnel \in Nat
    <3>1. c.uid <= uids.tunnel /\ c.uid \in Nat /\ uids.tunnel \in Nat
      BY <2>1 DEF HostInv, TunnelInv, CopiesTrue, CopyOf, TypeInv, ClusterTypeOK,
                  TunnelRecord
    <3>2. ~Created(s) /\ ~Removed(s)
      <4>1. Created(s) => t.hostID = None
        BY <1>1 DEF Created
      <4> QED BY <1>1, <1>2, <4>1, NoneAssumption DEF Removed
    <3>3. tunnel'[s] = tunnel[s]
          \/ (tunnel[s] \in TunnelRecord /\ Advances(tunnel[s], tunnel'[s]))
      BY <3>2, TunnelsOneByOne DEF HostInv, TunnelStep
    <3> QED BY <1>1, <3>1, <3>3, NoneAssumption DEF Advances
  <2>3. tunnel[s].hostID = h
    BY <1>2, <2>1, <2>2, HostOfTunnel DEF HostInv
  <2>4. host[h] \in {"booting", "active"}
    BY <1>2, <2>2, <2>3 DEF HostInv, NoTunnelOnDeletedHost
  <2>5. ASSUME NEW r \in Services, NEW u \in TunnelRecord, IsDeleted(u, r), u.hostID = h
        PROVE  FALSE
    <3>1. IsCopy(u, r) /\ IsCopy(tunnel[s], s)
      BY <2>5, DeletedIsCopy DEF IsCopy
    <3>2. r = s /\ u.uid = tunnel[s].uid
      BY <1>2, <2>2, <2>3, <2>5, <3>1 DEF HostInv, HostsNotShared
    <3> QED BY <2>2, <2>5, <3>2 DEF HostInv, DeletedAreGone
  <2>6. host'[h] \in {"booting", "active"}
    BY <1>2, <2>4, <2>5, HostMoves
  <2> QED BY <1>1, <2>6
<1> QED BY <1>2, <1>3, <1>4, <1>5, HostOrigin DEF HostInv

LEMMA HostInvInit ==
    ASSUME Init
    PROVE  HostInv
<1>1. TunnelInv
  BY TypeInvInit, InitTunnelInv DEF TunnelInv
<1>2. ASSUME NEW s \in Services, NEW t \in TunnelRecord
      PROVE  ~IsCopy(t, s)
  <2>1. ~InWork(t, s)
    BY DEF Init, ProcInit, InWork, WithTunnel
  <2>2. ~InStream(t, s) /\ ~InDeletions(t, s)
    BY DEF Init, ClusterInit, CacheInit, InStream, InDeletions
  <2>3. t # tunnel[s] /\ t # tunnelCache[s]
    BY NoneAssumption DEF Init, ClusterInit, CacheInit
  <2> QED BY <2>1, <2>2, <2>3 DEF IsCopy
<1>3. HostsNotShared /\ HostsOrdered /\ DeletedAreGone
  BY <1>2, DeletedIsCopy DEF HostsNotShared, HostsOrdered, DeletedAreGone
<1>4. OrdersExclusive /\ ActivatedHosts
  BY DEF Init, ProcInit, OrdersExclusive, ActivatedHosts
<1>5. ClientsTrue /\ NoTunnelOnDeletedHost
  BY DEF Init, ClusterInit, ClientsTrue, NoTunnelOnDeletedHost
<1> QED BY <1>1, <1>3, <1>4, <1>5 DEF HostInv

LEMMA HostInvStep ==
    ASSUME HostInv, [Next]_vars
    PROVE  HostInv' /\ TunnelStep
<1>1. TunnelInv' /\ TunnelStep
  BY TunnelInvStep DEF HostInv
<1>2. TypeInv' /\ KnowsOK'
  BY <1>1 DEF TunnelInv
<1> QED
  BY <1>1, <1>2, NotSharedStep, OrderedStep, ExclusiveOrdersStep, GoneStep,
     ActivatedStep, ClientsStep, NotOnDeletedStep DEF HostInv

LEMMA HostInvariant == Spec => []HostInv
<1>1. Init => HostInv
  BY HostInvInit
<1>2. HostInv /\ [Next]_vars => HostInv'
  BY HostInvStep
<1> QED BY <1>1, <1>2, PTL DEF Spec

(* However late DeleteFunc is called and however often a tunnel of the same name
   was created again, the host it deletes is no living tunnel's
   (controller.go:133-169). *)
THEOREM NoTunnelLosesItsHost == Spec => []NoTunnelOnDeletedHost
<1>1. HostInv => NoTunnelOnDeletedHost
  BY DEF HostInv
<1> QED BY <1>1, HostInvariant, PTL

(* A client deployment that a tunnel owns connects to that tunnel's host, although
   it is written from cached tunnels and without a resource version
   (controller.go:648-742). *)
THEOREM ClientsConnectToOwnHost == Spec => []ClientsTrue
<1>1. HostInv => ClientsTrue
  BY DEF HostInv
<1> QED BY <1>1, HostInvariant, PTL

------------------------------------------------------------------------------
(* The operator implements TunnelLifecycle. *)

StageMap ==
    [s \in Services |->
        CASE tunnel[s] = None                       -> "absent"
          [] tunnel[s] # None /\ tunnel[s].hostStatus = "" -> "requested"
          [] OTHER                                  -> tunnel[s].hostStatus]

HostMap == [s \in Services |-> IF tunnel[s] = None THEN None ELSE tunnel[s].hostID]

LEMMA Mapped ==
    ASSUME NEW s \in Services
    PROVE  /\ tunnel[s] = None => StageMap[s] = "absent" /\ HostMap[s] = None
           /\ tunnel[s] # None => HostMap[s] = tunnel[s].hostID
           /\ tunnel[s] # None /\ tunnel[s].hostStatus = "" => StageMap[s] = "requested"
           /\ tunnel[s] # None /\ tunnel[s].hostStatus # ""
                  => StageMap[s] = tunnel[s].hostStatus
           /\ StageMap \in [Services -> {StageMap[x] : x \in Services}]
           /\ HostMap \in [Services -> {HostMap[x] : x \in Services}]
<1>1. tunnel[s] = None => StageMap[s] = "absent" /\ HostMap[s] = None
  BY DEF StageMap, HostMap
<1>2. tunnel[s] # None => HostMap[s] = tunnel[s].hostID
  BY DEF HostMap
<1>3. tunnel[s] # None /\ tunnel[s].hostStatus = "" => StageMap[s] = "requested"
  BY DEF StageMap
<1>4. tunnel[s] # None /\ tunnel[s].hostStatus # "" => StageMap[s] = tunnel[s].hostStatus
  BY DEF StageMap
<1>5. StageMap \in [Services -> {StageMap[x] : x \in Services}]
  BY DEF StageMap
<1>6. HostMap \in [Services -> {HostMap[x] : x \in Services}]
  BY DEF HostMap
<1> QED BY <1>1, <1>2, <1>3, <1>4, <1>5, <1>6

(* Tunnel s gets a new stage and host, the others keep theirs. *)
LEMMA MappedChange ==
    ASSUME NEW s \in Services, \A x \in Services \ {s} : tunnel'[x] = tunnel[x]
    PROVE  /\ StageMap' = [StageMap EXCEPT ![s] = StageMap'[s]]
           /\ HostMap' = [HostMap EXCEPT ![s] = HostMap'[s]]
<1>1. StageMap' = [StageMap EXCEPT ![s] = StageMap'[s]]
  BY DEF StageMap
<1>2. HostMap' = [HostMap EXCEPT ![s] = HostMap'[s]]
  BY DEF HostMap
<1> QED BY <1>1, <1>2

LEMMA WrittenStage ==
    ASSUME HostInv, NEW s \in Services, Written(s)
    PROVE  /\ tunnel[s] # None /\ tunnel'[s] # None
           /\ \/ /\ tunnel'[s].hostStatus = tunnel[s].hostStatus
                 /\ tunnel'[s].hostID = tunnel[s].hostID
              \/ /\ tunnel[s].hostStatus = "" /\ tunnel'[s].hostStatus = "provisioning"
                 /\ \E w \in Goroutines : pc[w] = "setProvisioning"
                                          /\ tunnel'[s].hostID = at[w].target
              \/ /\ tunnel[s].hostStatus = "provisioning"
                 /\ tunnel'[s].hostStatus = "active"
                 /\ tunnel'[s].hostID = tunnel[s].hostID
                 /\ host[tunnel[s].hostID] \in {"active", "gone"}
<1>1. PICK w \in Workers :
          /\ pc[w] \in StatusWrites /\ at[w].name = s /\ Current(tunnel[s], at[w].tun)
          /\ tunnel'[s] = Bumped(NewStatus(pc[w], at[w]))
  BY DEF Written
<1> DEFINE t == at[w].tun
           n == NewStatus(pc[w], at[w])
<1>2. /\ w \in Goroutines /\ t \in TunnelRecord
      /\ tunnel[s] # None /\ tunnel[s] \in TunnelRecord
  BY <1>1, AtWork DEF HostInv, TunnelInv, TypeInv, ClusterTypeOK, StatusWrites,
                      WithTunnel, Current
<1>3. t.hostStatus = tunnel[s].hostStatus /\ t.hostID = tunnel[s].hostID
  <2>1. CopyOf(t, s)
    BY <1>1, <1>2 DEF HostInv, TunnelInv, CopiesTrue, IsCopy, InWork, StatusWrites,
                      WithTunnel
  <2>2. SameButClient(t, tunnel[s])
    BY <1>1, <2>1 DEF Current, CopyOf
  <2> QED BY <1>2, <2>2, SameButClientFields
<1>4. Knows(pc[w], at[w]) /\ n \in TunnelRecord
  <2>1. Knows(pc[w], at[w])
    BY <1>2 DEF HostInv, TunnelInv, KnowsOK
  <2>2. pc[w] = "setProvisioning" => at[w].target \in Hosts
    BY <2>1 DEF Knows
  <2> QED BY <1>1, <1>2, <2>1, <2>2, TunnelEdits DEF NewStatus, StatusWrites
<1>5. /\ tunnel'[s] # None /\ tunnel'[s].hostStatus = n.hostStatus
      /\ tunnel'[s].hostID = n.hostID
  <2> HIDE DEF n
  <2>1. Bumped(n) \in TunnelRecord
    BY <1>4, BumpedType
  <2> QED BY <1>1, <1>4, <2>1, NoneAssumption DEF Bumped, TunnelRecord, n
<1>6. CASE pc[w] = "setProvisioning"
  <2>1. n.hostStatus = "provisioning" /\ n.hostID = at[w].target
    BY <1>2, <1>6 DEF NewStatus, TunnelRecord
  <2>2. t.hostStatus = ""
    BY <1>4, <1>6 DEF Knows
  <2> QED BY <1>2, <1>3, <1>5, <1>6, <2>1, <2>2
<1>7. CASE pc[w] = "setActive"
  <2>1. n.hostStatus = "active" /\ n.hostID = t.hostID
    BY <1>2, <1>7 DEF NewStatus, TunnelRecord
  <2>2. t.hostStatus = "provisioning" /\ at[w].target = t.hostID
    BY <1>4, <1>7 DEF Knows
  <2>3. host[t.hostID] \in {"active", "gone"}
    BY <1>2, <1>7, <2>2 DEF HostInv, ActivatedHosts
  <2> QED BY <1>2, <1>3, <1>5, <2>1, <2>2, <2>3
<1>8. CASE pc[w] \notin {"setProvisioning", "setActive"}
  <2>1. n.hostStatus = t.hostStatus /\ n.hostID = t.hostID
    BY <1>1, <1>2, <1>8 DEF NewStatus, StatusWrites, TunnelRecord
  <2> QED BY <1>2, <1>3, <1>5, <2>1
<1> QED BY <1>6, <1>7, <1>8

LEMMA WrittenLives ==
    ASSUME HostInv, NEW s \in Services, Written(s), host' = host,
           \A x \in Services \ {s} : tunnel'[x] = tunnel[x]
    PROVE  Life!Next \/ UNCHANGED <<StageMap, HostMap>>
<1>1. StageMap' = [StageMap EXCEPT ![s] = StageMap'[s]]
      /\ HostMap' = [HostMap EXCEPT ![s] = HostMap'[s]]
  BY MappedChange
<1>2. tunnel[s] # None /\ tunnel'[s] # None
  BY WrittenStage
<1>3. CASE /\ tunnel'[s].hostStatus = tunnel[s].hostStatus
           /\ tunnel'[s].hostID = tunnel[s].hostID
  <2>1. StageMap'[s] = StageMap[s] /\ HostMap'[s] = HostMap[s]
    BY <1>2, <1>3 DEF StageMap, HostMap
  <2> QED BY <1>1, <2>1, Mapped
<1>4. ASSUME tunnel[s].hostStatus = "", tunnel'[s].hostStatus = "provisioning",
             NEW w \in Goroutines, pc[w] = "setProvisioning",
             tunnel'[s].hostID = at[w].target
      PROVE  Life!Next
  <2>1. at[w].target \in Hosts
    BY <1>4 DEF HostInv, TunnelInv, KnowsOK, Knows
  <2>2. PICK h \in Hosts : h = at[w].target
    BY <2>1
  <2>3. h \in Hosts /\ h # None /\ host[h] \in {"booting", "active"}
    BY <1>4, <2>2, ClusterAssumption DEF HostInv, OrdersExclusive
  <2>4. \A x \in Services : HostMap[x] # h
    <3> SUFFICES ASSUME NEW x \in Services PROVE HostMap[x] # h
      OBVIOUS
    <3>1. CASE tunnel[x] = None
      BY <2>3, <3>1 DEF HostMap
    <3>2. CASE tunnel[x] # None
      <4>1. tunnel[x] \in TunnelRecord /\ IsCopy(tunnel[x], x)
        BY <3>2 DEF HostInv, TunnelInv, TypeInv, ClusterTypeOK, IsCopy
      <4> QED BY <1>4, <2>2, <3>2, <4>1 DEF HostInv, OrdersExclusive, HostMap
    <3> QED BY <3>1, <3>2
  <2>5. /\ StageMap[s] = "requested"
        /\ StageMap' = [StageMap EXCEPT ![s] = "provisioning"]
        /\ HostMap' = [HostMap EXCEPT ![s] = h]
    BY <1>1, <1>2, <1>4, <2>2 DEF StageMap, HostMap
  <2>6. Life!Record(s, h)
    BY <2>3, <2>4, <2>5 DEF Life!Record, StageMap, HostMap
  <2> QED BY <2>6 DEF Life!Next
<1>5. CASE /\ tunnel[s].hostStatus = "provisioning"
           /\ tunnel'[s].hostStatus = "active"
           /\ tunnel'[s].hostID = tunnel[s].hostID
           /\ host[tunnel[s].hostID] \in {"active", "gone"}
  <2>1. tunnel[s].hostID # None
    <3>1. tunnel[s] \in TunnelRecord /\ IsCopy(tunnel[s], s)
      BY <1>2 DEF HostInv, TunnelInv, TypeInv, ClusterTypeOK, IsCopy
    <3> QED BY <1>5, <3>1 DEF HostInv, TunnelInv, CopiesTrue, CopyOf
  <2>2. host[HostMap[s]] = "active"
    BY <1>2, <1>5, <2>1 DEF HostInv, NoTunnelOnDeletedHost, HostMap
  <2>3. /\ StageMap[s] = "provisioning" /\ StageMap'[s] = "active"
        /\ HostMap'[s] = HostMap[s]
    BY <1>2, <1>5 DEF StageMap, HostMap
  <2>4. /\ StageMap' = [StageMap EXCEPT ![s] = "active"]
        /\ HostMap' = HostMap
    BY <1>1, <2>3, Mapped
  <2>5. Life!Activate(s)
    BY <2>2, <2>3, <2>4 DEF Life!Activate, StageMap, HostMap
  <2> QED BY <2>5 DEF Life!Next
<1> QED BY <1>3, <1>4, <1>5, WrittenStage

LEMMA HostLives ==
    ASSUME HostInv, TypeInv', HostsEvolve, tunnel' = tunnel
    PROVE  Life!Next \/ UNCHANGED Life!vars
<1>1. StageMap' = StageMap /\ HostMap' = HostMap
  BY DEF StageMap, HostMap
<1>2. CASE host' = host
  BY <1>1, <1>2 DEF Life!vars, StageMap, HostMap
<1>3. ASSUME NEW h \in Hosts,
             \A x \in Hosts \ {h} : host'[x] = host[x],
             \/ host[h] = "free" /\ host'[h] = "booting"
             \/ host[h] = "booting" /\ host'[h] = "active"
             \/ /\ host'[h] = "gone"
                /\ \E s \in Services, t \in TunnelRecord :
                      IsDeleted(t, s) /\ t.hostID = h
      PROVE  Life!Next \/ UNCHANGED Life!vars
  <2>1. host' = [host EXCEPT ![h] = host'[h]]
    <3>1. DOMAIN host = Hosts /\ DOMAIN host' = Hosts
          /\ host = [x \in Hosts |-> host[x]] /\ host' = [x \in Hosts |-> host'[x]]
      BY DEF HostInv, TunnelInv, TypeInv, ClusterTypeOK
    <3> QED BY <1>3, <3>1
  <2>2. CASE host[h] = "free" /\ host'[h] = "booting"
    BY <1>1, <2>1, <2>2 DEF Life!Next, Life!Order, StageMap, HostMap
  <2>3. CASE host[h] = "booting" /\ host'[h] = "active"
    BY <1>1, <2>1, <2>3 DEF Life!Next, Life!Boot, StageMap, HostMap
  <2>4. ASSUME host'[h] = "gone", NEW s \in Services, NEW t \in TunnelRecord,
               IsDeleted(t, s), t.hostID = h
        PROVE  Life!Next \/ UNCHANGED Life!vars
    <3>1. IsCopy(t, s) /\ h # None
      BY <2>4, DeletedIsCopy, ClusterAssumption
    <3>2. host[h] \in {"booting", "active", "gone"}
      BY <2>4, <3>1 DEF HostInv, TunnelInv, TypeInv, ClusterTypeOK, HostsOrdered
    <3>3. ASSUME NEW x \in Services, HostMap[x] = h PROVE FALSE
      <4>1. tunnel[x] \in TunnelRecord /\ tunnel[x].hostID = h
        BY <3>1, <3>3 DEF HostMap, HostInv, TunnelInv, TypeInv, ClusterTypeOK
      <4>2. x = s /\ tunnel[x].uid = t.uid
        BY <2>4, <3>1, <4>1 DEF HostInv, HostsNotShared, IsCopy
      <4> QED BY <2>4, <4>1, <4>2, NoneAssumption DEF HostInv, DeletedAreGone
    <3>4. CASE host[h] = "gone"
      BY <1>1, <2>1, <2>4, <3>4 DEF Life!vars, StageMap, HostMap, HostInv, TunnelInv,
                                   TypeInv, ClusterTypeOK
    <3>5. CASE host[h] \in {"booting", "active"}
      <4>1. Life!Release(h)
        BY <1>1, <2>1, <2>4, <3>3, <3>5 DEF Life!Release, StageMap, HostMap
      <4> QED BY <4>1 DEF Life!Next
    <3> QED BY <3>2, <3>4, <3>5
  <2> QED BY <1>3, <2>2, <2>3, <2>4
<1> QED BY <1>2, <1>3 DEF HostsEvolve

LEMMA Lives ==
    ASSUME HostInv, TypeInv', TunnelStep
    PROVE  Life!Next \/ UNCHANGED Life!vars
<1>1. CASE tunnel' = tunnel
  BY <1>1, HostLives DEF TunnelStep
<1>2. CASE tunnel' # tunnel
  <2>1. PICK s \in Services :
            /\ host' = host /\ \A x \in Services \ {s} : tunnel'[x] = tunnel[x]
            /\ Created(s) \/ Removed(s) \/ Written(s)
    BY <1>2 DEF TunnelStep, TunnelsEvolve
  <2>2. /\ StageMap' = [StageMap EXCEPT ![s] = StageMap'[s]]
        /\ HostMap' = [HostMap EXCEPT ![s] = HostMap'[s]]
    BY <2>1, MappedChange
  <2>3. CASE Created(s)
    <3>1. /\ StageMap[s] = "absent" /\ StageMap'[s] = "requested"
          /\ HostMap'[s] = HostMap[s]
      BY <2>3, NoneAssumption DEF Created, StageMap, HostMap
    <3>2. HostMap' = HostMap
      BY <2>2, <3>1, Mapped
    <3>3. Life!Create(s)
      BY <2>1, <2>2, <3>1, <3>2 DEF Life!Create, StageMap, HostMap
    <3> QED BY <3>3 DEF Life!Next
  <2>4. CASE Removed(s)
    <3>1. StageMap[s] # "absent"
      <4>1. tunnel[s] \in TunnelRecord
        BY <2>4 DEF Removed, HostInv, TunnelInv, TypeInv, ClusterTypeOK
      <4>2. tunnel[s].hostStatus \in {"", "provisioning", "active"}
        BY <4>1, StageOf
      <4> QED BY <2>4, <4>2 DEF Removed, StageMap
    <3>2. StageMap'[s] = "absent" /\ HostMap'[s] = None
      BY <2>4 DEF Removed, StageMap, HostMap
    <3>3. Life!Remove(s)
      BY <2>1, <2>2, <3>1, <3>2 DEF Life!Remove, StageMap, HostMap
    <3> QED BY <3>3 DEF Life!Next
  <2>5. CASE Written(s)
    <3>1. UNCHANGED <<StageMap, HostMap>> => UNCHANGED Life!vars
      BY <2>1 DEF Life!vars, StageMap, HostMap
    <3> QED BY <2>1, <2>5, <3>1, WrittenLives
  <2> QED BY <2>1, <2>3, <2>4, <2>5
<1> QED BY <1>1, <1>2

(* Tunnels and hosts live as TunnelLifecycle says: one host for a tunnel, recorded
   once and never shared, activated when the cloud has it active, deleted only
   when no tunnel has it (controller.go:133-169, 381-447, 920-946). *)
THEOREM LifecycleImplemented == Spec => ImplementsLifecycle
<1>1. Init => Life!Init
  BY DEF Init, ClusterInit, Life!Init
<1>2. HostInv /\ [Next]_vars => [Life!Next]_(Life!vars)
  <2> SUFFICES ASSUME HostInv, [Next]_vars PROVE Life!Next \/ UNCHANGED Life!vars
    OBVIOUS
  <2>1. TypeInv' /\ TunnelStep
    BY HostInvStep DEF HostInv, TunnelInv
  <2> QED BY <2>1, Lives
<1> QED BY <1>1, <1>2, HostInvariant, PTL DEF Spec, Life!Spec, ImplementsLifecycle

------------------------------------------------------------------------------
(* A host whose ID a tunnel recorded stays known until it is deleted.        *)

(* Whoever removes a tunnel says so in its stream, behind what is there; nobody
   but the informer and the listener takes a deletion from where it is. *)
Told ==
    /\ deletions' = deletions
    /\ \/ UNCHANGED <<tunnel, tunnelStream>>
       \/ \E s \in Services : \E type, t :
             /\ tunnelStream' = Emit(tunnelStream, s, type, t)
             /\ \A x \in Services \ {s} : tunnel'[x] = tunnel[x]
             /\ tunnel[s] # None /\ tunnel'[s] = None =>
                   type = "deleted" /\ t = tunnel[s]

(* A deletion is on its way until its host is gone. *)
DeletionsKept ==
    \A s \in Services, t \in TunnelRecord :
        IsDeleted(t, s) \/ (t = tunnel[s] /\ tunnel'[s] = None) =>
            IsDeleted(t, s)' \/ t.hostID = None \/ host'[t.hostID] = "gone"

Lost == faults' # faults \/ (~open /\ open')

LEMMA QueueBack ==
    ASSUME NEW S, NEW q \in Seq(S), NEW e
    PROVE  /\ \A i \in DOMAIN q : i \in DOMAIN Append(q, e) /\ Append(q, e)[i] = q[i]
           /\ Len(q) + 1 \in DOMAIN Append(q, e) /\ Append(q, e)[Len(q) + 1] = e
OBVIOUS

LEMMA EmitKeeps ==
    ASSUME NEW stream \in [Services -> Seq(Event(TunnelRecord))],
           NEW s \in Services, NEW type, NEW object, NEW x \in Services
    PROVE  LET new == Emit(stream, s, type, object)
           IN  /\ \A i \in DOMAIN stream[x] : i \in DOMAIN new[x] /\ new[x][i] = stream[x][i]
               /\ \E i \in DOMAIN new[s] : new[s][i] = [type |-> type, object |-> object]
<1> DEFINE e == [type |-> type, object |-> object]
<1>1. /\ Emit(stream, s, type, object)[s] = Append(stream[s], e)
      /\ x # s => Emit(stream, s, type, object)[x] = stream[x]
  BY DEF Emit
<1> HIDE DEF e
<1>2. ASSUME NEW q \in Seq(Event(TunnelRecord))
      PROVE  /\ \A i \in DOMAIN q : i \in DOMAIN Append(q, e) /\ Append(q, e)[i] = q[i]
             /\ Len(q) + 1 \in DOMAIN Append(q, e) /\ Append(q, e)[Len(q) + 1] = e
  BY <1>2, QueueBack
<1>3. stream[s] \in Seq(Event(TunnelRecord))
  OBVIOUS
<1>4. \E i \in DOMAIN Emit(stream, s, type, object)[s] :
          Emit(stream, s, type, object)[s][i] = e
  BY <1>1, <1>2, <1>3
<1>5. \A i \in DOMAIN stream[x] :
          /\ i \in DOMAIN Emit(stream, s, type, object)[x]
          /\ Emit(stream, s, type, object)[x][i] = stream[x][i]
  <2>1. CASE x = s
    BY <1>1, <1>2, <1>3, <2>1
  <2>2. CASE x # s
    BY <1>1, <2>2
  <2> QED BY <2>1, <2>2
<1> QED BY <1>4, <1>5 DEF e

LEMMA ToldKeeps ==
    ASSUME TypeInv, Told
    PROVE  DeletionsKept
<1> SUFFICES ASSUME NEW x \in Services, NEW t \in TunnelRecord,
                    IsDeleted(t, x) \/ (t = tunnel[x] /\ tunnel'[x] = None)
             PROVE  IsDeleted(t, x)'
  BY DEF DeletionsKept
<1>1. deletions' = deletions
  BY DEF Told
<1>2. CASE UNCHANGED <<tunnel, tunnelStream>>
  BY <1>1, <1>2, NoneAssumption DEF IsDeleted, InDeletions
<1>3. ASSUME NEW s \in Services, NEW type, NEW u,
             tunnelStream' = Emit(tunnelStream, s, type, u),
             \A y \in Services \ {s} : tunnel'[y] = tunnel[y],
             tunnel[s] # None /\ tunnel'[s] = None => type = "deleted" /\ u = tunnel[s]
      PROVE  IsDeleted(t, x)'
  <2>1. tunnelStream \in [Services -> Seq(Event(TunnelRecord))]
    BY DEF TypeInv, ClusterTypeOK
  <2>2. /\ \A i \in DOMAIN tunnelStream[x] :
              i \in DOMAIN tunnelStream'[x] /\ tunnelStream'[x][i] = tunnelStream[x][i]
        /\ \E i \in DOMAIN tunnelStream'[s] : tunnelStream'[s][i] = [type |-> type, object |-> u]
    BY <1>3, <2>1, EmitKeeps
  <2>3. CASE IsDeleted(t, x)
    BY <1>1, <2>2, <2>3 DEF IsDeleted, InDeletions
  <2>4. CASE t = tunnel[x] /\ tunnel'[x] = None
    <3>1. tunnel[x] # None /\ tunnel'[x] # tunnel[x]
      BY <2>4, NoneAssumption
    <3>2. x = s
      BY <1>3, <3>1
    <3>3. type = "deleted" /\ u = t
      BY <1>3, <2>4, <3>1, <3>2
    <3>4. PICK i \in DOMAIN tunnelStream'[x] : tunnelStream'[x][i] = [type |-> type, object |-> u]
      BY <2>2, <3>2
    <3>5. tunnelStream'[x][i].type = "deleted" /\ tunnelStream'[x][i].object = t
      BY <3>3, <3>4
    <3> QED BY <3>5 DEF IsDeleted
  <2> QED BY <2>3, <2>4
<1> QED BY <1>2, <1>3 DEF Told

LEMMA StillTold ==
    ASSUME UNCHANGED <<tunnel, tunnelStream, deletions>>
    PROVE  Told
BY DEF Told

LEMMA StatusWriteTold ==
    ASSUME TypeInv, KnowsOK, NEW w \in Workers, pc[w] \in StatusWrites,
           NEW label, NEW error,
           UpdateTunnelStatus(w, NewStatus(pc[w], at[w]), label, error),
           UNCHANGED cacheVars
    PROVE  Told
<1> DEFINE s == at[w].name
           t == NewStatus(pc[w], at[w])
<1>1. w \in Goroutines /\ s \in Services /\ t \in TunnelRecord
  <2>1. /\ w \in Goroutines /\ s \in Services /\ at[w].tun \in TunnelRecord
        /\ Knows(pc[w], at[w])
    BY AtWork DEF TypeInv, KnowsOK, StatusWrites, WithTunnel, Resting
  <2>2. pc[w] = "setProvisioning" => at[w].target \in Hosts
    BY <2>1 DEF Knows
  <2> QED BY <2>1, <2>2, TunnelEdits DEF NewStatus, StatusWrites
<1>2. CASE PutTunnel(s, t)
  <2> HIDE DEF t
  <2>1. CASE /\ tunnel' = [tunnel EXCEPT ![s] = Bumped(t)]
             /\ tunnelStream' = Emit(tunnelStream, s, "set", Bumped(t))
    <3>1. Bumped(t) # None
      BY <1>1, BumpedType, NoneAssumption
    <3>2. tunnel'[s] # None /\ \A x \in Services \ {s} : tunnel'[x] = tunnel[x]
      BY <1>1, <2>1, <3>1 DEF TypeInv, ClusterTypeOK
    <3> QED BY <1>1, <2>1, <3>2 DEF Told, cacheVars
  <2> QED BY <1>2, <2>1, StillTold DEF PutTunnel, cacheVars
<1>3. CASE UNCHANGED <<objectVars, streamVars>>
  BY <1>3, StillTold DEF objectVars, streamVars, cacheVars
<1> QED BY <1>2, <1>3 DEF UpdateTunnelStatus, TransientError, clusterVars

LEMMA RemoveTold ==
    ASSUME TypeInv, NEW s \in Services, RemoveTunnel(s), UNCHANGED deletions
    PROVE  Told
<1>1. /\ tunnelStream' = Emit(tunnelStream, s, "deleted", tunnel[s])
      /\ \A x \in Services \ {s} : tunnel'[x] = tunnel[x]
  BY DEF RemoveTunnel, TypeInv, ClusterTypeOK
<1> QED BY <1>1 DEF Told

LEMMA AddTold ==
    ASSUME TypeInv, NEW s \in Services, tunnel[s] = None, NEW t, AddTunnel(s, t),
           UNCHANGED deletions
    PROVE  Told
<1>1. /\ tunnelStream' = Emit(tunnelStream, s, "set", t)
      /\ \A x \in Services \ {s} : tunnel'[x] = tunnel[x]
  BY DEF AddTunnel, TypeInv, ClusterTypeOK
<1> QED BY <1>1 DEF Told

LEMMA UpdateServiceTold ==
    ASSUME NEW p \in Goroutines, updateService(p), UNCHANGED cacheVars
    PROVE  Told
BY StillTold
DEF updateService, GetService, UpdateService, UpdateIngress, WriteService, TransientError,
    clusterVars, objectVars, streamVars, cacheVars

LEMMA WorkerTold ==
    ASSUME TypeInv, KnowsOK, NEW w \in Workers, Worker(w)
    PROVE  Told
<1> USE DEF StatusWrites
<1>1. CASE (\E k \in Keys : Take(w, k)) \/ Requeue(w) \/ Finish(w)
  BY <1>1, StillTold
  DEF Take, Requeue, Finish, clusterVars, objectVars, streamVars, cacheVars
<1>2. CASE createTunnelResource(w) /\ UNCHANGED cacheVars
  <2>1. CASE GetTunnel(w)
    BY <1>2, <2>1, StillTold
    DEF GetTunnel, TransientError, clusterVars, objectVars, streamVars, cacheVars
  <2>2. CASE CreateTunnel(w)
    <3>1. at[w].name \in Services
      BY <2>2, AtWork DEF CreateTunnel, TypeInv, Resting
    <3>2. CASE /\ tunnel[at[w].name] = None
               /\ AddTunnel(at[w].name, NewTunnel(at[w].svc.uid, TRUE, "none"))
      BY <1>2, <3>1, <3>2, AddTold DEF cacheVars
    <3>3. CASE UNCHANGED <<objectVars, streamVars>>
      BY <1>2, <3>3, StillTold DEF objectVars, streamVars, cacheVars
    <3> QED BY <2>2, <3>2, <3>3 DEF CreateTunnel, TransientError, clusterVars
  <2>3. CASE SetGenerated(w)
    BY <1>2, <2>3, StatusWriteTold DEF SetGenerated, NewStatus
  <2>4. CASE DeleteTunnel(w)
    <3>1. at[w].name \in Services
      BY <2>4, AtWork DEF DeleteTunnel, TypeInv, Resting
    <3>2. CASE RemoveTunnel(at[w].name)
      BY <1>2, <3>1, <3>2, RemoveTold DEF cacheVars
    <3>3. CASE UNCHANGED <<objectVars, streamVars>>
      BY <1>2, <3>3, StillTold DEF objectVars, streamVars, cacheVars
    <3> QED BY <2>4, <3>2, <3>3 DEF DeleteTunnel, TransientError, clusterVars
  <2> QED BY <1>2, <2>1, <2>2, <2>3, <2>4 DEF createTunnelResource
<1>3. CASE createTunnelAuthTokenSecret(w) /\ UNCHANGED cacheVars
  <2>1. CASE GetSecret(w) \/ CreateSecret(w)
    BY <1>3, <2>1, StillTold
    DEF GetSecret, CreateSecret, TransientError, clusterVars, objectVars, streamVars, cacheVars
  <2>2. CASE SetAuthRef(w)
    BY <1>3, <2>2, StatusWriteTold DEF SetAuthRef, NewStatus
  <2> QED BY <1>3, <2>1, <2>2 DEF createTunnelAuthTokenSecret
<1>4. CASE (HostConfig(w) \/ Provision(w) \/ HostStatus(w)) /\ UNCHANGED cacheVars
  BY <1>4, StillTold
  DEF HostConfig, Provision, HostStatus, TransientError, clusterVars, objectVars,
      streamVars, cacheVars
<1>5. CASE SetProvisioning(w) /\ UNCHANGED cacheVars
  BY <1>5, StatusWriteTold DEF SetProvisioning, NewStatus
<1>6. CASE SetActive(w) /\ UNCHANGED cacheVars
  BY <1>6, StatusWriteTold DEF SetActive, NewStatus
<1>7. CASE updateService(w) /\ UNCHANGED cacheVars
  BY <1>7, UpdateServiceTold DEF Goroutines
<1>8. CASE /\ GetLicense(w) \/ WriteLicense(w) \/ ReadClient(w) \/ UpdateClient(w)
           /\ UNCHANGED cacheVars
  BY <1>8, StillTold
  DEF GetLicense, WriteLicense, ReadClient, UpdateClient,
      PutDeployment, TransientError, clusterVars, objectVars, streamVars, cacheVars
<1>9. CASE CreateClient(w)
  BY <1>9, StillTold
  DEF CreateClient, PutDeployment, TransientError, clusterVars, objectVars, streamVars
<1>10. CASE SetClientRef(w) /\ UNCHANGED cacheVars
  BY <1>10, StatusWriteTold DEF SetClientRef, NewStatus
<1> QED
  BY <1>1, <1>2, <1>3, <1>4, <1>5, <1>6, <1>7, <1>8, <1>9, <1>10
  DEF Worker, syncHandler, syncProvisioningHostStatus, syncActive

LEMMA EnvironmentTold ==
    ASSUME TypeInv, Environment, UNCHANGED operatorVars
    PROVE  Told
<1>1. deletions' = deletions
  BY DEF operatorVars, cacheVars
<1>2. ASSUME NEW s \in Services, EditTunnel(s) PROVE Told
  <2>1. CASE tunnel[s] = None /\ \E t : AddTunnel(s, t)
    BY <1>1, <2>1, AddTold
  <2>2. CASE RemoveTunnel(s)
    BY <1>1, <2>2, RemoveTold
  <2> QED BY <1>2, <2>1, <2>2 DEF EditTunnel
<1>3. ASSUME NEW s \in Services, CollectTunnel(s) PROVE Told
  BY <1>1, <1>3, RemoveTold DEF CollectTunnel
<1>4. ASSUME NEW s \in Services,
             CreateService(s) \/ DeleteService(s) \/ EditService(s) \/ EditOther(s)
      PROVE  Told
  BY <1>1, <1>4, StillTold
  DEF CreateService, DeleteService, EditService, EditOther, streamVars
<1>5. ASSUME NEW s \in Services, CollectSecret(s) \/ CollectDeployment(s) PROVE Told
  BY <1>1, <1>5, StillTold DEF CollectSecret, CollectDeployment, streamVars
<1>6. ASSUME NEW h \in Hosts, Boot(h) PROVE Told
  BY <1>1, <1>6, StillTold DEF Boot, objectVars, streamVars
<1> QED BY <1>2, <1>3, <1>4, <1>5, <1>6 DEF Environment, UserEdit

LEMMA QueueFront ==
    ASSUME NEW S, NEW q \in Seq(S), q # <<>>
    PROVE  \A i \in DOMAIN q : q[i] = Head(q) \/
              \E j \in DOMAIN Tail(q) : Tail(q)[j] = q[i]
<1> SUFFICES ASSUME NEW i \in DOMAIN q, i # 1
             PROVE  \E j \in DOMAIN Tail(q) : Tail(q)[j] = q[i]
  OBVIOUS
<1>1. i - 1 \in DOMAIN Tail(q) /\ Tail(q)[i - 1] = q[i]
  OBVIOUS
<1> QED BY <1>1

(* The informer passes a deletion on. *)
LEMMA DeliverKeeps ==
    ASSUME TypeInv, NEW s \in Services, DeliverTunnel(s)
    PROVE  DeletionsKept
<1> DEFINE q == tunnelStream[s]
           e == Head(q)
<1>1. /\ q \in Seq(Event(TunnelRecord)) /\ q # <<>>
      /\ deletions \in Seq([name: Services, object: TunnelRecord])
      /\ tunnelStream'[s] = Tail(q)
      /\ \A x \in Services : x # s => tunnelStream'[x] = tunnelStream[x]
      /\ tunnel' = tunnel
  BY DEF DeliverTunnel, objectVars, TypeInv, ClusterTypeOK, CacheTypeOK
<1>2. e \in Event(TunnelRecord)
  BY <1>1, QueueShift
<1>3. \/ deletions' = deletions /\ e.type = "set"
      \/ deletions' = Append(deletions, [name |-> s, object |-> e.object])
  BY DEF DeliverTunnel
<1>4. \A i \in DOMAIN deletions : i \in DOMAIN deletions' /\ deletions'[i] = deletions[i]
  <2>1. \A v, i \in DOMAIN deletions :
            i \in DOMAIN Append(deletions, v) /\ Append(deletions, v)[i] = deletions[i]
    BY <1>1, QueueBack
  <2> QED BY <1>3, <2>1
<1>5. ASSUME NEW t, e.type = "deleted", e.object = t PROVE InDeletions(t, s)'
  <2> DEFINE d == [name |-> s, object |-> e.object]
             n == Len(deletions) + 1
  <2>1. deletions' = Append(deletions, d)
    BY <1>3, <1>5
  <2>2. n \in DOMAIN deletions' /\ deletions'[n] = d
    <3> HIDE DEF d
    <3> QED BY <1>1, <2>1, QueueBack
  <2>3. deletions'[n].name = s /\ deletions'[n].object = t
    BY <1>5, <2>2
  <2> QED BY <2>2, <2>3 DEF InDeletions
<1> SUFFICES ASSUME NEW x \in Services, NEW t \in TunnelRecord, IsDeleted(t, x)
             PROVE  IsDeleted(t, x)'
  BY <1>1, NoneAssumption DEF DeletionsKept
<1>6. CASE InDeletions(t, x)
  BY <1>4, <1>6 DEF InDeletions, IsDeleted
<1>7. ASSUME NEW i \in DOMAIN tunnelStream[x],
             tunnelStream[x][i].type = "deleted", tunnelStream[x][i].object = t
      PROVE  IsDeleted(t, x)'
  <2>1. CASE x # s
    BY <1>1, <1>7, <2>1 DEF IsDeleted
  <2>2. CASE x = s /\ q[i] = e
    <3>1. e.type = "deleted" /\ e.object = t
      BY <1>7, <2>2
    <3> QED BY <1>5, <2>2, <3>1 DEF IsDeleted
  <2>3. CASE x = s /\ q[i] # e
    <3>1. PICK j \in DOMAIN Tail(q) : Tail(q)[j] = q[i]
      BY <1>1, <1>7, <2>3, QueueFront
    <3> QED BY <1>1, <1>7, <2>3, <3>1 DEF IsDeleted
  <2> QED BY <2>1, <2>2, <2>3
<1> QED BY <1>6, <1>7 DEF IsDeleted

(* DeleteFunc deletes the host of the deletion it takes, if that has one. *)
LEMMA DeleteFuncKeeps ==
    ASSUME TypeInv, DeleteFunc, faults' = faults
    PROVE  DeletionsKept
<1> DEFINE r == Head(deletions).object
<1>1. /\ deletions \in Seq([name: Services, object: TunnelRecord]) /\ deletions # <<>>
      /\ deletions' = Tail(deletions)
      /\ UNCHANGED <<tunnel, tunnelStream>>
      /\ host \in [Hosts -> {"free", "booting", "active", "gone"}]
      /\ faults \in Nat
  BY DEF DeleteFunc, objectVars, streamVars, TypeInv, ClusterTypeOK, CacheTypeOK
<1>2. r \in TunnelRecord
  <2>1. Head(deletions) \in [name: Services, object: TunnelRecord]
    BY <1>1, QueueShift
  <2> QED BY <2>1
<1>3. r.hostID = None \/ host'[r.hostID] = "gone"
  <2>1. r.hostID # None => r.hostID \in Hosts
    BY <1>2, HostOfRecord
  <2>2. r.hostID = None \/ host' = [host EXCEPT ![r.hostID] = "gone"]
    BY <1>1 DEF DeleteFunc, Fault
  <2> QED BY <1>1, <2>1, <2>2
<1> SUFFICES ASSUME NEW x \in Services, NEW t \in TunnelRecord, IsDeleted(t, x)
             PROVE  IsDeleted(t, x)' \/ t = r
  BY <1>1, <1>3, NoneAssumption DEF DeletionsKept
<1>4. InDeletions(t, x) => InDeletions(t, x)' \/ t = r
  <2> SUFFICES ASSUME NEW i \in DOMAIN deletions, t # r,
                      deletions[i].name = x, deletions[i].object = t
               PROVE  InDeletions(t, x)'
    BY DEF InDeletions
  <2>1. PICK j \in DOMAIN Tail(deletions) : Tail(deletions)[j] = deletions[i]
    BY <1>1, QueueFront
  <2> QED BY <1>1, <2>1 DEF InDeletions
<1> QED BY <1>1, <1>4 DEF IsDeleted

LEMMA NextKeepsDeletions ==
    ASSUME TunnelInv, [Next]_vars, ~Lost
    PROVE  DeletionsKept
<1>1. TypeInv /\ KnowsOK /\ faults' = faults /\ faults \in Nat
  BY DEF TunnelInv, TypeInv, ClusterTypeOK, Lost
<1>2. ASSUME NEW s \in Services, DeliverTunnel(s) PROVE DeletionsKept
  BY <1>1, <1>2, DeliverKeeps
<1>3. CASE DeleteFunc
  BY <1>1, <1>3, DeleteFuncKeeps
<1>4. CASE RelistTunnels \/ Restart
  BY <1>1, <1>4 DEF RelistTunnels, Restart, Fault, Lost
<1>5. CASE updateService(Listener) /\ UNCHANGED <<queueVars, cacheVars>>
  BY <1>1, <1>5, UpdateServiceTold, ToldKeeps DEF Goroutines
<1>6. ASSUME NEW s \in Services, DeliverService(s) \/ Resync(s) \/ handleObject(s)
      PROVE  DeletionsKept
  BY <1>1, <1>6, StillTold, ToldKeeps
  DEF DeliverService, Resync, handleObject, clusterVars, objectVars, streamVars, cacheVars
<1>7. CASE RelistServices \/ Stop \/ (\E k \in Keys : Merge(k)) \/ UNCHANGED vars
  BY <1>1, <1>7, StillTold, ToldKeeps
  DEF RelistServices, Stop, Merge, vars, clusterVars, objectVars, streamVars, cacheVars
<1>8. CASE Environment /\ UNCHANGED operatorVars
  BY <1>1, <1>8, EnvironmentTold, ToldKeeps
<1>9. ASSUME NEW w \in Workers, Worker(w) PROVE DeletionsKept
  BY <1>1, <1>9, WorkerTold, ToldKeeps
<1> QED BY <1>2, <1>3, <1>4, <1>5, <1>6, <1>7, <1>8, <1>9 DEF Next, ListenerStep, Informers

LEMMA ElementType ==
    ASSUME NEW S, NEW q \in Seq(S), NEW i \in DOMAIN q
    PROVE  q[i] \in S
OBVIOUS

LEMMA TrackedStep ==
    ASSUME TunnelInv, [Next]_vars, NEW h \in Hosts, Tracked(h)
    PROVE  Tracked(h)' \/ host'[h] = "gone" \/ Lost
<1> SUFFICES ASSUME ~Lost PROVE Tracked(h)' \/ host'[h] = "gone"
  OBVIOUS
<1>1. DeletionsKept
  BY NextKeepsDeletions
<1>2. h # None
  BY ClusterAssumption
<1>3. ASSUME NEW s \in Services, NEW t \in TunnelRecord, t.hostID = h,
             IsDeleted(t, s) \/ (t = tunnel[s] /\ tunnel'[s] = None)
      PROVE  Tracked(h)' \/ host'[h] = "gone"
  <2>1. IsDeleted(t, s)' \/ host'[h] = "gone"
    BY <1>1, <1>2, <1>3 DEF DeletionsKept
  <2>2. IsDeleted(t, s)' => Deleting(h)'
    BY <1>3 DEF IsDeleted, InDeletions, Deleting
  <2> QED BY <2>1, <2>2 DEF Tracked
<1>4. CASE Deleting(h)
  <2>1. /\ tunnelStream \in [Services -> Seq(Event(TunnelRecord))]
        /\ deletions \in Seq([name: Services, object: TunnelRecord])
    BY DEF TunnelInv, TypeInv, ClusterTypeOK, CacheTypeOK
  <2>2. ASSUME NEW s \in Services, NEW i \in DOMAIN tunnelStream[s],
               tunnelStream[s][i].type = "deleted", tunnelStream[s][i].object.hostID = h
        PROVE  Tracked(h)' \/ host'[h] = "gone"
    <3>1. tunnelStream[s][i] \in Event(TunnelRecord)
      BY <2>1
    <3>2. tunnelStream[s][i].object \in TunnelRecord
      BY <3>1 DEF Event
    <3> QED BY <1>3, <2>2, <3>2 DEF IsDeleted
  <2>3. ASSUME NEW i \in DOMAIN deletions, deletions[i].object.hostID = h
        PROVE  Tracked(h)' \/ host'[h] = "gone"
    <3>1. deletions[i] \in [name: Services, object: TunnelRecord]
      BY <2>1, ElementType
    <3>2. deletions[i].name \in Services /\ deletions[i].object \in TunnelRecord
      BY <3>1
    <3> QED BY <1>3, <2>3, <3>2 DEF IsDeleted, InDeletions
  <2> QED BY <1>4, <2>2, <2>3 DEF Deleting
<1>5. CASE Recorded(h)
  <2>1. PICK s \in Services : tunnel[s] # None /\ tunnel[s].hostID = h
    BY <1>5 DEF Recorded
  <2>2. tunnel[s] \in TunnelRecord
    BY <2>1 DEF TunnelInv, TypeInv, ClusterTypeOK
  <2>3. CASE tunnel'[s] = None
    BY <1>3, <2>1, <2>2, <2>3
  <2>4. CASE tunnel'[s] # None
    <3>1. TunnelsEvolve
      BY TunnelInvStep DEF TunnelStep
    <3>2. tunnel'[s] = tunnel[s] \/ Advances(tunnel[s], tunnel'[s])
      BY <2>1, <2>4, <3>1, TunnelsOneByOne DEF Removed, Created
    <3>3. tunnel'[s].hostID = h
      BY <1>2, <2>1, <3>2 DEF Advances
    <3> QED BY <2>4, <3>3 DEF Tracked, Recorded
  <2> QED BY <2>3, <2>4
<1> QED BY <1>4, <1>5 DEF Tracked

(* The operator forgets a recorded host only when a request or a watch fails or
   the process goes: while its tunnel changes, is removed, or is created again,
   the host is in the tunnel, in its stream or among the deletions, until
   DeleteFunc has deleted it (controller.go:133-169). *)
THEOREM HostsTracked == Spec => RecordedHostTracked
<1> DEFINE Kept == \A h \in Hosts : Tracked(h) =>
                     \/ Tracked(h)' \/ host'[h] = "gone"
                     \/ faults' # faults \/ (~open /\ open')
<1>1. TunnelInv /\ [Next]_vars => [Kept]_vars
  BY TrackedStep DEF Lost
<1> QED BY <1>1, TunnelInvariant, PTL DEF Spec, RecordedHostTracked
==============================================================================
