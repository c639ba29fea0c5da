---------------------------- MODULE AddressProofs ----------------------------
(****************************************************************************)
(* A host's address is published at most once, and never for a tunnel that no *)
(* service owns: the one write that records a host as active makes the one     *)
(* worker that may append its address.                                         *)
(****************************************************************************)
EXTENDS ServiceProofs, HostProofs

Publisher(w, h) == pc[w] \in Appending /\ at[w].target = h

(* The host's turn to be published is still to come, or never comes. *)
Fresh(h) ==
    \/ host[h] = "free"
    \/ \E p \in Goroutines : pc[p] = "setProvisioning" /\ at[p].target = h
    \/ \E s \in Services :
          /\ tunnel[s] # None /\ tunnel[s].hostID = h
          /\ tunnel[s].hostStatus = "provisioning" \/ tunnel[s].owner = 0

NotPublished(h) == \A s \in Services : service[s] # None => service[s].ips[h] = 0

FreshUnpublished ==
    \A h \in Hosts : Fresh(h) =>
        NotPublished(h) /\ \A w \in Workers : ~Publisher(w, h)

PublishersExclusive ==
    \A h \in Hosts, w \in Workers : Publisher(w, h) =>
        NotPublished(h) /\ \A v \in Workers : Publisher(v, h) => v = w

AddressInv ==
    /\ HostInv /\ ServiceInv
    /\ FreshUnpublished /\ PublishersExclusive /\ AddressesPublishedOnce

------------------------------------------------------------------------------

LEMMA FreshBefore ==
    ASSUME HostInv, TypeInv', TunnelStep, NEW h \in Hosts, Fresh(h)'
    PROVE  Fresh(h)
<1>1. CASE host'[h] = "free"
  BY <1>1, HostMoves DEF Fresh
<1>2. ASSUME NEW p \in Goroutines, pc'[p] = "setProvisioning", at'[p].target = h
      PROVE  Fresh(h)
  BY <1>2 DEF TunnelStep, WorkersMove, Fresh
<1>3. ASSUME NEW s \in Services, tunnel'[s] # None, tunnel'[s].hostID = h,
             tunnel'[s].hostStatus = "provisioning" \/ tunnel'[s].owner = 0
      PROVE  Fresh(h)
  <2>1. CASE tunnel'[s] = tunnel[s]
    BY <1>3, <2>1 DEF Fresh
  <2>2. CASE Created(s) \/ Removed(s)
    BY <1>3, <2>2, ClusterAssumption DEF Created, Removed
  <2>3. CASE Written(s)
    <3>1. tunnel'[s].owner = tunnel[s].owner
      BY <2>3, WrittenAdvances DEF HostInv, Advances
    <3> QED BY <1>3, <2>3, <3>1, WrittenStage DEF Fresh
  <2> QED BY <2>1, <2>2, <2>3 DEF TunnelStep, TunnelsEvolve
<1> QED BY <1>1, <1>2, <1>3 DEF Fresh

(* Activation ends a host's freshness, for good. *)
LEMMA ActivationPublishes ==
    ASSUME HostInv, TypeInv', TunnelStep, NEW w \in Workers, NEW h \in Hosts,
           Activates(w), Publisher(w, h)'
    PROVE  Fresh(h) /\ ~Fresh(h)'
<1> DEFINE s == at[w].name
           t == at[w].tun
           new == [t EXCEPT !.hostStatus = "active"]
<1>1. /\ w \in Goroutines /\ s \in Services /\ t \in TunnelRecord
      /\ tunnel[s] \in TunnelRecord /\ tunnel[s] # None /\ IsCopy(t, s)
  <2>1. w \in Goroutines /\ s \in Services /\ t \in TunnelRecord
    BY AtWork DEF HostInv, TunnelInv, TypeInv, Activates, WithTunnel, Resting
  <2> QED BY <2>1 DEF HostInv, TunnelInv, TypeInv, ClusterTypeOK, Activates, Current,
                     IsCopy, InWork, WithTunnel
<1>2. /\ t.hostStatus = "provisioning" /\ t.hostID = h /\ t.owner # 0
  <2>1. at[w].target = h
    BY DEF Activates, Publisher
  <2> QED BY <1>1, <2>1 DEF Activates, HostInv, TunnelInv, KnowsOK, Knows, ownsService
<1>3. tunnel[s].hostStatus = "provisioning" /\ tunnel[s].hostID = h
  <2>1. SameButClient(t, tunnel[s])
    BY <1>1 DEF HostInv, TunnelInv, CopiesTrue, CopyOf, Activates, Current
  <2> QED BY <1>1, <1>2, <2>1, SameButClientFields
<1>4. Fresh(h)
  BY <1>1, <1>3 DEF Fresh
<1>5. /\ tunnel'[s].hostStatus = "active" /\ tunnel'[s].owner # 0
      /\ \A x \in Services \ {s} : tunnel'[x] = tunnel[x]
  <2>1. /\ new \in TunnelRecord /\ new.hostStatus = "active" /\ new.owner = t.owner
    BY <1>1, TunnelEdits, ActiveFields
  <2>2. new # tunnel[s] /\ PutTunnel(s, new)
    BY <1>3, <2>1 DEF Activates
  <2> HIDE DEF new
  <2>3. Bumped(new).hostStatus = "active" /\ Bumped(new).owner = t.owner
    BY <2>1 DEF Bumped, TunnelRecord
  <2>4. tunnel' = [tunnel EXCEPT ![s] = Bumped(new)]
    BY <2>2 DEF PutTunnel
  <2>5. tunnel'[s] = Bumped(new) /\ \A x \in Services \ {s} : tunnel'[x] = tunnel[x]
    BY <1>1, <2>4 DEF HostInv, TunnelInv, TypeInv, ClusterTypeOK
  <2> QED BY <1>2, <2>3, <2>5
<1>6. host'[h] # "free"
  <2>1. host[h] # "free"
    BY <1>1, <1>2, ClusterAssumption DEF HostInv, HostsOrdered
  <2> QED BY <2>1, HostMoves
<1>7. ASSUME NEW p \in Goroutines, pc'[p] = "setProvisioning", at'[p].target = h
      PROVE  FALSE
  <2>1. p # w
    BY <1>7 DEF Publisher, Appending
  <2>2. pc[p] = "setProvisioning" /\ at[p].target = h
    BY <1>7, <2>1 DEF Activates
  <2> QED BY <1>1, <1>2, <2>2 DEF HostInv, OrdersExclusive
<1>8. ASSUME NEW x \in Services, tunnel'[x] # None, tunnel'[x].hostID = h,
             tunnel'[x].hostStatus = "provisioning" \/ tunnel'[x].owner = 0
      PROVE  FALSE
  <2>1. x # s
    BY <1>5, <1>8
  <2>2. tunnel[x] \in TunnelRecord /\ tunnel[x].hostID = h /\ IsCopy(tunnel[x], x)
    BY <1>5, <1>8, <2>1 DEF HostInv, TunnelInv, TypeInv, ClusterTypeOK, IsCopy
  <2> QED BY <1>1, <1>2, <2>1, <2>2, ClusterAssumption DEF HostInv, HostsNotShared
<1> QED BY <1>4, <1>6, <1>7, <1>8 DEF Fresh

LEMMA PublisherOrigin ==
    ASSUME HostInv, TypeInv', TunnelStep, Moves, NEW w \in Workers, NEW h \in Hosts,
           Publisher(w, h)'
    PROVE  \/ Publisher(w, h)
           \/ /\ Fresh(h) /\ ~Fresh(h)'
              /\ \A v \in Workers \ {w} : Publisher(v, h)' => Publisher(v, h)
<1>1. w \in Goroutines /\ w # Listener /\ Workers \subseteq Goroutines
  BY ListenerAssumption DEF Goroutines
<1>2. CASE pc'[w] = pc[w] /\ at'[w] = at[w]
  BY <1>2 DEF Publisher
<1>3. CASE pc[w] = "getService" /\ at'[w].target = at[w].target
  BY <1>3 DEF Publisher, Appending
<1>4. CASE Activates(w)
  <2>1. Fresh(h) /\ ~Fresh(h)'
    BY <1>4, ActivationPublishes
  <2>2. \A v \in Workers \ {w} : Publisher(v, h)' => Publisher(v, h)
    BY <1>1, <1>4 DEF Activates, Publisher
  <2> QED BY <2>1, <2>2
<1> QED BY <1>1, <1>2, <1>3, <1>4 DEF Moves, Publisher

(* Where an address that a service has is from. *)
LEMMA AddressOrigin ==
    ASSUME Evolves, NEW s \in Services, NEW h \in Hosts, service'[s] # None
    PROVE  \/ service'[s].ips[h] = 0
           \/ service[s] # None /\ service'[s].ips[h] = service[s].ips[h]
           \/ /\ service[s] # None /\ service'[s].ips[h] = service[s].ips[h] + 1
              /\ \E w \in Workers : Publisher(w, h) /\ pc'[w] \notin Appending
<1>1. NoAddress[h] = 0
  BY DEF NoAddress, Addresses
<1>2. CASE service'[s] = service[s]
  BY <1>2
<1>3. CASE service'[s].ips = NoAddress
  BY <1>1, <1>3
<1>4. CASE service[s] # None /\ HostAddressMoves(service[s].ips, service'[s].ips, h)
  BY <1>4 DEF HostAddressMoves, Publisher, Appending
<1> QED BY <1>2, <1>3, <1>4 DEF Evolves

LEMMA FreshStep ==
    ASSUME AddressInv, TypeInv', TunnelStep, Evolves, Moves
    PROVE  FreshUnpublished'
<1> SUFFICES ASSUME NEW h \in Hosts, Fresh(h)'
             PROVE  NotPublished(h)' /\ \A w \in Workers : ~Publisher(w, h)'
  BY DEF FreshUnpublished
<1>1. NotPublished(h) /\ \A w \in Workers : ~Publisher(w, h)
  BY FreshBefore DEF AddressInv, FreshUnpublished
<1>2. NotPublished(h)'
  BY <1>1, AddressOrigin DEF NotPublished
<1>3. \A w \in Workers : ~Publisher(w, h)'
  BY <1>1, PublisherOrigin DEF AddressInv
<1> QED BY <1>2, <1>3

LEMMA PublishersStep ==
    ASSUME AddressInv, TypeInv', TunnelStep, Evolves, Moves
    PROVE  PublishersExclusive'
<1> SUFFICES ASSUME NEW h \in Hosts, NEW w \in Workers, Publisher(w, h)'
             PROVE  NotPublished(h)' /\ \A v \in Workers : Publisher(v, h)' => v = w
  BY DEF PublishersExclusive
<1>1. CASE Publisher(w, h)
  <2>1. NotPublished(h) /\ \A v \in Workers : Publisher(v, h) => v = w
    BY <1>1 DEF AddressInv, PublishersExclusive
  <2>2. NotPublished(h)'
    BY <2>1, AddressOrigin DEF NotPublished, Publisher
  <2>3. ASSUME NEW v \in Workers, Publisher(v, h)' PROVE v = w
    <3>1. ~Fresh(h)
      BY <1>1 DEF AddressInv, FreshUnpublished
    <3>2. Publisher(v, h)
      BY <2>3, <3>1, PublisherOrigin DEF AddressInv
    <3> QED BY <2>1, <3>2
  <2> QED BY <2>2, <2>3
<1>2. CASE /\ Fresh(h)
           /\ \A v \in Workers \ {w} : Publisher(v, h)' => Publisher(v, h)
  <2>1. NotPublished(h) /\ \A v \in Workers : ~Publisher(v, h)
    BY <1>2 DEF AddressInv, FreshUnpublished
  <2>2. NotPublished(h)'
    BY <2>1, AddressOrigin DEF NotPublished
  <2> QED BY <1>2, <2>1, <2>2
<1> QED BY <1>1, <1>2, PublisherOrigin DEF AddressInv

LEMMA OnceStep ==
    ASSUME AddressInv, Evolves
    PROVE  AddressesPublishedOnce'
<1> SUFFICES ASSUME NEW s \in Services, service'[s] # None, NEW h \in Hosts
             PROVE  service'[s].ips[h] <= 1
  BY DEF AddressesPublishedOnce
<1>1. CASE service'[s].ips[h] = 0
  BY <1>1
<1>2. CASE service[s] # None /\ service'[s].ips[h] = service[s].ips[h]
  BY <1>2 DEF AddressInv, AddressesPublishedOnce
<1>3. ASSUME service[s] # None, service'[s].ips[h] = service[s].ips[h] + 1,
             NEW w \in Workers, Publisher(w, h)
      PROVE  service'[s].ips[h] <= 1
  <2>1. service[s].ips[h] = 0
    BY <1>3 DEF AddressInv, PublishersExclusive, NotPublished
  <2> QED BY <1>3, <2>1
<1> QED BY <1>1, <1>2, <1>3, AddressOrigin

LEMMA AddressInvariant == Spec => []AddressInv
<1>1. Init => HostInv /\ FreshUnpublished /\ PublishersExclusive /\ AddressesPublishedOnce
  <2> SUFFICES ASSUME Init
               PROVE  FreshUnpublished /\ PublishersExclusive /\ AddressesPublishedOnce
    BY HostInvInit
  <2>1. \A s \in Services : service[s] = None
    BY DEF Init, ClusterInit
  <2>2. \A w \in Workers : \A h : ~Publisher(w, h)
    BY DEF Init, ProcInit, Publisher, Appending, Goroutines
  <2> QED BY <2>1, <2>2 DEF FreshUnpublished, PublishersExclusive,
                            AddressesPublishedOnce, NotPublished
<1>2. /\ HostInv /\ ServiceInv /\ ServiceInv' /\ [Next]_vars
      /\ FreshUnpublished /\ PublishersExclusive /\ AddressesPublishedOnce
      => HostInv' /\ FreshUnpublished' /\ PublishersExclusive' /\ AddressesPublishedOnce'
  <2> SUFFICES ASSUME AddressInv, [Next]_vars
               PROVE  /\ HostInv' /\ FreshUnpublished' /\ PublishersExclusive'
                      /\ AddressesPublishedOnce'
    BY DEF AddressInv
  <2>1. HostInv' /\ TunnelStep /\ TypeInv'
    BY HostInvStep DEF AddressInv, HostInv, TunnelInv
  <2>2. Evolves /\ Moves
    BY NextStep DEF AddressInv
  <2> QED BY <2>1, <2>2, FreshStep, PublishersStep, OnceStep
<1> QED BY <1>1, <1>2, ServiceInvariant, PTL DEF Spec, AddressInv

(* updateService appends without looking (controller.go:1088), but no retry, lost
   reply, concurrent sync or restart makes it append a host's address twice. *)
THEOREM PublishedOnce == Spec => []AddressesPublishedOnce
<1>1. AddressInv => AddressesPublishedOnce
  BY DEF AddressInv
<1> QED BY <1>1, AddressInvariant, PTL

(* The address of a user's own tunnel never gets to a service of the tunnel's
   name (ownsService, controller.go:1121-1126). *)
THEOREM UserTunnelsLeaveServices == Spec => []UserTunnelSetsNoAddress
<1>1. AddressInv => UserTunnelSetsNoAddress
  <2> SUFFICES ASSUME AddressInv, NEW s \in Services, service[s] # None,
                      tunnel[s] # None, tunnel[s].owner = 0, tunnel[s].hostID # None
               PROVE  service[s].ips[tunnel[s].hostID] = 0
    BY DEF UserTunnelSetsNoAddress
  <2>1. tunnel[s].hostID \in Hosts
    BY HostOfRecord DEF AddressInv, HostInv, TunnelInv, TypeInv, ClusterTypeOK
  <2>2. Fresh(tunnel[s].hostID)
    BY DEF Fresh
  <2> QED BY <2>1, <2>2 DEF AddressInv, FreshUnpublished, NotPublished
<1> QED BY <1>1, AddressInvariant, PTL
==============================================================================
