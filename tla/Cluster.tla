------------------------------- MODULE Cluster -------------------------------
(****************************************************************************)
(* The world around the operator, modelled from how controller.go uses it:  *)
(* the Kubernetes API server (objects with a uid and a resource version,     *)
(* optimistic concurrency on updates, one watch stream per kind), the        *)
(* garbage collector, the cloud account, and the users who edit objects.     *)
(*                                                                          *)
(* For a service s the operator works on objects whose names follow from s:  *)
(* tunnel "s-tunnel", its token secret of the same name, and the deployment  *)
(* "s-tunnel-client".  All of them are therefore indexed by the service.     *)
(****************************************************************************)
EXTENDS Naturals, Sequences

CONSTANTS
    Services,       \* names of services
    Hosts,          \* the hosts the cloud account can ever create
    Ports,          \* values users give spec.ports
    Types,          \* values users give spec.type: TRUE is LoadBalancer
    Annotations,    \* values users give operator.inlets.dev/manage
    UserTunnels,    \* tunnels users create: [serviceRef, auth]
    UserIP,         \* an external IP that is not a tunnel host's
    None,           \* no object, no host, no key
    AnnotatedOnly,  \* the operator's -annotated-only flag
    UserOps,        \* which kinds of edits users make
    MaxEdits,       \* bound on the number of user edits
    Faults,         \* which kinds of faults occur
    MaxFaults,      \* bound on the number of faults
    MaxEvents       \* bound on the number of edits and faults together

UserOpKinds == {"createService", "deleteService", "annotate", "retype", "ports",
                "addIP", "createTunnel", "deleteTunnel", "deleteDeployment",
                "rotateLicense"}
FaultKinds == {"api", "lostReply", "cloud", "crash", "stop", "relist"}

ASSUME ClusterAssumption ==
    /\ None \notin Nat
    /\ None \notin Hosts /\ UserIP \notin Hosts /\ UserIP # None
    /\ Types \subseteq BOOLEAN
    /\ Annotations \subseteq {"absent", "yes", "no"}
    /\ UserTunnels \subseteq [serviceRef: BOOLEAN, auth: {"none", "spec"}]
    /\ AnnotatedOnly \in BOOLEAN
    /\ UserOps \subseteq UserOpKinds /\ MaxEdits \in Nat
    /\ Faults \subseteq FaultKinds /\ MaxFaults \in Nat /\ MaxEvents \in Nat

VARIABLES
    service,        \* the Service objects
    tunnel,         \* the Tunnel objects
    secret,         \* owner uid of the token secret "s-tunnel"
    deployment,     \* the client Deployment "s-tunnel-client"
    license,        \* the copy of secret inlets-license in the namespace
    host,           \* cloud hosts
    serviceStream,  \* events the service informer has not received yet
    tunnelStream,   \* events the tunnel informer has not received yet
    uids,           \* uids given out so far, by kind of object
    edits, faults   \* user edits and faults so far

objectVars == <<service, tunnel, secret, deployment, license>>
streamVars == <<serviceStream, tunnelStream>>
budgetVars == <<edits, faults>>
clusterVars == <<objectVars, host, streamVars, uids, budgetVars>>

Addresses == Hosts \cup {UserIP}

(* spec.externalIPs and status.loadBalancer.ingress are lists with possible
   repetitions; their order is abstracted. *)
ServiceRecord ==
    [uid: Nat, rv: Nat, lb: BOOLEAN, manage: {"absent", "yes", "no"},
     ports: Ports, ips: [Addresses -> Nat], ingress: [Addresses -> Nat]]

(* What the service informer passes on: the code reads neither status nor
   resource version of a cached service. *)
ServiceView ==
    [uid: Nat, lb: BOOLEAN, manage: {"absent", "yes", "no"}, ports: Ports,
     ips: [Addresses -> Nat]]

View(svc) == [uid |-> svc.uid, lb |-> svc.lb, manage |-> svc.manage,
              ports |-> svc.ports, ips |-> svc.ips]

(* owner is the uid of the owning service, 0 for a user's own tunnel; auth says
   which AuthTokenRef is set; clientRef "unnamed" is a ClientDeploymentRef whose
   name is empty.  status.hostIP is set with hostStatus "active", see HostIP. *)
TunnelRecord ==
    [uid: Nat, rv: Nat, owner: Nat, serviceRef: BOOLEAN,
     auth: {"none", "spec", "status"}, generated: BOOLEAN,
     hostStatus: {"", "provisioning", "active"}, hostID: Hosts \cup {None},
     clientRef: {"none", "unnamed", "named"}]

DeploymentRecord ==
    [owner: Nat, ports: Ports, hostIP: Hosts \cup {None}]

ASSUME NoneAssumption ==
    /\ None \notin ServiceRecord /\ None \notin TunnelRecord
    /\ None \notin DeploymentRecord

Event(Record) == [type: {"set", "deleted"}, object: Record]

ClusterTypeOK ==
    /\ service \in [Services -> ServiceRecord \cup {None}]
    /\ tunnel \in [Services -> TunnelRecord \cup {None}]
    /\ secret \in [Services -> Nat \cup {None}]
    /\ deployment \in [Services -> DeploymentRecord \cup {None}]
    /\ license \in {"absent", "stale", "current"}
    /\ host \in [Hosts -> {"free", "booting", "active", "gone"}]
    /\ serviceStream \in [Services -> Seq(Event(ServiceView))]
    /\ tunnelStream \in [Services -> Seq(Event(TunnelRecord))]
    /\ uids \in [service: Nat, tunnel: Nat]
    /\ edits \in Nat /\ faults \in Nat

ClusterInit ==
    /\ service = [s \in Services |-> None]
    /\ tunnel = [s \in Services |-> None]
    /\ secret = [s \in Services |-> None]
    /\ deployment = [s \in Services |-> None]
    /\ license = "absent"
    /\ host = [h \in Hosts |-> "free"]
    /\ serviceStream = [s \in Services |-> <<>>]
    /\ tunnelStream = [s \in Services |-> <<>>]
    /\ uids = [service |-> 0, tunnel |-> 0]
    /\ edits = 0 /\ faults = 0

NoAddress == [a \in Addresses |-> 0]

HostIP(t) == IF t.hostStatus = "active" THEN t.hostID ELSE None

(* manageService: the annotation decides, without it the flag does. *)
manageService(svc) ==
    \/ svc.manage = "yes"
    \/ svc.manage = "absent" /\ ~AnnotatedOnly

(* A fault of an enabled kind, counted against the bound. *)
Fault(kind) ==
    /\ kind \in Faults /\ faults < MaxFaults /\ edits + faults < MaxEvents
    /\ faults' = faults + 1

------------------------------------------------------------------------------
(* The API server. *)

Emit(stream, s, type, object) ==
    [stream EXCEPT ![s] = Append(@, [type |-> type, object |-> object])]

(* Optimistic concurrency: an update is accepted when it was made from the
   object's current version. *)
Current(stored, copy) ==
    /\ stored # None
    /\ stored.uid = copy.uid /\ stored.rv = copy.rv

Bumped(object) == [object EXCEPT !.rv = @ + 1]

(* An accepted update makes a new version, unless nothing changes.  Events of
   status updates are left out: UpdateFunc drops them, as neither the spec nor
   the annotations changed. *)
PutService(s, svc) ==
    /\ service' = [service EXCEPT ![s] = IF svc = @ THEN @ ELSE Bumped(svc)]
    /\ serviceStream' = IF View(svc) = View(service[s]) THEN serviceStream
                        ELSE Emit(serviceStream, s, "set", View(svc))

PutTunnel(s, t) ==
    IF t = tunnel[s]
    THEN UNCHANGED <<tunnel, tunnelStream>>
    ELSE /\ tunnel' = [tunnel EXCEPT ![s] = Bumped(t)]
         /\ tunnelStream' = Emit(tunnelStream, s, "set", Bumped(t))

NewService(lb, manage, ports) ==
    [uid |-> uids.service + 1, rv |-> 1, lb |-> lb, manage |-> manage, ports |-> ports,
     ips |-> NoAddress, ingress |-> NoAddress]

NewTunnel(owner, serviceRef, auth) ==
    [uid |-> uids.tunnel + 1, rv |-> 1, owner |-> owner, serviceRef |-> serviceRef,
     auth |-> auth, generated |-> FALSE, hostStatus |-> "", hostID |-> None,
     clientRef |-> "none"]

AddTunnel(s, t) ==
    /\ tunnel' = [tunnel EXCEPT ![s] = t]
    /\ tunnelStream' = Emit(tunnelStream, s, "set", t)
    /\ uids' = [uids EXCEPT !.tunnel = @ + 1]

RemoveTunnel(s) ==
    /\ tunnel' = [tunnel EXCEPT ![s] = None]
    /\ tunnelStream' = Emit(tunnelStream, s, "deleted", tunnel[s])

------------------------------------------------------------------------------
(* The garbage collector removes what an object's deletion leaves behind. *)

Owned(owner, stored) == stored # None /\ stored.uid = owner

CollectTunnel(s) ==
    /\ tunnel[s] # None /\ tunnel[s].owner # 0
    /\ ~Owned(tunnel[s].owner, service[s])
    /\ RemoveTunnel(s)
    /\ UNCHANGED <<service, secret, deployment, license, host, serviceStream,
                   uids, budgetVars>>

CollectSecret(s) ==
    /\ secret[s] # None /\ ~Owned(secret[s], tunnel[s])
    /\ secret' = [secret EXCEPT ![s] = None]
    /\ UNCHANGED <<service, tunnel, deployment, license, host, streamVars,
                   uids, budgetVars>>

CollectDeployment(s) ==
    /\ deployment[s] # None /\ ~Owned(deployment[s].owner, tunnel[s])
    /\ deployment' = [deployment EXCEPT ![s] = None]
    /\ UNCHANGED <<service, tunnel, secret, license, host, streamVars, uids,
                   budgetVars>>

(* A host that was ordered becomes active, with an address. *)
Boot(h) ==
    /\ host[h] = "booting"
    /\ host' = [host EXCEPT ![h] = "active"]
    /\ UNCHANGED <<objectVars, streamVars, uids, budgetVars>>

------------------------------------------------------------------------------
(* What users do. *)

Edit(op) ==
    /\ op \in UserOps /\ edits < MaxEdits /\ edits + faults < MaxEvents
    /\ edits' = edits + 1
    /\ UNCHANGED <<host, faults>>

CreateService(s) ==
    /\ Edit("createService")
    /\ service[s] = None
    /\ \E lb \in Types, m \in Annotations, p \in Ports :
          LET svc == NewService(lb, m, p)
          IN  /\ service' = [service EXCEPT ![s] = svc]
              /\ serviceStream' = Emit(serviceStream, s, "set", View(svc))
    /\ uids' = [uids EXCEPT !.service = @ + 1]
    /\ UNCHANGED <<tunnel, secret, deployment, license, tunnelStream>>

DeleteService(s) ==
    /\ Edit("deleteService")
    /\ service[s] # None
    /\ service' = [service EXCEPT ![s] = None]
    /\ serviceStream' = Emit(serviceStream, s, "deleted", View(service[s]))
    /\ UNCHANGED <<tunnel, secret, deployment, license, tunnelStream, uids>>

EditService(s) ==
    /\ service[s] # None
    /\ \/ /\ Edit("annotate")
          /\ \E m \in Annotations :
                PutService(s, [service[s] EXCEPT !.manage = m])
       \/ /\ Edit("retype")
          /\ \E lb \in Types : PutService(s, [service[s] EXCEPT !.lb = lb])
       \/ /\ Edit("ports")
          /\ \E p \in Ports : PutService(s, [service[s] EXCEPT !.ports = p])
       \/ /\ Edit("addIP")
          /\ service[s].ips[UserIP] = 0
          /\ PutService(s, [service[s] EXCEPT !.ips[UserIP] = 1])
    /\ UNCHANGED <<tunnel, secret, deployment, license, tunnelStream, uids>>

(* A user's manifest may name a token secret of the user's own, and may leave
   the service reference out. *)
EditTunnel(s) ==
    /\ \/ /\ Edit("createTunnel")
          /\ tunnel[s] = None
          /\ \E t \in UserTunnels :
                AddTunnel(s, NewTunnel(0, t.serviceRef, t.auth))
       \/ /\ Edit("deleteTunnel")
          /\ tunnel[s] # None
          /\ RemoveTunnel(s)
          /\ UNCHANGED uids
    /\ UNCHANGED <<service, secret, deployment, license, serviceStream>>

EditOther(s) ==
    /\ \/ /\ Edit("deleteDeployment")
          /\ deployment[s] # None
          /\ deployment' = [deployment EXCEPT ![s] = None]
          /\ UNCHANGED license
       \/ /\ Edit("rotateLicense")
          /\ license = "current"
          /\ license' = "stale"
          /\ UNCHANGED deployment
    /\ UNCHANGED <<service, tunnel, secret, streamVars, uids>>

UserEdit(s) ==
    \/ CreateService(s) \/ DeleteService(s) \/ EditService(s)
    \/ EditTunnel(s) \/ EditOther(s)

Environment ==
    \/ \E s \in Services : UserEdit(s) \/ CollectTunnel(s) \/ CollectSecret(s)
                           \/ CollectDeployment(s)
    \/ \E h \in Hosts : Boot(h)
==============================================================================
