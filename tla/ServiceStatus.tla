---------------------------- MODULE ServiceStatus ----------------------------
(****************************************************************************)
(* Controller.updateService and the API calls of the operator's goroutines.  *)
(* updateService is called by the workers, which publish a new host's        *)
(* address, and by the tunnel informer's listener, which withdraws the       *)
(* address of a host it has deleted; the two run concurrently.  A call is     *)
(* three requests: Get, Update of spec.externalIPs, UpdateStatus of the       *)
(* ingress.                                                                  *)
(****************************************************************************)
EXTENDS Cluster

CONSTANTS
    Workers,        \* the workers Controller.Run starts
    Listener        \* the goroutine that calls the tunnel event handlers

ASSUME ListenerAssumption == Listener \notin Workers

Goroutines == Workers \cup {Listener}

VARIABLES
    pc,             \* the request each goroutine makes next
    at              \* what it works on: service name and objects it has read

procVars == <<pc, at>>

(* name is the service the key belongs to; svc, tun and target are the copies
   of a Service and a Tunnel and the host the code holds in variables. *)
Local == [name: Services \cup {None},
          svc: ServiceRecord \cup ServiceView \cup {None},
          tun: TunnelRecord \cup {None}, target: Hosts \cup {None}]

Nothing == [name |-> None, svc |-> None, tun |-> None, target |-> None]

Labels ==
    {"idle", "succeeded", "failed", "done",
     "getTunnel", "createTunnel", "setGenerated", "deleteTunnel",
     "getSecret", "createSecret", "setAuthRef",
     "hostConfig", "provision", "setProvisioning", "hostStatus", "setActive",
     "getService", "updateService", "updateIngress",
     "getLicense", "createLicense", "updateLicense",
     "readClient", "updateClient", "readService", "createClient", "setClientRef"}

ProcTypeOK ==
    /\ pc \in [Goroutines -> Labels]
    /\ at \in [Goroutines -> Local]

ProcInit ==
    /\ pc = [p \in Goroutines |-> "idle"]
    /\ at = [p \in Goroutines |-> Nothing]

(* p goes on to label with locals l.  A worker that ends reports to
   processNextWorkItem; the listener ignores the outcome and takes the next
   notification. *)
Goto(p, label, l) ==
    LET ends == label \in {"succeeded", "failed"}
    IN  /\ pc' = [pc EXCEPT ![p] = IF ends /\ p = Listener THEN "idle" ELSE label]
        /\ at' = [at EXCEPT ![p] = IF ends THEN Nothing ELSE l]

(* A request that fails for a transient reason, before it takes effect. *)
TransientError(p, label, l) ==
    /\ Fault("api")
    /\ Goto(p, label, l)
    /\ UNCHANGED <<objectVars, host, streamVars, uids, edits>>

(* How the caller learns of a request that took effect: by its reply, or, if
   the reply is lost, by an error. *)
Reply(p, label, l, error) ==
    \/ Goto(p, label, l) /\ UNCHANGED faults
    \/ Fault("lostReply") /\ Goto(p, error, l)

(* Mutant of UpdateTunnelStatus: a refused write is repeated from the version
   the tunnel has by then, with the status that was computed before. *)
UpdateTunnelStatusForced(p, t, label, error) ==
    LET s == at[p].name
        now == tunnel[s]
    IN  \/ /\ now # None
           /\ PutTunnel(s, [t EXCEPT !.uid = now.uid, !.rv = now.rv,
                                     !.owner = now.owner])
           /\ Reply(p, label, [at[p] EXCEPT !.tun = None], error)
           /\ UNCHANGED <<service, secret, deployment, license, host,
                          serviceStream, uids, edits>>
        \/ /\ now = None
           /\ Goto(p, error, at[p])
           /\ UNCHANGED clusterVars
        \/ TransientError(p, error, at[p])

(* UpdateStatus of tunnel t, made from the version t was read at.  No caller
   reads the tunnel again once it is written. *)
UpdateTunnelStatus(p, t, label, error) ==
    LET s == at[p].name
    IN  \/ /\ Current(tunnel[s], t)
           /\ PutTunnel(s, t)
           /\ Reply(p, label, [at[p] EXCEPT !.tun = None], error)
           /\ UNCHANGED <<service, secret, deployment, license, host,
                          serviceStream, uids, edits>>
        \/ /\ ~Current(tunnel[s], t)
           /\ Goto(p, error, at[p])
           /\ UNCHANGED clusterVars
        \/ TransientError(p, error, at[p])

(* Mutant of WriteService: the same. *)
WriteServiceForced(p, svc, label) ==
    LET s == at[p].name
        now == service[s]
    IN  \/ /\ now # None
           /\ PutService(s, [svc EXCEPT !.uid = now.uid, !.rv = now.rv])
           /\ Reply(p, label, [at[p] EXCEPT !.svc = service'[s]], "failed")
           /\ UNCHANGED <<tunnel, secret, deployment, license, host,
                          tunnelStream, uids, edits>>
        \/ /\ now = None
           /\ Goto(p, "failed", at[p])
           /\ UNCHANGED clusterVars
        \/ TransientError(p, "failed", at[p])

(* Update or UpdateStatus of service svc. *)
WriteService(p, svc, label) ==
    LET s == at[p].name
    IN  \/ /\ Current(service[s], svc)
           /\ PutService(s, svc)
           /\ Reply(p, label, [at[p] EXCEPT !.svc = service'[s]], "failed")
           /\ UNCHANGED <<tunnel, secret, deployment, license, host,
                          tunnelStream, uids, edits>>
        \/ /\ ~Current(service[s], svc)
           /\ Goto(p, "failed", at[p])
           /\ UNCHANGED clusterVars
        \/ TransientError(p, "failed", at[p])

------------------------------------------------------------------------------

(* ownsService decides whether updateService does anything. *)
ownsService(t) == t.owner # 0

(* Mutant of AfterHostChange: ownership of the service is not asked for. *)
AfterHostChangeAlways(t) == "getService"

AfterHostChange(t) == IF ownsService(t) THEN "getService" ELSE "succeeded"

GetService(p) ==
    LET s == at[p].name
    IN  /\ pc[p] = "getService"
        /\ \/ /\ IF service[s] = None
                 THEN Goto(p, "failed", at[p])
                 ELSE Goto(p, "updateService", [at[p] EXCEPT !.svc = service[s]])
              /\ UNCHANGED clusterVars
           \/ TransientError(p, "failed", at[p])

(* The workers append the host's address. *)
WithAddress(svc, h) == [svc EXCEPT !.ips[h] = @ + 1]

(* Mutant of WithoutAddress: one entry is cut out, as if it had to be there. *)
WithoutAddressOnce(svc, h) ==
    [svc EXCEPT !.ips = [a \in Addresses |-> IF a = h THEN @[a] - 1 ELSE @[a]]]

(* The listener (ip = "") drops every occurrence of the tunnel's HostIP, which may
   be unset. *)
WithoutAddress(svc, h) ==
    [svc EXCEPT !.ips = [a \in Addresses |-> IF a = h THEN 0 ELSE @[a]]]

UpdateService(p) ==
    /\ pc[p] = "updateService"
    /\ WriteService(p,
          IF p = Listener
          THEN WithoutAddress(at[p].svc, at[p].target)
          ELSE WithAddress(at[p].svc, at[p].target),
          "updateIngress")

(* Mutant of UpdateIngress: the addresses read before the Update are kept. *)
UpdateIngressStale(p) ==
    /\ pc[p] = "updateIngress"
    /\ WriteService(p, at[p].svc, "succeeded")

(* The ingress is overwritten with the external IPs the Update returned. *)
UpdateIngress(p) ==
    /\ pc[p] = "updateIngress"
    /\ WriteService(p, [at[p].svc EXCEPT !.ingress = at[p].svc.ips], "succeeded")

updateService(p) == GetService(p) \/ UpdateService(p) \/ UpdateIngress(p)
==============================================================================
