--------------------------- MODULE ClientDeployment ---------------------------
(****************************************************************************)
(* What syncHandler does for a tunnel whose host is active: copy the license *)
(* into the namespace (syncTunnelLicense), then create the client Deployment *)
(* or bring its ports up to date (createClientDeployment).  The operator's    *)
(* own license secret is taken to exist.                                     *)
(****************************************************************************)
EXTENDS EventHandlers

(* The copy is read; any error of that read counts as "there is none". *)
GetLicense(w) ==
    /\ pc[w] = "getLicense"
    /\ \/ /\ Goto(w, CASE license = "current" -> "readClient"
                       [] license = "stale"   -> "updateLicense"
                       [] license = "absent"  -> "createLicense", at[w])
          /\ UNCHANGED clusterVars
       \/ TransientError(w, "failed", at[w])
       \/ TransientError(w, "createLicense", at[w])

(* The copy is created, or updated from the version read; if another worker
   did so meanwhile the request is refused and the key is tried again. *)
WriteLicense(w) ==
    /\ pc[w] \in {"createLicense", "updateLicense"}
    /\ LET expected == IF pc[w] = "createLicense" THEN "absent" ELSE "stale"
       IN  \/ /\ license = expected
              /\ license' = "current"
              /\ Reply(w, "readClient", at[w], "failed")
              /\ UNCHANGED <<service, tunnel, secret, deployment, host,
                             streamVars, uids, edits>>
           \/ /\ license # expected
              /\ Goto(w, "failed", at[w])
              /\ UNCHANGED clusterVars
           \/ TransientError(w, "failed", at[w])

(* With a named ClientDeploymentRef the deployment and the service are read
   and their ports compared; otherwise the service is read to create it. *)
ReadClient(w) ==
    LET s == at[w].name
        found == [at[w] EXCEPT !.svc = service[s]]
    IN  /\ pc[w] = "readClient"
        /\ \/ /\ \/ /\ service[s] = None
                    /\ Goto(w, "failed", at[w])
                 \/ /\ service[s] # None /\ at[w].tun.clientRef # "named"
                    /\ Goto(w, "createClient", found)
                 \/ /\ at[w].tun.clientRef = "named" /\ deployment[s] = None
                    /\ Goto(w, "failed", at[w])
                 \/ /\ service[s] # None
                    /\ at[w].tun.clientRef = "named" /\ deployment[s] # None
                    /\ Goto(w, IF deployment[s].ports = service[s].ports
                               THEN "succeeded" ELSE "updateClient", found)
              /\ UNCHANGED clusterVars
           \/ TransientError(w, "failed", at[w])

(* Mutant of makeClientDeployment: ports are left at what they were. *)
makeClientDeploymentOldPorts(t, svc) ==
    [owner |-> t.uid, ports |-> CHOOSE p \in Ports : TRUE, hostIP |-> HostIP(t)]

makeClientDeployment(t, svc) ==
    [owner |-> t.uid, ports |-> svc.ports, hostIP |-> HostIP(t)]

PutDeployment(s, d) ==
    /\ deployment' = [deployment EXCEPT ![s] = d]
    /\ UNCHANGED <<service, tunnel, secret, license, host, streamVars, uids, edits>>

(* The update carries no resource version and its error is only logged. *)
UpdateClient(w) ==
    LET s == at[w].name
    IN  /\ pc[w] = "updateClient"
        /\ \/ /\ deployment[s] # None
              /\ PutDeployment(s, makeClientDeployment(at[w].tun, at[w].svc))
              /\ Reply(w, "succeeded", at[w], "succeeded")
           \/ /\ deployment[s] = None
              /\ Goto(w, "succeeded", at[w])
              /\ UNCHANGED clusterVars
           \/ TransientError(w, "succeeded", at[w])

(* Mutant of CreateClient: a Deployment that exists already is replaced. *)
CreateClientReplacing(w) ==
    LET s == at[w].name
        t == at[w].tun
        next == [at[w] EXCEPT !.tun.clientRef = "named", !.svc = None]
    IN  /\ pc[w] = "createClient"
        /\ PutDeployment(s, makeClientDeployment(t, at[w].svc))
        /\ Goto(w, "setClientRef", next)
        /\ tunnelCache' = [tunnelCache EXCEPT
              ![s] = IF Current(@, t) THEN [@ EXCEPT !.clientRef = "named"] ELSE @]
        /\ UNCHANGED <<serviceCache, deletions, faults>>

(* Create; its error is only logged, and then the reference gets the empty
   name of the object returned.  The reference is set in the object that the
   lister returned, so the cache has it too while it holds that object. *)
CreateClient(w) ==
    LET s == at[w].name
        t == at[w].tun
        Refer(ref) ==
            tunnelCache' = [tunnelCache EXCEPT
                ![s] = IF Current(@, t) THEN [@ EXCEPT !.clientRef = ref] ELSE @]
        next(ref) == [at[w] EXCEPT !.tun.clientRef = ref, !.svc = None]
    IN  /\ pc[w] = "createClient"
        /\ \/ /\ deployment[s] = None
              /\ PutDeployment(s, makeClientDeployment(t, at[w].svc))
              /\ \/ /\ Goto(w, "setClientRef", next("named")) /\ Refer("named")
                    /\ UNCHANGED faults
                 \/ /\ Fault("lostReply")
                    /\ Goto(w, "setClientRef", next("unnamed")) /\ Refer("unnamed")
           \/ /\ deployment[s] # None
              /\ Goto(w, "setClientRef", next("unnamed")) /\ Refer("unnamed")
              /\ UNCHANGED clusterVars
           \/ /\ TransientError(w, "setClientRef", next("unnamed"))
              /\ Refer("unnamed")
        /\ UNCHANGED <<serviceCache, deletions>>

SetClientRef(w) ==
    /\ pc[w] = "setClientRef"
    /\ UpdateTunnelStatus(w, at[w].tun, "succeeded", "failed")

syncActive(w) ==
    \/ /\ \/ GetLicense(w) \/ WriteLicense(w) \/ ReadClient(w) \/ UpdateClient(w)
          \/ SetClientRef(w)
       /\ UNCHANGED cacheVars
    \/ CreateClient(w)
==============================================================================
