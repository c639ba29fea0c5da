------------------------------ MODULE Reconciler ------------------------------
(****************************************************************************)
(* The workers: processNextWorkItem and syncHandler.  A service key makes     *)
(* sure the service's tunnel exists or is removed; a tunnel key moves the      *)
(* tunnel one stage on: token secret, host, address, client.  Each request    *)
(* to the API server or the cloud is a step, made with the objects read from  *)
(* the caches or by earlier requests of the same sync.                        *)
(****************************************************************************)
EXTENDS ClientDeployment

(* Mutants of SyncLabel: an active host is polled again; the user's own token
   secret is overlooked. *)
SyncLabelPollActive(t) ==
    CASE ~t.serviceRef                   -> "failed"
      [] t.hostStatus # ""               -> "hostStatus"
      [] t.hostStatus = "" /\ t.auth = "none" -> "getSecret"
      [] OTHER                           -> "hostConfig"

SyncLabelOwnSecret(t) ==
    CASE ~t.serviceRef                   -> "failed"
      [] t.hostStatus = "active"         -> "getLicense"
      [] t.hostStatus = "provisioning"   -> "hostStatus"
      [] t.hostStatus = "" /\ t.auth # "status" -> "getSecret"
      [] OTHER                           -> "hostConfig"

(* Workqueue.Get, the lister reads, and the dispatch on the kind of key and
   on Status.HostStatus. *)
SyncLabel(t) ==
    CASE ~t.serviceRef                   -> "failed"
      [] t.hostStatus = "active"         -> "getLicense"
      [] t.hostStatus = "provisioning"   -> "hostStatus"
      [] t.hostStatus = "" /\ t.auth = "none" -> "getSecret"
      [] OTHER                           -> "hostConfig"

Take(w, k) ==
    LET s == k[2]
        l == [Nothing EXCEPT !.name = s]
    IN  /\ pc[w] = "idle"
        /\ Queue!Get(w, k)
        /\ CASE k = ServiceKey(s) /\ serviceCache[s] # None ->
                  Goto(w, "getTunnel", [l EXCEPT !.svc = serviceCache[s]])
             [] k = TunnelKey(s) /\ tunnelCache[s] # None ->
                  LET t == tunnelCache[s]
                  IN  Goto(w, SyncLabel(t), [l EXCEPT !.tun = t])
             [] OTHER -> Goto(w, "succeeded", l)
        /\ UNCHANGED <<clusterVars, cacheVars>>

------------------------------------------------------------------------------
(* createTunnelResource.  All errors are logged and none is returned. *)

(* Mutant of GetTunnel: a tunnel no longer wanted is left alone. *)
GetTunnelNoRemoval(w) ==
    /\ pc[w] = "getTunnel"
    /\ \/ /\ Goto(w, IF manageService(at[w].svc) /\ tunnel[at[w].name] = None
                      THEN "createTunnel" ELSE "succeeded", at[w])
          /\ UNCHANGED clusterVars
       \/ TransientError(w, "succeeded", at[w])

(* A failed Get that is not NotFound is taken for an existing tunnel, the
   empty object returned with it: deleting that one fails. *)
GetTunnel(w) ==
    LET s == at[w].name
        managed == manageService(at[w].svc)
    IN  /\ pc[w] = "getTunnel"
        /\ \/ /\ \/ /\ managed /\ tunnel[s] = None
                    /\ Goto(w, "createTunnel", at[w])
                 \/ /\ ~managed /\ tunnel[s] # None
                    /\ Goto(w, "deleteTunnel", at[w])
                 \/ /\ managed = (tunnel[s] # None)
                    /\ Goto(w, "succeeded", at[w])
              /\ UNCHANGED clusterVars
           \/ TransientError(w, "succeeded", at[w])

(* The tunnel is owned by the service the cache had, which may be gone. *)
CreateTunnel(w) ==
    LET s == at[w].name
        t == NewTunnel(at[w].svc.uid, TRUE, "none")
    IN  /\ pc[w] = "createTunnel"
        /\ \/ /\ tunnel[s] = None
              /\ AddTunnel(s, t)
              /\ Reply(w, "setGenerated", [at[w] EXCEPT !.tun = t, !.svc = None],
                       "succeeded")
              /\ UNCHANGED <<service, secret, deployment, license, host,
                             serviceStream, edits>>
           \/ /\ tunnel[s] # None
              /\ Goto(w, "succeeded", at[w])
              /\ UNCHANGED clusterVars
           \/ TransientError(w, "succeeded", at[w])

SetGenerated(w) ==
    /\ pc[w] = "setGenerated"
    /\ UpdateTunnelStatus(w, [at[w].tun EXCEPT !.generated = TRUE],
                          "succeeded", "succeeded")

(* Delete by name: whichever tunnel has the name by now. *)
DeleteTunnel(w) ==
    LET s == at[w].name
    IN  /\ pc[w] = "deleteTunnel"
        /\ \/ /\ tunnel[s] # None
              /\ RemoveTunnel(s)
              /\ Reply(w, "succeeded", at[w], "succeeded")
              /\ UNCHANGED <<service, secret, deployment, license, host,
                             serviceStream, uids, edits>>
           \/ /\ tunnel[s] = None
              /\ Goto(w, "succeeded", at[w])
              /\ UNCHANGED clusterVars
           \/ TransientError(w, "succeeded", at[w])

createTunnelResource(w) ==
    GetTunnel(w) \/ CreateTunnel(w) \/ SetGenerated(w) \/ DeleteTunnel(w)

------------------------------------------------------------------------------
(* createTunnelAuthTokenSecret. *)

(* Only NotFound leads to a new secret; a secret of that name is used, whoever
   owns it, and so is none at all when the Get fails otherwise. *)
GetSecret(w) ==
    /\ pc[w] = "getSecret"
    /\ \/ /\ Goto(w, IF secret[at[w].name] = None THEN "createSecret"
                     ELSE "setAuthRef", at[w])
          /\ UNCHANGED clusterVars
       \/ TransientError(w, "setAuthRef", at[w])

CreateSecret(w) ==
    LET s == at[w].name
    IN  /\ pc[w] = "createSecret"
        /\ \/ /\ secret[s] = None
              /\ secret' = [secret EXCEPT ![s] = at[w].tun.uid]
              /\ Reply(w, "setAuthRef", at[w], "failed")
              /\ UNCHANGED <<service, tunnel, deployment, license, host,
                             streamVars, uids, edits>>
           \/ /\ secret[s] # None
              /\ Goto(w, "setAuthRef", at[w])
              /\ UNCHANGED clusterVars
           \/ TransientError(w, "failed", at[w])

SetAuthRef(w) ==
    /\ pc[w] = "setAuthRef"
    /\ UpdateTunnelStatus(w, [at[w].tun EXCEPT !.auth = "status"],
                          "succeeded", "failed")

createTunnelAuthTokenSecret(w) == GetSecret(w) \/ CreateSecret(w) \/ SetAuthRef(w)

------------------------------------------------------------------------------
(* Provisioning. *)

(* The service's lister and the token secret are read for getHostConfig.  A
   secret that the user's manifest names is taken to exist. *)
HostConfig(w) ==
    LET s == at[w].name
        complete == /\ serviceCache[s] # None
                    /\ at[w].tun.auth = "status" => secret[s] # None
    IN  /\ pc[w] = "hostConfig"
        /\ \/ /\ Goto(w, IF complete THEN "provision" ELSE "failed", at[w])
              /\ UNCHANGED clusterVars
           \/ TransientError(w, "failed", at[w])

(* Host IDs are not used again; which one comes next makes no difference. *)
NewHost == CHOOSE h \in Hosts : host[h] = "free"

(* provisioner.Provision: the cloud creates a host and returns its ID, or an
   error, with or without having created one. *)
Provision(w) ==
    /\ pc[w] = "provision"
    /\ \/ /\ \E h \in Hosts : host[h] = "free"
          /\ LET h == NewHost
             IN  /\ host' = [host EXCEPT ![h] = "booting"]
                 /\ Reply(w, "setProvisioning", [at[w] EXCEPT !.target = h], "failed")
          /\ UNCHANGED <<objectVars, streamVars, uids, edits>>
       \/ /\ \A h \in Hosts : host[h] # "free"
          /\ Goto(w, "failed", at[w])
          /\ UNCHANGED clusterVars
       \/ /\ Fault("cloud")
          /\ Goto(w, "failed", at[w])
          /\ UNCHANGED <<objectVars, host, streamVars, uids, edits>>

SetProvisioning(w) ==
    /\ pc[w] = "setProvisioning"
    /\ UpdateTunnelStatus(w, [at[w].tun EXCEPT !.hostStatus = "provisioning",
                                               !.hostID = at[w].target],
                          "succeeded", "failed")

(* syncProvisioningHostStatus: a host that is not active yet is no error; the
   next resync asks again. *)
HostStatus(w) ==
    LET h == at[w].tun.hostID
    IN  /\ pc[w] = "hostStatus"
        /\ \/ /\ Goto(w, CASE host[h] = "active"  -> "setActive"
                           [] host[h] = "booting" -> "succeeded"
                           [] OTHER               -> "failed",
                      [at[w] EXCEPT !.target = h])
              /\ UNCHANGED clusterVars
           \/ /\ Fault("cloud")
              /\ Goto(w, "failed", at[w])
              /\ UNCHANGED <<objectVars, host, streamVars, uids, edits>>

(* Mutant of SetActive: the address is published also when the write that
   should come first is refused. *)
SetActiveUnchecked(w) ==
    /\ pc[w] = "setActive"
    /\ UpdateTunnelStatus(w, [at[w].tun EXCEPT !.hostStatus = "active"],
                          AfterHostChange(at[w].tun), AfterHostChange(at[w].tun))

SetActive(w) ==
    /\ pc[w] = "setActive"
    /\ UpdateTunnelStatus(w, [at[w].tun EXCEPT !.hostStatus = "active"],
                          AfterHostChange(at[w].tun), "failed")

syncProvisioningHostStatus(w) == HostStatus(w) \/ SetActive(w) \/ updateService(w)

------------------------------------------------------------------------------
(* processNextWorkItem: a failed key is put back before Done. *)

Requeue(w) ==
    /\ pc[w] = "failed"
    /\ Queue!AddRateLimited(claim[w])
    /\ Goto(w, "done", Nothing)
    /\ UNCHANGED <<clusterVars, cacheVars>>

Finish(w) ==
    /\ pc[w] \in {"succeeded", "done"}
    /\ Queue!Done(w)
    /\ Goto(w, "idle", Nothing)
    /\ UNCHANGED <<clusterVars, cacheVars>>

syncHandler(w) ==
    \/ /\ \/ createTunnelResource(w)
          \/ createTunnelAuthTokenSecret(w)
          \/ HostConfig(w) \/ Provision(w) \/ SetProvisioning(w)
          \/ syncProvisioningHostStatus(w)
       /\ UNCHANGED <<queueVars, cacheVars>>
    \/ syncActive(w) /\ UNCHANGED queueVars

Worker(w) ==
    \/ \E k \in Keys : Take(w, k)
    \/ syncHandler(w)
    \/ Requeue(w) \/ Finish(w)
==============================================================================
