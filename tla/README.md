# A verification of inlets-operator

inlets-operator gives Kubernetes Services of type LoadBalancer a public address:
it creates a `Tunnel` object for a service, provisions a cloud host that runs a
tunnel server, publishes the host's address on the service and runs a client
Deployment that connects to it.  This directory holds a TLA+ model of the operator
(`src/controller.go`), of its process (`src/main.go`, flags, signals, informers), of
the queue it is built on (client-go's `workqueue`) and of what surrounds it, TLC
configurations that check it on small instances, and proofs that TLAPS checks for
instances of any size.

## Inventory

| Component | State it keeps | Operations | Where |
|---|---|---|---|
| Event handlers and informer caches | the listers' stores, notifications not handled yet | AddFunc / UpdateFunc / DeleteFunc of tunnels, services and deployments, resyncs, relists | `controller.go:126-246, 1153-1202`, client-go `tools/cache` |
| Work queue | queue, dirty, processing, waiting channel and heap | AddRateLimited, Get, Done, ShutDown | client-go `util/workqueue` |
| - rate limiters | failures of each key, tokens of the bucket | When, Forget | `default_rate_limiters.go`, `x/time/rate` |
| Workers | local copies of objects during a sync | `processNextWorkItem`, `syncHandler` and what it calls | `controller.go:281-464` |
| - tunnel resource | Tunnel objects | `createTunnelResource` | `578-646` |
| - token secret | Secret `<tunnel>`, `status.authTokenRef` | `createTunnelAuthTokenSecret` | `518-576` |
| - host | cloud hosts, `status.hostStatus/hostID/hostIP` | `Provision`, `syncProvisioningHostStatus` | `399-447, 744-946` |
| - service status | `spec.externalIPs`, `status.loadBalancer.ingress` | `updateService` | `1064-1129` |
| - client | Deployment `<tunnel>-client`, license copy, `status.clientDeploymentRef` | `syncTunnelLicense`, `createClientDeployment`, `updateClientDeploymentRef` | `466-504, 648-742, 948-1050` |
| Process | stage of `main`, goroutines, stop channel (all lost at exit) | `main`, `NewController`, `Controller.Run`, `runWorker` | `main.go`, `controller.go:97-276` |
| - signals | a channel of two signals | `SetupSignalHandler` | `pkg/signals/signal.go` |
| - informers | which exist, run and have listed | `InformerFor`, `Start`, `WaitForCacheSync` | `pkg/generated/informers`, client-go |
| - configuration | flags, key files | `validateFlags`, `GetLicenseKey`, `getProvisioner`, `getHostConfig` | `config.go`, `validate.go`, `controller.go:744-918` |

How they interact: users and the operator write objects to the API server; watch
streams carry them, late, to the informers' caches; handlers put keys on the work
queue; two workers take keys and make requests to the API server and the cloud
with the copies they have read.  One handler does real work itself: the tunnel
`DeleteFunc` deletes the cloud host and withdraws its address from the service, on
the listener's goroutine, concurrently with the workers.  The API server's garbage
collector removes tunnels of deleted services, and secrets and deployments of
deleted tunnels, later.

What is hard, and what makes each component correct:

* **Stale reads.** Every sync starts from caches.  Optimistic concurrency must turn
  each stale write into a retry: a status never goes backwards
  (`StatusNeverRegresses`), a user's address is not dropped (`UserAddressKept`).
* **Half-done syncs.** Provision and record, activate and publish, create and refer
  are each several requests, with failures, conflicts, crashes and edits between
  them: `AddressesPublishedOnce`, `PublishedUnlessOutdated`, `EventuallyPublished`,
  `HostsReleased`.
* **Names used again.** Tunnel, secret and deployment names follow from the
  service's, and objects of deleted predecessors linger: `NoTunnelOnDeletedHost`,
  `ClientNeverChangesHands`, `EventuallyTunnelled`, `EventuallyConnected`.
* **Level-triggered repair.** Only tunnels are resynced, so what depends on a
  service's event must not lose it: `UnmanagedLosesTunnel`, `EventuallyConnected`.
* **Deletion.** `DeleteFunc` is called once, at best: `RecordedHostTracked`,
  `RecordedHostReleased`.
* **All of it.** One host for a tunnel and one tunnel for a host, whatever happens:
  `ImplementsLifecycle`.
* **The queue.** One worker for each key, no key lost, no wake-up lost, everyone
  leaves at shutdown: `NothingLost`, `NoLostWakeUp`, `WorkersExit`, and all of it
  together `ImplementsWorkQueue`.
* **Back-off.** Handlers and failing workers add the same key with growing delays that
  may overflow: `HeardInTime`, `NoHotLoop`, `RateBounded`.
* **The process.** Informers registered after `Start` never run, caches may never sync,
  signals come at any moment, and the checks of flags, the table of orders and the
  cloud library each have their own idea of which flags are needed:
  `WorkersReadFedCaches`, `StopEndsProcess`, `OrdersLackTheUnchecked`, `KeepsServing`.

`PROJECT.json` lists the hazards line by line.

## Modules

```
WorkQueue  <--implements--  RateLimitedQueue <- QueueProofs     BackOff <- BackOffProofs
    ^ instance                                                     ^
    |                                                          MCBackOff
Cluster <- ServiceStatus <- EventHandlers <- ClientDeployment <- Reconciler <- Operator
                                                                                  |
    TunnelLifecycle  <-------------------------implements-------------------------+
                                                                                  |
    MCOperator -------------------------------------------------------------------+
    OperatorProofs <- ServiceProofs <- AddressProofs -----------------------------+
          ^---------- TunnelProofs <- HostProofs <---'

Config <- Process <- MCProcess, ProcessProofs
InformerFactory <-- instance -- Process
```

* **WorkQueue** is what the controller relies on: a key that is added comes back
  after some delay, calls for a waiting key may be merged, one worker holds a key at
  a time, and a key is not starved.  `pending[k]` counts calls up to `MaxPending`.
* **RateLimitedQueue** is the client-go queue: the bounded channel and heap of the
  waiting loop, `Typed`'s queue/dirty/processing, the condition variable with its
  sleeping workers, and `processNextWorkItem`'s put-back before the deferred `Done`.
  `ImplementsWorkQueue` checks `WQ!Spec`, fairness included, under a refinement
  mapping in which `pending[k]` counts the entries for `k` in dirty, heap and channel.
* **BackOff** has the queue's delays in discrete time: the back-off of each key, with
  the width of `time.Duration`, the token bucket, and the heap that keeps the earliest
  entry of a key.  `RateLimitedQueue` lets a back-off end at any moment, so it covers
  every outcome of these delays.  `hearBy`, `handed` and `handovers` are history.
* **Cluster** is the environment: objects with uid and resource version, one watch
  stream per kind, the garbage collector, hosts that boot, users' edits.  It is
  modelled from how `controller.go` uses it.
* **ServiceStatus** has the goroutines (`pc`, and `at`, the copies each one holds),
  the shape of a request (`UpdateTunnelStatus`, `WriteService`, `TransientError`,
  `Reply`) and `updateService`.
* **EventHandlers** has the caches, handlers, resyncs, relists and `DeleteFunc`.
* **ClientDeployment** is the branch of `syncHandler` for an active host,
  **Reconciler** everything else the workers do, **Operator** the composition with
  stop, crash and restart, and the properties.
* **TunnelLifecycle** is the abstract specification of a tunnel and its host: requested,
  host ordered, recorded, active, removed, host released.  `ImplementsLifecycle` maps
  the tunnel's status and the cloud account to it.
* **Process** is one run of the program after the other: `main` stage by stage with
  each of its exits, the signal handler's goroutine, the informers that
  `NewController`'s calls create and `Start` runs (**InformerFactory**), the workers'
  loop, and the part of a sync that depends on the flags (**Config**).  **Operator**
  starts where this module has its workers "idle", with their syncs in full.
* **MCOperator**, **MCProcess** and **MCBackOff** instantiate the modules for TLC; the
  modules whose names end in **Proofs** hold theorems.

A step is one request to the API server or the cloud, with the computation up to
the next request; the label in `pc` names the request that is made next.  Action
names are those of the functions they are part of, `PROJECT.json`'s map gives the
lines.

Abstractions, and why they are sound for the properties:

* For a service `s` the tunnel `s-tunnel`, its secret and `s-tunnel-client` are
  indexed by `s`.  Services named like a tunnel are therefore left out.
* `spec.externalIPs` is a bag of addresses: neither code nor properties depend on
  the order.  Host IP and host ID are one value; `status.hostIP` is set when
  `hostStatus` is "active" (`HostIP`).
* Two reads in a row, of which the second only adds data, are one step
  (`ReadClient`, `HostConfig`).  Reads change nothing, so a merged read differs
  from two only if someone writes in between, and the later write of the sync is
  guarded by a version or by the resync.
* A handler that only enqueues is merged with the cache update it follows; back-offs
  have no duration here, so the difference is a longer back-off.  Deletions keep
  their own queue (`deletions`).
* Watch events for a service's status are left out: `UpdateFunc` drops them.
* The object the lister returned is told by uid and version: where
  `createClientDeployment` writes into the cached object (line 679), the cache
  entry changes only while it still is that version.
* `handleObject` may enqueue a cached tunnel at any time, which includes every time
  a deployment event makes it do so.
* Uids are numbers, counted for tunnels and for services apart: a uid is only ever
  compared with uids of the same kind of object.
* Flags are the sets of names that are not empty strings, a license its numbers of dots
  and dashes, a memory limit what `ParseQuantity` makes of it.  Of an order of a host
  the model has which fields get a value (`Sent`), from the constructor's arguments and
  from `getHostConfig`.  `Needs` is read off the vendored cloud library, provider by
  provider: the fields it puts into a request without a default of its own and without
  leaving an empty one out.  Whether the cloud accepts their values is not modelled.
* Two of `Process`' goroutines wait for the stop channel; each sees it closed some time
  later.  `handleObject` and the handlers that only enqueue are left to Operator.
* In BackOff the waiting loop takes an entry from its channel at once and time does not
  pass while an entry is due: scheduling latency adds to the delays checked there.
* Host IDs are never used again and which of the free ones comes next makes no
  difference (`NewHost`).  An account that has no host left makes `Provision` fail.
* The operator's own license secret, and a token secret that a user's manifest
  names, exist.
* A relist of services and one of tunnels each replace the whole stream.

## Runs

All runs of `MCOperator` have one service and two hosts (the second one shows double
provisioning and re-creation).  Services share only the license copy, the cloud account
and the workers, for which their keys compete in the queue's own run; two services
at once are out of TLC's reach in this detail, and the proofs do not need the bound.
`MaxPending` is 1 or 2, since a call for a key that already waits tells the worker
nothing new.  `MaxEdits` and `MaxFaults` bound what users do and what goes wrong, and
`MaxEvents` both together; nothing else is bounded.  Deadlock is checked in
client_go_queue and process; in the other runs a tunnel can be gone for good, the process
stop, or time end, when nothing is left to do.

| Run | Shows | Why the bounds are enough |
|---|---|---|
| client_go_queue | types, `QueueIsDirtyAndIdle`, `NoLostWakeUp`, `WorkersExit`, `NothingLost`, and that client-go's queue implements WorkQueue | 3 workers sleep and are woken, 2 keys compete for them, and the channel to the waiting loop gets full |
| back_off | `HeardInTime`, `NoHotLoop`, `RateBounded` | delays 2, 4, 5 (the cap), then the overflow of a `time.Duration` of at most 7, in 6 units of time; bucket of 1 token, so two keys exhaust it |
| edits | types, `UserAddressKept`, `StatusNeverRegresses`, `RecordedHostTracked` under races of 2 workers, listener and a user | any 2 edits, creation included, so one edit at every moment of a set-up |
| faults | `AddressesPublishedOnce`, `UserTunnelSetsNoAddress`, `StatusNeverRegresses`, and that Operator implements TunnelLifecycle | any 3 events, of which 2 may be faults of six kinds and 2 edits of five, among them every kind of user's tunnel; 2 workers |
| recreate | `NoTunnelOnDeletedHost`, `AddressesPublishedOnce`, `ClientNeverChangesHands` across two lives of a service | creation, deletion, creation at all moments, also before the first life is set up, and with other ports the second time, so that a sync of the first tunnel replaces the client (`controller.go:733`); 1 worker |
| converges | `PublishedUnlessOutdated`, `EventuallyConnected`, `UnmanagedLosesTunnel`, `RecordedHostReleased`, and `ImplementsLifecycle` to the release of the host | one annotation, port change or license change at every moment of a set-up; 1 worker |
| process | types, `WorkersReadFedCaches`, `OrdersLackTheUnchecked`, `StopEndsProcess`, `KeepsServing` | 113 command lines (each provider with all, none and all but one of the clouds' own flags; memory limits; keys and key files; licenses), 2 of: signals, failing client set-ups, lost key files; restarts without bound |

Runs that are expected to fail show that the code does not do what its documents say.
Each has its line in `PROJECT.json` under findings:

| Run | Property | What happens |
|---|---|---|
| host_leak | `HostsReleased` | the tunnel goes between Provision and the write of its ID |
| tombstone | `RecordedHostReleased` | a deletion learnt from a relist is rejected by the type check |
| lost_publish | `EventuallyPublished` | a conflicting edit makes the publication fail after activation |
| recreated_service | `EventuallyTunnelled` | the old tunnel blocks the new one, nothing looks again |
| secret_collected | `EventuallyConnected` | the predecessor's secret is used, then collected |

`PublishedUnlessOutdated` is the part of `EventuallyPublished` that does hold: without
faults, only an edit that outdates the copy `updateService` works on loses the address.
`KeepsServing` leaves out two command lines the checks at the start accept: an empty
`-max-client-memory` makes `resource.MustParse` panic in the first sync of an active
tunnel, again after each restart, and a key file that cannot be read makes
`log.Fatalln` end the process from inside a sync.  The model has both, and no property
says that they do not happen.

Other weak spots that the model contains and no run is about, listed as hazards in
`PROJECT.json`: `createTunnelResource` swallows its errors, so one failed request
leaves a service without a tunnel until its next event; the write of `Generated`
may lose against the tunnel's first sync and is not repeated; the address of a deleted
host stays published when the withdrawal conflicts or comes before the publication;
workers start before the services are listed; `Run` returns at the stop signal while
workers are inside a sync, although the comment at `controller.go:248-251` says it waits
for them (`Process!ReturnFromRun`); `equinix-metal` passes `validateFlags`
although `getProvisioner` rejects it; linode, azure and ec2 without `-region`, and ec2
without a secret key, pass every check and have each order refused
(`OrdersLackTheUnchecked` says that these are all such gaps); and handlers' calls count as failures of a key,
so that resyncs lengthen its back-off (up to the 1000 s of `HeardInTime`).

## Fairness

`FairSpec` assumes what the code's scheduling gives: goroutines run on (weak fairness
of a worker's next step and of the listener), watches deliver, the 30 s resync of
`main.go:115-116` comes again and again, ordered hosts boot, garbage is collected.
For a queued key it assumes strong fairness of being taken, which is what
RateLimitedQueue is shown to provide.  Users, faults, stops and restarts have no
fairness.  In RateLimitedQueue the waiting loop and the workers are weakly fair, and
a sender blocked on the full channel is served in turn (Go's channels queue their
senders first in, first out), hence strong fairness for `PutBack`.

In Process `main` and the signal handler run, the cluster restarts what has exited, and
the API server answers a reflector's list as long as the stop channel is open
(`StopEndsProcess` must not rely on answers that come later).  Signals, lost key files,
keys on the queue and the workers' steps have no fairness: that the process ends or
serves does not depend on them.  BackOff states safety only; its clock is urgent.

## Proofs

Proved for all values of the constants that satisfy the assumptions the modules name
(`ClusterAssumption`, `NoneAssumption`, `ListenerAssumption`, `QueueAssumption`,
`ProcessAssumption`, `BackOffAssumption`): no bound on services, hosts, workers, edits
or faults; any set of command lines, signals and lost files; any delays, bucket and
width of a duration.  Only the queue's workers and the back-off's keys are finitely
many, as `Controller.Run` starts the ones and the cluster has the others.  No fairness
is used.

Each proof has the same shape.  A small vocabulary says what a step does to the state a
property is about; each action is shown to speak it; and the inductive invariant is
preserved by every step that does, whatever action it came from.

| Module | Inductive invariant | Theorems |
|---|---|---|
| OperatorProofs | `TypeInv` | `TypeInvariant`, `TypeCorrect` |
| ServiceProofs | `ServiceInv` | `UserAddressesKept` |
| TunnelProofs | `TunnelInv` | `StatusKept` |
| HostProofs | `HostInv` | `NoTunnelLosesItsHost`, `ClientsConnectToOwnHost`, `LifecycleImplemented`, `HostsTracked` |
| AddressProofs | `AddressInv` | `PublishedOnce`, `UserTunnelsLeaveServices` |
| QueueProofs | `QueueInv` | `QueueInvariant`, `QueueTyped`, `QueueOrdersDirtyKeys`, `WakeUpsSuffice`, `WorkQueueImplemented` |
| BackOffProofs | `BackOffInv` | `BackOffInvariant`, `ChangesHeardInTime`, `SyncRateBounded`, `HandOversApart` |
| ProcessProofs | `ProcessInv` | `ProcessInvariant`, `ProcessTyped`, `CachesFed`, `OrdersLackNothingElse` |

* **Types.** `TypeOK` alone is not inductive: a request works on the copies its
  goroutine holds, and `Local` allows them to be absent.  `CopiesOK` states, for each
  label, which copies are there (a tunnel for `setActive`, a service read from the API
  server for `updateIngress`, the cached view for `createTunnel`, ...).  It says that no
  path through `syncHandler` reaches a request without the object it needs.
* **`UserAddressesKept`**: `updateService` writes a list it computed from a copy.
  `ServiceInv` says that no copy has a uid not given out yet, that a copy of the living
  service is never newer than it, and that equal versions mean equal contents
  (`ServiceCopiesTrue`).  A write that the API server accepts was then computed from the
  present list.  `Evolves` is what a step does to services, `Moves` what it does to
  goroutines.
* **`StatusKept`**: tunnels have many more copies, in the watch stream, the cache, the
  deletions to be handled and the goroutines, and `createClientDeployment` changes
  cached ones.  `CopiesTrue` says what each of them (`IsCopy`) is worth: it is an earlier
  or the present version, and if it is the present one it differs at most by a client's
  name it lacks (`CopyOf`).  `Knows` says what a goroutine has seen in its copy before a
  status write: no host before `setProvisioning`, a provisioning one before `setActive`.
  So an accepted write only advances.  `TunnelStep` is what every action does to tunnels,
  hosts and copies.
* **Hosts**: a host is known from copies of one tunnel only (`HostsNotShared`), or to the
  worker that has ordered it and not recorded it yet (`OrdersExclusive`).  `DeleteFunc`
  works on copies of tunnels that are gone (`DeletedAreGone`), so it never deletes the
  host of another one (`NoTunnelLosesItsHost`), though the name may be in use again; a
  client whose owner is the tunnel that exists has that tunnel's host, as it was made
  from a copy of it (`ClientsTrue`); and every step is a step
  of TunnelLifecycle or changes nothing there (`LifecycleImplemented`).  The other way
  round, a recorded host is not forgotten (`HostsTracked`): whoever removes a tunnel puts
  its deletion at the end of the stream (`Told`), the informer passes it on and the
  listener takes it only to delete the host (`DeletionsKept`).  Faults and restarts are
  left out there, as they do lose hosts.  This is the safety half of
  `RecordedHostReleased`.
* **Addresses**: a host not recorded yet is published nowhere and about to be published
  by nobody (`FreshUnpublished`); at most one worker, the one that made the tunnel
  active, is going to publish it, and until then it is not (`PublishersExclusive`).  That
  rests on both invariants before: the tunnel becomes active once because a conflicting
  write is refused, and the list that is written is the present one.
* **The queue**: a worker holds a key from `Get` to `Done`, the key is marked as processed
  meanwhile and nobody else holds it (`HeldOK`): without that `Done` could queue a key
  twice.  `NoLostWakeUp` is inductive by counting: each key that is queued wakes a worker
  if one sleeps, a worker that takes a key takes itself from the ready ones, and one that
  returns from `Done` adds itself.  `WorkQueueImplemented` is the safety part of
  `ImplementsWorkQueue`: the entries of a key in channel, heap and dirty set are counted,
  and each step is a call, a merge, a `Get`, a `Done`, the shutdown, or changes nothing.
* **Back-off**: `HeardInTime` follows from a witness for each deadline: a key with
  `hearBy[k]` set has an entry that is due by then (`Expected`), whatever later calls the
  heap has merged into it, and time does not pass a due entry.  `HandOversApart` needs
  that an entry is never due less than `baseDelay` after the last hand-over of its key
  (`NotTooSoon`).  `SyncRateBounded` counts: the bucket has given a token for each
  hand-over and each entry (`BucketPaid`), an entry that is merged gives its token up,
  and those that are due by some time were paid by then (`DuePaid`), although an entry
  keeps the earlier of two times.  The sum over the keys is the library's
  `FoldFunction`.  Its only induction, that an element can be taken out of a sum over a
  finite set (`TotalUnfolds`), is done with sets of numbers (`SetOfNatInduction`), since
  the library's theorem takes an operator.
* **The process**: each of the calls that `NewController` has made was given the one
  informer of its kind (`Registered`); nothing is started before all are made, and what
  `Start` has counted runs (`StartOrder`, `StartedRun`); workers exist only after both
  caches have listed (`WorkersLate`, `Fed`).  `TablesAgree` goes through the providers:
  what `validateFlags` requires, the constructor insists on and `getHostConfig` passes
  on covers what the cloud library needs, but for the flags in `Unchecked`; and these
  are needed, so the gap is exact.

Only model-checked: liveness, which is beyond the prover (`WorkersExit`, `NothingLost`
and the fairness part of `ImplementsWorkQueue`; `StopEndsProcess` and `KeepsServing`;
`EventuallyConnected`, `PublishedUnlessOutdated`, `UnmanagedLosesTunnel` and
`RecordedHostReleased`); and of the safety properties `ClientNeverChangesHands`, whose
invariant would order the uids in all copies, syncs and clients of a service.

## Not modelled

* The cloud library's requests and their answers (what they do to the account is in
  Cluster, what they are made from in `Config!Needs`), the chart, the event recorder.
* Generated clients, fakes, listers and deep copies, about a fifth of the implementation's
  lines: request builders without state or decisions.  Of the generated informers what
  the operator calls is modelled.
* `ShutDownWithDrain`, metrics, namespaces, finalizers: not used by the operator.
* The operator's own license secret being absent, panics other than `MustParse`'s, and
  services that are named like a tunnel.

## Plan

Done: WorkQueue, RateLimitedQueue and BackOff; Cluster to Operator; TunnelLifecycle and
its refinement; Config, InformerFactory and Process; the safety properties of all of
them proved but for one.  What is left:

1. **Clients**: a proof of `ClientNeverChangesHands`.  Syncs of a tunnel exclude each
   other; the uids seen by a worker, the cache, the stream and the tunnel itself are in
   this order; and no copy that names a client is older than the client's owner.
2. **Names**: a variant of `Take` in which a service may be called `s-tunnel`, and
   `DeleteTunnel` by name reaches a user's own tunnel.
3. **Two services** in one run, when TLC is given hours rather than minutes.

New properties belong in the runs there are, or replace them.
