-------------------------------- MODULE Process --------------------------------
(****************************************************************************)
(* One operator process after the other: main, the signal handler,            *)
(* NewController's use of the informer factories, Controller.Run and its      *)
(* workers, up to the exit, after which the cluster starts the next one.      *)
(* What a sync does to the cluster is Reconciler's matter; here it matters    *)
(* what the flags make of it, and where it is when the process ends.          *)
(****************************************************************************)
EXTENDS Config, Sequences

CONSTANTS
    Configurations, \* the flags the operator may be started with
    Workers,        \* Controller.Run starts two of them
    MaxFaults       \* bound on signals, failed client set-ups and lost key files

ASSUME ProcessAssumption == Configurations \subseteq Flags /\ MaxFaults \in Nat

Kinds == {"services", "deployments", "tunnels"}

INSTANCE InformerFactory

VARIABLES
    flags,          \* the command line, the same after each restart
    unreadable,     \* key files that cannot be read
    stage,          \* where main is
    code,           \* why the process exited
    stopCh,         \* the stop channel is closed
    handler,        \* the signal the handler's goroutine waits for
    caught,         \* signals in its channel
    uses,           \* the calls NewController has yet to make
    controller,     \* the informer behind each lister, HasSynced and handler
    kubeFactory, tunnelsFactory,
    listed,         \* kinds and informers whose first list is in the store
    worker,         \* what each worker goroutine does
    faults          \* faults so far

mainVars == <<stage, code>>
signalVars == <<stopCh, handler, caught>>
informerVars == <<uses, controller, kubeFactory, tunnelsFactory, listed>>
processVars == <<mainVars, signalVars, informerVars, worker>>
vars == <<flags, unreadable, processVars, faults>>

Stages == {"validate", "license", "signals", "clients", "controller", "startKube",
           "startTunnels", "waiting", "serving", "returned", "exited"}

(* "launched" before wait.Until looks at the stop channel, "idle" between two
   keys, "left" when runWorker is over; otherwise the part of a sync that
   depends on the flags and comes next. *)
WorkerStates == {"absent", "launched", "idle", "left",
                 "provision", "ordering", "status", "client"}

Roles == {"lister", "synced", "handlers"}

TypeOK ==
    /\ flags \in Configurations
    /\ unreadable \subseteq {"access-key-file", "secret-key-file"}
    /\ stage \in Stages
    /\ code \in {"none", "flags", "license", "clients", "caches", "signal", "key",
                 "panic", "stopped"}
    /\ stopCh \in BOOLEAN
    /\ handler \in {"absent", "first", "second"} /\ caught \in 0..2
    /\ uses \in Seq(Roles \X Kinds)
    /\ controller \in [Roles -> [Kinds -> Nat]]
    /\ kubeFactory \in Factory /\ tunnelsFactory \in Factory
    /\ listed \subseteq Kinds \X Nat
    /\ worker \in [Workers -> WorkerStates]
    /\ faults \in 0..MaxFaults

(* The informers NewController asks for, in the order of its text. *)
Uses == << <<"lister", "deployments">>, <<"synced", "deployments">>,
           <<"lister", "tunnels">>, <<"synced", "tunnels">>,
           <<"lister", "services">>, <<"handlers", "tunnels">>,
           <<"handlers", "deployments">>, <<"handlers", "services">> >>

NoInformer == [r \in Roles |-> [k \in Kinds |-> 0]]

NoWorker == [w \in Workers |-> "absent"]

Init ==
    /\ flags \in Configurations
    /\ unreadable \in SUBSET KeyFiles(flags)
    /\ stage = "validate" /\ code = "none"
    /\ stopCh = FALSE /\ handler = "absent" /\ caught = 0
    /\ uses = Uses /\ controller = NoInformer
    /\ kubeFactory = NewSharedInformerFactory
    /\ tunnelsFactory = NewSharedInformerFactory
    /\ listed = {}
    /\ worker = NoWorker
    /\ faults = 0

------------------------------------------------------------------------------

Running == stage # "exited"

Fault == faults < MaxFaults /\ faults' = faults + 1

Exit(why) == stage' = "exited" /\ code' = why

(* main goes from one stage to the next. *)
Step(from, to) == stage = from /\ stage' = to /\ UNCHANGED code

ValidateFlags ==
    /\ stage = "validate"
    /\ IF validateFlags(flags) THEN Step("validate", "license") ELSE Exit("flags")
    /\ UNCHANGED <<signalVars, informerVars, worker, faults>>

LoadLicense ==
    /\ stage = "license"
    /\ IF GetLicenseKey(flags) THEN Step("license", "signals") ELSE Exit("license")
    /\ UNCHANGED <<signalVars, informerVars, worker, faults>>

SetupSignalHandler ==
    /\ Step("signals", "clients")
    /\ handler' = "first"
    /\ UNCHANGED <<stopCh, caught, informerVars, worker, faults>>

(* getClientCmdConfig and the two clients made from it. *)
BuildClients ==
    /\ \/ Step("clients", "controller") /\ UNCHANGED faults
       \/ stage = "clients" /\ Fault /\ Exit("clients")
    /\ UNCHANGED <<signalVars, informerVars, worker>>

(* One of NewController's calls: Lister, HasSynced or AddEventHandler of the
   shared informer of a kind. *)
NewController ==
    /\ stage = "controller" /\ uses # <<>>
    /\ LET role == Head(uses)[1]
           kind == Head(uses)[2]
           Ask(f) == InformerFor(f, kind)
           Remember(f) ==
               controller' = [controller EXCEPT ![role][kind] = Ask(f).informers[kind]]
       IN  IF kind = "tunnels"
           THEN /\ tunnelsFactory' = Ask(tunnelsFactory) /\ Remember(tunnelsFactory)
                /\ UNCHANGED kubeFactory
           ELSE /\ kubeFactory' = Ask(kubeFactory) /\ Remember(kubeFactory)
                /\ UNCHANGED tunnelsFactory
    /\ uses' = Tail(uses)
    /\ UNCHANGED <<mainVars, signalVars, listed, worker, faults>>

StartFactories ==
    /\ \/ /\ uses = <<>> /\ Step("controller", "startKube")
          /\ UNCHANGED <<kubeFactory, tunnelsFactory>>
       \/ /\ Step("startKube", "startTunnels")
          /\ kubeFactory' = StartFactory(kubeFactory) /\ UNCHANGED tunnelsFactory
       \/ /\ Step("startTunnels", "waiting")
          /\ tunnelsFactory' = StartFactory(tunnelsFactory) /\ UNCHANGED kubeFactory
    /\ UNCHANGED <<signalVars, uses, controller, listed, worker, faults>>

------------------------------------------------------------------------------
(* Controller.Run. *)

FactoryOf(kind) == IF kind = "tunnels" THEN tunnelsFactory ELSE kubeFactory

HasSynced(kind) == <<kind, controller["synced"][kind]>> \in listed

(* Mutants of WaitForCacheSync: the deployments are not waited for; the stop
   channel is not looked at. *)
WaitForCacheSyncTunnelsOnly ==
    /\ stage = "waiting"
    /\ \/ /\ HasSynced("tunnels")
          /\ Step("waiting", "serving")
          /\ worker' = [w \in Workers |-> "launched"]
       \/ stopCh /\ Exit("caches") /\ UNCHANGED worker
    /\ UNCHANGED <<signalVars, informerVars, faults>>

WaitForCacheSyncDeaf ==
    /\ stage = "waiting"
    /\ HasSynced("deployments") /\ HasSynced("tunnels")
    /\ Step("waiting", "serving")
    /\ worker' = [w \in Workers |-> "launched"]
    /\ UNCHANGED <<signalVars, informerVars, faults>>

(* The condition is polled before and between looks at the stop channel.  An
   error of Run is fatal. *)
WaitForCacheSync ==
    /\ stage = "waiting"
    /\ \/ /\ HasSynced("deployments") /\ HasSynced("tunnels")
          /\ Step("waiting", "serving")
          /\ worker' = [w \in Workers |-> "launched"]
       \/ stopCh /\ Exit("caches") /\ UNCHANGED worker
    /\ UNCHANGED <<signalVars, informerVars, faults>>

(* Run returns as soon as the channel is closed; its deferred ShutDown closes
   the work queue. *)
ReturnFromRun ==
    /\ stopCh /\ Step("serving", "returned")
    /\ UNCHANGED <<signalVars, informerVars, worker, faults>>

ReturnFromMain ==
    /\ stage = "returned" /\ Exit("stopped")
    /\ UNCHANGED <<signalVars, informerVars, worker, faults>>

Main ==
    \/ ValidateFlags \/ LoadLicense \/ SetupSignalHandler \/ BuildClients
    \/ NewController \/ StartFactories
    \/ WaitForCacheSync \/ ReturnFromRun \/ ReturnFromMain

------------------------------------------------------------------------------
(* The other goroutines. *)

(* Before the handler is set up a signal kills the process. *)
Signal ==
    /\ Running /\ Fault
    /\ IF handler = "absent"
       THEN Exit("signal") /\ UNCHANGED caught
       ELSE caught' = (IF caught < 2 THEN caught + 1 ELSE caught) /\ UNCHANGED mainVars
    /\ UNCHANGED <<stopCh, handler, informerVars, worker>>

(* Mutant of HandleSignal: the handler does not wait for a signal. *)
HandleSignalEager ==
    /\ Running /\ handler # "absent"
    /\ caught' = caught - 1
    /\ \/ /\ handler = "first"
          /\ stopCh' = TRUE /\ handler' = "second"
          /\ UNCHANGED mainVars
       \/ /\ handler = "second"
          /\ Exit("signal")
          /\ UNCHANGED <<stopCh, handler>>
    /\ UNCHANGED <<informerVars, worker, faults>>

(* The first signal closes the stop channel, the second one exits. *)
HandleSignal ==
    /\ Running /\ caught > 0
    /\ caught' = caught - 1
    /\ \/ /\ handler = "first"
          /\ stopCh' = TRUE /\ handler' = "second"
          /\ UNCHANGED mainVars
       \/ /\ handler = "second"
          /\ Exit("signal")
          /\ UNCHANGED <<stopCh, handler>>
    /\ UNCHANGED <<informerVars, worker, faults>>

(* The reflector of a running informer has listed kind. *)
List(kind) ==
    /\ Running
    /\ LET id == FactoryOf(kind).informers[kind]
       IN  /\ id \in FactoryOf(kind).running
           /\ <<kind, id>> \notin listed
           /\ listed' = listed \cup {<<kind, id>>}
    /\ UNCHANGED <<mainVars, signalVars, uses, controller, kubeFactory,
                   tunnelsFactory, worker, faults>>

Become(w, from, to) == worker[w] = from /\ worker' = [worker EXCEPT ![w] = to]

(* What getProvisioner lets a sync, or DeleteFunc, do. *)
Provisioner(ready, error) ==
    LET outcome == getProvisioner(flags, unreadable)
    IN  \/ outcome = "ready" /\ ready /\ UNCHANGED mainVars
        \/ outcome = "error" /\ error /\ UNCHANGED mainVars
        \/ outcome = "fatal" /\ Exit("key") /\ UNCHANGED worker

(* A worker takes keys as long as there are any, also when the queue was shut
   down; then runWorker returns, and wait.Until ends. *)
Work(w) ==
    /\ Running
    /\ \/ Become(w, "launched", IF stopCh THEN "left" ELSE "idle") /\ UNCHANGED mainVars
       \/ /\ \E part \in {"provision", "status", "client"} : Become(w, "idle", part)
          /\ UNCHANGED mainVars
       \/ stage = "returned" /\ Become(w, "idle", "left") /\ UNCHANGED mainVars
       \/ /\ worker[w] = "provision"
          /\ Provisioner(Become(w, "provision", "ordering"), Become(w, "provision", "idle"))
       \/ Become(w, "ordering", "idle") /\ UNCHANGED mainVars
       \/ /\ worker[w] = "status"
          /\ Provisioner(Become(w, "status", "idle"), Become(w, "status", "idle"))
       \/ /\ worker[w] = "client"
          /\ IF MustParsePanics(flags) THEN Exit("panic") /\ UNCHANGED worker
             ELSE Become(w, "client", "idle") /\ UNCHANGED mainVars
    /\ UNCHANGED <<signalVars, informerVars, faults>>

(* The tunnel informer's DeleteFunc needs the provisioner as well. *)
DeleteFunc ==
    /\ Running /\ tunnelsFactory.running # {}
    /\ Provisioner(UNCHANGED worker, UNCHANGED worker)
    /\ UNCHANGED <<signalVars, informerVars, faults>>

LoseKeyFile ==
    /\ Fault
    /\ \E file \in KeyFiles(flags) \ unreadable : unreadable' = unreadable \cup {file}
    /\ UNCHANGED <<flags, processVars>>

Restart ==
    /\ ~Running
    /\ stage' = "validate" /\ code' = "none"
    /\ stopCh' = FALSE /\ handler' = "absent" /\ caught' = 0
    /\ uses' = Uses /\ controller' = NoInformer
    /\ kubeFactory' = NewSharedInformerFactory
    /\ tunnelsFactory' = NewSharedInformerFactory
    /\ listed' = {}
    /\ worker' = NoWorker
    /\ UNCHANGED faults

Next ==
    \/ /\ \/ Main \/ Signal \/ HandleSignal
          \/ \E k \in Kinds : List(k)
          \/ \E w \in Workers : Work(w)
          \/ DeleteFunc \/ Restart
       /\ UNCHANGED <<flags, unreadable>>
    \/ LoseKeyFile

(* Goroutines run; the API server answers a reflector that has not been told to
   stop; the cluster restarts what has exited.  Faults and keys owe nothing. *)
Fairness ==
    /\ WF_vars(Main /\ UNCHANGED <<flags, unreadable>>)
    /\ WF_vars(HandleSignal /\ UNCHANGED <<flags, unreadable>>)
    /\ \A k \in Kinds : WF_vars(List(k) /\ ~stopCh /\ UNCHANGED <<flags, unreadable>>)
    /\ WF_vars(Restart /\ UNCHANGED <<flags, unreadable>>)

Spec == Init /\ [][Next]_vars /\ Fairness

------------------------------------------------------------------------------

(* A worker only takes a key when each lister reads from, and each handler is
   fed by, the one informer of its kind that runs, and deployments and tunnels
   have been listed: Lister, HasSynced and AddEventHandler are separate calls
   made before Start (controller.go:111-193, main.go:118-127). *)
WorkersReadFedCaches ==
    (\E w \in Workers : worker[w] \notin {"absent", "launched", "left"})
        => /\ \A k \in Kinds :
                 /\ controller["lister"][k] \in FactoryOf(k).running
                 /\ controller["handlers"][k] = controller["lister"][k]
           /\ \A k \in {"deployments", "tunnels"} :
                 <<k, controller["lister"][k]>> \in listed

(* The flags a cloud needs and that nothing looks at before the order. *)
Unchecked(provider) ==
    CASE provider \in {"linode", "azure"} -> {"region"}
      [] provider = "ec2"                 -> {"region", "secret-key"}
      [] OTHER                            -> {}

(* What validateFlags asks for (validate.go:14-40), the constructors refuse
   (controller.go:893-918) and getHostConfig passes on (744-870), taken together,
   makes every order as complete as the cloud library needs it, but for a region
   on linode, azure and ec2 and a secret key on ec2: without these, and only
   without these, the operator goes on placing orders that must be refused. *)
OrdersLackTheUnchecked ==
    (\E w \in Workers : worker[w] = "ordering")
        => Needs(flags.provider) \ Sent(flags) = Unchecked(flags.provider) \ Sent(flags)

(* The first signal ends the process, also while caches never sync or workers
   are busy (main.go:97-98). *)
StopEndsProcess == stopCh ~> ~Running

(* Flags that pass the checks made at the start, but for an empty memory limit
   and for key files, which do not, see the README. *)
Passing ==
    /\ validateFlags(flags) /\ GetLicenseKey(flags)
    /\ flags.memory # "empty" /\ KeyFiles(flags) = {}

(* With such flags the operator comes up and stays up. *)
KeepsServing == Passing => <>[](stage = "serving")
==============================================================================
