----------------------------- MODULE ProcessProofs -----------------------------
(****************************************************************************)
(* Proofs about the process of the operator, for any command lines, any       *)
(* number of workers and any number of faults.                               *)
(****************************************************************************)
EXTENDS Process, SequenceTheorems, TLAPS

(* The calls NewController has yet to make, as a set. *)
Remaining == {uses[i] : i \in DOMAIN uses}

Asked == {Uses[i] : i \in DOMAIN Uses}

(* What a call was given is the one informer of its kind. *)
Registered ==
    \A r \in Roles, k \in Kinds : <<r, k>> \in Asked \ Remaining =>
        /\ FactoryOf(k).informers[k] # 0
        /\ controller[r][k] = FactoryOf(k).informers[k]

(* Start has run what it has counted as started. *)
StartedRun(f) ==
    \A k \in f.startedInformers : f.informers[k] # 0 /\ f.informers[k] \in f.running

(* The kinds whose factory main has started. *)
StartedKinds ==
    CASE stage \in {"validate", "license", "signals", "clients", "controller",
                    "startKube", "exited"} -> {}
      [] stage = "startTunnels"            -> {"services", "deployments"}
      [] OTHER                              -> Kinds

(* Everything is registered before anything is started, and what is started runs. *)
StartOrder ==
    /\ stage \in {"startKube", "startTunnels", "waiting", "serving", "returned"}
           => Remaining = {}
    /\ \A k \in StartedKinds : FactoryOf(k).informers[k] \in FactoryOf(k).running

WorkersUp == \E w \in Workers : worker[w] # "absent"

(* What is true from the start of the workers on, also after an exit. *)
Fed ==
    /\ Remaining = {}
    /\ \A k \in Kinds : FactoryOf(k).informers[k] \in FactoryOf(k).running
    /\ HasSynced("deployments") /\ HasSynced("tunnels")

(* Workers are started at the end, with checked flags and fed caches. *)
WorkersLate ==
    WorkersUp => /\ stage \in {"serving", "returned", "exited"}
                 /\ validateFlags(flags)
                 /\ Fed

(* An order is only placed with a provisioner. *)
Provisioned(f) ==
    /\ f.provider \in Supported
    /\ ConstructorNeeds(f.provider) \subseteq ConstructorArguments(f)

OrdersPossible ==
    \A w \in Workers : worker[w] = "ordering" => Provisioned(flags)

(* The inductive invariant. *)
ProcessInv ==
    /\ TypeOK
    /\ Registered
    /\ StartedRun(kubeFactory) /\ StartedRun(tunnelsFactory)
    /\ StartOrder
    /\ stage \notin {"validate", "exited"} => validateFlags(flags)
    /\ stage = "returned" => stopCh
    /\ WorkersLate
    /\ OrdersPossible

------------------------------------------------------------------------------
(* The tables of flags.                                                     *)

(* What validateFlags insists on, the constructors check and getHostConfig passes
   on is what the cloud needs but for what is named unchecked, for each provider
   that getProvisioner knows. *)
LEMMA TablesAgree ==
  ASSUME NEW f \in Flags, validateFlags(f), Provisioned(f)
  PROVE  Needs(f.provider) \ Sent(f) = Unchecked(f.provider) \ Sent(f)
  <1> USE DEF Needs, Sent, Unchecked, getHostConfig, ConstructorArguments
  <1>1. CASE f.provider = "gce"
    <2>1. {"region", "project-id", "zone"} \subseteq f.given
      BY <1>1 DEF validateFlags, Required
    <2>2. QED  BY <1>1, <2>1 DEF GCENeeds
  <1>2. CASE f.provider = "ec2"
    BY <1>2 DEF EC2Needs
  <1>3. CASE f.provider = "hetzner"
    BY <1>3 DEF HetznerNeeds
  <1>4. CASE f.provider = "azure"
    <2>1. "subscription-id" \in f.given
      BY <1>4 DEF validateFlags, Required
    <2>2. QED  BY <1>4, <2>1 DEF AzureNeeds, AzureImage
  <1>5. CASE f.provider = "digitalocean"
    BY <1>5 DEF DigitalOceanNeeds
  <1>6. CASE f.provider = "scaleway"
    <2>1. {"secret-key", "organization-id"} \subseteq ConstructorArguments(f)
      BY <1>6 DEF Provisioned, ConstructorNeeds
    <2>2. QED  BY <1>6, <2>1 DEF ScalewayNeeds, ConstructorNeeds
  <1>7. CASE f.provider = "linode"
    BY <1>7 DEF LinodeNeeds
  <1>8. QED
    BY <1>1, <1>2, <1>3, <1>4, <1>5, <1>6, <1>7 DEF Provisioned, Supported, Documented

------------------------------------------------------------------------------
(* Steps that leave the informers alone.                                    *)

LEMMA FlagsType ==
  ASSUME TypeOK
  PROVE  flags \in Flags /\ KeyFiles(flags) \subseteq {"access-key-file", "secret-key-file"}
  BY ProcessAssumption DEF TypeOK, KeyFiles

LEMMA InformersKept ==
  ASSUME Registered, StartedRun(kubeFactory), StartedRun(tunnelsFactory),
         UNCHANGED informerVars
  PROVE  /\ Registered' /\ StartedRun(kubeFactory)' /\ StartedRun(tunnelsFactory)'
         /\ Remaining' = Remaining
         /\ Fed => Fed'
         /\ \A k \in Kinds : FactoryOf(k)' = FactoryOf(k)
  <1>1. /\ uses' = uses /\ controller' = controller /\ kubeFactory' = kubeFactory
        /\ tunnelsFactory' = tunnelsFactory /\ listed' = listed
    BY DEF informerVars
  <1>2. Remaining' = Remaining  BY <1>1 DEF Remaining
  <1>3. \A k : FactoryOf(k)' = FactoryOf(k)  BY <1>1 DEF FactoryOf
  <1>4. \A k : HasSynced(k)' = HasSynced(k)  BY <1>1 DEF HasSynced
  <1>5. Registered'  BY <1>1, <1>2, <1>3 DEF Registered
  <1>6. StartedRun(kubeFactory)' /\ StartedRun(tunnelsFactory)'
    BY <1>1 DEF StartedRun
  <1>7. Fed => Fed'  BY <1>2, <1>3, <1>4 DEF Fed
  <1>8. QED  BY <1>2, <1>3, <1>5, <1>6, <1>7

LEMMA StartOrderKept ==
  ASSUME StartOrder, UNCHANGED informerVars, stage' \in {stage, "exited"}
  PROVE  StartOrder'
  <1>1. /\ Remaining' = Remaining
        /\ \A k : FactoryOf(k)' = FactoryOf(k)
    BY DEF informerVars, Remaining, FactoryOf
  <1>2. StartedKinds' \in {StartedKinds, {}}
    <2>1. CASE stage' = stage  BY <2>1 DEF StartedKinds
    <2>2. CASE stage' = "exited"  BY <2>2 DEF StartedKinds
    <2>3. QED  BY <2>1, <2>2
  <1>3. QED  BY <1>1, <1>2 DEF StartOrder

(* main's steps up to the start of the informers, and after it. *)
LEMMA MainKeeps ==
  ASSUME ProcessInv, UNCHANGED <<flags, unreadable>>,
         ValidateFlags \/ LoadLicense \/ SetupSignalHandler \/ BuildClients
             \/ ReturnFromRun \/ ReturnFromMain
  PROVE  ProcessInv'
  <1> USE DEF ProcessInv
  <1>1. UNCHANGED <<informerVars, worker>> /\ UNCHANGED <<stopCh, caught>>
    BY DEF ValidateFlags, LoadLicense, SetupSignalHandler, BuildClients,
           ReturnFromRun, ReturnFromMain, signalVars
  <1>2. /\ Registered' /\ StartedRun(kubeFactory)' /\ StartedRun(tunnelsFactory)'
        /\ Remaining' = Remaining
        /\ Fed => Fed'
        /\ \A k \in Kinds : FactoryOf(k)' = FactoryOf(k)
    BY <1>1, InformersKept
  <1>3. \/ stage = "validate" /\ stage' = "license" /\ code' = code /\ validateFlags(flags)
        \/ stage = "validate" /\ stage' = "exited" /\ code' = "flags"
        \/ stage = "license" /\ stage' = "signals" /\ code' = code
        \/ stage = "license" /\ stage' = "exited" /\ code' = "license"
        \/ stage = "signals" /\ stage' = "clients" /\ code' = code
        \/ stage = "clients" /\ stage' = "controller" /\ code' = code
        \/ stage = "clients" /\ stage' = "exited" /\ code' = "clients"
        \/ stage = "serving" /\ stage' = "returned" /\ code' = code /\ stopCh
        \/ stage = "returned" /\ stage' = "exited" /\ code' = "stopped"
    BY DEF ValidateFlags, LoadLicense, SetupSignalHandler, BuildClients,
           ReturnFromRun, ReturnFromMain, Step, Exit
  <1>4. /\ faults' \in 0..MaxFaults
        /\ handler' \in {"absent", "first", "second"}
    BY ProcessAssumption DEF ValidateFlags, LoadLicense, SetupSignalHandler, BuildClients,
           ReturnFromRun, ReturnFromMain, Fault, signalVars, TypeOK
  <1>5. TypeOK'
    BY <1>1, <1>3, <1>4 DEF TypeOK, Stages, informerVars
  <1>6. StartOrder'
    BY <1>2, <1>3 DEF StartOrder, StartedKinds, Kinds
  <1>7. /\ stage' \notin {"validate", "exited"} => validateFlags(flags)'
        /\ stage' = "returned" => stopCh'
    BY <1>1, <1>3
  <1>8. WorkersLate' /\ OrdersPossible'
    BY <1>1, <1>2, <1>3 DEF WorkersLate, WorkersUp, OrdersPossible
  <1>9. QED  BY <1>2, <1>5, <1>6, <1>7, <1>8

(* The caches are fed when the workers are launched. *)
LEMMA WaitForCacheSyncKeeps ==
  ASSUME ProcessInv, UNCHANGED <<flags, unreadable>>, WaitForCacheSync
  PROVE  ProcessInv'
  <1> USE DEF ProcessInv
  <1>1. /\ UNCHANGED <<informerVars, stopCh, handler, caught, faults>>
        /\ stage = "waiting"
    BY DEF WaitForCacheSync, signalVars
  <1>2. /\ Registered' /\ StartedRun(kubeFactory)' /\ StartedRun(tunnelsFactory)'
        /\ Remaining' = Remaining
        /\ Fed => Fed'
        /\ \A k \in Kinds : FactoryOf(k)' = FactoryOf(k)
    BY <1>1, InformersKept
  <1>3. ~WorkersUp  BY <1>1 DEF WorkersLate
  <1>4. CASE /\ HasSynced("deployments") /\ HasSynced("tunnels")
             /\ stage' = "serving" /\ code' = code
             /\ worker' = [w \in Workers |-> "launched"]
    <2>1. Fed  BY <1>1, <1>4 DEF Fed, StartOrder, StartedKinds
    <2>2. WorkersLate' /\ OrdersPossible'
      BY <1>1, <1>2, <1>4, <2>1 DEF WorkersLate, OrdersPossible
    <2>3. TypeOK'
      BY <1>1, <1>4 DEF TypeOK, Stages, WorkerStates, informerVars
    <2>4. StartOrder'
      BY <1>1, <1>2, <1>4 DEF StartOrder, StartedKinds
    <2>5. QED  BY <1>1, <1>2, <1>4, <2>2, <2>3, <2>4
  <1>5. CASE stopCh /\ stage' = "exited" /\ code' = "caches" /\ worker' = worker
    <2>1. WorkersLate' /\ OrdersPossible'
      BY <1>3, <1>5 DEF WorkersLate, WorkersUp, OrdersPossible
    <2>2. TypeOK'
      BY <1>1, <1>5 DEF TypeOK, Stages, informerVars
    <2>3. StartOrder'
      BY <1>5 DEF StartOrder, StartedKinds
    <2>4. QED  BY <1>2, <1>5, <2>1, <2>2, <2>3
  <1>6. QED  BY <1>4, <1>5 DEF WaitForCacheSync, Step, Exit

(* Neither a signal nor its handler reopens the stop channel. *)
LEMMA SignalKeeps ==
  ASSUME ProcessInv, UNCHANGED <<flags, unreadable>>, Signal \/ HandleSignal
  PROVE  ProcessInv'
  <1> USE DEF ProcessInv
  <1>1. UNCHANGED <<informerVars, worker>>
    BY DEF Signal, HandleSignal
  <1>2. /\ Registered' /\ StartedRun(kubeFactory)' /\ StartedRun(tunnelsFactory)'
        /\ Remaining' = Remaining
        /\ Fed => Fed'
        /\ \A k \in Kinds : FactoryOf(k)' = FactoryOf(k)
    BY <1>1, InformersKept
  <1>3. /\ \/ UNCHANGED <<stage, code>>
           \/ stage' = "exited" /\ code' = "signal"
        /\ stopCh => stopCh'
        /\ stopCh' \in BOOLEAN /\ handler' \in {"absent", "first", "second"}
        /\ caught' \in 0..2
    <2>0. stopCh \in BOOLEAN /\ handler \in {"absent", "first", "second"} /\ caught \in 0..2
      BY DEF TypeOK
    <2>1. CASE Signal
      <3>1. caught' \in {caught, caught + 1} /\ (caught' = caught + 1 => caught < 2)
        BY <2>0, <2>1 DEF Signal
      <3>2. QED  BY <2>0, <2>1, <3>1 DEF Signal, Exit, mainVars
    <2>2. CASE HandleSignal
      <3>1. caught' \in 0..2  BY <2>0, <2>2 DEF HandleSignal
      <3>2. CASE stopCh' = TRUE /\ handler' = "second" /\ UNCHANGED mainVars
        BY <3>1, <3>2 DEF mainVars
      <3>3. CASE Exit("signal") /\ UNCHANGED <<stopCh, handler>>
        BY <2>0, <3>1, <3>3 DEF Exit
      <3>4. QED  BY <2>2, <3>2, <3>3 DEF HandleSignal
    <2>3. QED  BY <2>1, <2>2
  <1>4. faults' \in 0..MaxFaults
    BY ProcessAssumption DEF Signal, HandleSignal, Fault, TypeOK
  <1>5. TypeOK'
    BY <1>1, <1>3, <1>4 DEF TypeOK, Stages, informerVars
  <1>6. StartOrder'
    BY <1>1, <1>3, StartOrderKept
  <1>7. WorkersLate' /\ OrdersPossible'
    BY <1>1, <1>2, <1>3 DEF WorkersLate, WorkersUp, OrdersPossible
  <1>8. QED  BY <1>2, <1>3, <1>5, <1>6, <1>7

(* A worker takes part of a sync only when it was up before, and orders only with
   a provisioner. *)
LEMMA WorkKeeps ==
  ASSUME ProcessInv, UNCHANGED <<flags, unreadable>>, NEW w \in Workers, Work(w)
  PROVE  ProcessInv'
  <1> USE DEF ProcessInv
  <1>1. UNCHANGED <<informerVars, stopCh, handler, caught, faults>> /\ Running
    BY DEF Work, signalVars
  <1>2. /\ Registered' /\ StartedRun(kubeFactory)' /\ StartedRun(tunnelsFactory)'
        /\ Remaining' = Remaining
        /\ Fed => Fed'
        /\ \A k \in Kinds : FactoryOf(k)' = FactoryOf(k)
    BY <1>1, InformersKept
  <1>3. /\ worker[w] # "absent"
        /\ \/ worker' = worker
           \/ \E st \in WorkerStates \ {"absent"} :
                 /\ worker' = [worker EXCEPT ![w] = st]
                 /\ st = "ordering" => Provisioned(flags)
        /\ \/ UNCHANGED <<stage, code>>
           \/ stage' = "exited" /\ code' \in {"key", "panic"}
    <2> DEFINE Goes(from, to) ==
          worker[w] = from /\ worker' = [worker EXCEPT ![w] = to] /\ UNCHANGED <<stage, code>>
    <2>1. CASE Goes("launched", IF stopCh THEN "left" ELSE "idle")
      <3>1. (IF stopCh THEN "left" ELSE "idle") \in {"left", "idle"}  OBVIOUS
      <3>2. QED  BY <2>1, <3>1 DEF WorkerStates
    <2>2. CASE \E part \in {"provision", "status", "client"} : Goes("idle", part)
      BY <2>2 DEF WorkerStates
    <2>3. CASE Goes("idle", "left") \/ Goes("ordering", "idle")
      BY <2>3 DEF WorkerStates
    <2>4. CASE /\ worker[w] = "provision"
               /\ Provisioner(Become(w, "provision", "ordering"),
                              Become(w, "provision", "idle"))
      <3>1. getProvisioner(flags, unreadable) = "ready" => Provisioned(flags)
        BY DEF getProvisioner, Provisioned
      <3>2. QED
        BY <2>4, <3>1 DEF Provisioner, Become, Exit, mainVars, WorkerStates
    <2>5. CASE /\ worker[w] = "status"
               /\ Provisioner(Become(w, "status", "idle"), Become(w, "status", "idle"))
      BY <2>5 DEF Provisioner, Become, Exit, mainVars, WorkerStates
    <2>6. CASE /\ worker[w] = "client"
               /\ IF MustParsePanics(flags) THEN Exit("panic") /\ UNCHANGED worker
                  ELSE Become(w, "client", "idle") /\ UNCHANGED mainVars
      BY <2>6 DEF Become, Exit, mainVars, WorkerStates
    <2>7. QED
      BY <2>1, <2>2, <2>3, <2>4, <2>5, <2>6 DEF Work, Become, mainVars
  <1>4. stage \in {"serving", "returned"} /\ validateFlags(flags) /\ Fed
    BY <1>1, <1>3 DEF WorkersLate, WorkersUp, Running
  <1>5. TypeOK'
    BY <1>1, <1>3 DEF TypeOK, Stages, informerVars
  <1>6. StartOrder'
    BY <1>1, <1>3, StartOrderKept
  <1>7. WorkersLate'
    BY <1>2, <1>3, <1>4 DEF WorkersLate
  <1>8. OrdersPossible'
    BY <1>3 DEF OrdersPossible, TypeOK
  <1>9. /\ stage' \notin {"validate", "exited"} => validateFlags(flags)'
        /\ stage' = "returned" => stopCh'
    BY <1>1, <1>3
  <1>10. QED  BY <1>2, <1>5, <1>6, <1>7, <1>8, <1>9

LEMMA DeleteFuncKeeps ==
  ASSUME ProcessInv, UNCHANGED <<flags, unreadable>>, DeleteFunc
  PROVE  ProcessInv'
  <1> USE DEF ProcessInv
  <1>1. /\ UNCHANGED <<informerVars, stopCh, handler, caught, faults, worker>>
        /\ \/ UNCHANGED <<stage, code>>
           \/ stage' = "exited" /\ code' = "key"
    BY DEF DeleteFunc, Provisioner, Exit, mainVars, signalVars
  <1>2. /\ Registered' /\ StartedRun(kubeFactory)' /\ StartedRun(tunnelsFactory)'
        /\ Fed => Fed'
    BY <1>1, InformersKept
  <1>3. TypeOK'
    BY <1>1 DEF TypeOK, Stages, informerVars
  <1>4. StartOrder'
    BY <1>1, StartOrderKept
  <1>5. WorkersLate' /\ OrdersPossible'
    BY <1>1, <1>2 DEF WorkersLate, WorkersUp, OrdersPossible
  <1>6. QED  BY <1>1, <1>2, <1>3, <1>4, <1>5

------------------------------------------------------------------------------
(* NewController's calls and the start of the factories.                    *)

(* The first of the calls is made, the others remain. *)
LEMMA NextUse ==
  ASSUME NEW q \in Seq(Roles \X Kinds), q # <<>>
  PROVE  /\ Head(q) = <<Head(q)[1], Head(q)[2]>>
         /\ Head(q)[1] \in Roles /\ Head(q)[2] \in Kinds
         /\ Tail(q) \in Seq(Roles \X Kinds)
         /\ {q[i] : i \in DOMAIN q} \subseteq {Tail(q)[i] : i \in DOMAIN Tail(q)} \cup {Head(q)}
  <1>1. /\ Head(q) \in Roles \X Kinds /\ Tail(q) \in Seq(Roles \X Kinds)
        /\ Len(q) \in Nat \ {0} /\ DOMAIN q = 1..Len(q)
        /\ DOMAIN Tail(q) = 1..(Len(q) - 1) /\ Head(q) = q[1]
        /\ \A i \in 1..(Len(q) - 1) : Tail(q)[i] = q[i + 1]
    OBVIOUS
  <1>2. ASSUME NEW i \in DOMAIN q, i # 1
        PROVE  i - 1 \in DOMAIN Tail(q) /\ q[i] = Tail(q)[i - 1]
    <2>1. i - 1 \in 1..(Len(q) - 1) /\ (i - 1) + 1 = i  BY <1>1, <1>2
    <2>2. QED  BY <1>1, <2>1
  <1>3. ASSUME NEW i \in DOMAIN q
        PROVE  q[i] \in {Tail(q)[j] : j \in DOMAIN Tail(q)} \cup {Head(q)}
    BY <1>1, <1>2
  <1>4. QED  BY <1>1, <1>3

(* An informer that exists stays the one of its kind, and asking makes one. *)
LEMMA InformerForType ==
  ASSUME NEW f \in Factory, NEW kind \in Kinds
  PROVE  /\ InformerFor(f, kind) \in Factory
         /\ InformerFor(f, kind).informers[kind] # 0
         /\ \A k \in Kinds : f.informers[k] # 0 =>
                InformerFor(f, kind).informers[k] = f.informers[k]
         /\ InformerFor(f, kind).startedInformers = f.startedInformers
         /\ InformerFor(f, kind).running = f.running
  <1>1. CASE f.informers[kind] # 0
    BY <1>1 DEF InformerFor
  <1>2. CASE f.informers[kind] = 0
    <2> DEFINE g == InformerFor(f, kind)
    <2>1. g = [informers |-> [f.informers EXCEPT ![kind] = f.made + 1],
               made |-> f.made + 1, startedInformers |-> f.startedInformers,
               running |-> f.running]
      BY <1>2 DEF InformerFor, Factory
    <2>2. f.made + 1 \in Nat \ {0} /\ f.informers \in [Kinds -> Nat]
      BY DEF Factory
    <2>3. QED  BY <1>2, <2>1, <2>2 DEF Factory
  <1>3. QED  BY <1>1, <1>2

LEMMA StartFactoryType ==
  ASSUME NEW f \in Factory, StartedRun(f)
  PROVE  /\ StartFactory(f) \in Factory
         /\ StartedRun(StartFactory(f))
         /\ StartFactory(f).informers = f.informers
         /\ f.running \subseteq StartFactory(f).running
         /\ \A k \in Kinds : f.informers[k] # 0 =>
                f.informers[k] \in StartFactory(f).running
  <1> DEFINE fresh == {k \in Kinds : f.informers[k] # 0} \ f.startedInformers
             g == StartFactory(f)
  <1>1. g = [informers |-> f.informers, made |-> f.made,
             startedInformers |-> f.startedInformers \cup fresh,
             running |-> f.running \cup {f.informers[k] : k \in fresh}]
    <2> DEFINE ran == {f.informers[k] : k \in fresh}
    <2>1. g = [f EXCEPT !.startedInformers = @ \cup fresh, !.running = @ \cup ran]
      BY DEF StartFactory
    <2> HIDE DEF fresh, ran, g
    <2>2. g = [informers |-> f.informers, made |-> f.made,
               startedInformers |-> f.startedInformers \cup fresh,
               running |-> f.running \cup ran]
      BY <2>1 DEF Factory
    <2>3. QED  BY <2>2 DEF ran
  <1>2. /\ f.informers \in [Kinds -> Nat] /\ f.made \in Nat
        /\ f.startedInformers \subseteq Kinds /\ f.running \subseteq Nat
    BY DEF Factory
  <1>3. g \in Factory  BY <1>1, <1>2 DEF Factory
  <1>4. \A k \in Kinds : f.informers[k] # 0 => k \in f.startedInformers \cup fresh
    OBVIOUS
  <1>5. \A k \in f.startedInformers \cup fresh :
            f.informers[k] # 0 /\ f.informers[k] \in g.running
    BY <1>1 DEF StartedRun
  <1>6. QED  BY <1>1, <1>3, <1>4, <1>5 DEF StartedRun

LEMMA NewControllerKeeps ==
  ASSUME ProcessInv, UNCHANGED <<flags, unreadable>>, NewController
  PROVE  ProcessInv'
  <1> USE DEF ProcessInv
  <1>0. PICK role \in Roles, kind \in Kinds : Head(uses) = <<role, kind>>
    <2>1. uses \in Seq(Roles \X Kinds) /\ uses # <<>>
      BY DEF TypeOK, NewController
    <2>2. QED  BY <2>1
  <1> DEFINE f == FactoryOf(kind)
             g == InformerFor(f, kind)
  <1>1. /\ stage = "controller" /\ uses # <<>> /\ uses' = Tail(uses)
        /\ controller' = [controller EXCEPT ![role][kind] = g.informers[kind]]
        /\ IF kind = "tunnels"
           THEN tunnelsFactory' = g /\ kubeFactory' = kubeFactory
           ELSE kubeFactory' = g /\ tunnelsFactory' = tunnelsFactory
        /\ UNCHANGED <<stage, code, stopCh, handler, caught, listed, worker, faults>>
    BY <1>0 DEF NewController, FactoryOf, mainVars, signalVars
  <1>2. /\ uses' \in Seq(Roles \X Kinds)
        /\ Remaining \subseteq Remaining' \cup {<<role, kind>>}
    <2>1. uses \in Seq(Roles \X Kinds)  BY DEF TypeOK
    <2>2. QED  BY <1>0, <1>1, <2>1, NextUse DEF Remaining
  <1>3. f \in Factory /\ StartedRun(f) /\ controller \in [Roles -> [Kinds -> Nat]]
    BY DEF TypeOK, FactoryOf
  <1> HIDE DEF f, g
  <1>4. /\ g \in Factory /\ g.informers[kind] # 0 /\ g.informers[kind] \in Nat
        /\ \A k \in Kinds : f.informers[k] # 0 => g.informers[k] = f.informers[k]
        /\ g.startedInformers = f.startedInformers /\ g.running = f.running
    <2>1. /\ g \in Factory /\ g.informers[kind] # 0
          /\ \A k \in Kinds : f.informers[k] # 0 => g.informers[k] = f.informers[k]
          /\ g.startedInformers = f.startedInformers /\ g.running = f.running
      BY <1>2, <1>3, InformerForType DEF g
    <2>2. g.informers[kind] \in Nat  BY <1>2, <2>1 DEF Factory
    <2>3. QED  BY <2>1, <2>2
  <1>5. StartedRun(g)
    BY <1>3, <1>4 DEF StartedRun, Factory
  <1>6. /\ FactoryOf(kind)' = g
        /\ \A k \in Kinds : \/ FactoryOf(k)' = FactoryOf(k)
                            \/ FactoryOf(k)' = g /\ FactoryOf(k) = f
        /\ StartedRun(kubeFactory)' /\ StartedRun(tunnelsFactory)'
    <2>1. CASE kind = "tunnels"
      <3>1. tunnelsFactory' = g /\ kubeFactory' = kubeFactory /\ f = tunnelsFactory
        BY <1>1, <2>1 DEF f, FactoryOf
      <3>2. \A k : \/ FactoryOf(k)' = FactoryOf(k)
                   \/ FactoryOf(k)' = g /\ FactoryOf(k) = f
        BY <3>1 DEF FactoryOf
      <3>3. FactoryOf(kind)' = g  BY <2>1, <3>1 DEF FactoryOf
      <3>4. StartedRun(kubeFactory)' /\ StartedRun(tunnelsFactory)'
        BY <1>5, <3>1 DEF StartedRun
      <3>5. QED  BY <3>2, <3>3, <3>4
    <2>2. CASE kind # "tunnels"
      <3>1. kubeFactory' = g /\ tunnelsFactory' = tunnelsFactory /\ f = kubeFactory
        BY <1>1, <2>2 DEF f, FactoryOf
      <3>2. \A k : \/ FactoryOf(k)' = FactoryOf(k)
                   \/ FactoryOf(k)' = g /\ FactoryOf(k) = f
        BY <3>1 DEF FactoryOf
      <3>3. FactoryOf(kind)' = g  BY <2>2, <3>1 DEF FactoryOf
      <3>4. StartedRun(kubeFactory)' /\ StartedRun(tunnelsFactory)'
        BY <1>5, <3>1 DEF StartedRun
      <3>5. QED  BY <3>2, <3>3, <3>4
    <2>3. QED  BY <2>1, <2>2
  <1>7. \A k \in Kinds : FactoryOf(k).informers[k] # 0 =>
            FactoryOf(k)'.informers[k] = FactoryOf(k).informers[k]
    BY <1>4, <1>6
  <1>8. Registered'
    <2> SUFFICES ASSUME NEW r \in Roles, NEW k \in Kinds,
                        <<r, k>> \in Asked \ Remaining'
                 PROVE  /\ FactoryOf(k)'.informers[k] # 0
                        /\ controller'[r][k] = FactoryOf(k)'.informers[k]
      BY DEF Registered
    <2>1. CASE r = role /\ k = kind
      <3>1. controller'[role][kind] = g.informers[kind]
        BY <1>1, <1>2, <1>3
      <3>2. FactoryOf(k)' = g  BY <1>6, <2>1
      <3>3. QED  BY <1>4, <2>1, <3>1, <3>2
    <2>2. CASE ~(r = role /\ k = kind)
      <3>1. controller'[r][k] = controller[r][k]
        BY <1>1, <1>2, <1>3, <2>2
      <3>2. <<r, k>> \in Asked \ Remaining
        <4>1. <<r, k>> # <<role, kind>>  BY <2>2
        <4>2. QED  BY <1>2, <4>1
      <3>3. QED  BY <1>7, <3>1, <3>2 DEF Registered
    <2>3. QED  BY <2>1, <2>2
  <1>9. TypeOK'
    <2>1. controller' \in [Roles -> [Kinds -> Nat]]
      BY <1>1, <1>2, <1>3, <1>4
    <2>2. kubeFactory' \in Factory /\ tunnelsFactory' \in Factory
      BY <1>1, <1>4 DEF TypeOK
    <2>3. QED  BY <1>1, <1>2, <2>1, <2>2 DEF TypeOK
  <1>10. StartOrder'  BY <1>1 DEF StartOrder, StartedKinds
  <1>11. WorkersLate' /\ OrdersPossible'
    BY <1>1 DEF WorkersLate, WorkersUp, OrdersPossible
  <1>12. QED  BY <1>1, <1>6, <1>8, <1>9, <1>10, <1>11

(* NewController asks for a lister and handlers of each kind, and for two of the
   HasSynced functions. *)
LEMMA CallsMade ==
  /\ \A k \in Kinds : <<"lister", k>> \in Asked /\ <<"handlers", k>> \in Asked
  /\ \A k \in {"deployments", "tunnels"} : <<"synced", k>> \in Asked
  <1>1. DOMAIN Uses = 1..8  BY DEF Uses
  <1>2. /\ Uses[1] = <<"lister", "deployments">> /\ Uses[2] = <<"synced", "deployments">>
        /\ Uses[3] = <<"lister", "tunnels">> /\ Uses[4] = <<"synced", "tunnels">>
        /\ Uses[5] = <<"lister", "services">> /\ Uses[6] = <<"handlers", "tunnels">>
        /\ Uses[7] = <<"handlers", "deployments">> /\ Uses[8] = <<"handlers", "services">>
    BY DEF Uses
  <1>3. \A i \in 1..8 : Uses[i] \in Asked  BY <1>1 DEF Asked
  <1>4. Uses[1] \in Asked /\ Uses[2] \in Asked /\ Uses[3] \in Asked /\ Uses[4] \in Asked
        /\ Uses[5] \in Asked /\ Uses[6] \in Asked /\ Uses[7] \in Asked /\ Uses[8] \in Asked
    BY <1>3
  <1>5. QED  BY <1>2, <1>4 DEF Kinds

(* Start, of one factory and then the other, finds all informers registered. *)
LEMMA StartFactoriesKeeps ==
  ASSUME ProcessInv, UNCHANGED <<flags, unreadable>>, StartFactories
  PROVE  ProcessInv'
  <1> USE DEF ProcessInv
  <1>1. /\ UNCHANGED <<code, stopCh, handler, caught, uses, controller, listed,
                       worker, faults>>
        /\ \/ /\ uses = <<>> /\ stage = "controller" /\ stage' = "startKube"
              /\ UNCHANGED <<kubeFactory, tunnelsFactory>>
           \/ /\ stage = "startKube" /\ stage' = "startTunnels"
              /\ kubeFactory' = StartFactory(kubeFactory) /\ tunnelsFactory' = tunnelsFactory
           \/ /\ stage = "startTunnels" /\ stage' = "waiting"
              /\ tunnelsFactory' = StartFactory(tunnelsFactory) /\ kubeFactory' = kubeFactory
    BY DEF StartFactories, Step, signalVars
  <1>2. kubeFactory \in Factory /\ tunnelsFactory \in Factory  BY DEF TypeOK
  <1>3. /\ kubeFactory' \in Factory /\ tunnelsFactory' \in Factory
        /\ StartedRun(kubeFactory)' /\ StartedRun(tunnelsFactory)'
    BY <1>1, <1>2, StartFactoryType DEF StartedRun
  <1>4. \A k \in Kinds : /\ FactoryOf(k)'.informers = FactoryOf(k).informers
                         /\ FactoryOf(k).running \subseteq FactoryOf(k)'.running
    BY <1>1, <1>2, StartFactoryType DEF FactoryOf
  <1>5. Remaining' = Remaining /\ (uses = <<>> => Remaining = {})
    BY <1>1 DEF Remaining
  <1>6. Registered'  BY <1>1, <1>4, <1>5 DEF Registered
  <1>7. TypeOK'  BY <1>1, <1>3 DEF TypeOK, Stages
  <1>8. StartOrder'
    <2>1. stage \in {"startKube", "startTunnels"} => Remaining = {}
      BY DEF StartOrder
    <2>2. Remaining = {} => \A k \in Kinds : FactoryOf(k).informers[k] # 0
      <3>1. \A k \in Kinds : <<"lister", k>> \in Asked  BY CallsMade
      <3>2. QED  BY <3>1 DEF Registered, Roles
    <2>3. ASSUME stage' = "startTunnels", NEW k \in {"services", "deployments"}
          PROVE  FactoryOf(k)'.informers[k] \in FactoryOf(k)'.running
      <3>1. k \in Kinds /\ FactoryOf(k) = kubeFactory /\ FactoryOf(k)' = kubeFactory'
        BY DEF FactoryOf, Kinds
      <3>2. kubeFactory.informers[k] # 0
        BY <1>1, <2>1, <2>2, <2>3, <3>1
      <3>3. QED
        BY <1>1, <1>2, <2>3, <3>1, <3>2, StartFactoryType
    <2>4. ASSUME stage' = "waiting", NEW k \in Kinds
          PROVE  FactoryOf(k)'.informers[k] \in FactoryOf(k)'.running
      <3>1. CASE k = "tunnels"
        <4>1. FactoryOf(k) = tunnelsFactory /\ FactoryOf(k)' = tunnelsFactory'
          BY <3>1 DEF FactoryOf
        <4>2. tunnelsFactory.informers[k] # 0
          BY <1>1, <2>1, <2>2, <2>4, <4>1
        <4>3. QED  BY <1>1, <1>2, <2>4, <4>1, <4>2, StartFactoryType
      <3>2. CASE k # "tunnels"
        <4>1. stage = "startTunnels" /\ k \in {"services", "deployments"}
          BY <1>1, <2>4, <3>2 DEF Kinds
        <4>2. FactoryOf(k).informers[k] \in FactoryOf(k).running
          BY <4>1 DEF StartOrder, StartedKinds
        <4>3. QED  BY <1>4, <4>2
      <3>3. QED  BY <3>1, <3>2
    <2>5. CASE stage' = "startKube"
      BY <1>1, <1>5, <2>5 DEF StartOrder, StartedKinds
    <2>6. CASE stage' = "startTunnels"
      <3>1. StartedKinds' = {"services", "deployments"}  BY <2>6 DEF StartedKinds
      <3>2. Remaining' = {}  BY <1>1, <1>5, <2>1, <2>6
      <3>3. QED  BY <2>3, <2>6, <3>1, <3>2 DEF StartOrder
    <2>7. CASE stage' = "waiting"
      <3>1. StartedKinds' = Kinds  BY <2>7 DEF StartedKinds
      <3>2. Remaining' = {}  BY <1>1, <1>5, <2>1, <2>7
      <3>3. QED  BY <2>4, <2>7, <3>1, <3>2 DEF StartOrder
    <2>8. QED  BY <1>1, <2>5, <2>6, <2>7
  <1>9. WorkersLate' /\ OrdersPossible'
    BY <1>1 DEF WorkersLate, WorkersUp, OrdersPossible
  <1>10. QED  BY <1>1, <1>3, <1>6, <1>7, <1>8, <1>9

LEMMA ListKeeps ==
  ASSUME ProcessInv, UNCHANGED <<flags, unreadable>>, NEW k \in Kinds, List(k)
  PROVE  ProcessInv'
  <1> USE DEF ProcessInv
  <1> DEFINE id == FactoryOf(k).informers[k]
  <1>1. /\ listed' = listed \cup {<<k, id>>}
        /\ UNCHANGED <<stage, code, stopCh, handler, caught, uses, controller,
                       kubeFactory, tunnelsFactory, worker, faults>>
    BY DEF List, mainVars, signalVars
  <1>2. id \in Nat  BY DEF TypeOK, Factory, FactoryOf
  <1> HIDE DEF id
  <1>3. TypeOK'  BY <1>1, <1>2 DEF TypeOK
  <1>4. Remaining' = Remaining /\ \A x : FactoryOf(x)' = FactoryOf(x)
    BY <1>1 DEF Remaining, FactoryOf
  <1>5. Registered' /\ StartedRun(kubeFactory)' /\ StartedRun(tunnelsFactory)'
    BY <1>1, <1>4 DEF Registered, StartedRun
  <1>6. StartOrder'
    <2>1. StartedKinds' = StartedKinds  BY <1>1 DEF StartedKinds
    <2>2. QED  BY <1>1, <1>4, <2>1 DEF StartOrder
  <1>7. Fed => Fed'
    <2>1. \A x : HasSynced(x) => HasSynced(x)'  BY <1>1 DEF HasSynced
    <2>2. QED  BY <1>4, <2>1 DEF Fed
  <1>8. WorkersLate' /\ OrdersPossible'
    BY <1>1, <1>7 DEF WorkersLate, WorkersUp, OrdersPossible
  <1>9. QED  BY <1>1, <1>3, <1>5, <1>6, <1>8

------------------------------------------------------------------------------
LEMMA NoInformerType ==
  /\ NewSharedInformerFactory \in Factory
  /\ StartedRun(NewSharedInformerFactory)
  /\ NoInformer \in [Roles -> [Kinds -> Nat]]
  /\ NoWorker \in [Workers -> WorkerStates]
  /\ Uses \in Seq(Roles \X Kinds)
  <1>1. NewSharedInformerFactory \in Factory
    BY DEF NewSharedInformerFactory, Factory
  <1>2. StartedRun(NewSharedInformerFactory)
    BY DEF NewSharedInformerFactory, StartedRun
  <1>3. NoInformer \in [Roles -> [Kinds -> Nat]]  BY DEF NoInformer
  <1>4. NoWorker \in [Workers -> WorkerStates]  BY DEF NoWorker, WorkerStates
  <1>5. Uses \in Seq(Roles \X Kinds)  BY DEF Uses, Roles, Kinds
  <1>6. QED  BY <1>1, <1>2, <1>3, <1>4, <1>5

(* A process that begins: nothing is registered, started or listed. *)
LEMMA FreshProcess ==
  ASSUME stage' = "validate", code' = "none",
         stopCh' = FALSE, handler' = "absent", caught' = 0,
         uses' = Uses, controller' = NoInformer,
         kubeFactory' = NewSharedInformerFactory,
         tunnelsFactory' = NewSharedInformerFactory,
         listed' = {}, worker' = NoWorker,
         flags' \in Configurations,
         unreadable' \subseteq {"access-key-file", "secret-key-file"},
         faults' \in 0..MaxFaults
  PROVE  ProcessInv'
  <1>1. TypeOK'
    <2>1. stopCh' \in BOOLEAN  BY Zenon
    <2>2. caught' \in 0..2 /\ listed' \subseteq Kinds \X Nat  OBVIOUS
    <2>3. /\ stage' \in Stages /\ handler' \in {"absent", "first", "second"}
          /\ code' \in {"none", "flags", "license", "clients", "caches",
                       "signal", "key", "panic", "stopped"}
      BY DEF Stages
    <2>4. /\ uses' \in Seq(Roles \X Kinds) /\ controller' \in [Roles -> [Kinds -> Nat]]
          /\ kubeFactory' \in Factory /\ tunnelsFactory' \in Factory
          /\ worker' \in [Workers -> WorkerStates]
      BY NoInformerType
    <2>5. QED  BY <2>1, <2>2, <2>3, <2>4 DEF TypeOK
  <1>2. Registered'  BY DEF Registered, Asked, Remaining
  <1>3. StartedRun(kubeFactory)' /\ StartedRun(tunnelsFactory)'
    BY NoInformerType DEF StartedRun
  <1>4. StartOrder'  BY DEF StartOrder, StartedKinds
  <1>5. WorkersLate' /\ OrdersPossible'
    BY DEF WorkersLate, WorkersUp, OrdersPossible, NoWorker
  <1>6. QED  BY <1>1, <1>2, <1>3, <1>4, <1>5 DEF ProcessInv

LEMMA ProcessInit == Init => ProcessInv
  <1> SUFFICES ASSUME Init PROVE ProcessInv  OBVIOUS
  <1>1. TypeOK
    <2>1. /\ flags \in Configurations /\ unreadable \subseteq KeyFiles(flags)
          /\ stage = "validate" /\ code = "none" /\ stopCh = FALSE
          /\ handler = "absent" /\ caught = 0 /\ uses = Uses /\ controller = NoInformer
          /\ kubeFactory = NewSharedInformerFactory
          /\ tunnelsFactory = NewSharedInformerFactory
          /\ listed = {} /\ worker = NoWorker /\ faults = 0
      BY DEF Init
    <2>2. faults \in 0..MaxFaults  BY <2>1, ProcessAssumption
    <2>3. unreadable \subseteq {"access-key-file", "secret-key-file"}
      BY <2>1 DEF KeyFiles
    <2>4. /\ uses \in Seq(Roles \X Kinds) /\ controller \in [Roles -> [Kinds -> Nat]]
          /\ kubeFactory \in Factory /\ tunnelsFactory \in Factory
          /\ worker \in [Workers -> WorkerStates]
      BY <2>1, NoInformerType
    <2>5. caught \in 0..2 /\ listed \subseteq Kinds \X Nat  BY <2>1
    <2>6. stopCh \in BOOLEAN  BY <2>1, Zenon
    <2>7. stage \in Stages /\ handler \in {"absent", "first", "second"} /\ code = "none"
      BY <2>1 DEF Stages
    <2>8. QED  BY <2>1, <2>2, <2>3, <2>4, <2>5, <2>6, <2>7 DEF TypeOK
  <1>2. Registered  BY DEF Init, Registered, Asked, Remaining
  <1>3. StartedRun(kubeFactory) /\ StartedRun(tunnelsFactory)
    BY NoInformerType DEF Init
  <1>4. StartOrder  BY DEF Init, StartOrder, StartedKinds
  <1>5. WorkersLate /\ OrdersPossible
    BY DEF Init, WorkersLate, WorkersUp, OrdersPossible, NoWorker
  <1>6. QED  BY <1>1, <1>2, <1>3, <1>4, <1>5 DEF ProcessInv, Init

LEMMA StutterKeeps ==
  ASSUME ProcessInv, UNCHANGED vars
  PROVE  ProcessInv'
  <1>1. /\ UNCHANGED <<flags, unreadable, stage, code, stopCh, handler, caught,
                       worker, faults>>
        /\ UNCHANGED informerVars
    BY DEF vars, processVars, mainVars, signalVars
  <1>2. /\ Registered' /\ StartedRun(kubeFactory)' /\ StartedRun(tunnelsFactory)'
        /\ Fed => Fed'
    BY <1>1, InformersKept DEF ProcessInv
  <1>3. StartOrder'  BY <1>1, StartOrderKept DEF ProcessInv
  <1>4. TypeOK'  BY <1>1 DEF ProcessInv, TypeOK, informerVars
  <1>5. WorkersLate' /\ OrdersPossible'
    BY <1>1, <1>2 DEF ProcessInv, WorkersLate, WorkersUp, OrdersPossible
  <1>6. QED  BY <1>1, <1>2, <1>3, <1>4, <1>5 DEF ProcessInv

LEMMA LoseKeyFileKeeps ==
  ASSUME ProcessInv, LoseKeyFile
  PROVE  ProcessInv'
  <1>1. /\ UNCHANGED <<flags, stage, code, stopCh, handler, caught, worker>>
        /\ UNCHANGED informerVars
        /\ faults < MaxFaults /\ faults' = faults + 1
    BY DEF LoseKeyFile, Fault, processVars, mainVars, signalVars
  <1>2. /\ Registered' /\ StartedRun(kubeFactory)' /\ StartedRun(tunnelsFactory)'
        /\ Fed => Fed'
    BY <1>1, InformersKept DEF ProcessInv
  <1>3. StartOrder'  BY <1>1, StartOrderKept DEF ProcessInv
  <1>4. faults' \in 0..MaxFaults
    BY <1>1, ProcessAssumption DEF ProcessInv, TypeOK
  <1>5. unreadable' \subseteq {"access-key-file", "secret-key-file"}
    BY FlagsType DEF LoseKeyFile, ProcessInv, TypeOK
  <1>6. TypeOK'  BY <1>1, <1>4, <1>5 DEF ProcessInv, TypeOK, informerVars
  <1>7. WorkersLate' /\ OrdersPossible'
    BY <1>1, <1>2 DEF ProcessInv, WorkersLate, WorkersUp, OrdersPossible
  <1>8. QED  BY <1>1, <1>2, <1>3, <1>6, <1>7 DEF ProcessInv

(* One step for each action. *)
LEMMA ProcessStep == ProcessInv /\ [Next]_vars => ProcessInv'
  <1> SUFFICES ASSUME ProcessInv, [Next]_vars PROVE ProcessInv'  OBVIOUS
  <1>1. CASE Main /\ UNCHANGED <<flags, unreadable>>
    BY <1>1, MainKeeps, NewControllerKeeps, StartFactoriesKeeps, WaitForCacheSyncKeeps
       DEF Main
  <1>2. CASE (Signal \/ HandleSignal) /\ UNCHANGED <<flags, unreadable>>
    BY <1>2, SignalKeeps
  <1>3. CASE (\E k \in Kinds : List(k)) /\ UNCHANGED <<flags, unreadable>>
    BY <1>3, ListKeeps
  <1>4. CASE (\E w \in Workers : Work(w)) /\ UNCHANGED <<flags, unreadable>>
    BY <1>4, WorkKeeps
  <1>5. CASE DeleteFunc /\ UNCHANGED <<flags, unreadable>>
    BY <1>5, DeleteFuncKeeps
  <1>6. CASE Restart /\ UNCHANGED <<flags, unreadable>>
    BY <1>6, FreshProcess DEF Restart, ProcessInv, TypeOK
  <1>7. CASE LoseKeyFile
    BY <1>7, LoseKeyFileKeeps
  <1>8. CASE UNCHANGED vars
    BY <1>8, StutterKeeps
  <1>9. QED
    BY <1>1, <1>2, <1>3, <1>4, <1>5, <1>6, <1>7, <1>8 DEF Next

(* The invariant of the process, for any command lines, workers and faults. *)
THEOREM ProcessInvariant == Spec => []ProcessInv
  <1>1. Init => ProcessInv  BY ProcessInit
  <1>2. ProcessInv /\ [Next]_vars => ProcessInv'  BY ProcessStep
  <1>3. QED  BY <1>1, <1>2, PTL DEF Spec

(* Every variable of the process has its type. *)
THEOREM ProcessTyped == Spec => []TypeOK
  <1>1. ProcessInv => TypeOK  BY DEF ProcessInv
  <1>2. QED  BY <1>1, ProcessInvariant, PTL

(* Lister, HasSynced and AddEventHandler are separate calls, Start is a third
   step in another function: a worker nevertheless reads the informers that
   run, and not before they have listed (controller.go:111-193, main.go:118-127). *)
THEOREM CachesFed == Spec => []WorkersReadFedCaches
  <1>1. ProcessInv => WorkersReadFedCaches
    <2> SUFFICES ASSUME ProcessInv, NEW w \in Workers,
                        worker[w] \notin {"absent", "launched", "left"}
                 PROVE  /\ \A k \in Kinds :
                             /\ controller["lister"][k] \in FactoryOf(k).running
                             /\ controller["handlers"][k] = controller["lister"][k]
                        /\ \A k \in {"deployments", "tunnels"} :
                             <<k, controller["lister"][k]>> \in listed
      BY DEF WorkersReadFedCaches
    <2>1. Fed /\ Registered
      BY DEF ProcessInv, WorkersLate, WorkersUp
    <2>2. /\ \A k \in Kinds : <<"lister", k>> \in Asked /\ <<"handlers", k>> \in Asked
          /\ \A k \in {"deployments", "tunnels"} : <<"synced", k>> \in Asked
      BY CallsMade
    <2>3. /\ \A k \in Kinds :
               /\ controller["lister"][k] = FactoryOf(k).informers[k]
               /\ controller["handlers"][k] = FactoryOf(k).informers[k]
          /\ \A k \in {"deployments", "tunnels"} :
               controller["synced"][k] = FactoryOf(k).informers[k]
      BY <2>1, <2>2 DEF Fed, Registered, Roles, Kinds
    <2>4. QED  BY <2>1, <2>3 DEF Fed, HasSynced, Kinds
  <1>2. QED  BY <1>1, ProcessInvariant, PTL

(* Whatever the command line: an order lacks nothing that the cloud library needs
   but the regions and the secret key that no check looks at (validate.go:14-40,
   controller.go:744-918). *)
THEOREM OrdersLackNothingElse == Spec => []OrdersLackTheUnchecked
  <1>1. ProcessInv => OrdersLackTheUnchecked
    <2> SUFFICES ASSUME ProcessInv, NEW w \in Workers, worker[w] = "ordering"
                 PROVE  Needs(flags.provider) \ Sent(flags)
                            = Unchecked(flags.provider) \ Sent(flags)
      BY DEF OrdersLackTheUnchecked
    <2>1. validateFlags(flags)  BY DEF ProcessInv, WorkersLate, WorkersUp
    <2>2. Provisioned(flags)  BY DEF ProcessInv, OrdersPossible
    <2>3. flags \in Flags  BY FlagsType DEF ProcessInv
    <2>4. QED  BY <2>1, <2>2, <2>3, TablesAgree
  <1>2. QED  BY <1>1, ProcessInvariant, PTL
==============================================================================
