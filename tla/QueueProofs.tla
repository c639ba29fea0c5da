------------------------------ MODULE QueueProofs ------------------------------
(****************************************************************************)
(* Proofs about client-go's queue, for any keys, any finite number of        *)
(* workers and any capacity of the waiting loop's channel.                   *)
(****************************************************************************)
EXTENDS RateLimitedQueue, FiniteSetTheorems, FunctionTheorems, TLAPS

Working(w) == worker[w] \in {"busy", "failed", "synced"}

(* A worker holds a key from Get to Done only, the key is marked as processed
   all the time, and nobody else holds it. *)
HeldOK ==
    /\ \A w \in Workers : ~Working(w) => held[w] = NoKey
    /\ \A w \in Workers : Working(w) => held[w] \in processing
    /\ \A v, w \in Workers :
           Working(v) /\ Working(w) /\ held[v] = held[w] => v = w

(* The inductive invariant. *)
QueueInv == TypeOK /\ QueueIsDirtyAndIdle /\ HeldOK /\ NoLostWakeUp

AwakeIn(f) == {w \in Workers : f[w] = "ready"}

------------------------------------------------------------------------------
(* Sequences as sets.                                                       *)

(* Appending a new element keeps a sequence free of repetitions. *)
LEMMA AppendSet ==
  ASSUME NEW S, NEW q \in Seq(S), NEW k \in S, k \notin ToSet(q), IsInjective(q)
  PROVE  /\ ToSet(Append(q, k)) = ToSet(q) \cup {k}
         /\ IsInjective(Append(q, k))
  <1>1. /\ Append(q, k) \in Seq(S)
        /\ Len(q) \in Nat
        /\ Len(Append(q, k)) = Len(q) + 1
        /\ DOMAIN q = 1 .. Len(q)
        /\ DOMAIN Append(q, k) = 1 .. (Len(q) + 1)
        /\ Append(q, k)[Len(q) + 1] = k
        /\ \A i \in 1 .. Len(q) : Append(q, k)[i] = q[i]
    OBVIOUS
  <1>2. \A i \in 1 .. (Len(q) + 1) : i \in 1 .. Len(q) \/ i = Len(q) + 1
    BY <1>1
  <1>2a. 1 .. Len(q) \subseteq 1 .. (Len(q) + 1) /\ Len(q) + 1 \in 1 .. (Len(q) + 1)
    BY <1>1
  <1>3. ToSet(Append(q, k)) = ToSet(q) \cup {k}
    BY <1>1, <1>2, <1>2a, Zenon DEF ToSet
  <1>4. IsInjective(Append(q, k))
    <2> SUFFICES ASSUME NEW a \in 1 .. (Len(q) + 1), NEW b \in 1 .. (Len(q) + 1),
                        Append(q, k)[a] = Append(q, k)[b]
                 PROVE  a = b
      BY <1>1 DEF IsInjective
    <2>1. CASE a \in 1 .. Len(q) /\ b \in 1 .. Len(q)
      BY <1>1, <2>1, Zenon DEF IsInjective
    <2>2. CASE a \in 1 .. Len(q) /\ b = Len(q) + 1
      BY <1>1, <2>2, Zenon DEF ToSet
    <2>3. CASE a = Len(q) + 1 /\ b \in 1 .. Len(q)
      BY <1>1, <2>3, Zenon DEF ToSet
    <2>4. QED  BY <1>2, <2>1, <2>2, <2>3
  <1>5. QED  BY <1>3, <1>4

(* Taking the head of a sequence free of repetitions takes it out of its set. *)
LEMMA TailSet ==
  ASSUME NEW S, NEW q \in Seq(S), q # <<>>, IsInjective(q)
  PROVE  /\ Head(q) \in ToSet(q)
         /\ Tail(q) \in Seq(S)
         /\ Len(q) \in Nat \ {0}
         /\ Len(Tail(q)) = Len(q) - 1
         /\ ToSet(Tail(q)) = ToSet(q) \ {Head(q)}
         /\ IsInjective(Tail(q))
  <1>1. /\ Len(q) \in Nat \ {0}
        /\ Tail(q) \in Seq(S)
        /\ Len(Tail(q)) = Len(q) - 1
        /\ DOMAIN q = 1 .. Len(q)
        /\ DOMAIN Tail(q) = 1 .. (Len(q) - 1)
        /\ Head(q) = q[1]
        /\ \A i \in 1 .. (Len(q) - 1) : Tail(q)[i] = q[i + 1]
    OBVIOUS
  <1>2. /\ 1 \in 1 .. Len(q)
        /\ \A i \in 1 .. (Len(q) - 1) : i + 1 \in 1 .. Len(q) /\ i + 1 # 1
        /\ \A i \in 1 .. Len(q) : i = 1 \/ \E j \in 1 .. (Len(q) - 1) : i = j + 1
        /\ \A i, j \in 1 .. (Len(q) - 1) : i + 1 = j + 1 => i = j
    <2>1. \A i \in 1 .. Len(q) : i # 1 => i - 1 \in 1 .. (Len(q) - 1) /\ i = (i - 1) + 1
      BY <1>1
    <2>2. QED  BY <1>1, <2>1
  <1>3. Head(q) \in ToSet(q)
    BY <1>1, <1>2 DEF ToSet
  <1>4. \A i, j \in 1 .. Len(q) : q[i] = q[j] => i = j
    BY <1>1 DEF IsInjective
  <1>5. ToSet(Tail(q)) \subseteq ToSet(q) \ {Head(q)}
    <2> SUFFICES ASSUME NEW i \in 1 .. (Len(q) - 1)
                 PROVE  Tail(q)[i] \in ToSet(q) /\ Tail(q)[i] # Head(q)
      BY <1>1 DEF ToSet
    <2>1. Tail(q)[i] = q[i + 1] /\ i + 1 \in 1 .. Len(q) /\ i + 1 # 1
      BY <1>1, <1>2
    <2>2. q[i + 1] # q[1]  BY <1>2, <1>4, <2>1
    <2>3. QED  BY <1>1, <2>1, <2>2 DEF ToSet
  <1>6. ToSet(q) \ {Head(q)} \subseteq ToSet(Tail(q))
    <2> SUFFICES ASSUME NEW i \in 1 .. Len(q), q[i] # Head(q)
                 PROVE  q[i] \in ToSet(Tail(q))
      BY <1>1 DEF ToSet
    <2>1. PICK j \in 1 .. (Len(q) - 1) : i = j + 1  BY <1>1, <1>2
    <2>2. Tail(q)[j] = q[i]  BY <1>1, <2>1
    <2>3. QED  BY <1>1, <2>2 DEF ToSet
  <1>7. IsInjective(Tail(q))
    <2> SUFFICES ASSUME NEW a \in 1 .. (Len(q) - 1), NEW b \in 1 .. (Len(q) - 1),
                        Tail(q)[a] = Tail(q)[b]
                 PROVE  a = b
      BY <1>1 DEF IsInjective
    <2>1. q[a + 1] = q[b + 1] /\ a + 1 \in 1 .. Len(q) /\ b + 1 \in 1 .. Len(q)
      BY <1>1, <1>2
    <2>2. a + 1 = b + 1  BY <1>4, <2>1
    <2>3. QED  BY <1>2, <2>2
  <1>8. QED  BY <1>1, <1>3, <1>5, <1>6, <1>7

------------------------------------------------------------------------------
(* Counting the workers that are awake.                                     *)

LEMMA AwakeFinite ==
  ASSUME NEW f
  PROVE  IsFiniteSet(AwakeIn(f)) /\ Cardinality(AwakeIn(f)) \in Nat
  <1>1. AwakeIn(f) \subseteq Workers  BY DEF AwakeIn
  <1>2. IsFiniteSet(AwakeIn(f))
    BY <1>1, QueueAssumption, FS_Subset DEF QueueAssumption
  <1>3. QED  BY <1>2, FS_CardinalityType

(* One more worker that returns to Get or is woken. *)
LEMMA AwakeMore ==
  ASSUME NEW f, NEW w \in Workers, w \in DOMAIN f, f[w] # "ready"
  PROVE  Cardinality(AwakeIn([f EXCEPT ![w] = "ready"]))
             = Cardinality(AwakeIn(f)) + 1
  <1>1. AwakeIn([f EXCEPT ![w] = "ready"]) = AwakeIn(f) \cup {w}
    BY DEF AwakeIn
  <1>2. w \notin AwakeIn(f)  BY DEF AwakeIn
  <1>3. QED  BY <1>1, <1>2, AwakeFinite, FS_AddElement

(* One that leaves Get with a key. *)
LEMMA AwakeLess ==
  ASSUME NEW f, NEW w \in Workers, w \in DOMAIN f, f[w] = "ready", NEW st, st # "ready"
  PROVE  Cardinality(AwakeIn([f EXCEPT ![w] = st]))
             = Cardinality(AwakeIn(f)) - 1
  <1>1. AwakeIn([f EXCEPT ![w] = st]) = AwakeIn(f) \ {w}
    BY DEF AwakeIn
  <1>2. w \in AwakeIn(f)  BY DEF AwakeIn
  <1>3. QED  BY <1>1, <1>2, AwakeFinite, FS_RemoveElement

------------------------------------------------------------------------------
LEMMA QueueInit == Init => QueueInv
  <1> SUFFICES ASSUME Init PROVE QueueInv  OBVIOUS
  <1>1. TypeOK
    <2>1. chan \in Seq(Keys) /\ Len(chan) <= ChanCap
      <3>1. chan = <<>>  BY DEF Init
      <3>2. ChanCap >= 0  BY QueueAssumption DEF QueueAssumption
      <3>3. QED  BY <3>1, <3>2
    <2>2. queue \in Seq(Keys)
      <3>1. queue = <<>>  BY DEF Init
      <3>2. QED  BY <3>1
    <2>3. /\ worker \in [Workers -> WorkerStates]
          /\ held \in [Workers -> Keys \cup {NoKey}]
      BY DEF Init, WorkerStates
    <2>4. dirty = {} /\ processing = {} /\ heap = {} /\ shuttingDown = FALSE
      BY DEF Init
    <2>5. QED  BY <2>1, <2>2, <2>3, <2>4 DEF TypeOK
  <1>2. QueueIsDirtyAndIdle
    BY DEF Init, QueueIsDirtyAndIdle, ToSet, IsInjective
  <1>3. HeldOK  BY DEF Init, HeldOK, Working
  <1>4. NoLostWakeUp  BY DEF Init, NoLostWakeUp
  <1>5. QED  BY <1>1, <1>2, <1>3, <1>4 DEF QueueInv

(* Add, by whomever it is called: the key is queued once, and a sleeping worker
   is woken for it. *)
LEMMA AddKeeps ==
  ASSUME QueueInv, NEW k \in Keys, Add(k)
  PROVE  /\ queue' \in Seq(Keys) /\ dirty' \subseteq Keys /\ processing' \subseteq Keys
         /\ worker' \in [Workers -> WorkerStates]
         /\ held' \in [Workers -> Keys \cup {NoKey}]
         /\ QueueIsDirtyAndIdle' /\ HeldOK' /\ NoLostWakeUp'
  <1> USE DEF QueueInv
  <1>1. CASE shuttingDown \/ k \in dirty \/ k \in processing
    <2>1. /\ UNCHANGED <<queue, processing, held, worker>>
          /\ dirty' \subseteq Keys /\ dirty' \ processing' = dirty \ processing
      BY <1>1 DEF Add, TypeOK
    <2>2. QED
      BY <2>1, Zenon DEF TypeOK, QueueIsDirtyAndIdle, HeldOK, Working, NoLostWakeUp
  <1>2. CASE ~(shuttingDown \/ k \in dirty \/ k \in processing)
    <2>1. /\ dirty' = dirty \cup {k} /\ queue' = Append(queue, k) /\ Signal
          /\ UNCHANGED <<processing, held>>
      BY <1>2 DEF Add
    <2>2. /\ queue \in Seq(Keys) /\ k \notin ToSet(queue) /\ IsInjective(queue)
          /\ ToSet(queue) = dirty \ processing
      BY <1>2 DEF TypeOK, QueueIsDirtyAndIdle
    <2>3. ToSet(queue') = ToSet(queue) \cup {k} /\ IsInjective(queue')
      BY <2>1, <2>2, AppendSet
    <2>4. QueueIsDirtyAndIdle'
      BY <1>2, <2>1, <2>2, <2>3 DEF QueueIsDirtyAndIdle
    <2>5. Len(queue') = Len(queue) + 1 /\ Len(queue) \in Nat /\ queue' \in Seq(Keys)
      BY <2>1, <2>2
    <2>6. CASE \E w \in Workers : worker[w] = "waiting"
      <3>1. PICK w \in Workers : /\ worker[w] = "waiting"
                                 /\ worker' = [worker EXCEPT ![w] = "ready"]
        BY <2>1, <2>6 DEF Signal
      <3>2. worker' \in [Workers -> WorkerStates]
        BY <3>1 DEF TypeOK, WorkerStates
      <3>3. HeldOK'
        BY <2>1, <3>1 DEF HeldOK, Working, TypeOK
      <3>4. Cardinality(AwakeIn(worker)) >= Len(queue)
        BY <2>6 DEF NoLostWakeUp, AwakeIn
      <3>5. Cardinality(AwakeIn(worker')) = Cardinality(AwakeIn(worker)) + 1
        BY <3>1, AwakeMore DEF TypeOK
      <3>6. Cardinality(AwakeIn(worker')) >= Len(queue')
        BY <2>5, <3>4, <3>5, AwakeFinite
      <3>7. NoLostWakeUp'  BY <3>6 DEF NoLostWakeUp, AwakeIn
      <3>8. QED  BY <2>1, <2>4, <2>5, <3>2, <3>3, <3>7 DEF TypeOK
    <2>7. CASE ~\E w \in Workers : worker[w] = "waiting"
      <3>1. worker' = worker  BY <2>1, <2>7 DEF Signal
      <3>2. HeldOK'  BY <2>1, <3>1, Zenon DEF HeldOK, Working
      <3>3. NoLostWakeUp'  BY <2>7, <3>1, Zenon DEF NoLostWakeUp
      <3>4. QED  BY <2>1, <2>4, <2>5, <3>1, <3>2, <3>3 DEF TypeOK
    <2>8. QED  BY <2>6, <2>7
  <1>3. QED  BY <1>1, <1>2

(* A send to the channel respects its capacity. *)
LEMMA AddAfterKeeps ==
  ASSUME TypeOK, NEW k \in Keys, AddAfter(k)
  PROVE  chan' \in Seq(Keys) /\ Len(chan') <= ChanCap
  <1>1. CASE shuttingDown  BY <1>1 DEF AddAfter, TypeOK
  <1>2. CASE ~shuttingDown
    <2>1. Len(chan) < ChanCap /\ chan' = Append(chan, k) /\ chan \in Seq(Keys)
      BY <1>2 DEF AddAfter, TypeOK
    <2>2. QED  BY <2>1, QueueAssumption DEF QueueAssumption
  <1>3. QED  BY <1>1, <1>2

(* What the steps that touch neither keys nor workers keep. *)
LEMMA CoreUnchanged ==
  ASSUME QueueInv, UNCHANGED <<queue, dirty, processing, worker, held>>
  PROVE  QueueIsDirtyAndIdle' /\ HeldOK' /\ NoLostWakeUp'
  BY Zenon DEF QueueInv, QueueIsDirtyAndIdle, HeldOK, Working, NoLostWakeUp

LEMMA AddRateLimitedKeeps ==
  ASSUME QueueInv, NEW k \in Keys, AddRateLimited(k)
  PROVE  QueueInv'
  <1>1. /\ chan' \in Seq(Keys) /\ Len(chan') <= ChanCap
    BY AddAfterKeeps DEF QueueInv, AddRateLimited
  <1>2. UNCHANGED <<queue, dirty, processing, shuttingDown, heap, worker, held>>
    BY DEF AddRateLimited, coreVars
  <1>3. TypeOK'  BY <1>1, <1>2 DEF QueueInv, TypeOK
  <1>4. QED  BY <1>2, <1>3, CoreUnchanged DEF QueueInv

LEMMA RipenKeeps ==
  ASSUME QueueInv, NEW k \in Keys, Ripen(k)
  PROVE  QueueInv'
  <1>1. Add(k) /\ heap' \subseteq heap /\ UNCHANGED <<shuttingDown, chan>>
    BY DEF Ripen
  <1>2. QED  BY <1>1, AddKeeps DEF QueueInv, TypeOK

LEMMA ReceiveKeeps ==
  ASSUME QueueInv, Receive
  PROVE  QueueInv'
  <1>1. /\ chan \in Seq(Keys) /\ chan # <<>> /\ chan' = Tail(chan)
        /\ Len(chan) <= ChanCap /\ UNCHANGED shuttingDown
    BY DEF QueueInv, TypeOK, Receive
  <1>2. /\ Head(chan) \in Keys /\ chan' \in Seq(Keys) /\ Len(chan') = Len(chan) - 1
        /\ Len(chan) \in Nat
    BY <1>1
  <1>3. Len(chan') <= ChanCap
    BY <1>1, <1>2, QueueAssumption DEF QueueAssumption
  <1>4. CASE Add(Head(chan)) /\ UNCHANGED heap
    BY <1>1, <1>2, <1>3, <1>4, AddKeeps DEF QueueInv, TypeOK
  <1>5. CASE /\ heap' = heap \cup {Head(chan)}
             /\ UNCHANGED <<coreVars, worker, held>>
    <2>1. UNCHANGED <<queue, dirty, processing, worker, held>>
      BY <1>5 DEF coreVars
    <2>2. heap' \subseteq Keys  BY <1>2, <1>5 DEF QueueInv, TypeOK
    <2>3. TypeOK'  BY <1>1, <1>2, <1>3, <2>1, <2>2 DEF QueueInv, TypeOK
    <2>4. QED  BY <2>1, <2>3, CoreUnchanged DEF QueueInv
  <1>6. QED  BY <1>4, <1>5 DEF Receive

(* Sleep and Exit: only on an empty queue, so nobody waits for a key. *)
LEMMA EmptyKeeps ==
  ASSUME QueueInv, NEW w \in Workers, Sleep(w) \/ Exit(w)
  PROVE  QueueInv'
  <1>1. /\ worker[w] = "ready" /\ queue = <<>>
        /\ \/ worker' = [worker EXCEPT ![w] = "waiting"]
           \/ worker' = [worker EXCEPT ![w] = "exited"]
        /\ UNCHANGED <<queue, dirty, processing, shuttingDown, chan, heap, held>>
    BY DEF Sleep, Exit, coreVars
  <1>2. TypeOK'  BY <1>1 DEF QueueInv, TypeOK, WorkerStates
  <1>3. QueueIsDirtyAndIdle'  BY <1>1, Zenon DEF QueueInv, QueueIsDirtyAndIdle
  <1>4. HeldOK'  BY <1>1 DEF QueueInv, TypeOK, HeldOK, Working
  <1>5. Len(queue') = 0  BY <1>1
  <1>6. Cardinality(AwakeIn(worker')) >= Len(queue')  BY <1>5, AwakeFinite
  <1>7. NoLostWakeUp'  BY <1>6 DEF NoLostWakeUp, AwakeIn
  <1>8. QED  BY <1>2, <1>3, <1>4, <1>7 DEF QueueInv

(* Get: the key taken was idle, so nobody else holds it, and it was the only
   one the worker was awake for. *)
LEMMA GetKeeps ==
  ASSUME QueueInv, NEW w \in Workers, Get(w)
  PROVE  QueueInv'
  <1> DEFINE k == Head(queue)
  <1>1. /\ worker[w] = "ready" /\ queue # <<>>
        /\ queue' = Tail(queue)
        /\ processing' = processing \cup {k}
        /\ dirty' = dirty \ {k}
        /\ held' = [held EXCEPT ![w] = k]
        /\ worker' = [worker EXCEPT ![w] = "busy"]
        /\ UNCHANGED <<shuttingDown, chan, heap>>
    BY DEF Get
  <1>2. /\ queue \in Seq(Keys) /\ IsInjective(queue)
        /\ ToSet(queue) = dirty \ processing /\ dirty \subseteq Keys
        /\ worker \in [Workers -> WorkerStates]
        /\ held \in [Workers -> Keys \cup {NoKey}]
    BY DEF QueueInv, TypeOK, QueueIsDirtyAndIdle
  <1>3. /\ k \in ToSet(queue)
        /\ Tail(queue) \in Seq(Keys)
        /\ Len(queue) \in Nat \ {0}
        /\ Len(Tail(queue)) = Len(queue) - 1
        /\ ToSet(Tail(queue)) = ToSet(queue) \ {k}
        /\ IsInjective(Tail(queue))
    BY <1>1, <1>2, TailSet
  <1>4. k \in Keys /\ k \notin processing  BY <1>2, <1>3
  <1> HIDE DEF k
  <1>5. TypeOK'
    BY <1>1, <1>2, <1>3, <1>4 DEF QueueInv, TypeOK, WorkerStates
  <1>6. QueueIsDirtyAndIdle'
    <2>1. ToSet(queue') = dirty' \ processing'
      BY <1>1, <1>2, <1>3
    <2>2. QED  BY <1>1, <1>3, <2>1 DEF QueueIsDirtyAndIdle
  <1>7. HeldOK'
    <2>1. \A v \in Workers : v # w => worker'[v] = worker[v] /\ held'[v] = held[v]
      BY <1>1, <1>2
    <2>2. held'[w] = k /\ k \in processing'  BY <1>1, <1>2
    <2>3. processing \subseteq processing'  BY <1>1
    <2>4. \A v \in Workers : v # w /\ Working(v)' => held[v] \in processing
      BY <2>1 DEF QueueInv, HeldOK, Working
    <2>5. \A v \in Workers : v # w /\ Working(v)' => held'[v] # k
      BY <1>4, <2>1, <2>4
    <2>6. \A v \in Workers : ~Working(v)' => held'[v] = NoKey
      <3>1. Working(w)'  BY <1>1, <1>2 DEF Working
      <3>2. \A v \in Workers : v # w => (Working(v)' <=> Working(v))
        BY <2>1 DEF Working
      <3>3. QED  BY <2>1, <3>1, <3>2 DEF QueueInv, HeldOK
    <2>7. QED
      BY <2>1, <2>2, <2>3, <2>4, <2>5, <2>6 DEF QueueInv, HeldOK, Working
  <1>8. NoLostWakeUp'
    <2> SUFFICES ASSUME \E v \in Workers : worker'[v] = "waiting"
                 PROVE  Cardinality(AwakeIn(worker')) >= Len(queue')
      BY DEF NoLostWakeUp, AwakeIn
    <2>1. \E v \in Workers : worker[v] = "waiting"  BY <1>1, <1>2
    <2>2. Cardinality(AwakeIn(worker)) >= Len(queue)
      BY <2>1 DEF QueueInv, NoLostWakeUp, AwakeIn
    <2>3. Cardinality(AwakeIn(worker')) = Cardinality(AwakeIn(worker)) - 1
      BY <1>1, <1>2, AwakeLess
    <2>4. QED  BY <1>1, <1>3, <2>2, <2>3, AwakeFinite
  <1>9. QED  BY <1>5, <1>6, <1>7, <1>8 DEF QueueInv

(* processNextWorkItem up to the deferred Done: the worker keeps its key. *)
LEMMA SyncKeeps ==
  ASSUME QueueInv, NEW w \in Workers, Sync(w) \/ PutBack(w)
  PROVE  QueueInv'
  <1>1. /\ Working(w)
        /\ \/ worker' = [worker EXCEPT ![w] = "synced"]
           \/ worker' = [worker EXCEPT ![w] = "failed"]
        /\ UNCHANGED <<queue, dirty, processing, shuttingDown, heap, held>>
    BY DEF Sync, Succeed, Fail, PutBack, Working, coreVars
  <1>2. chan' \in Seq(Keys) /\ Len(chan') <= ChanCap
    <2>1. CASE Sync(w)
      BY <2>1 DEF Sync, Succeed, Fail, QueueInv, TypeOK
    <2>2. CASE PutBack(w)
      <3>1. held[w] \in Keys
        BY <1>1 DEF QueueInv, HeldOK, TypeOK
      <3>2. QED  BY <2>2, <3>1, AddAfterKeeps DEF PutBack, QueueInv
    <2>3. QED  BY <2>1, <2>2
  <1>3. TypeOK'  BY <1>1, <1>2 DEF QueueInv, TypeOK, WorkerStates
  <1>4. QueueIsDirtyAndIdle'  BY <1>1, Zenon DEF QueueInv, QueueIsDirtyAndIdle
  <1>5. \A v \in Workers : /\ Working(v)' <=> Working(v)
                           /\ worker'[v] = "waiting" <=> worker[v] = "waiting"
                           /\ worker'[v] = "ready" <=> worker[v] = "ready"
    BY <1>1 DEF QueueInv, TypeOK, Working
  <1>6. HeldOK'  BY <1>1, <1>5 DEF QueueInv, HeldOK
  <1>7. NoLostWakeUp'
    <2>1. AwakeIn(worker') = AwakeIn(worker)  BY <1>5 DEF AwakeIn
    <2>2. QED  BY <1>1, <1>5, <2>1 DEF QueueInv, NoLostWakeUp, AwakeIn
  <1>8. QED  BY <1>3, <1>4, <1>6, <1>7 DEF QueueInv

(* Done: a key that became dirty goes back into the queue with a wake-up of its
   own, since the worker that returns to Get is awake too. *)
LEMMA DoneKeeps ==
  ASSUME QueueInv, NEW w \in Workers, Done(w)
  PROVE  QueueInv'
  <1> DEFINE k == held[w]
             woken == IF k \in dirty \/ processing = {k}
                      THEN {v \in Workers : worker[v] = "waiting"} ELSE {}
             back == [worker EXCEPT ![w] = "ready"]
  <1>1. /\ worker[w] = "synced"
        /\ processing' = processing \ {k}
        /\ queue' = IF k \in dirty THEN Append(queue, k) ELSE queue
        /\ IF woken = {} THEN worker' = back
           ELSE \E v \in woken : worker' = [back EXCEPT ![v] = "ready"]
        /\ held' = [held EXCEPT ![w] = NoKey]
        /\ UNCHANGED <<dirty, shuttingDown, chan, heap>>
    BY DEF Done, DoneItem
  <1>2. /\ queue \in Seq(Keys) /\ IsInjective(queue)
        /\ ToSet(queue) = dirty \ processing /\ dirty \subseteq Keys
        /\ worker \in [Workers -> WorkerStates]
        /\ held \in [Workers -> Keys \cup {NoKey}]
        /\ processing \subseteq Keys
    BY DEF QueueInv, TypeOK, QueueIsDirtyAndIdle
  <1>3. k \in processing /\ k \in Keys
    BY <1>1, <1>2 DEF QueueInv, HeldOK, Working
  <1>4. k \notin ToSet(queue)  BY <1>2, <1>3
  <1>5. /\ back \in [Workers -> WorkerStates] /\ back[w] = "ready"
        /\ \A v \in Workers : v # w => back[v] = worker[v]
    BY <1>2 DEF WorkerStates
  <1>6. \/ worker' = back
        \/ \E v \in Workers : /\ worker[v] = "waiting" /\ woken # {}
                              /\ worker' = [back EXCEPT ![v] = "ready"]
    BY <1>1
  <1>7. Cardinality(AwakeIn(back)) = Cardinality(AwakeIn(worker)) + 1
    BY <1>1, <1>2, AwakeMore
  <1>8. woken = {} => /\ k \notin dirty
                      \/ \A v \in Workers : worker[v] # "waiting"
    OBVIOUS
  <1> HIDE DEF k, woken, back
  <1>9. worker' \in [Workers -> WorkerStates]
    BY <1>5, <1>6 DEF WorkerStates
  <1>10. /\ queue' \in Seq(Keys) /\ Len(queue) \in Nat
         /\ k \in dirty => Len(queue') = Len(queue) + 1
         /\ k \notin dirty => queue' = queue
    BY <1>1, <1>2, <1>3
  <1>11. held' \in [Workers -> Keys \cup {NoKey}] /\ processing' \subseteq Keys
    BY <1>1, <1>2
  <1>12. TypeOK'
    BY <1>1, <1>9, <1>10, <1>11 DEF QueueInv, TypeOK
  <1>13. QueueIsDirtyAndIdle'
    <2>1. CASE k \in dirty
      <3>1. queue' = Append(queue, k)  BY <1>1, <2>1
      <3>2. ToSet(queue') = ToSet(queue) \cup {k} /\ IsInjective(queue')
        BY <1>2, <1>3, <1>4, <3>1, AppendSet
      <3>3. ToSet(queue') = dirty' \ processing'
        BY <1>1, <1>2, <1>3, <2>1, <3>2
      <3>4. QED  BY <3>2, <3>3 DEF QueueIsDirtyAndIdle
    <2>2. CASE k \notin dirty
      <3>1. dirty' \ processing' = dirty \ processing  BY <1>1, <2>2
      <3>2. QED  BY <1>2, <1>10, <2>2, <3>1, Zenon DEF QueueIsDirtyAndIdle
    <2>3. QED  BY <2>1, <2>2
  <1>14. /\ ~Working(w)'
         /\ \A v \in Workers : Working(v)' <=> v # w /\ Working(v)
    BY <1>1, <1>2, <1>5, <1>6 DEF Working
  <1>15. HeldOK'
    <2>1. \A v \in Workers : Working(v)' => held'[v] = held[v] /\ held[v] # k
      <3> SUFFICES ASSUME NEW v \in Workers, Working(v)'
                   PROVE  held'[v] = held[v] /\ held[v] # k
        OBVIOUS
      <3>1. v # w /\ Working(v)  BY <1>14
      <3>2. held[v] # k
        BY <1>1, <3>1 DEF QueueInv, HeldOK, Working, k
      <3>3. QED  BY <1>1, <1>2, <3>1, <3>2
    <2>2. \A v \in Workers : Working(v)' => held'[v] \in processing'
      BY <1>1, <1>14, <2>1 DEF QueueInv, HeldOK
    <2>3. \A v \in Workers : ~Working(v)' => held'[v] = NoKey
      <3>0. /\ held' = [held EXCEPT ![w] = NoKey]
            /\ held \in [Workers -> Keys \cup {NoKey}]
        BY <1>1, <1>2
      <3>1. held'[w] = NoKey /\ \A v \in Workers : v # w => held'[v] = held[v]
        BY <3>0
      <3>2. QED  BY <1>14, <3>1 DEF QueueInv, HeldOK
    <2>4. QED  BY <1>14, <2>1, <2>2, <2>3 DEF QueueInv, HeldOK
  <1>16. NoLostWakeUp'
    <2> SUFFICES ASSUME \E v \in Workers : worker'[v] = "waiting"
                 PROVE  Cardinality(AwakeIn(worker')) >= Len(queue')
      BY DEF NoLostWakeUp, AwakeIn
    <2>1. PICK u \in Workers : worker'[u] = "waiting"  OBVIOUS
    <2>2. worker[u] = "waiting" /\ back[u] = worker[u]
      BY <1>1, <1>5, <1>6, <2>1
    <2>3. Cardinality(AwakeIn(worker)) >= Len(queue)
      BY <2>2 DEF QueueInv, NoLostWakeUp, AwakeIn
    <2>4. CASE worker' = back /\ k \notin dirty
      BY <1>7, <1>10, <2>3, <2>4, AwakeFinite
    <2>5. CASE \E v \in Workers : /\ worker[v] = "waiting"
                                  /\ worker' = [back EXCEPT ![v] = "ready"]
      <3>1. PICK v \in Workers : /\ worker[v] = "waiting"
                                 /\ worker' = [back EXCEPT ![v] = "ready"]
        BY <2>5
      <3>2. back[v] = "waiting" /\ v \in DOMAIN back  BY <1>1, <1>5, <3>1
      <3>3. Cardinality(AwakeIn(worker')) = Cardinality(AwakeIn(back)) + 1
        BY <3>1, <3>2, AwakeMore
      <3>4. Len(queue') <= Len(queue) + 1 /\ Len(queue') \in Nat
        BY <1>10
      <3>5. QED  BY <1>7, <1>10, <2>3, <3>3, <3>4, AwakeFinite
    <2>6. worker' = back /\ k \in dirty => ~\E v \in Workers : worker[v] = "waiting"
      <3> SUFFICES ASSUME worker' = back, k \in dirty, NEW v \in Workers,
                          worker[v] = "waiting"
                   PROVE  FALSE
        OBVIOUS
      <3>1. v \in woken  BY DEF woken
      <3>2. PICK x \in woken : worker' = [back EXCEPT ![x] = "ready"]
        BY <1>1, <3>1
      <3>3. x \in Workers /\ worker[x] = "waiting"  BY <3>2 DEF woken
      <3>4. worker'[x] = "ready" /\ back[x] = "waiting"
        BY <1>1, <1>5, <3>2, <3>3
      <3>5. QED  BY <3>4
    <2>7. QED  BY <1>6, <2>2, <2>4, <2>5, <2>6
  <1>17. QED  BY <1>12, <1>13, <1>15, <1>16 DEF QueueInv

LEMMA ShutDownKeeps ==
  ASSUME QueueInv, ShutDown
  PROVE  QueueInv'
  <1>1. /\ shuttingDown' = TRUE /\ Broadcast
        /\ UNCHANGED <<queue, dirty, processing, chan, heap, held>>
    BY DEF ShutDown, coreVars
  <1>2. /\ worker' \in [Workers -> WorkerStates]
        /\ \A w \in Workers : worker'[w] # "waiting" /\ (Working(w)' <=> Working(w))
    BY <1>1 DEF Broadcast, QueueInv, TypeOK, WorkerStates, Working
  <1>3. TypeOK'  BY <1>1, <1>2 DEF QueueInv, TypeOK
  <1>4. QueueIsDirtyAndIdle'  BY <1>1, Zenon DEF QueueInv, QueueIsDirtyAndIdle
  <1>5. HeldOK'  BY <1>1, <1>2 DEF QueueInv, HeldOK
  <1>6. NoLostWakeUp'  BY <1>2 DEF NoLostWakeUp
  <1>7. QED  BY <1>3, <1>4, <1>5, <1>6 DEF QueueInv

LEMMA QueueStep ==
  ASSUME QueueInv, [Next]_vars
  PROVE  QueueInv'
  <1>1. ASSUME NEW k \in Keys, AddRateLimited(k) PROVE QueueInv'
    BY <1>1, AddRateLimitedKeeps
  <1>2. ASSUME NEW k \in Keys, Ripen(k) PROVE QueueInv'
    BY <1>2, RipenKeeps
  <1>3. CASE Receive  BY <1>3, ReceiveKeeps
  <1>4. ASSUME NEW w \in Workers, Loop(w) \/ Sync(w) PROVE QueueInv'
    BY <1>4, EmptyKeeps, GetKeeps, SyncKeeps, DoneKeeps, Zenon DEF Loop
  <1>5. CASE ShutDown  BY <1>5, ShutDownKeeps
  <1>6. CASE UNCHANGED vars
    <2>1. UNCHANGED <<queue, dirty, processing, shuttingDown, chan, heap, worker, held>>
      BY <1>6 DEF vars
    <2>2. TypeOK'  BY <2>1 DEF QueueInv, TypeOK
    <2>3. QED  BY <2>1, <2>2, CoreUnchanged DEF QueueInv
  <1>7. QED  BY <1>1, <1>2, <1>3, <1>4, <1>5, <1>6 DEF Next

(* The inductive invariant of the queue: types, the relation of queue, dirty and
   processing, exclusive claims and the count of wake-ups. *)
THEOREM QueueInvariant == Spec => []QueueInv
  BY QueueInit, QueueStep, PTL DEF Spec

(* The sets and sequences of workqueue.Typed and of its waiting loop keep their
   types, and waitingForAddCh never exceeds its capacity. *)
THEOREM QueueTyped == Spec => []TypeOK
  <1>1. QueueInv => TypeOK  BY DEF QueueInv
  <1>2. QED  BY <1>1, QueueInvariant, PTL

(* The comments on workqueue.Typed hold: queue is the dirty keys nobody
   processes, each of them once. *)
THEOREM QueueOrdersDirtyKeys == Spec => []QueueIsDirtyAndIdle
  <1>1. QueueInv => QueueIsDirtyAndIdle  BY DEF QueueInv
  <1>2. QED  BY <1>1, QueueInvariant, PTL

(* One Signal for each key that Add and Done queue is enough for any number of
   workers: none of them sleeps in Get while a key has no worker coming. *)
THEOREM WakeUpsSuffice == Spec => []NoLostWakeUp
  <1>1. QueueInv => NoLostWakeUp  BY DEF QueueInv
  <1>2. QED  BY <1>1, QueueInvariant, PTL

------------------------------------------------------------------------------
(* Counting the entries for a key in the waiting loop's channel.            *)

Entries(c, k) == Cardinality({i \in DOMAIN c : c[i] = k})

LEMMA EntriesBound ==
  ASSUME NEW c \in Seq(Keys), NEW k
  PROVE  /\ IsFiniteSet({i \in DOMAIN c : c[i] = k})
         /\ Entries(c, k) \in Nat /\ Entries(c, k) <= Len(c)
  <1>1. Len(c) \in Nat /\ DOMAIN c = 1 .. Len(c)  OBVIOUS
  <1>2. IsFiniteSet(1 .. Len(c)) /\ Cardinality(1 .. Len(c)) = Len(c)
    <2>1. \A a, b \in Int : /\ IsFiniteSet(a .. b)
                            /\ Cardinality(a .. b) = IF a > b THEN 0 ELSE b - a + 1
      BY FS_Interval
    <2>2. QED  BY <1>1, <2>1
  <1>3. {i \in DOMAIN c : c[i] = k} \subseteq 1 .. Len(c)  BY <1>1
  <1>4. /\ IsFiniteSet({i \in DOMAIN c : c[i] = k})
        /\ Cardinality({i \in DOMAIN c : c[i] = k}) <= Cardinality(1 .. Len(c))
    BY <1>2, <1>3, FS_Subset
  <1>5. QED  BY <1>2, <1>4, FS_CardinalityType DEF Entries

LEMMA EntriesAppend ==
  ASSUME NEW c \in Seq(Keys), NEW j \in Keys, NEW k
  PROVE  Entries(Append(c, j), k)
             = IF k = j THEN Entries(c, k) + 1 ELSE Entries(c, k)
  <1> DEFINE d == Append(c, j)
             n == Len(c) + 1
  <1>1. /\ n \in Nat /\ DOMAIN c = 1 .. Len(c) /\ DOMAIN d = 1 .. n
        /\ n \notin DOMAIN c /\ n \in DOMAIN d /\ d[n] = j
        /\ \A i \in DOMAIN c : i \in DOMAIN d /\ d[i] = c[i]
        /\ \A i \in DOMAIN d : i \in DOMAIN c \/ i = n
    OBVIOUS
  <1> HIDE DEF d, n
  <1>2. CASE k = j
    <2>1. {i \in DOMAIN d : d[i] = k} = {i \in DOMAIN c : c[i] = k} \cup {n}
      BY <1>1, <1>2
    <2>2. n \notin {i \in DOMAIN c : c[i] = k}  BY <1>1
    <2>3. IsFiniteSet({i \in DOMAIN c : c[i] = k})  BY EntriesBound
    <2>4. Cardinality({i \in DOMAIN d : d[i] = k})
              = Cardinality({i \in DOMAIN c : c[i] = k}) + 1
      BY <2>1, <2>2, <2>3, FS_AddElement
    <2>5. Entries(d, k) = Entries(c, k) + 1  BY <2>4 DEF Entries
    <2>6. QED  BY <1>2, <2>5 DEF d
  <1>3. CASE k # j
    <2>1. {i \in DOMAIN d : d[i] = k} = {i \in DOMAIN c : c[i] = k}
      BY <1>1, <1>3
    <2>2. QED  BY <1>3, <2>1 DEF Entries, d
  <1>4. QED  BY <1>2, <1>3

LEMMA EntriesTail ==
  ASSUME NEW c \in Seq(Keys), c # <<>>, NEW k
  PROVE  Entries(c, k)
             = IF k = Head(c) THEN Entries(Tail(c), k) + 1 ELSE Entries(Tail(c), k)
  <1> DEFINE d == Tail(c)
             A == {i \in DOMAIN d : d[i] = k}
             B == {i \in DOMAIN c : c[i] = k}
             f == [i \in A |-> i + 1]
  <1>1. /\ Len(c) \in Nat \ {0} /\ d \in Seq(Keys) /\ Head(c) = c[1]
        /\ DOMAIN c = 1 .. Len(c) /\ DOMAIN d = 1 .. (Len(c) - 1)
        /\ \A i \in 1 .. (Len(c) - 1) : d[i] = c[i + 1]
    OBVIOUS
  <1>2. /\ 1 \in DOMAIN c /\ DOMAIN d \subseteq Nat
        /\ \A i \in DOMAIN d : i + 1 \in DOMAIN c /\ i + 1 # 1 /\ d[i] = c[i + 1]
        /\ \A i \in DOMAIN c : i # 1 => i - 1 \in DOMAIN d /\ (i - 1) + 1 = i
    BY <1>1
  <1> HIDE DEF d
  <1>3. f \in Bijection(A, B \ {1})
    <2>1. f \in [A -> B \ {1}]
      BY <1>2
    <2>2. \A a, b \in A : f[a] = f[b] => a = b
      <3>1. A \subseteq Nat  BY <1>2
      <3>2. \A a, b \in A : a + 1 = b + 1 => a = b  BY <3>1
      <3>3. QED  BY <3>2
    <2>3. \A b \in B \ {1} : \E a \in A : f[a] = b
      <3> SUFFICES ASSUME NEW b \in B \ {1} PROVE \E a \in A : f[a] = b
        OBVIOUS
      <3>1. b \in DOMAIN c /\ b # 1 /\ c[b] = k  OBVIOUS
      <3>2. b - 1 \in DOMAIN d /\ (b - 1) + 1 = b  BY <1>2, <3>1
      <3>3. d[b - 1] = c[(b - 1) + 1]  BY <1>2, <3>2
      <3>4. b - 1 \in A  BY <3>1, <3>2, <3>3
      <3>5. f[b - 1] = b  BY <3>2, <3>4
      <3>6. QED  BY <3>4, <3>5
    <2> HIDE DEF A, B, f
    <2>4. QED  BY <2>1, <2>2, <2>3, Fun_IsBij
  <1>4. IsFiniteSet(A) /\ IsFiniteSet(B)
    BY <1>1, EntriesBound
  <1>5. Cardinality(B \ {1}) = Cardinality(A)
    <2> HIDE DEF A, B, f
    <2>1. ExistsBijection(A, B \ {1})  BY <1>3, Zenon DEF ExistsBijection
    <2>2. QED  BY <1>4, <2>1, FS_Bijection
  <1>6. CASE k = Head(c)
    <2>1. 1 \in B  BY <1>1, <1>2, <1>6
    <2>2. Cardinality(B \ {1}) = Cardinality(B) - 1
      BY <1>4, <2>1, FS_RemoveElement
    <2>3. Cardinality(B) \in Nat  BY <1>4, FS_CardinalityType
    <2>4. Cardinality(B) = Cardinality(A) + 1  BY <1>5, <2>2, <2>3
    <2>5. QED  BY <1>6, <2>4 DEF Entries, d
  <1>7. CASE k # Head(c)
    <2>1. B \ {1} = B  BY <1>1, <1>7
    <2>2. QED  BY <1>5, <1>7, <2>1 DEF Entries, d
  <1>8. QED  BY <1>6, <1>7

------------------------------------------------------------------------------
(* The steps of the queue as steps of WorkQueue.                            *)

In(k, S) == IF k \in S THEN 1 ELSE 0

LEMMA OutstandingIs ==
  ASSUME NEW k
  PROVE  /\ Outstanding(k) = IF shuttingDown THEN In(k, dirty)
                             ELSE In(k, dirty) + In(k, heap) + Entries(chan, k)
         /\ Outstanding(k)' = IF shuttingDown' THEN In(k, dirty')
                              ELSE In(k, dirty') + In(k, heap') + Entries(chan', k)
  BY DEF Outstanding, In, Entries

LEMMA OutstandingBound ==
  ASSUME TypeOK, NEW k
  PROVE  /\ Outstanding(k) \in 0 .. (ChanCap + 2)
         /\ ~shuttingDown => Outstanding(k) <= Len(chan) + 2
         /\ Len(chan) \in Nat /\ ChanCap \in Nat
  <1>0. chan \in Seq(Keys) /\ Len(chan) <= ChanCap  BY DEF TypeOK
  <1>0a. ChanCap \in Nat  BY QueueAssumption DEF QueueAssumption
  <1>0b. Len(chan) \in Nat  BY <1>0
  <1>0c. Entries(chan, k) \in Nat /\ Entries(chan, k) <= Len(chan)
    BY <1>0, EntriesBound
  <1>1. /\ Entries(chan, k) \in Nat /\ Entries(chan, k) <= Len(chan)
        /\ Len(chan) \in Nat /\ Len(chan) <= ChanCap /\ ChanCap \in Nat
    BY <1>0, <1>0a, <1>0b, <1>0c
  <1>2. In(k, dirty) \in 0 .. 1 /\ In(k, heap) \in 0 .. 1  BY DEF In
  <1>3. CASE shuttingDown  BY <1>1, <1>2, <1>3, OutstandingIs
  <1>4. CASE ~shuttingDown  BY <1>1, <1>2, <1>4, OutstandingIs
  <1>5. QED  BY <1>3, <1>4, <1>1

LEMMA MapStutter ==
  ASSUME \A k \in Keys : Outstanding(k)' = Outstanding(k),
         UNCHANGED <<held, shuttingDown>>
  PROVE  UNCHANGED WQ!queueVars
  <1>1. [k \in Keys |-> Outstanding(k)'] = [k \in Keys |-> Outstanding(k)]
    BY Zenon
  <1>2. held' = held /\ shuttingDown' = shuttingDown  OBVIOUS
  <1>3. QED  BY <1>1, <1>2 DEF WQ!queueVars

LEMMA MapMerge ==
  ASSUME NEW j \in Keys, Outstanding(j) > 1,
         Outstanding(j)' = Outstanding(j) - 1,
         \A k \in Keys : k # j => Outstanding(k)' = Outstanding(k),
         UNCHANGED <<held, shuttingDown>>
  PROVE  WQ!Merge(j)
  <1> DEFINE P == [k \in Keys |-> Outstanding(k)]
             Q == [k \in Keys |-> Outstanding(k)']
  <1>1. P[j] > 1 /\ Q = [P EXCEPT ![j] = @ - 1]  OBVIOUS
  <1>2. QED  BY <1>1 DEF WQ!Merge

(* AddAfter by a callback or by a worker that puts its key back: accepted while
   the queue is open, ignored afterwards. *)
LEMMA MapAdd ==
  ASSUME TypeOK, NEW j \in Keys, AddAfter(j),
         UNCHANGED <<dirty, heap, held, shuttingDown>>
  PROVE  WQ!AddRateLimited(j) \/ UNCHANGED WQ!queueVars
  <1>1. CASE shuttingDown
    <2>1. chan' = chan  BY <1>1 DEF AddAfter
    <2>2. \A k \in Keys : Outstanding(k)' = Outstanding(k)
      BY <2>1, OutstandingIs
    <2>3. QED  BY <2>2, MapStutter
  <1>2. CASE ~shuttingDown
    <2>1. Len(chan) < ChanCap /\ chan' = Append(chan, j) /\ chan \in Seq(Keys)
      BY <1>2 DEF AddAfter, TypeOK
    <2>2. \A k \in Keys : Entries(chan', k)
              = IF k = j THEN Entries(chan, k) + 1 ELSE Entries(chan, k)
      BY <2>1, EntriesAppend
    <2>3. \A k \in Keys : /\ In(k, dirty) \in Nat /\ In(k, heap) \in Nat
                          /\ Entries(chan, k) \in Nat
      BY <2>1, EntriesBound DEF In
    <2>4. \A k \in Keys : Outstanding(k)'
              = IF k = j THEN Outstanding(k) + 1 ELSE Outstanding(k)
      BY <1>2, <2>2, <2>3, OutstandingIs
    <2>5. Outstanding(j) < ChanCap + 2
      BY <1>2, <2>1, OutstandingBound
    <2> DEFINE P == [k \in Keys |-> Outstanding(k)]
               Q == [k \in Keys |-> Outstanding(k)']
    <2>6. Q = [k \in Keys |-> IF ~shuttingDown /\ k \in {j} /\ P[k] < ChanCap + 2
                              THEN P[k] + 1 ELSE P[k]]
      <3>1. \A k \in Keys : Q[k] = IF ~shuttingDown /\ k \in {j} /\ P[k] < ChanCap + 2
                                   THEN P[k] + 1 ELSE P[k]
        BY <1>2, <2>4, <2>5
      <3>2. QED  BY <3>1
    <2>7. WQ!AddAll({j})  BY <2>6 DEF WQ!AddAll
    <2>8. QED  BY <2>7 DEF WQ!AddRateLimited
  <1>3. QED  BY <1>1, <1>2

(* The waiting loop passes a key on: it is counted somewhere else now, or it was
   there already and two calls are merged. *)
LEMMA MapReceive ==
  ASSUME QueueInv, Receive
  PROVE  (\E k \in Keys : WQ!Merge(k)) \/ UNCHANGED WQ!queueVars
  <1>0. chan \in Seq(Keys) /\ chan # <<>>
    BY DEF QueueInv, TypeOK, Receive
  <1>0a. PICK j \in Keys : j = Head(chan)  BY <1>0
  <1>1. /\ chan \in Seq(Keys) /\ chan # <<>> /\ chan' = Tail(chan) /\ ~shuttingDown
        /\ UNCHANGED <<shuttingDown, held>>
        /\ \/ dirty' = dirty \cup {j} /\ UNCHANGED heap
           \/ heap' = heap \cup {j} /\ UNCHANGED dirty
    BY <1>0, <1>0a DEF Receive, Add, coreVars
  <1>2. j \in Keys /\ Tail(chan) \in Seq(Keys)  BY <1>1
  <1>3. \A k \in Keys : /\ Entries(chan, k) = IF k = j THEN Entries(chan', k) + 1
                                              ELSE Entries(chan', k)
                        /\ Entries(chan', k) \in Nat
    BY <1>0a, <1>1, <1>2, EntriesTail, EntriesBound
  <1>4. \A k \in Keys : k # j => /\ In(k, dirty') = In(k, dirty)
                                 /\ In(k, heap') = In(k, heap)
    BY <1>1 DEF In
  <1>5. \A k \in Keys : In(k, dirty) \in {0, 1} /\ In(k, heap) \in {0, 1}
    BY DEF In
  <1>6. \A k \in Keys : k # j => Outstanding(k)' = Outstanding(k)
    BY <1>1, <1>3, <1>4, OutstandingIs
  <1>7. \/ In(j, dirty') + In(j, heap') = In(j, dirty) + In(j, heap) + 1
        \/ /\ In(j, dirty') + In(j, heap') = In(j, dirty) + In(j, heap)
           /\ In(j, dirty) + In(j, heap) >= 1
    BY <1>1 DEF In
  <1>8. In(j, dirty') \in Nat /\ In(j, heap') \in Nat  BY DEF In
  <1>8a. /\ Outstanding(j) = In(j, dirty) + In(j, heap) + Entries(chan, j)
         /\ Outstanding(j)' = In(j, dirty') + In(j, heap') + Entries(chan', j)
    BY <1>1, OutstandingIs
  <1>8b. Entries(chan, j) = Entries(chan', j) + 1 /\ Entries(chan', j) \in Nat
    BY <1>3
  <1>9. CASE In(j, dirty') + In(j, heap') = In(j, dirty) + In(j, heap) + 1
    <2>1. Outstanding(j)' = Outstanding(j)
      BY <1>5, <1>8, <1>8a, <1>8b, <1>9
    <2>2. \A k \in Keys : Outstanding(k)' = Outstanding(k)  BY <1>6, <2>1
    <2>3. UNCHANGED <<held, shuttingDown>>  BY <1>1
    <2>4. QED  BY <2>2, <2>3, MapStutter
  <1>10. CASE /\ In(j, dirty') + In(j, heap') = In(j, dirty) + In(j, heap)
              /\ In(j, dirty) + In(j, heap) >= 1
    <2>1. Outstanding(j)' = Outstanding(j) - 1 /\ Outstanding(j) > 1
      BY <1>5, <1>8, <1>8a, <1>8b, <1>10
    <2>2. UNCHANGED <<held, shuttingDown>>  BY <1>1
    <2>3. QED  BY <1>2, <1>6, <2>1, <2>2, MapMerge
  <1>11. QED  BY <1>7, <1>9, <1>10

LEMMA MapRipen ==
  ASSUME QueueInv, NEW j \in Keys, Ripen(j)
  PROVE  WQ!Merge(j) \/ UNCHANGED WQ!queueVars
  <1>1. /\ j \in heap /\ heap' = heap \ {j} /\ ~shuttingDown
        /\ dirty' = dirty \cup {j}
        /\ UNCHANGED <<shuttingDown, held, chan>>
    BY DEF Ripen, Add
  <1>2. \A k \in Keys : Entries(chan, k) \in Nat
    BY EntriesBound DEF QueueInv, TypeOK
  <1>3. \A k \in Keys : k # j => /\ In(k, dirty') = In(k, dirty)
                                 /\ In(k, heap') = In(k, heap)
    BY <1>1 DEF In
  <1>4. \A k \in Keys : k # j => Outstanding(k)' = Outstanding(k)
    BY <1>1, <1>3, OutstandingIs
  <1>5. In(j, heap) = 1 /\ In(j, heap') = 0 /\ In(j, dirty') = 1
    BY <1>1 DEF In
  <1>5a. /\ Outstanding(j) = In(j, dirty) + In(j, heap) + Entries(chan, j)
         /\ Outstanding(j)' = In(j, dirty') + In(j, heap') + Entries(chan, j)
    BY <1>1, OutstandingIs
  <1>6. CASE j \in dirty
    <2>1. In(j, dirty) = 1  BY <1>6 DEF In
    <2>2. Outstanding(j)' = Outstanding(j) - 1 /\ Outstanding(j) > 1
      BY <1>2, <1>5, <1>5a, <2>1
    <2>3. UNCHANGED <<held, shuttingDown>>  BY <1>1
    <2>4. QED  BY <1>4, <2>2, <2>3, MapMerge
  <1>7. CASE j \notin dirty
    <2>1. In(j, dirty) = 0  BY <1>7 DEF In
    <2>2. Outstanding(j)' = Outstanding(j)
      BY <1>2, <1>5, <1>5a, <2>1
    <2>3. \A k \in Keys : Outstanding(k)' = Outstanding(k)  BY <1>4, <2>2
    <2>4. UNCHANGED <<held, shuttingDown>>  BY <1>1
    <2>5. QED  BY <2>3, <2>4, MapStutter
  <1>8. QED  BY <1>6, <1>7

(* Get: the key was waiting, and nobody processes it. *)
LEMMA MapGet ==
  ASSUME QueueInv, NEW w \in Workers, Get(w)
  PROVE  \E k \in Keys : WQ!Get(w, k)
  <1>0. queue # <<>> /\ queue \in Seq(Keys) /\ IsInjective(queue)
    BY DEF Get, QueueInv, TypeOK, QueueIsDirtyAndIdle
  <1>0a. PICK j \in Keys : j = Head(queue)  BY <1>0
  <1> DEFINE P == [k \in Keys |-> Outstanding(k)]
             Q == [k \in Keys |-> Outstanding(k)']
  <1>1. /\ worker[w] = "ready" /\ queue # <<>>
        /\ dirty' = dirty \ {j}
        /\ held' = [held EXCEPT ![w] = j]
        /\ UNCHANGED <<shuttingDown, chan, heap>>
    BY <1>0a DEF Get
  <1>2. j \in ToSet(queue)
    BY <1>0, <1>0a, TailSet
  <1>3. j \in dirty /\ j \notin processing /\ j \in Keys
    BY <1>2 DEF QueueInv, TypeOK, QueueIsDirtyAndIdle
  <1>4. held[w] = NoKey
    BY <1>1 DEF QueueInv, HeldOK, Working
  <1>5. \A v \in Workers : held[v] # j
    BY <1>3, QueueAssumption DEF QueueInv, HeldOK, QueueAssumption
  <1>6. j \notin WQ!Claimed
    BY <1>5, Zenon DEF WQ!Claimed
  <1>7. \A k \in Keys : Entries(chan, k) \in Nat
    BY EntriesBound DEF QueueInv, TypeOK
  <1>8. \A k \in Keys : /\ In(k, dirty) \in Nat /\ In(k, heap) \in Nat
                        /\ k # j => In(k, dirty') = In(k, dirty)
    BY <1>1 DEF In
  <1>9. In(j, dirty) = 1 /\ In(j, dirty') = 0
    BY <1>1, <1>3 DEF In
  <1>10. \A k \in Keys : k # j => Outstanding(k)' = Outstanding(k)
    BY <1>1, <1>8, OutstandingIs
  <1>11. Outstanding(j)' = Outstanding(j) - 1 /\ Outstanding(j) > 0
    <2>1. CASE shuttingDown
      <3>1. Outstanding(j) = In(j, dirty) /\ Outstanding(j)' = In(j, dirty')
        BY <1>1, <2>1, OutstandingIs
      <3>2. QED  BY <1>9, <3>1
    <2>2. CASE ~shuttingDown
      <3>1. /\ Outstanding(j) = In(j, dirty) + In(j, heap) + Entries(chan, j)
            /\ Outstanding(j)' = In(j, dirty') + In(j, heap) + Entries(chan, j)
        BY <1>1, <2>2, OutstandingIs
      <3>2. In(j, heap) \in Nat /\ Entries(chan, j) \in Nat  BY <1>7, <1>8
      <3>3. QED  BY <1>9, <3>1, <3>2
    <2>3. QED  BY <2>1, <2>2
  <1>12. P[j] > 0 /\ Q = [P EXCEPT ![j] = @ - 1]
    BY <1>3, <1>10, <1>11
  <1>13. WQ!Get(w, j)
    BY <1>1, <1>4, <1>6, <1>12 DEF WQ!Get
  <1>14. QED  BY <1>3, <1>13

(* Done: no call is lost, whether the key goes back into the queue or not. *)
LEMMA MapDone ==
  ASSUME QueueInv, NEW w \in Workers, Done(w)
  PROVE  WQ!Done(w)
  <1>1. /\ worker[w] = "synced"
        /\ held' = [held EXCEPT ![w] = NoKey]
        /\ UNCHANGED <<dirty, shuttingDown, chan, heap>>
    BY DEF Done, DoneItem
  <1>2. held[w] # NoKey
    BY <1>1, QueueAssumption DEF QueueInv, HeldOK, Working, TypeOK, QueueAssumption
  <1>3. \A k \in Keys : Outstanding(k)' = Outstanding(k)
    BY <1>1, OutstandingIs
  <1>4. [k \in Keys |-> Outstanding(k)'] = [k \in Keys |-> Outstanding(k)]
    BY <1>3, Zenon
  <1>5. QED  BY <1>1, <1>2, <1>4 DEF WQ!Done

(* ShutDown: what the waiting loop still has is dropped. *)
LEMMA MapShutDown ==
  ASSUME QueueInv, ShutDown
  PROVE  WQ!ShutDown
  <1> DEFINE P == [k \in Keys |-> Outstanding(k)]
             Q == [k \in Keys |-> Outstanding(k)']
  <1>1. /\ ~shuttingDown /\ shuttingDown' = TRUE
        /\ UNCHANGED <<dirty, chan, heap, held>>
    BY DEF ShutDown, coreVars
  <1>2. \A k \in Keys : Entries(chan, k) \in Nat
    BY EntriesBound DEF QueueInv, TypeOK
  <1>3. \A k \in Keys : In(k, dirty) \in 0 .. 1 /\ In(k, heap) \in 0 .. 1
    BY DEF In
  <1>4. \A k \in Keys : Outstanding(k)' \in 0 .. 1 /\ Outstanding(k)' <= Outstanding(k)
    BY <1>1, <1>2, <1>3, OutstandingIs
  <1>5. ChanCap \in Nat  BY QueueAssumption DEF QueueAssumption
  <1>6. Q \in [Keys -> 0 .. (ChanCap + 2)] /\ \A k \in Keys : Q[k] <= P[k]
    BY <1>4, <1>5
  <1>7. ~shuttingDown /\ ~(~shuttingDown') /\ held' = held  BY <1>1
  <1>8. QED  BY <1>6, <1>7 DEF WQ!ShutDown

LEMMA MapStep ==
  ASSUME QueueInv, [Next]_vars
  PROVE  [WQ!Next]_WQ!queueVars
  <1>1. ASSUME NEW k \in Keys, AddRateLimited(k)
        PROVE  [WQ!Next]_WQ!queueVars
    <2>1. AddAfter(k) /\ UNCHANGED <<dirty, heap, held, shuttingDown>>
      BY <1>1 DEF AddRateLimited, coreVars
    <2>2. WQ!AddRateLimited(k) \/ UNCHANGED WQ!queueVars
      BY <2>1, MapAdd DEF QueueInv
    <2>3. QED  BY <2>2 DEF WQ!Next
  <1>2. ASSUME NEW k \in Keys, Ripen(k) PROVE [WQ!Next]_WQ!queueVars
    BY <1>2, MapRipen DEF WQ!Next
  <1>3. CASE Receive  BY <1>3, MapReceive DEF WQ!Next
  <1>4. ASSUME NEW w \in Workers, Loop(w) \/ Sync(w)
        PROVE  [WQ!Next]_WQ!queueVars
    <2>1. CASE Sleep(w) \/ Exit(w) \/ Sync(w)
      <3>1. UNCHANGED <<dirty, heap, held, shuttingDown, chan>>
        BY <2>1 DEF Sleep, Exit, Sync, Succeed, Fail, coreVars
      <3>2. \A k \in Keys : Outstanding(k)' = Outstanding(k)
        BY <3>1, OutstandingIs
      <3>3. QED  BY <3>1, <3>2, MapStutter
    <2>2. CASE Get(w)  BY <2>2, MapGet DEF WQ!Next
    <2>3. CASE PutBack(w)
      <3>1. held[w] \in Keys
        BY <2>3 DEF PutBack, QueueInv, HeldOK, Working, TypeOK
      <3>2. AddAfter(held[w]) /\ UNCHANGED <<dirty, heap, held, shuttingDown>>
        BY <2>3 DEF PutBack, coreVars
      <3>3. WQ!AddRateLimited(held[w]) \/ UNCHANGED WQ!queueVars
        BY <3>1, <3>2, MapAdd DEF QueueInv
      <3>4. QED  BY <3>1, <3>3 DEF WQ!Next
    <2>4. CASE Done(w)  BY <2>4, MapDone DEF WQ!Next
    <2>5. QED  BY <1>4, <2>1, <2>2, <2>3, <2>4 DEF Loop
  <1>5. CASE ShutDown  BY <1>5, MapShutDown DEF WQ!Next
  <1>6. CASE UNCHANGED vars
    <2>1. UNCHANGED <<dirty, heap, held, shuttingDown, chan>>
      BY <1>6 DEF vars
    <2>2. \A k \in Keys : Outstanding(k)' = Outstanding(k)
      BY <2>1, OutstandingIs
    <2>3. QED  BY <2>1, <2>2, MapStutter
  <1>7. QED  BY <1>1, <1>2, <1>3, <1>4, <1>5, <1>6 DEF Next

LEMMA MapInit == Init => WQ!Init
  <1> SUFFICES ASSUME Init PROVE WQ!Init  OBVIOUS
  <1>1. /\ dirty = {} /\ heap = {} /\ chan = <<>> /\ shuttingDown = FALSE
        /\ held = [w \in Workers |-> NoKey]
    BY DEF Init
  <1>2. \A k \in Keys : Outstanding(k) = 0
    <2>1. \A k \in Keys : Entries(chan, k) \in Nat /\ Entries(chan, k) <= Len(chan)
      BY QueueInit, EntriesBound DEF QueueInv, TypeOK
    <2>2. Len(chan) = 0  BY <1>1
    <2>3. \A k \in Keys : In(k, dirty) = 0 /\ In(k, heap) = 0  BY <1>1 DEF In
    <2>4. QED  BY <1>1, <2>1, <2>2, <2>3, OutstandingIs
  <1>3. [k \in Keys |-> Outstanding(k)] = [k \in Keys |-> 0]  BY <1>2
  <1>4. QED  BY <1>1, <1>3 DEF WQ!Init

(* Safety of the refinement: every behaviour of client-go's queue is one that the
   controller may expect of its queue, fairness left aside. *)
THEOREM WorkQueueImplemented ==
  Spec => WQ!Init /\ [][WQ!Next]_WQ!queueVars
  BY MapInit, MapStep, QueueInvariant, PTL DEF Spec
==============================================================================
