--------------------------- MODULE RateLimitedQueue ---------------------------
(****************************************************************************)
(* The rate limited, delaying work queue of client-go as the controller     *)
(* uses it: informer callbacks call AddRateLimited, a waiting loop moves     *)
(* keys from a buffered channel through a heap into the queue proper, and    *)
(* Controller.runWorker goroutines get them, sleeping on a condition         *)
(* variable while there are none.  Time is abstracted: a back-off may end at *)
(* any moment.                                                               *)
(****************************************************************************)
EXTENDS Integers, FiniteSets, Sequences, SequencesExt

CONSTANTS
    Keys, Workers, NoKey,
    ChanCap     \* capacity of waitingForAddCh (1000 in the code)

ASSUME QueueAssumption == /\ NoKey \notin Keys
                          /\ ChanCap \in Nat \ {0}
                          /\ IsFiniteSet(Workers)

VARIABLES
    queue,          \* Typed.queue, the order in which keys are given out
    dirty,          \* Typed.dirty
    processing,     \* Typed.processing
    shuttingDown,   \* Typed.shuttingDown
    chan,           \* delayingType.waitingForAddCh
    heap,           \* keys in the waiting loop's priority queue
    worker,         \* where each worker goroutine is
    held            \* the key a worker holds

vars == <<queue, dirty, processing, shuttingDown, chan, heap, worker, held>>
coreVars == <<queue, dirty, processing>>

(* "ready" before the test in Get, "waiting" in cond.Wait, "busy" in
   syncHandler, "failed" when that returned an error, "synced" before the
   deferred Done, "exited" after shutdown. *)
WorkerStates == {"ready", "waiting", "busy", "failed", "synced", "exited"}

TypeOK ==
    /\ queue \in Seq(Keys)
    /\ dirty \subseteq Keys
    /\ processing \subseteq Keys
    /\ shuttingDown \in BOOLEAN
    /\ chan \in Seq(Keys) /\ Len(chan) <= ChanCap
    /\ heap \subseteq Keys
    /\ worker \in [Workers -> WorkerStates]
    /\ held \in [Workers -> Keys \cup {NoKey}]

Init ==
    /\ queue = <<>> /\ dirty = {} /\ processing = {}
    /\ shuttingDown = FALSE
    /\ chan = <<>> /\ heap = {}
    /\ worker = [w \in Workers |-> "ready"]
    /\ held = [w \in Workers |-> NoKey]

------------------------------------------------------------------------------

(* cond.Signal wakes one of the goroutines asleep in Get, if there is one. *)
Signal ==
    IF \E w \in Workers : worker[w] = "waiting"
    THEN \E w \in Workers : /\ worker[w] = "waiting"
                            /\ worker' = [worker EXCEPT ![w] = "ready"]
    ELSE UNCHANGED worker

Broadcast ==
    worker' = [w \in Workers |->
                  IF worker[w] = "waiting" THEN "ready" ELSE worker[w]]

(* Mutants of Add: no worker is woken; processing is not consulted. *)
AddSilent(k) ==
    /\ dirty' = IF shuttingDown THEN dirty ELSE dirty \cup {k}
    /\ queue' = IF shuttingDown \/ k \in dirty \/ k \in processing
                THEN queue ELSE Append(queue, k)
    /\ UNCHANGED <<processing, held, worker>>

AddWhileProcessing(k) ==
    /\ dirty' = IF shuttingDown THEN dirty ELSE dirty \cup {k}
    /\ IF shuttingDown \/ k \in dirty
       THEN UNCHANGED <<queue, worker>>
       ELSE queue' = Append(queue, k) /\ Signal
    /\ UNCHANGED <<processing, held>>

(* Typed.Add: a key already dirty is not queued twice, and one that is being
   processed is queued by Done, not here. *)
Add(k) ==
    /\ dirty' = IF shuttingDown THEN dirty ELSE dirty \cup {k}
    /\ IF shuttingDown \/ k \in dirty \/ k \in processing
       THEN UNCHANGED <<queue, worker>>
       ELSE queue' = Append(queue, k) /\ Signal
    /\ UNCHANGED <<processing, held>>

(* Mutants of AddAfter: an unbounded channel; no select on stopCh. *)
AddAfterUnbounded(k) ==
    IF shuttingDown THEN UNCHANGED chan
    ELSE Len(chan) <= ChanCap /\ chan' = Append(chan, k)

AddAfterBlocking(k) == Len(chan) < ChanCap /\ chan' = Append(chan, k)

(* rateLimitingType.AddRateLimited and delayingType.AddAfter: the send blocks
   while the channel is full; after ShutDown the call returns at once. *)
AddAfter(k) ==
    IF shuttingDown
    THEN UNCHANGED chan
    ELSE Len(chan) < ChanCap /\ chan' = Append(chan, k)

(* An informer callback adds k. *)
AddRateLimited(k) ==
    /\ AddAfter(k)
    /\ UNCHANGED <<coreVars, shuttingDown, heap, worker, held>>

(* The waiting loop takes an entry from the channel: either its time has come
   already, or it goes to the heap, where an entry for the same key is merged
   with it. *)
Receive ==
    /\ ~shuttingDown
    /\ chan # <<>>
    /\ chan' = Tail(chan)
    /\ \/ Add(Head(chan)) /\ UNCHANGED heap
       \/ heap' = heap \cup {Head(chan)} /\ UNCHANGED <<coreVars, worker, held>>
    /\ UNCHANGED shuttingDown

(* The waiting loop adds an entry whose time has come. *)
Ripen(k) ==
    /\ ~shuttingDown
    /\ k \in heap
    /\ heap' = heap \ {k}
    /\ Add(k)
    /\ UNCHANGED <<shuttingDown, chan>>

(* Typed.Get: sleep, learn of the shutdown, or take the head of the queue. *)
Sleep(w) ==
    /\ worker[w] = "ready" /\ queue = <<>> /\ ~shuttingDown
    /\ worker' = [worker EXCEPT ![w] = "waiting"]
    /\ UNCHANGED <<coreVars, shuttingDown, chan, heap, held>>

Exit(w) ==
    /\ worker[w] = "ready" /\ queue = <<>> /\ shuttingDown
    /\ worker' = [worker EXCEPT ![w] = "exited"]
    /\ UNCHANGED <<coreVars, shuttingDown, chan, heap, held>>

Get(w) ==
    /\ worker[w] = "ready" /\ queue # <<>>
    /\ queue' = Tail(queue)
    /\ processing' = processing \cup {Head(queue)}
    /\ dirty' = dirty \ {Head(queue)}
    /\ held' = [held EXCEPT ![w] = Head(queue)]
    /\ worker' = [worker EXCEPT ![w] = "busy"]
    /\ UNCHANGED <<shuttingDown, chan, heap>>

(* processNextWorkItem: syncHandler succeeded and the key is forgotten, or it
   failed and the key is put back before the deferred Done. *)
Succeed(w) ==
    /\ worker[w] = "busy"
    /\ worker' = [worker EXCEPT ![w] = "synced"]
    /\ UNCHANGED <<coreVars, shuttingDown, chan, heap, held>>

Fail(w) ==
    /\ worker[w] = "busy"
    /\ worker' = [worker EXCEPT ![w] = "failed"]
    /\ UNCHANGED <<coreVars, shuttingDown, chan, heap, held>>

PutBack(w) ==
    /\ worker[w] = "failed"
    /\ AddAfter(held[w])
    /\ worker' = [worker EXCEPT ![w] = "synced"]
    /\ UNCHANGED <<coreVars, shuttingDown, heap, held>>

(* Mutant of DoneItem: a key that became dirty while it was processed is not
   put back. *)
DoneItemForgetful(w) ==
    /\ processing' = processing \ {held[w]}
    /\ worker' = [worker EXCEPT ![w] = "ready"]
    /\ held' = [held EXCEPT ![w] = NoKey]
    /\ UNCHANGED <<queue, dirty>>

(* Typed.Done: a key made dirty meanwhile goes back into the queue.  The
   goroutine returns to Get after the signal, so it is never its receiver. *)
DoneItem(w) ==
    LET k == held[w]
        woken == IF k \in dirty \/ processing = {k}
                 THEN {v \in Workers : worker[v] = "waiting"} ELSE {}
        back == [worker EXCEPT ![w] = "ready"]
    IN  /\ processing' = processing \ {k}
        /\ queue' = IF k \in dirty THEN Append(queue, k) ELSE queue
        /\ IF woken = {} THEN worker' = back
           ELSE \E v \in woken : worker' = [back EXCEPT ![v] = "ready"]
        /\ held' = [held EXCEPT ![w] = NoKey]
        /\ UNCHANGED dirty

Done(w) ==
    /\ worker[w] = "synced"
    /\ DoneItem(w)
    /\ UNCHANGED <<shuttingDown, chan, heap>>

(* delayingType.ShutDown, deferred in Controller.Run. *)
ShutDown ==
    /\ ~shuttingDown
    /\ shuttingDown' = TRUE
    /\ Broadcast
    /\ UNCHANGED <<coreVars, chan, heap, held>>

Loop(w) == Sleep(w) \/ Exit(w) \/ Get(w) \/ PutBack(w) \/ Done(w)
Sync(w) == Succeed(w) \/ Fail(w)

Next ==
    \/ \E k \in Keys : AddRateLimited(k) \/ Ripen(k)
    \/ Receive
    \/ \E w \in Workers : Loop(w) \/ Sync(w)
    \/ ShutDown

(* The waiting loop and the workers are goroutines that run while the process
   does; senders blocked on a full channel are served in turn, so that other
   callers cannot keep a worker out for ever.  Callers and the shutdown owe
   nothing. *)
Fairness ==
    /\ WF_vars(Receive)
    /\ \A k \in Keys : WF_vars(Ripen(k))
    /\ \A w \in Workers : /\ WF_vars(Loop(w)) /\ WF_vars(Sync(w))
                           /\ SF_vars(PutBack(w))

Spec == Init /\ [][Next]_vars /\ Fairness

------------------------------------------------------------------------------

(* The comments on Typed (queue.go:189-203): every element of queue is dirty
   and not being processed, nothing dirty and idle is missing from it, and no
   key is in it twice. *)
QueueIsDirtyAndIdle ==
    /\ ToSet(queue) = dirty \ processing
    /\ IsInjective(queue)

(* No wake-up is lost (Add and Done signal once for each key they queue,
   Get sleeps only on an empty queue): while a worker sleeps, each queued key
   has a worker of its own that is awake and about to take it. *)
NoLostWakeUp ==
    (\E w \in Workers : worker[w] = "waiting")
        => Cardinality({w \in Workers : worker[w] = "ready"}) >= Len(queue)

(* After ShutDown every worker leaves its loop, also one that was blocked in
   AddRateLimited on the full channel. *)
WorkersExit == shuttingDown ~> \A w \in Workers : worker[w] = "exited"

(* The queue implements what the controller relies on. *)
Outstanding(k) ==
    LET One(S) == IF k \in S THEN 1 ELSE 0
    IN  IF shuttingDown THEN One(dirty)
        ELSE One(dirty) + One(heap)
             + Cardinality({i \in DOMAIN chan : chan[i] = k})

WQ == INSTANCE WorkQueue WITH
        MaxPending <- ChanCap + 2,
        pending <- [k \in Keys |-> Outstanding(k)],
        claim <- held,
        open <- ~shuttingDown

ImplementsWorkQueue == WQ!Spec

(* A key whose addition was accepted is handed to a worker, however often other
   keys fail and are put back (controller.go:298-302). *)
NothingLost == WQ!NothingLost
==============================================================================
