-------------------------------- MODULE BackOff --------------------------------
(****************************************************************************)
(* The delays of the controller's queue, which RateLimitedQueue leaves out:   *)
(* DefaultControllerRateLimiter, the larger of a back-off for each key and of *)
(* a token bucket for all of them, and the waiting loop's heap.  Time is       *)
(* discrete; the channel to the waiting loop is left out, as the loop sleeps  *)
(* no longer than until the first entry is due.                               *)
(****************************************************************************)
EXTENDS Integers, FiniteSets, Functions

CONSTANTS
    Keys,
    baseDelay, maxDelay,    \* 5 ms and 1000 s
    MaxInt,                 \* the largest time.Duration, 2^63 - 1 ns
    PerToken, burst,        \* time for a token (100 ms), bucket size (100)
    Horizon,                \* bound on the time
    MaxCalls                \* bound on a key's calls between two of Forget

ASSUME BackOffAssumption ==
    /\ IsFiniteSet(Keys)
    /\ baseDelay \in Nat \ {0} /\ maxDelay \in Nat /\ MaxInt \in Nat
    /\ baseDelay <= maxDelay /\ maxDelay <= MaxInt
    /\ PerToken \in Nat \ {0} /\ burst \in Nat \ {0}
    /\ Horizon \in Nat /\ MaxCalls \in Nat

VARIABLES
    now,
    failures,       \* of the item limiter: its calls for each key
    tokens, last,   \* of the bucket, in time, and when they were counted
    waiting,        \* the heap: entries [key, readyAt]
    dirty,          \* keys handed over and not taken by a worker yet
    processing,     \* keys with a worker
    hearBy,         \* history: the latest time allowed for the next hand-over
    handed,         \* history: when each key was handed over last
    handovers       \* history: how often it was

limiterVars == <<failures, tokens, last>>
history == <<hearBy, handed, handovers>>
vars == <<now, limiterVars, waiting, dirty, processing, history>>

Never == Horizon + 1

Init ==
    /\ now = 0
    /\ failures = [k \in Keys |-> 0]
    /\ tokens = burst * PerToken /\ last = 0
    /\ waiting = {} /\ dirty = {} /\ processing = {}
    /\ hearBy = [k \in Keys |-> Never]
    /\ handed = [k \in Keys |-> -baseDelay]
    /\ handovers = [k \in Keys |-> 0]

------------------------------------------------------------------------------
(* TypedMaxOfRateLimiter.When. *)

Larger(a, b) == IF a > b THEN a ELSE b

(* A float64 out of range becomes the least integer. *)
Duration(x) == IF x > MaxInt THEN -MaxInt - 1 ELSE x

(* math.Pow(2, exp). *)
Pow2[exp \in 0..MaxCalls] == IF exp = 0 THEN 1 ELSE 2 * Pow2[exp - 1]

Capped(calculated) == IF calculated > maxDelay THEN maxDelay ELSE calculated

(* Mutant of ItemDelay: the calculation may overflow. *)
ItemDelayUnguarded(k) == Capped(Duration(baseDelay * Pow2[failures[k]]))

(* baseDelay * 2^failures, "capped such that 'calculated' value never
   overflows". *)
ItemDelay(k) ==
    LET backoff == baseDelay * Pow2[failures[k]]
    IN  IF backoff > MaxInt THEN maxDelay ELSE Capped(Duration(backoff))

(* Limiter.reserveN: one token less than those that have come up to now. *)
TokensLeft ==
    LET full == burst * PerToken
        advanced == tokens + (now - last)
    IN  (IF advanced > full THEN full ELSE advanced) - PerToken

BucketDelay == IF TokensLeft < 0 THEN -TokensLeft ELSE 0

(* Mutant of When: the bucket does not count. *)
WhenUnlimited(k) == Larger(0, ItemDelay(k))

When(k) == Larger(Larger(0, ItemDelay(k)), BucketDelay)

------------------------------------------------------------------------------

(* Mutant of Insert: a later call replaces an earlier one. *)
InsertLatest(k, at) ==
    waiting' = {e \in waiting : e.key # k} \cup {[key |-> k, readyAt |-> at]}

(* insert: a key has one entry, the earliest one asked for. *)
Insert(k, at) ==
    waiting' = IF \E e \in waiting : e.key = k /\ e.readyAt <= at THEN waiting
               ELSE {e \in waiting : e.key # k} \cup {[key |-> k, readyAt |-> at]}

(* Typed.Add, with the history of it. *)
HandOver(k) ==
    /\ dirty' = dirty \cup {k}
    /\ hearBy' = [hearBy EXCEPT ![k] = Never]
    /\ handed' = [handed EXCEPT ![k] = now]
    /\ handovers' = [handovers EXCEPT ![k] = @ + 1]

(* rateLimitingType.AddRateLimited and AddAfter: at once if there is no delay. *)
Call(k) ==
    /\ failures[k] < MaxCalls
    /\ failures' = [failures EXCEPT ![k] = @ + 1]
    /\ tokens' = TokensLeft /\ last' = now
    /\ IF When(k) = 0
       THEN HandOver(k) /\ UNCHANGED waiting
       ELSE /\ Insert(k, now + When(k))
            /\ hearBy' = [hearBy EXCEPT ![k] =
                  IF @ # Never THEN @ ELSE now + Larger(maxDelay, BucketDelay)]
            /\ UNCHANGED <<dirty, handed, handovers>>
    /\ UNCHANGED now

(* A handler adds k, for a change or a resync. *)
AddRateLimited(k) == Call(k) /\ UNCHANGED processing

(* The waiting loop pops an entry whose time has come. *)
Ripen ==
    \E e \in waiting :
        /\ e.readyAt <= now
        /\ waiting' = waiting \ {e}
        /\ HandOver(e.key)
        /\ UNCHANGED <<now, limiterVars, processing>>

(* A worker takes k, and is done with it or puts it back. *)
Get(k) ==
    /\ k \in dirty \ processing
    /\ dirty' = dirty \ {k} /\ processing' = processing \cup {k}
    /\ UNCHANGED <<now, limiterVars, waiting, history>>

Forget(k) ==
    /\ k \in processing
    /\ failures' = [failures EXCEPT ![k] = 0]
    /\ processing' = processing \ {k}
    /\ UNCHANGED <<now, tokens, last, waiting, dirty, history>>

PutBack(k) ==
    /\ k \in processing
    /\ Call(k)
    /\ processing' = processing \ {k}

(* Time passes when no entry is due. *)
Tick ==
    /\ now < Horizon
    /\ \A e \in waiting : e.readyAt > now
    /\ now' = now + 1
    /\ UNCHANGED <<limiterVars, waiting, dirty, processing, history>>

Next ==
    \/ \E k \in Keys : AddRateLimited(k) \/ Get(k) \/ Forget(k) \/ PutBack(k)
    \/ Ripen \/ Tick

Spec == Init /\ [][Next]_vars

------------------------------------------------------------------------------

(* A change is heard in time: a key that handlers and failing syncs add again
   and again is handed to a worker within maxDelay of the first call not served
   yet, or when the bucket allows; later calls, whose delays are longer, never
   postpone it (insert, delaying_queue.go:345-360). *)
HeardInTime == \A k \in Keys : now <= hearBy[k] \/ hearBy[k] = Never

(* No key goes round in a hot loop: between two hand-overs of it there is at
   least baseDelay, also after so many failures that 2^failures overflows
   (default_rate_limiters.go:116-135). *)
NoHotLoop ==
    [][\A k \in Keys :
          handovers'[k] # handovers[k] => now >= handed[k] + baseDelay]_vars

Total(f) == FoldFunction(+, 0, f)

(* All keys together start no more syncs than the bucket has tokens for,
   although entries that are merged keep the earlier time. *)
RateBounded ==
    Total(handovers) * PerToken <= burst * PerToken + now
==============================================================================
