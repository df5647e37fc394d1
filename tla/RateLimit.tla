------------------------------ MODULE RateLimit ------------------------------
(***************************************************************************)
(* worker/services/rate-limit/DORateLimitStore.ts: the rate limit of one   *)
(* key, counted by a Durable Object in buckets of BucketSize, against      *)
(* several rolling windows (main, burst, daily).  Old buckets are removed  *)
(* now and then; the object may be evicted between two calls.              *)
(***************************************************************************)
EXTENDS Integers, Functions, FiniteSetsExt

CONSTANTS
  MaxTime,          \* the time runs from 0 to here (bound)
  Costs,            \* credits a request may cost
  Windows,          \* the limits in force: [limit, length]
  BucketSize,       \* config.bucketSize
  CleanupInterval   \* five minutes, in the unit of the clock

ASSUME RateLimitAssumption ==
  /\ MaxTime \in Nat
  /\ Costs \subseteq Nat
  /\ Windows \subseteq [limit : Nat, length : Nat]
  /\ \E longest \in Windows : \A w \in Windows : w.length <= longest.length
  /\ BucketSize \in Nat \ {0}
  /\ CleanupInterval \in Nat

VARIABLES
  now,          \* Date.now()
  buckets,      \* state.buckets, by the time at which they begin
  lastCleanup,  \* state.lastCleanup
  stored,       \* the storage has a state, equal to the one in memory
  answer,       \* RateLimitResult.success of the last call
  spent         \* history: the credits accepted at each time

vars == <<now, buckets, lastCleanup, stored, answer, spent>>

Times == 0..MaxTime

\* Math.floor(time / bucketSize) * bucketSize
BucketOf(time) == (time \div BucketSize) * BucketSize

Bucket == [count : Nat, timestamp : Times]

TypeOK ==
  /\ now \in Times
  /\ DOMAIN buckets \subseteq Int
  /\ \A b \in DOMAIN buckets : buckets[b] \in Bucket
  /\ lastCleanup \in Times
  /\ stored \in BOOLEAN
  /\ answer \in {"none", "accepted", "rejected"}
  /\ spent \in [Times -> Nat]

Init ==
  /\ now = 0
  /\ buckets = [b \in {} |-> 0]
  /\ lastCleanup = 0
  /\ stored = FALSE
  /\ answer = "none"
  /\ spent = [t \in Times |-> 0]

-------------------------------------------------------------------------------

\* getBucketsInWindow
BucketsInWindow(length) ==
  {b \in DOMAIN buckets : BucketOf(now - length) <= b /\ b <= now}

Longest == Max({w.length : w \in Windows})

\* Mutant: cleanup() goes by the time at which a bucket begins.
KeptByStart ==
  IF now - lastCleanup > CleanupInterval
  THEN {b \in DOMAIN buckets : b >= now - Longest}
  ELSE DOMAIN buckets

\* The buckets that cleanup() leaves when it is due.
Kept ==
  IF now - lastCleanup > CleanupInterval
  THEN {b \in DOMAIN buckets : buckets[b].timestamp >= now - Longest}
  ELSE DOMAIN buckets

\* lastCleanup moves only when cleanup() has deleted something.
CleanUp == lastCleanup' = IF Kept = DOMAIN buckets THEN lastCleanup ELSE now

Count(length) ==
  LET in == BucketsInWindow(length) \cap Kept
      count == [b \in in |-> buckets[b].count]
  IN FoldFunctionOnSet(+, 0, count, in)

Full == \E w \in Windows : Count(w.length) >= w.limit

\* increment() of a request that the limits allow.
Accept(cost) ==
  /\ ~Full
  /\ LET b == BucketOf(now)
         before == IF b \in Kept THEN buckets[b].count ELSE 0
     IN buckets' = [k \in Kept \cup {b} |->
          IF k = b THEN [count |-> before + cost, timestamp |-> now]
                   ELSE buckets[k]]
  /\ CleanUp
  /\ stored' = TRUE
  /\ answer' = "accepted"
  /\ spent' = [spent EXCEPT ![now] = @ + cost]
  /\ now' = now

\* increment() of a request that exceeds a limit.
Reject ==
  /\ Full
  /\ buckets' = Restrict(buckets, Kept)
  /\ CleanUp
  /\ answer' = "rejected"
  /\ UNCHANGED <<now, stored, spent>>

ResetLimit ==
  /\ buckets' = [b \in {} |-> 0]
  /\ stored' = TRUE
  /\ answer' = "none"
  /\ spent' = [t \in Times |-> 0]
  /\ UNCHANGED <<now, lastCleanup>>

\* A new instance loads what was stored, or begins with no bucket.
Restart ==
  /\ lastCleanup' = IF stored THEN lastCleanup ELSE now
  /\ UNCHANGED <<now, buckets, stored, answer, spent>>

Tick ==
  /\ now < MaxTime
  /\ now' = now + 1
  /\ answer' = "none"
  /\ UNCHANGED <<buckets, lastCleanup, stored, spent>>

Next ==
  \/ \E cost \in Costs : Accept(cost)
  \/ Reject \/ ResetLimit \/ Restart \/ Tick

Spec == Init /\ [][Next]_vars

-------------------------------------------------------------------------------
(* Properties *)

SlidingLimit == INSTANCE SlidingWindow WITH Slack <- BucketSize - 1

\* The bucketed count keeps the promise of a rolling window, whatever was
\* cleaned up or lost with the instance: no window accepts a request when its
\* credit is used up, and none refuses one for credits older than the window
\* and a bucket.
ImplementsSlidingWindow == SlidingLimit!WindowSpec

\* Credits that a window may still have to count are in a bucket, and cleanup()
\* sees that the bucket is that young.
CreditsKept ==
  \A t \in Times : spent[t] > 0 /\ now - Longest <= t =>
    /\ BucketOf(t) \in DOMAIN buckets
    /\ t <= buckets[BucketOf(t)].timestamp
===============================================================================
