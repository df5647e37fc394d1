--------------------------- MODULE RateLimitProofs ---------------------------
(* Theorems about RateLimit, for all limits, costs and sizes. *)
EXTENDS RateLimit, SumTheorems

-------------------------------------------------------------------------------
(* Arithmetic of windows and buckets *)

LEMMA LongestType == Longest \in Nat
  <1> DEFINE lengths == {w.length : w \in Windows}
  <1>1. PICK longest \in Windows : \A w \in Windows : w.length <= longest.length
    BY RateLimitAssumption
  <1>2. \A w \in Windows : w.length \in Nat
    BY RateLimitAssumption
  <1>3. /\ longest.length \in lengths
        /\ \A y \in lengths : longest.length >= y
    BY <1>1, <1>2
  <1>4. Longest \in lengths
    BY <1>3 DEF Longest, Max
  <1>5. QED
    BY <1>2, <1>4

\* No window is longer than the one cleanup() goes by.
LEMMA LongestIsLongest ==
  ASSUME NEW w \in Windows
  PROVE  w.length <= Longest
  <1> DEFINE lengths == {v.length : v \in Windows}
  <1>1. PICK longest \in Windows : \A v \in Windows : v.length <= longest.length
    BY RateLimitAssumption
  <1>2. \A v \in Windows : v.length \in Nat
    BY RateLimitAssumption
  <1>3. /\ longest.length \in lengths
        /\ \A y \in lengths : longest.length >= y
    BY <1>1, <1>2
  <1>4. \A y \in lengths : Longest >= y
    BY <1>3 DEF Longest, Max
  <1>5. QED
    BY <1>2, <1>4, LongestType

LEMMA BucketOfType ==
  ASSUME NEW time \in Int
  PROVE  BucketOf(time) \in Int
  BY RateLimitAssumption DEF BucketOf

-------------------------------------------------------------------------------
(* Types *)

LEMMA KeptFacts ==
  ASSUME TypeOK
  PROVE  /\ Kept \subseteq DOMAIN buckets
         /\ \A b \in DOMAIN buckets :
              buckets[b].timestamp >= now - Longest => b \in Kept
  BY DEF Kept

LEMMA AcceptType ==
  ASSUME TypeOK, NEW cost \in Costs, Accept(cost)
  PROVE  TypeOK'
  <1> DEFINE b == BucketOf(now)
             before == IF b \in Kept THEN buckets[b].count ELSE 0
             new == [count |-> before + cost, timestamp |-> now]
  <1>1. now \in Int /\ now \in Times /\ cost \in Nat
    BY RateLimitAssumption DEF TypeOK, Times
  <1>2. b \in Int
    BY <1>1, BucketOfType
  <1>3. before \in Nat
    BY KeptFacts DEF TypeOK, Bucket
  <1>4. new \in Bucket
    BY <1>1, <1>3 DEF Bucket
  <1>5. buckets' = [k \in Kept \cup {b} |-> IF k = b THEN new ELSE buckets[k]]
    BY DEF Accept
  <1> HIDE DEF b, new
  <1>6. /\ DOMAIN buckets' \subseteq Int
        /\ \A k \in DOMAIN buckets' : buckets'[k] \in Bucket
    BY <1>2, <1>4, <1>5, KeptFacts DEF TypeOK
  <1>7. spent' \in [Times -> Nat]
    BY <1>1 DEF Accept, TypeOK
  <1>8. lastCleanup' \in Times
    BY DEF Accept, CleanUp, TypeOK
  <1>9. QED
    BY <1>6, <1>7, <1>8 DEF Accept, TypeOK

LEMMA TypeStep ==
  ASSUME TypeOK, [Next]_vars
  PROVE  TypeOK'
  <1>1. CASE Reject
    <2>1. /\ DOMAIN buckets' = Kept
          /\ \A b \in Kept : buckets'[b] = buckets[b]
      BY <1>1 DEF Reject, Restrict
    <2>2. QED
      BY <1>1, <2>1, KeptFacts DEF Reject, CleanUp, TypeOK
  <1>2. CASE ResetLimit
    BY <1>2 DEF ResetLimit, TypeOK
  <1>3. CASE Restart
    BY <1>3 DEF Restart, TypeOK
  <1>4. CASE Tick
    BY <1>4, RateLimitAssumption DEF Tick, TypeOK, Times
  <1>5. CASE UNCHANGED vars
    BY <1>5 DEF vars, TypeOK
  <1>6. QED
    BY <1>1, <1>2, <1>3, <1>4, <1>5, AcceptType DEF Next

LEMMA TypeInit ==
  ASSUME Init
  PROVE  TypeOK
  <1>1. 0 \in Times
    BY RateLimitAssumption DEF Times
  <1>2. DOMAIN buckets = {}
    BY DEF Init
  <1>3. spent \in [Times -> Nat]
    BY DEF Init
  <1>4. QED
    BY <1>1, <1>2, <1>3 DEF Init, TypeOK

\* Type correctness.
THEOREM RateLimitTypeOK == Spec => []TypeOK
  BY TypeInit, TypeStep, PTL DEF Spec

-------------------------------------------------------------------------------
(* No credit is forgotten while a window may count it *)

\* Credits are spent in the past.
SpentBefore == \A t \in Times : spent[t] > 0 => t <= now

KeptInv == SpentBefore /\ CreditsKept

LEMMA AcceptKeeps ==
  ASSUME TypeOK, KeptInv, NEW cost \in Costs, Accept(cost)
  PROVE  KeptInv'
  <1>1. /\ now \in Int /\ now \in Times /\ now' = now /\ Longest \in Nat
        /\ \A t \in Times : t \in Int
    BY LongestType, RateLimitAssumption DEF TypeOK, Times, Accept
  <1>2. \A t \in Times : t # now => spent'[t] = spent[t]
    BY DEF Accept, TypeOK
  <1>3. SpentBefore'
    BY <1>1, <1>2 DEF KeptInv, SpentBefore
  <1>4. SUFFICES ASSUME NEW t \in Times, spent'[t] > 0, now - Longest <= t
                 PROVE  /\ BucketOf(t) \in DOMAIN buckets'
                        /\ t <= buckets'[BucketOf(t)].timestamp
    BY <1>1, <1>3 DEF KeptInv, CreditsKept
  <1>5. t <= now
    BY <1>1, <1>3, <1>4 DEF SpentBefore
  <1>6. CASE BucketOf(t) = BucketOf(now)
    <2>1. /\ BucketOf(t) \in DOMAIN buckets'
          /\ buckets'[BucketOf(t)].timestamp = now
      BY <1>6 DEF Accept
    <2>2. QED
      BY <1>5, <2>1
  <1>7. CASE BucketOf(t) # BucketOf(now)
    <2>1. t # now
      BY <1>7
    <2>2. /\ BucketOf(t) \in DOMAIN buckets
          /\ t <= buckets[BucketOf(t)].timestamp
      BY <1>2, <1>4, <2>1 DEF KeptInv, CreditsKept
    <2>3. buckets[BucketOf(t)].timestamp \in Int
      BY <1>1, <2>2 DEF TypeOK, Bucket
    <2>4. BucketOf(t) \in Kept
      BY <1>1, <1>4, <2>2, <2>3, KeptFacts
    <2>5. /\ BucketOf(t) \in DOMAIN buckets'
          /\ buckets'[BucketOf(t)] = buckets[BucketOf(t)]
      BY <1>7, <2>4 DEF Accept
    <2>6. QED
      BY <2>2, <2>5
  <1>8. QED
    BY <1>6, <1>7

LEMMA RejectKeeps ==
  ASSUME TypeOK, KeptInv, Reject
  PROVE  KeptInv'
  <1>1. /\ now \in Int /\ now' = now /\ spent' = spent /\ Longest \in Nat
        /\ \A t \in Times : t \in Int
    BY LongestType, RateLimitAssumption DEF TypeOK, Times, Reject
  <1>2. SUFFICES ASSUME NEW t \in Times, spent[t] > 0, now - Longest <= t
                 PROVE  /\ BucketOf(t) \in DOMAIN buckets'
                        /\ t <= buckets'[BucketOf(t)].timestamp
    BY <1>1 DEF KeptInv, CreditsKept, SpentBefore
  <1>3. /\ BucketOf(t) \in DOMAIN buckets
        /\ t <= buckets[BucketOf(t)].timestamp
    BY <1>2 DEF KeptInv, CreditsKept
  <1>4. buckets[BucketOf(t)].timestamp \in Int
    BY <1>1, <1>3 DEF TypeOK, Bucket
  <1>5. BucketOf(t) \in Kept
    BY <1>1, <1>2, <1>3, <1>4, KeptFacts
  <1>6. QED
    BY <1>3, <1>5 DEF Reject, Restrict

LEMMA TickKeeps ==
  ASSUME TypeOK, KeptInv, Tick
  PROVE  KeptInv'
  <1>1. /\ now \in Int /\ now' = now + 1 /\ Longest \in Nat
        /\ \A t \in Times : t \in Int
    BY LongestType, RateLimitAssumption DEF TypeOK, Times, Tick
  <1>2. \A t \in Times : now' - Longest <= t => now - Longest <= t
    BY <1>1
  <1>3. QED
    BY <1>1, <1>2 DEF Tick, KeptInv, SpentBefore, CreditsKept

LEMMA KeptStep ==
  ASSUME TypeOK, KeptInv, [Next]_vars
  PROVE  KeptInv'
  <1>1. CASE ResetLimit
    BY <1>1 DEF ResetLimit, KeptInv, SpentBefore, CreditsKept
  <1>2. CASE Restart \/ UNCHANGED vars
    BY <1>2 DEF Restart, vars, KeptInv, SpentBefore, CreditsKept
  <1>3. QED
    BY <1>1, <1>2, AcceptKeeps, RejectKeeps, TickKeeps DEF Next

\* Every accepted credit that a window may still have to count is in a bucket
\* that the next cleanup spares.
THEOREM RateLimitCreditsKept == Spec => []CreditsKept
  <1>1. Init => KeptInv
    BY DEF Init, KeptInv, SpentBefore, CreditsKept
  <1>2. TypeOK /\ KeptInv /\ [Next]_vars => KeptInv'
    BY KeptStep
  <1>3. KeptInv => CreditsKept
    BY DEF KeptInv
  <1>4. QED
    BY <1>1, <1>2, <1>3, RateLimitTypeOK, PTL DEF Spec

-------------------------------------------------------------------------------
(* The bucketed count keeps the promise of the rolling windows *)

\* A bucket begins at most BucketSize - 1 before the times it counts.
LEMMA BucketBounds ==
  ASSUME NEW t \in Int
  PROVE  BucketOf(t) <= t /\ t <= BucketOf(t) + (BucketSize - 1)
  <1>1. BucketSize \in Nat \ {0}
    BY RateLimitAssumption
  <1>2. QED
    BY <1>1 DEF BucketOf

LEMMA BucketOrder ==
  ASSUME NEW s \in Int, NEW t \in Int, s <= t
  PROVE  BucketOf(s) <= BucketOf(t)
  <1>1. BucketSize \in Nat \ {0}
    BY RateLimitAssumption
  <1>2. s \div BucketSize <= t \div BucketSize
    BY <1>1
  <1>3. QED
    BY <1>1, <1>2 DEF BucketOf

\* The times whose credits a bucket counts, and those that a window which ends
\* now and has this length counts.
Filled(b) == {t \in Times : BucketOf(t) = b}

Since(length) == {t \in Times : now - length <= t}

LEMMA FiniteTimes == ASSUME NEW T \in SUBSET Times PROVE IsFiniteSet(T)
  <1>1. IsFiniteSet(Times)
    BY RateLimitAssumption, FS_Interval DEF Times
  <1>2. QED
    BY <1>1, FS_Subset

\* A bucket counts no credit that was not spent in it, and every one that a
\* window may still have to count.
CountsTrue ==
  \A b \in DOMAIN buckets :
    /\ buckets[b].count <= SumFunctionOnSet(spent, Filled(b))
    /\ SumFunctionOnSet(spent, Filled(b) \cap Since(Longest)) <= buckets[b].count

\* What both counts have to do with sums.
LEMMA SpentIsSum ==
  ASSUME NEW length
  PROVE  SlidingLimit!Spent(length) = SumFunctionOnSet(spent, Since(length))
  BY DEF SlidingLimit!Spent, SlidingLimit!Times, Times, Since, SumFunctionOnSet,
         FoldFunctionOnSet, MapThenFoldSet,
         SlidingLimit!FoldFunctionOnSet, SlidingLimit!MapThenFoldSet

Counted(length) == BucketsInWindow(length) \cap Kept

LEMMA CountIsSum ==
  ASSUME NEW length
  PROVE  Count(length) =
           SumFunctionOnSet([b \in Counted(length) |-> buckets[b].count],
                            Counted(length))
  BY DEF Count, Counted, SumFunctionOnSet

LEMMA CountedFinite ==
  ASSUME TypeOK, NEW length \in Nat
  PROVE  IsFiniteSet(Counted(length))
  <1>1. now \in Int
    BY DEF TypeOK, Times
  <1>2. BucketOf(now - length) \in Int
    BY <1>1, BucketOfType
  <1>3. Counted(length) \subseteq BucketOf(now - length) .. now
    BY <1>1, <1>2 DEF Counted, BucketsInWindow, TypeOK
  <1>4. QED
    BY <1>1, <1>2, <1>3, FS_Interval, FS_Subset

LEMMA SpentType ==
  ASSUME TypeOK, NEW length
  PROVE  SlidingLimit!Spent(length) \in Nat
  <1>1. IsFiniteSet(Since(length)) /\ \A t \in Since(length) : spent[t] \in Nat
    BY FiniteTimes DEF Since, TypeOK
  <1>2. QED
    BY <1>1, SumType, SpentIsSum

LEMMA CountType ==
  ASSUME TypeOK, NEW w \in Windows
  PROVE  Count(w.length) \in Nat
  <1> DEFINE B == Counted(w.length)
             count == [b \in B |-> buckets[b].count]
  <1>1. w.length \in Nat
    BY RateLimitAssumption
  <1>2. IsFiniteSet(B) /\ B \subseteq DOMAIN buckets
    BY <1>1, CountedFinite DEF Counted, BucketsInWindow
  <1>3. \A b \in B : count[b] \in Nat
    BY <1>2 DEF TypeOK, Bucket
  <1> HIDE DEF B, count
  <1>4. SumFunctionOnSet(count, B) \in Nat
    BY <1>2, <1>3, SumType
  <1>5. QED
    BY <1>4, CountIsSum DEF B, count

\* A window counts at least what was spent in it.
LEMMA CountCovers ==
  ASSUME TypeOK, KeptInv, CountsTrue, NEW w \in Windows
  PROVE  SlidingLimit!Spent(w.length) <= Count(w.length)
  <1> DEFINE B == Counted(w.length)
             young == Since(Longest)
             h == [t \in Times |-> BucketOf(t)]
             count == [b \in B |-> buckets[b].count]
             part == [b \in B |-> SumFunctionOnSet(spent, Fiber(h, young, b))]
             over == {t \in young : h[t] \in B}
  <1>1. /\ now \in Int /\ w.length \in Nat /\ Longest \in Nat
        /\ \A t \in Times : t \in Int
        /\ \A t \in Times : spent[t] \in Nat
    BY LongestType, RateLimitAssumption DEF TypeOK, Times
  <1>2. w.length <= Longest
    BY LongestIsLongest
  <1>3. IsFiniteSet(B) /\ B \subseteq DOMAIN buckets
    BY <1>1, CountedFinite DEF Counted, BucketsInWindow
  <1>4. \A b \in B : Fiber(h, young, b) = Filled(b) \cap young
    BY DEF Fiber, Filled, Since
  <1>5. /\ IsFiniteSet(young) /\ IsFiniteSet(over) /\ IsFiniteSet(Since(w.length))
        /\ \A b \in B : IsFiniteSet(Fiber(h, young, b))
    BY FiniteTimes DEF Since, Fiber
  <1>6. \A b \in B : part[b] \in Nat /\ part[b] <= count[b] /\ count[b] \in Nat
    <2>1. TAKE b \in B
    <2>2. part[b] = SumFunctionOnSet(spent, Filled(b) \cap young)
      BY <1>4
    <2>3. part[b] \in Nat
      BY <1>1, <1>5, SumType DEF Fiber, Since
    <2>4. count[b] = buckets[b].count /\ b \in DOMAIN buckets
      BY <1>3
    <2>5. count[b] \in Nat
      BY <2>4 DEF TypeOK, Bucket
    <2> HIDE DEF part, count
    <2>6. QED
      BY <2>2, <2>3, <2>4, <2>5 DEF CountsTrue
  <1>7. SumFunctionOnSet(part, B) <= SumFunctionOnSet(count, B)
    <2> HIDE DEF part, count, B
    <2>1. QED
      BY <1>3, <1>6, SumMonotone
  <1>8. SumFunctionOnSet(part, B) = SumFunctionOnSet(spent, over)
    <2>1. \A t \in young : spent[t] \in Nat
      BY <1>1 DEF Since
    <2> HIDE DEF young, h, B
    <2>2. QED
      BY <1>3, <1>5, <2>1, SumByParts
  <1>9. ASSUME NEW t \in Since(w.length), spent[t] > 0
        PROVE  t \in over
    <2>1. /\ t \in Times /\ t \in Int /\ now - w.length <= t /\ t <= now
      BY <1>1, <1>9 DEF Since, KeptInv, SpentBefore
    <2>2. now - Longest <= t
      BY <1>1, <1>2, <2>1
    <2>3. /\ BucketOf(t) \in DOMAIN buckets
          /\ t <= buckets[BucketOf(t)].timestamp
      BY <1>9, <2>1, <2>2 DEF KeptInv, CreditsKept
    <2>4. buckets[BucketOf(t)].timestamp \in Int
      BY <1>1, <2>3 DEF TypeOK, Bucket
    <2>5. BucketOf(t) \in Kept
      BY <1>1, <2>1, <2>2, <2>3, <2>4, KeptFacts
    <2>6. BucketOf(now - w.length) <= BucketOf(t) /\ BucketOf(t) <= now
      BY <1>1, <2>1, BucketOrder, BucketBounds, BucketOfType
    <2>7. BucketOf(t) \in B
      BY <2>3, <2>5, <2>6 DEF Counted, BucketsInWindow
    <2>8. QED
      BY <2>1, <2>2, <2>7 DEF Since
  <1>10. SumFunctionOnSet(spent, Since(w.length)) <= SumFunctionOnSet(spent, over)
    <2>1. /\ \A t \in Since(w.length) : spent[t] \in Nat
          /\ \A t \in over : spent[t] \in Nat
      BY <1>1 DEF Since
    <2> HIDE DEF over
    <2>2. \A t \in Since(w.length) : spent[t] > 0 => t \in over /\ spent[t] <= spent[t]
      BY <1>9, <2>1
    <2>3. QED
      BY <1>5, <2>1, <2>2, SumMonotone
  <1>11. /\ SumFunctionOnSet(spent, Since(w.length)) \in Nat
         /\ SumFunctionOnSet(spent, over) \in Nat
         /\ SumFunctionOnSet(count, B) \in Nat
    <2>1. /\ \A t \in Since(w.length) : spent[t] \in Nat
          /\ \A t \in over : spent[t] \in Nat
      BY <1>1 DEF Since
    <2> HIDE DEF over, count, B
    <2>2. QED
      BY <1>3, <1>5, <1>6, <2>1, SumType
  <1>12. Count(w.length) = SumFunctionOnSet(count, B)
    BY CountIsSum
  <1>13. SlidingLimit!Spent(w.length) = SumFunctionOnSet(spent, Since(w.length))
    BY SpentIsSum
  <1> HIDE DEF over, count, part, B
  <1>14. QED
    BY <1>7, <1>8, <1>10, <1>11, <1>12, <1>13

\* A window counts at most what was spent in it and in a bucket before it.
LEMMA CountBounded ==
  ASSUME TypeOK, CountsTrue, NEW w \in Windows
  PROVE  Count(w.length) <= SlidingLimit!Spent(w.length + (BucketSize - 1))
  <1> DEFINE B == Counted(w.length)
             h == [t \in Times |-> BucketOf(t)]
             count == [b \in B |-> buckets[b].count]
             part == [b \in B |-> SumFunctionOnSet(spent, Fiber(h, Times, b))]
             over == {t \in Times : h[t] \in B}
             seen == Since(w.length + (BucketSize - 1))
  <1>1. /\ now \in Int /\ w.length \in Nat /\ BucketSize \in Nat \ {0}
        /\ \A t \in Times : t \in Int
        /\ \A t \in Times : spent[t] \in Nat
    BY RateLimitAssumption DEF TypeOK, Times
  <1>2. IsFiniteSet(B) /\ B \subseteq DOMAIN buckets
    BY <1>1, CountedFinite DEF Counted, BucketsInWindow
  <1>3. \A b \in B : Fiber(h, Times, b) = Filled(b)
    BY DEF Fiber, Filled
  <1>4. /\ IsFiniteSet(Times) /\ IsFiniteSet(over) /\ IsFiniteSet(seen)
        /\ \A b \in B : IsFiniteSet(Fiber(h, Times, b))
    BY FiniteTimes DEF Since, Fiber
  <1>5. \A b \in B : part[b] \in Nat /\ count[b] <= part[b] /\ count[b] \in Nat
    <2>1. TAKE b \in B
    <2>2. part[b] = SumFunctionOnSet(spent, Filled(b))
      BY <1>3
    <2>3. part[b] \in Nat
      BY <1>1, <1>4, SumType DEF Fiber
    <2>4. count[b] = buckets[b].count /\ b \in DOMAIN buckets
      BY <1>2
    <2>5. count[b] \in Nat
      BY <2>4 DEF TypeOK, Bucket
    <2> HIDE DEF part, count
    <2>6. QED
      BY <2>2, <2>3, <2>4, <2>5 DEF CountsTrue
  <1>6. SumFunctionOnSet(count, B) <= SumFunctionOnSet(part, B)
    <2> HIDE DEF part, count, B
    <2>1. QED
      BY <1>2, <1>5, SumMonotone
  <1>7. SumFunctionOnSet(part, B) = SumFunctionOnSet(spent, over)
    <2> HIDE DEF h, B
    <2>1. QED
      BY <1>1, <1>2, <1>4, SumByParts
  <1>8. ASSUME NEW t \in over
        PROVE  t \in seen
    <2>1. /\ t \in Times /\ t \in Int /\ now - w.length \in Int
          /\ BucketOf(now - w.length) <= BucketOf(t)
      BY <1>1 DEF Counted, BucketsInWindow
    <2>2. /\ BucketOf(t) <= t
          /\ now - w.length <= BucketOf(now - w.length) + (BucketSize - 1)
          /\ BucketOf(t) \in Int /\ BucketOf(now - w.length) \in Int
      BY <2>1, BucketBounds, BucketOfType
    <2>3. now - (w.length + (BucketSize - 1)) <= t
      BY <1>1, <2>1, <2>2
    <2>4. QED
      BY <2>1, <2>3 DEF Since
  <1>9. SumFunctionOnSet(spent, over) <= SumFunctionOnSet(spent, seen)
    <2>1. /\ \A t \in seen : spent[t] \in Nat
          /\ \A t \in over : spent[t] \in Nat
      BY <1>1 DEF Since
    <2> HIDE DEF over, seen
    <2>2. \A t \in over : spent[t] > 0 => t \in seen /\ spent[t] <= spent[t]
      BY <1>8, <2>1
    <2>3. QED
      BY <1>4, <2>1, <2>2, SumMonotone
  <1>10. /\ SumFunctionOnSet(spent, seen) \in Nat
         /\ SumFunctionOnSet(spent, over) \in Nat
         /\ SumFunctionOnSet(count, B) \in Nat
    <2>1. /\ \A t \in seen : spent[t] \in Nat
          /\ \A t \in over : spent[t] \in Nat
      BY <1>1 DEF Since
    <2> HIDE DEF over, count, B, seen
    <2>2. QED
      BY <1>2, <1>4, <1>5, <2>1, SumType
  <1>11. Count(w.length) = SumFunctionOnSet(count, B)
    BY CountIsSum
  <1>12. SlidingLimit!Spent(w.length + (BucketSize - 1)) = SumFunctionOnSet(spent, seen)
    BY SpentIsSum
  <1> HIDE DEF over, count, part, B, seen
  <1>13. QED
    BY <1>6, <1>7, <1>9, <1>10, <1>11, <1>12

-------------------------------------------------------------------------------
(* The counts stay true *)

LEMMA AcceptCounts ==
  ASSUME TypeOK, KeptInv, CountsTrue, NEW cost \in Costs, Accept(cost)
  PROVE  CountsTrue'
  <1> DEFINE here == BucketOf(now)
             before == IF here \in Kept THEN buckets[here].count ELSE 0
             Young(b) == Filled(b) \cap Since(Longest)
  <1>1. /\ now \in Int /\ now \in Times /\ now' = now /\ Longest \in Nat
        /\ cost \in Nat
        /\ \A t \in Times : t \in Int /\ spent[t] \in Nat
    BY LongestType, RateLimitAssumption DEF TypeOK, Times, Accept
  <1>2. /\ spent' = [spent EXCEPT ![now] = @ + cost]
        /\ spent'[now] = spent[now] + cost
        /\ \A t \in Times \ {now} : spent'[t] = spent[t]
    BY <1>1 DEF Accept, TypeOK
  <1>3. \A b : Young(b)' = Young(b) /\ Filled(b)' = Filled(b)
    BY <1>1 DEF Filled, Since, Longest, Times, BucketOf
  <1>4. \A b : IsFiniteSet(Young(b)) /\ IsFiniteSet(Filled(b))
    BY FiniteTimes DEF Filled, Since
  <1>5. \A b : Young(b) \subseteq Times /\ Filled(b) \subseteq Times
    BY DEF Filled, Since
  <1>6. now \in Filled(here) /\ now \in Young(here)
    BY <1>1 DEF Filled, Since
  <1>7. \A b : b # here => now \notin Filled(b) /\ now \notin Young(b)
    BY DEF Filled
  <1>8. \A b : /\ SumFunctionOnSet(spent, Filled(b)) \in Nat
               /\ SumFunctionOnSet(spent, Young(b)) \in Nat
    <2> HIDE DEF Young
    <2>1. QED
      BY <1>1, <1>4, <1>5, SumType
  <1>9. /\ DOMAIN buckets' = Kept \cup {here}
        /\ buckets'[here].count = before + cost
        /\ \A b \in Kept \ {here} : buckets'[b] = buckets[b]
    BY DEF Accept
  <1> HIDE DEF Young
  <1>10. ASSUME NEW b \in DOMAIN buckets', b # here
         PROVE  /\ buckets'[b].count <= SumFunctionOnSet(spent', Filled(b))
                /\ SumFunctionOnSet(spent', Young(b)) <= buckets'[b].count
    <2>1. b \in DOMAIN buckets /\ buckets'[b] = buckets[b]
      BY <1>9, <1>10, KeptFacts
    <2>2. /\ \A t \in Filled(b) : spent[t] \in Nat /\ spent'[t] = spent[t]
          /\ \A t \in Young(b) : spent[t] \in Nat /\ spent'[t] = spent[t]
      BY <1>1, <1>2, <1>5, <1>7, <1>10
    <2>3. /\ SumFunctionOnSet(spent', Filled(b)) = SumFunctionOnSet(spent, Filled(b))
          /\ SumFunctionOnSet(spent', Young(b)) = SumFunctionOnSet(spent, Young(b))
      BY <1>4, <2>2, SumSame
    <2>4. QED
      BY <2>1, <2>3 DEF CountsTrue, Young
  <1>11. /\ before <= SumFunctionOnSet(spent, Filled(here))
         /\ SumFunctionOnSet(spent, Young(here)) <= before
         /\ before \in Nat
    <2>1. CASE here \in Kept
      <3>1. here \in DOMAIN buckets /\ before = buckets[here].count
        BY <2>1, KeptFacts
      <3> HIDE DEF here, before
      <3>2. QED
        BY <3>1 DEF CountsTrue, Young, TypeOK, Bucket
    <2>2. CASE here \notin Kept
      <3>1. before = 0
        BY <2>2
      <3>2. ASSUME NEW t \in Young(here), spent[t] > 0
            PROVE  FALSE
        <4>1. t \in Times /\ BucketOf(t) = here /\ now - Longest <= t
          BY <3>2 DEF Young, Filled, Since
        <4>2. here \in DOMAIN buckets /\ t <= buckets[here].timestamp
          BY <3>2, <4>1 DEF KeptInv, CreditsKept
        <4>3. buckets[here].timestamp \in Int /\ t \in Int
          BY <1>1, <4>1, <4>2 DEF TypeOK, Bucket
        <4> HIDE DEF here
        <4>4. here \in Kept
          BY <1>1, <4>1, <4>2, <4>3, KeptFacts
        <4>5. QED
          BY <2>2, <4>4
      <3>3. SumFunctionOnSet(spent, Young(here)) <= SumFunctionOnSet(spent, {})
        <4>1. \A t \in Young(here) : spent[t] \in Nat
          BY <1>1, <1>5
        <4> HIDE DEF here
        <4>2. IsFiniteSet({})
          BY FS_EmptySet
        <4>3. QED
          BY <1>4, <3>2, <4>1, <4>2, SumMonotone
      <3> HIDE DEF before
      <3>4. QED
        BY <1>8, <3>1, <3>3, SumEmpty
    <2>3. QED
      BY <2>1, <2>2
  <1>12. /\ SumFunctionOnSet(spent', Filled(here))
              = SumFunctionOnSet(spent, Filled(here)) + cost
         /\ SumFunctionOnSet(spent', Young(here))
              = SumFunctionOnSet(spent, Young(here)) + cost
    <2> HIDE DEF here
    <2>1. cost \in Nat /\ spent'[now] = spent[now] + cost
      BY <1>1, <1>2
    <2>2. ASSUME NEW T, T \subseteq Times, IsFiniteSet(T), now \in T
          PROVE  SumFunctionOnSet(spent', T) = SumFunctionOnSet(spent, T) + cost
      <3>1. \A t \in T : spent[t] \in Nat
        BY <1>1, <2>2
      <3>2. \A t \in T \ {now} : spent'[t] = spent[t]
        BY <1>2, <2>2
      <3>3. QED
        BY <2>1, <2>2, <3>1, <3>2, SumAdd
    <2>3. QED
      BY <1>4, <1>5, <1>6, <2>2
  <1> HIDE DEF here, before
  <1>13. /\ buckets'[here].count <= SumFunctionOnSet(spent', Filled(here))
         /\ SumFunctionOnSet(spent', Young(here)) <= buckets'[here].count
    BY <1>1, <1>8, <1>9, <1>11, <1>12
  <1>14. \A b \in DOMAIN buckets' :
           /\ buckets'[b].count <= SumFunctionOnSet(spent', Filled(b))
           /\ SumFunctionOnSet(spent', Young(b)) <= buckets'[b].count
    BY <1>10, <1>13
  <1>15. QED
    BY <1>3, <1>14 DEF CountsTrue, Young

\* The clock moves on: the windows have less to count.
LEMMA TickCounts ==
  ASSUME TypeOK, CountsTrue, Tick
  PROVE  CountsTrue'
  <1>1. /\ now \in Int /\ now' = now + 1 /\ Longest \in Nat
        /\ \A t \in Times : t \in Int /\ spent[t] \in Nat
        /\ buckets' = buckets /\ spent' = spent
    BY LongestType, RateLimitAssumption DEF TypeOK, Times, Tick
  <1>2. SUFFICES ASSUME NEW b \in DOMAIN buckets
                 PROVE  SumFunctionOnSet(spent, Filled(b) \cap Since(Longest)')
                          <= buckets[b].count
    BY <1>1 DEF CountsTrue, Filled, Times, BucketOf, Longest
  <1> DEFINE young == Filled(b) \cap Since(Longest)
             left == Filled(b) \cap Since(Longest)'
  <1>3. left \subseteq young /\ young \subseteq Times
    BY <1>1 DEF Since, Filled
  <1>4. IsFiniteSet(left) /\ IsFiniteSet(young)
    BY <1>3, FiniteTimes
  <1> HIDE DEF left, young
  <1>5. /\ \A t \in left : spent[t] \in Nat /\ t \in young
        /\ \A t \in young : spent[t] \in Nat
    BY <1>1, <1>3
  <1>6. SumFunctionOnSet(spent, left) <= SumFunctionOnSet(spent, young)
    <2>1. \A t \in left : spent[t] > 0 => t \in young /\ spent[t] <= spent[t]
      BY <1>5
    <2>2. QED
      BY <1>4, <1>5, <2>1, SumMonotone
  <1>7. SumFunctionOnSet(spent, left) \in Nat /\ SumFunctionOnSet(spent, young) \in Nat
    BY <1>4, <1>5, SumType
  <1>8. SumFunctionOnSet(spent, young) <= buckets[b].count /\ buckets[b].count \in Nat
    BY DEF CountsTrue, young, TypeOK, Bucket
  <1>9. SumFunctionOnSet(spent, left) <= buckets[b].count
    BY <1>6, <1>7, <1>8
  <1>10. QED
    BY <1>9 DEF left

LEMMA CountsStep ==
  ASSUME TypeOK, KeptInv, CountsTrue, [Next]_vars
  PROVE  CountsTrue'
  <1> USE DEF CountsTrue, Filled, Since, Times, BucketOf, Longest
  <1>1. CASE Reject
    <2>1. /\ DOMAIN buckets' \subseteq DOMAIN buckets
          /\ \A b \in DOMAIN buckets' : buckets'[b] = buckets[b]
      BY <1>1, KeptFacts DEF Reject, Restrict
    <2>2. now' = now /\ spent' = spent
      BY <1>1 DEF Reject
    <2>3. QED
      BY <2>1, <2>2
  <1>2. CASE ResetLimit
    BY <1>2 DEF ResetLimit
  <1>3. CASE Restart \/ UNCHANGED vars
    BY <1>3 DEF Restart, vars
  <1>4. QED
    BY <1>1, <1>2, <1>3, AcceptCounts, TickCounts DEF Next

LEMMA CountsInvariant == Spec => [](KeptInv /\ CountsTrue)
  <1>1. Init => KeptInv /\ CountsTrue
    BY DEF Init, KeptInv, SpentBefore, CreditsKept, CountsTrue
  <1>2. TypeOK /\ KeptInv /\ CountsTrue /\ [Next]_vars => (KeptInv /\ CountsTrue)'
    BY CountsStep, KeptStep
  <1>3. QED
    BY <1>1, <1>2, RateLimitTypeOK, PTL DEF Spec

-------------------------------------------------------------------------------
(* The refinement *)

\* A request that every window's count lets through, every rolling window does.
LEMMA AcceptAdmits ==
  ASSUME TypeOK, KeptInv, CountsTrue, NEW cost \in Costs, Accept(cost)
  PROVE  SlidingLimit!Admit(cost)
  <1>1. ASSUME NEW w \in Windows
        PROVE  SlidingLimit!Spent(w.length) < w.limit
    <2>1. Count(w.length) < w.limit
      <3>1. ~(Count(w.length) >= w.limit)
        BY DEF Accept, Full
      <3>2. Count(w.length) \in Nat /\ w.limit \in Nat
        BY CountType, RateLimitAssumption
      <3>3. QED
        BY <3>1, <3>2
    <2>2. SlidingLimit!Spent(w.length) <= Count(w.length)
      BY CountCovers
    <2>3. /\ SlidingLimit!Spent(w.length) \in Nat
          /\ Count(w.length) \in Nat /\ w.limit \in Nat
      BY CountType, SpentType, RateLimitAssumption
    <2>4. QED
      BY <2>1, <2>2, <2>3
  <1>2. QED
    BY <1>1 DEF Accept, SlidingLimit!Admit

\* A request that some count stops, a rolling window stops that is seen a bucket
\* longer.
LEMMA RejectRefuses ==
  ASSUME TypeOK, CountsTrue, Reject
  PROVE  SlidingLimit!Refuse
  <1>1. PICK w \in Windows : Count(w.length) >= w.limit
    BY DEF Reject, Full
  <1>2. Count(w.length) <= SlidingLimit!Spent(w.length + (BucketSize - 1))
    BY CountBounded
  <1>3. /\ SlidingLimit!Spent(w.length + (BucketSize - 1)) \in Nat
        /\ Count(w.length) \in Nat /\ w.limit \in Nat
    BY CountType, SpentType, RateLimitAssumption
  <1>4. SlidingLimit!Spent(w.length + (BucketSize - 1)) >= w.limit
    BY <1>1, <1>2, <1>3
  <1>5. QED
    BY <1>4 DEF Reject, SlidingLimit!Refuse

\* The store implements the rolling windows, for any limits, sizes and costs:
\* accepting is never too generous, and refusing too strict by a bucket at most,
\* through cleanups, resets and evictions.
THEOREM RateLimitImplementsWindow == Spec => ImplementsSlidingWindow
  <1>1. Init => SlidingLimit!WindowInit
    BY DEF Init, SlidingLimit!WindowInit, Times, SlidingLimit!Times
  <1>2. TypeOK /\ KeptInv /\ CountsTrue /\ [Next]_vars
          => [SlidingLimit!WindowNext]_<<now, spent, answer>>
    <2> SUFFICES ASSUME TypeOK, KeptInv, CountsTrue, [Next]_vars
                 PROVE  [SlidingLimit!WindowNext]_<<now, spent, answer>>
      OBVIOUS
    <2> USE DEF SlidingLimit!WindowNext
    <2>1. CASE \E cost \in Costs : Accept(cost)
      BY <2>1, AcceptAdmits
    <2>2. CASE Reject
      BY <2>2, RejectRefuses
    <2>3. CASE ResetLimit
      BY <2>3 DEF ResetLimit, SlidingLimit!Forget, Times, SlidingLimit!Times
    <2>4. CASE Tick
      BY <2>4 DEF Tick, SlidingLimit!Tick
    <2>5. CASE Restart \/ UNCHANGED vars
      BY <2>5 DEF Restart, vars
    <2>6. QED
      BY <2>1, <2>2, <2>3, <2>4, <2>5 DEF Next
  <1>3. QED
    BY <1>1, <1>2, RateLimitTypeOK, CountsInvariant, PTL
    DEF Spec, ImplementsSlidingWindow, SlidingLimit!WindowSpec

-------------------------------------------------------------------------------
(* What a window may have spent *)

\* A window that has accepted anything has spent less than its limit and one
\* request of the dearest sort.
NeverOverspent(most) ==
  \A w \in Windows : LET all == SumFunctionOnSet(spent, Since(w.length))
                     IN  all = 0 \/ all < w.limit + most

\* Only an accepted request adds to what a window has spent, and it was admitted
\* while less than the limit was spent.
LEMMA OverspentStep ==
  ASSUME TypeOK, KeptInv, CountsTrue, NEW most \in Nat, \A cost \in Costs : cost <= most,
         NeverOverspent(most), [Next]_vars
  PROVE  NeverOverspent(most)'
  <1> SUFFICES ASSUME NEW w \in Windows
               PROVE  LET all == SumFunctionOnSet(spent', Since(w.length)')
                      IN  all = 0 \/ all < w.limit + most
    BY DEF NeverOverspent
  <1> DEFINE old == Since(w.length)
             new == Since(w.length)'
  <1>1. /\ now \in Times /\ w.limit \in Nat /\ w.length \in Nat
        /\ \A t \in Times : t \in Int /\ spent[t] \in Nat
        /\ old \subseteq Times
    BY RateLimitAssumption DEF TypeOK, Times, Since
  <1>2. IsFiniteSet(old) /\ \A t \in old : spent[t] \in Nat
    BY <1>1, FiniteTimes
  <1>3. SumFunctionOnSet(spent, old) \in Nat
    BY <1>2, SumType
  <1>4. SumFunctionOnSet(spent, old) = 0 \/ SumFunctionOnSet(spent, old) < w.limit + most
    BY DEF NeverOverspent
  <1>5. ASSUME UNCHANGED <<now, spent>>
        PROVE  SumFunctionOnSet(spent', new) = SumFunctionOnSet(spent, old)
    BY <1>5 DEF Since, Times
  <1>6. CASE \E cost \in Costs : Accept(cost)
    <2> PICK cost \in Costs : Accept(cost)
      BY <1>6
    <2>1. /\ now' = now /\ spent' = [spent EXCEPT ![now] = @ + cost]
          /\ cost \in Nat /\ cost <= most
      BY RateLimitAssumption DEF Accept
    <2>2. SumFunctionOnSet(spent, old) < w.limit
      BY AcceptAdmits, SpentIsSum DEF SlidingLimit!Admit
    <2>3. new = old /\ now \in old
      BY <1>1, <2>1 DEF Since, Times
    <2>4. SumFunctionOnSet(spent', old) = SumFunctionOnSet(spent, old) + cost
      <3> DEFINE g == spent'
      <3> HIDE DEF old
      <3>1. g[now] = spent[now] + cost /\ \A t \in old \ {now} : g[t] = spent[t]
        BY <1>1, <2>1 DEF TypeOK
      <3>2. now \in old /\ cost \in Nat
        BY <2>1, <2>3
      <3> HIDE DEF g
      <3>3. SumFunctionOnSet(g, old) = SumFunctionOnSet(spent, old) + cost
        BY <1>2, <3>1, <3>2, SumAdd
      <3>4. QED
        BY <3>3 DEF g
    <2> HIDE DEF old, new
    <2>5. SumFunctionOnSet(spent', new) < w.limit + most
      BY <1>1, <1>3, <2>1, <2>2, <2>3, <2>4
    <2>6. QED
      BY <2>5 DEF new
  <1>7. CASE Tick
    <2>1. new \subseteq old /\ spent' = spent
      BY <1>1, <1>7 DEF Tick, Since, Times
    <2> HIDE DEF old, new
    <2>2. IsFiniteSet(new) /\ \A t \in new : spent[t] \in Nat
      BY <1>2, <2>1, FS_Subset
    <2>3. \A t \in new : spent[t] > 0 => t \in old /\ spent[t] <= spent[t]
      BY <2>1, <2>2
    <2>4. SumFunctionOnSet(spent, new) <= SumFunctionOnSet(spent, old)
      BY <1>2, <2>2, <2>3, SumMonotone
    <2>5. SumFunctionOnSet(spent, new) \in Nat
      BY <2>2, SumType
    <2>6. SumFunctionOnSet(spent', new) = 0 \/ SumFunctionOnSet(spent', new) < w.limit + most
      BY <1>1, <1>3, <1>4, <2>1, <2>4, <2>5
    <2>7. QED
      BY <2>6 DEF new
  <1>8. CASE ResetLimit
    <2>1. now' = now /\ spent' = [t \in Times |-> 0]
      BY <1>8 DEF ResetLimit
    <2>2. \A t \in old : spent'[t] = 0
      BY <1>1, <2>1
    <2>3. new = old
      BY <2>1 DEF Since, Times
    <2> HIDE DEF old, new
    <2>4. \A t \in old : spent'[t] \in Nat /\ ~(spent'[t] > 0)
      BY <2>2
    <2>5. SumFunctionOnSet(spent', old) <= SumFunctionOnSet(spent', {})
      <3>1. IsFiniteSet({}) /\ \A t \in {} : spent'[t] \in Nat
        BY FS_EmptySet
      <3>2. QED
        BY <1>2, <2>4, <3>1, SumMonotone
    <2>6. SumFunctionOnSet(spent', old) \in Nat
      BY <1>2, <2>4, SumType
    <2>7. SumFunctionOnSet(spent', old) = 0
      BY <2>5, <2>6, SumEmpty
    <2>8. QED
      BY <2>3, <2>7 DEF new
  <1>9. CASE Reject \/ Restart \/ UNCHANGED vars
    BY <1>4, <1>5, <1>9 DEF Reject, Restart, vars
  <1>10. QED
    BY <1>6, <1>7, <1>8, <1>9 DEF Next

\* No window, at any time, has accepted more than its limit and the cost of one
\* request above it.
THEOREM RateLimitNeverOverspends ==
  ASSUME NEW most \in Nat, \A cost \in Costs : cost <= most
  PROVE  Spec => []NeverOverspent(most)
  <1>1. Init => NeverOverspent(most)
    <2> SUFFICES ASSUME Init, NEW w \in Windows
                 PROVE  SumFunctionOnSet(spent, Since(w.length)) = 0
      BY DEF NeverOverspent
    <2>1. TypeOK
      BY TypeInit
    <2>2. Since(w.length) \subseteq Times /\ \A t \in Times : spent[t] = 0
      BY DEF Since, Init
    <2> DEFINE T == Since(w.length)
    <2> HIDE DEF T
    <2>3. IsFiniteSet(T) /\ \A t \in T : spent[t] \in Nat /\ ~(spent[t] > 0)
      BY <2>2, FiniteTimes DEF T
    <2>4. SumFunctionOnSet(spent, T) <= SumFunctionOnSet(spent, {})
      <3>1. IsFiniteSet({}) /\ \A t \in {} : spent[t] \in Nat
        BY FS_EmptySet
      <3>2. QED
        BY <2>3, <3>1, SumMonotone
    <2>5. SumFunctionOnSet(spent, T) \in Nat
      BY <2>3, SumType
    <2>6. QED
      BY <2>4, <2>5, SumEmpty DEF T
  <1>2. TypeOK /\ KeptInv /\ CountsTrue /\ NeverOverspent(most) /\ [Next]_vars
          => NeverOverspent(most)'
    BY OverspentStep
  <1>3. QED
    BY <1>1, <1>2, RateLimitTypeOK, CountsInvariant, PTL DEF Spec
===============================================================================
