------------------------- MODULE RewardLoopProofs -------------------------
(***************************************************************************)
(* Proofs about RewardLoop: the router never counts a server freer than it *)
(* is, and the bucket keeps its rate in both branches.                     *)
(***************************************************************************)
EXTENDS RewardLoop, FiniteSetTheorems, TLAPS

-----------------------------------------------------------------------------
(* Arithmetic and finite sets                                                *)

LEMMA MinOfTwo == ASSUME NEW a \in Int, NEW b \in Int
                  PROVE  Min({a, b}) \in Int /\ Min({a, b}) <= a /\ Min({a, b}) <= b /\ Min({a, b}) \in {a, b}
<1>1. \E x \in {a, b} : \A y \in {a, b} : x <= y
  OBVIOUS
<1> QED
  BY <1>1 DEF Min

LEMMA MaxWithZero == ASSUME NEW a \in Int
                     PROVE  Max({0, a}) \in Nat /\ Max({0, a}) >= a
<1>1. \E x \in {0, a} : \A y \in {0, a} : x >= y
  OBVIOUS
<1> QED
  BY <1>1 DEF Max

LEMMA CeilEnough == ASSUME NEW a \in Nat \ {0}, NEW b \in Nat \ {0}
                    PROVE  Ceil(a, b) \in Nat /\ b * Ceil(a, b) >= a
<1> DEFINE x == a + b - 1
           q == x \div b
<1>1. x \in Nat /\ b > 0
  OBVIOUS
<1>2. q \in Nat /\ x = b * q + (x % b) /\ 0 <= x % b /\ x % b < b
  BY <1>1
<1> QED
  BY <1>2 DEF Ceil

LEMMA Times == ASSUME NEW n \in Nat, NEW a \in Nat, NEW b \in Nat, a <= b
               PROVE  n * a \in Nat /\ n * b \in Nat /\ n * a <= n * b /\ n * (a + 1) = n * a + n
OBVIOUS

LEMMA TimesSplit == ASSUME NEW r \in Nat, NEW a \in Int, NEW b \in Int
                    PROVE  r * (a + b) = r * a + r * b /\ r * a \in Int /\ r * b \in Int /\ b * r = r * b
OBVIOUS

-----------------------------------------------------------------------------
(* The router.  A request that is tried is counted at its server; what fails *)
(* leaves the count, and what succeeds takes itself off once.                *)

Tried(w) == {i \in Items : request[i] = "tried" /\ worker[i] = w}

RouterInv ==
  /\ request_counts \in [Workers -> Nat]
  /\ request \in [Items -> {"idle", "tried", "ok", "refused"}]
  /\ worker \in [Items -> Workers \union {Nobody}]
  /\ \A i \in Items : request[i] = "tried" => worker[i] \in Workers
  /\ NeverUndercounted

LEMMA TriedFinite ==
  ASSUME ConstantsOK, NEW w
  PROVE  IsFiniteSet(Tried(w)) /\ Cardinality(Tried(w)) \in Nat
<1>1. IsFiniteSet(Tried(w))
  BY FS_Subset DEF ConstantsOK, Tried
<1> QED
  BY <1>1, FS_CardinalityType

LEMMA TriedShrinks ==
  ASSUME ConstantsOK, NEW w, IsFiniteSet(Tried(w)'), Tried(w)' \subseteq Tried(w)
  PROVE  Cardinality(Tried(w)') \in Nat /\ Cardinality(Tried(w)') <= Cardinality(Tried(w))
BY TriedFinite, FS_Subset, FS_CardinalityType

LEMMA RouterInit == ASSUME ConstantsOK PROVE Init => RouterInv
<1> SUFFICES ASSUME Init PROVE RouterInv
  OBVIOUS
<1>1. \A w \in Workers : Cardinality(Tried(w)) = 0
  <2>1. \A w \in Workers : Tried(w) = {}
    BY DEF Init, Tried
  <2> QED
    BY <2>1, FS_EmptySet
<1> QED
  BY <1>1 DEF Init, RouterInv, NeverUndercounted, Tried

\* A step that leaves every request at its server, or takes it away uncounted.
LEMMA RouterQuiet ==
  ASSUME ConstantsOK, RouterInv,
         request_counts' = request_counts,
         request' \in [Items -> {"idle", "tried", "ok", "refused"}],
         worker' \in [Items -> Workers \union {Nobody}],
         \A i \in Items : request'[i] = "tried" => request[i] = "tried" /\ worker'[i] = worker[i]
  PROVE  RouterInv'
<1>1. ASSUME NEW w \in Workers
      PROVE  request_counts'[w] >= Cardinality(Tried(w)')
  <2>1. Tried(w)' \subseteq Tried(w)
    BY DEF Tried
  <2>2. IsFiniteSet(Tried(w)')
    BY <2>1, TriedFinite, FS_Subset
  <2>3. request_counts[w] >= Cardinality(Tried(w)) /\ request_counts[w] \in Nat
    BY DEF RouterInv, NeverUndercounted, Tried
  <2> QED
    BY <2>1, <2>2, <2>3, TriedShrinks, TriedFinite
<1> QED
  BY <1>1 DEF RouterInv, NeverUndercounted, Tried

LEMMA PostStep ==
  ASSUME ConstantsOK, RouterInv, NEW i \in Items, Post(i)
  PROVE  RouterInv'
<1>1. PICK v \in Workers :
        /\ request_counts' = [request_counts EXCEPT ![v] = @ + 1]
        /\ worker' = [worker EXCEPT ![i] = v]
  BY DEF Post
<1>2. request[i] = "idle" /\ request' = [request EXCEPT ![i] = "tried"]
  BY DEF Post
<1>3. ASSUME NEW w \in Workers
      PROVE  request_counts'[w] >= Cardinality(Tried(w)')
  <2>1. request_counts[w] >= Cardinality(Tried(w)) /\ request_counts[w] \in Nat
    BY DEF RouterInv, NeverUndercounted, Tried
  <2>2. CASE w = v
    <3>1. Tried(w)' = Tried(w) \union {i} /\ i \notin Tried(w)
      BY <1>1, <1>2, <2>2 DEF Tried, RouterInv
    <3>2. Cardinality(Tried(w)') = Cardinality(Tried(w)) + 1
      BY <3>1, TriedFinite, FS_AddElement
    <3> QED
      BY <3>2, <2>1, <2>2, <1>1, TriedFinite DEF RouterInv
  <2>3. CASE w # v
    <3>1. Tried(w)' = Tried(w)
      BY <1>1, <1>2, <2>3 DEF Tried, RouterInv
    <3> QED
      BY <3>1, <2>1, <2>3, <1>1 DEF RouterInv
  <2> QED
    BY <2>2, <2>3
<1>4. /\ request_counts' \in [Workers -> Nat]
      /\ request' \in [Items -> {"idle", "tried", "ok", "refused"}]
      /\ worker' \in [Items -> Workers \union {Nobody}]
      /\ \A j \in Items : request'[j] = "tried" => worker'[j] \in Workers
  BY <1>1, <1>2 DEF RouterInv
<1> QED
  BY <1>3, <1>4 DEF RouterInv, NeverUndercounted, Tried

LEMMA SucceedsStep ==
  ASSUME ConstantsOK, RouterInv, NEW i \in Items, Succeeds(i)
  PROVE  RouterInv'
<1> DEFINE v == worker[i]
           c == Max({0, request_counts[v] - 1})
<1>1. /\ request[i] = "tried" /\ v \in Workers
      /\ request' = [request EXCEPT ![i] = "ok"] /\ worker' = [worker EXCEPT ![i] = Nobody]
      /\ request_counts' = [request_counts EXCEPT ![v] = c]
  BY DEF Succeeds, Over, Released, RouterInv
<1>2. c \in Nat /\ c >= request_counts[v] - 1
  BY <1>1, MaxWithZero DEF RouterInv
<1> HIDE DEF c
<1>3. ASSUME NEW w \in Workers
      PROVE  request_counts'[w] >= Cardinality(Tried(w)')
  <2>1. request_counts[w] >= Cardinality(Tried(w)) /\ request_counts[w] \in Nat
    BY DEF RouterInv, NeverUndercounted, Tried
  <2>2. CASE w = v
    <3>1. Tried(w)' = Tried(w) \ {i} /\ i \in Tried(w)
      BY <1>1, <2>2 DEF Tried, RouterInv
    <3>2. Cardinality(Tried(w)') = Cardinality(Tried(w)) - 1
      BY <3>1, TriedFinite, FS_RemoveElement
    <3>3. request_counts'[w] = c
      BY <1>1, <2>2 DEF RouterInv
    <3> QED
      BY <3>2, <3>3, <2>1, <2>2, <1>2, TriedFinite
  <2>3. CASE w # v
    <3>1. Tried(w)' = Tried(w)
      BY <1>1, <2>3 DEF Tried, RouterInv
    <3> QED
      BY <3>1, <2>1, <2>3, <1>1 DEF RouterInv
  <2> QED
    BY <2>2, <2>3
<1>4. /\ request_counts' \in [Workers -> Nat]
      /\ request' \in [Items -> {"idle", "tried", "ok", "refused"}]
      /\ worker' \in [Items -> Workers \union {Nobody}]
      /\ \A j \in Items : request'[j] = "tried" => worker'[j] \in Workers
  BY <1>1, <1>2 DEF RouterInv
<1> QED
  BY <1>3, <1>4 DEF RouterInv, NeverUndercounted, Tried

LEMMA RouterNext == ASSUME ConstantsOK PROVE RouterInv /\ [Next]_vars => RouterInv'
<1> SUFFICES ASSUME RouterInv, [Next]_vars PROVE RouterInv'
  OBVIOUS
<1>1. CASE UNCHANGED router
  BY <1>1, RouterQuiet DEF router, RouterInv
<1>2. ASSUME NEW i \in Items, Post(i) PROVE RouterInv'
  BY <1>2, PostStep
<1>3. ASSUME NEW i \in Items, Succeeds(i) PROVE RouterInv'
  BY <1>3, SucceedsStep
<1>4. ASSUME NEW i \in Items, Fails(i) \/ AnswersError(i) PROVE RouterInv'
  <2>1. request_counts' = request_counts
    BY <1>4 DEF Fails, AnswersError
  <2>2. request' \in [Items -> {"idle", "tried", "ok", "refused"}]
    BY <1>4 DEF Fails, AnswersError, Over, RouterInv
  <2>3. worker' \in [Items -> Workers \union {Nobody}]
    BY <1>4 DEF Fails, AnswersError, Over, RouterInv
  <2>4. \A j \in Items : request'[j] = "tried" => request[j] = "tried" /\ worker'[j] = worker[j]
    BY <1>4 DEF Fails, AnswersError, Over, RouterInv
  <2> QED
    BY <2>1, <2>2, <2>3, <2>4, RouterQuiet
<1>5. ASSUME NEW i \in Items, Refused(i) PROVE RouterInv'
  <2>1. request_counts' = request_counts /\ worker' = worker
    BY <1>5 DEF Refused
  <2>2. request' = [request EXCEPT ![i] = "idle"] \/ request' = request
    BY <1>5 DEF Refused
  <2> QED
    BY <2>1, <2>2, RouterQuiet DEF RouterInv
<1>6. CASE UNCHANGED vars
  BY <1>6, <1>1 DEF vars
<1>7. CASE Tick
  BY <1>7, <1>1 DEF Tick
<1>8. ASSUME NEW i \in Items, Limit(i) PROVE RouterInv'
  BY <1>8, <1>1 DEF Limit
<1>9. ASSUME NEW i \in Items, Begin(i) \/ Answered(i) \/ TimesOut(i) PROVE RouterInv'
  BY <1>9, <1>1 DEF Begin, Answered, TimesOut
<1> QED
  BY <1>2, <1>3, <1>4, <1>5, <1>6, <1>7, <1>8, <1>9 DEF Next, Score, Serve

\* NeverUndercounted: at any time, for any number of items and servers, _release_worker
\* has not taken off more than the requests that succeeded.
THEOREM CountsCover == Spec => []NeverUndercounted
<1> USE ConstantsOK
<1>1. RouterInv => NeverUndercounted
  BY DEF RouterInv
<1> QED
  BY <1>1, RouterInit, RouterNext, PTL DEF Spec

-----------------------------------------------------------------------------
(* The bucket.  A large request that sleeps has taken its tokens, so they    *)
(* count as passed until it wakes; and by the time t at which some of the    *)
(* sleepers are due, what they take has been refilled.                       *)

Sleepers == {i \in Items : at[i] = "sleeping"}
Due(t) == {i \in Items : at[i] = "sleeping" /\ wake[i] <= t}
Seen == IF last_update = Never THEN 0 ELSE last_update

BucketTypes ==
  /\ now \in Nat /\ tokens \in Int /\ granted \in Nat /\ num_tokens \in Nat \ {0}
  /\ last_update \in {Never} \union (0 .. now)
  /\ at \in [Items -> {"new", "acquiring", "sleeping", "queued", "scoring", "scored", "timeout", "error"}]
  /\ wake \in [Items -> Int]

Taken == granted + num_tokens * Cardinality(Sleepers) + tokens <= max_tokens + rate_limit * Seen

DueKept == \A t \in Nat : t >= now =>
             granted + num_tokens * Cardinality(Due(t)) <= max_tokens + rate_limit * t

BucketInv == BucketTypes /\ Taken /\ DueKept

LEMMA Constants ==
  ASSUME ConstantsOK
  PROVE  /\ IsFiniteSet(Items) /\ rate_limit \in Nat \ {0} /\ max_tokens \in Nat \ {0} /\ timeout \in Nat \ {0}
         /\ Never = -1 /\ Sizes \subseteq Nat \ {0}
BY DEF ConstantsOK, Never

LEMMA SleepersFinite ==
  ASSUME ConstantsOK
  PROVE  /\ IsFiniteSet(Sleepers) /\ Cardinality(Sleepers) \in Nat
         /\ \A t : IsFiniteSet(Due(t)) /\ Cardinality(Due(t)) \in Nat
                   /\ Cardinality(Due(t)) <= Cardinality(Sleepers)
<1>1. IsFiniteSet(Sleepers) /\ \A t : Due(t) \subseteq Sleepers
  BY Constants, FS_Subset DEF Sleepers, Due
<1> QED
  BY <1>1, FS_Subset, FS_CardinalityType

LEMMA BucketInit == ASSUME ConstantsOK PROVE Init => BucketInv
<1> SUFFICES ASSUME Init PROVE BucketInv
  OBVIOUS
<1>1. BucketTypes
  BY Constants DEF Init, BucketTypes
<1>2. Sleepers = {} /\ \A t : Due(t) = {}
  BY DEF Init, Sleepers, Due
<1>3. Cardinality(Sleepers) = 0 /\ \A t : Cardinality(Due(t)) = 0
  BY <1>2, FS_EmptySet
<1>4. num_tokens * 0 = 0 /\ rate_limit * 0 = 0 /\ \A t \in Nat : rate_limit * t \in Nat
  BY <1>1, Constants DEF BucketTypes
<1>5. granted = 0 /\ tokens = max_tokens /\ Seen = 0
  BY DEF Init, Seen
<1>6. Taken
  BY <1>3, <1>4, <1>5, Constants DEF Taken
<1>7. DueKept
  <2> SUFFICES ASSUME NEW t \in Nat
               PROVE  granted + num_tokens * Cardinality(Due(t)) <= max_tokens + rate_limit * t
    BY DEF DueKept
  <2>1. num_tokens * Cardinality(Due(t)) = 0 /\ rate_limit * t \in Nat
    BY <1>3, <1>4
  <2> QED
    BY <2>1, <1>5, Constants
<1> QED
  BY <1>1, <1>6, <1>7 DEF BucketInv

\* The refill is at most what the time since the last one brings.
LEMMA RefillBound ==
  ASSUME ConstantsOK, BucketInv
  PROVE  /\ Refilled \in Int
         /\ granted + num_tokens * Cardinality(Sleepers) + Refilled <= max_tokens + rate_limit * now
<1> DEFINE e == IF last_update = Never THEN 0 ELSE now - last_update
           c == num_tokens * Cardinality(Sleepers)
<1>1. e \in Nat /\ Seen \in Nat /\ now \in Nat /\ Seen + e <= now /\ tokens \in Int /\ granted \in Nat
  BY Constants DEF BucketInv, BucketTypes, Seen
<1>2. c \in Nat
  BY SleepersFinite, Times DEF BucketInv, BucketTypes
<1>3. /\ e * rate_limit = rate_limit * e /\ rate_limit * e \in Int /\ rate_limit * Seen \in Int
      /\ rate_limit * (Seen + e) = rate_limit * Seen + rate_limit * e
  BY <1>1, TimesSplit, Constants
<1>4. rate_limit * (Seen + e) <= rate_limit * now /\ rate_limit * now \in Nat
  BY <1>1, Times, Constants
<1>5. Refilled = Min({max_tokens, tokens + e * rate_limit})
  BY DEF Refilled
<1>6. granted + c + tokens <= max_tokens + rate_limit * Seen
  BY DEF BucketInv, Taken
<1> HIDE DEF e, c
<1>7. Refilled \in Int /\ Refilled <= tokens + e * rate_limit
  <2> DEFINE x == tokens + e * rate_limit
  <2>1. x \in Int /\ max_tokens \in Int
    BY <1>1, <1>3, Constants
  <2> HIDE DEF x
  <2>2. Min({max_tokens, x}) \in Int /\ Min({max_tokens, x}) <= x
    BY <2>1, MinOfTwo
  <2> QED
    BY <2>2, <1>5 DEF x
<1>8. granted + c + Refilled <= max_tokens + rate_limit * now
  BY <1>1, <1>2, <1>3, <1>4, <1>6, <1>7, Constants
<1> QED
  BY <1>7, <1>8 DEF c

\* The bucket passes a request at once.
LEMMA Grants ==
  ASSUME ConstantsOK, BucketInv, BucketTypes',
         now' = now, num_tokens' = num_tokens, last_update' = now,
         granted' = granted + num_tokens, tokens' = Refilled - num_tokens, tokens' >= 0,
         Sleepers' = Sleepers
  PROVE  BucketInv'
<1> DEFINE c == num_tokens * Cardinality(Sleepers)
<1>1. c \in Nat /\ now \in Nat /\ num_tokens \in Nat /\ granted \in Nat /\ tokens' \in Int
  BY SleepersFinite, Times DEF BucketInv, BucketTypes
<1>2. Seen' = now
  BY <1>1, Constants DEF Seen
<1>3. granted + c + Refilled <= max_tokens + rate_limit * now /\ Refilled \in Int
  BY RefillBound
<1>4. rate_limit * now \in Nat
  BY <1>1, Times, Constants
<1>5. Cardinality(Sleepers') = Cardinality(Sleepers)
  OBVIOUS
<1>6. Taken'
  <2>1. granted' + c + tokens' <= max_tokens + rate_limit * now
    BY <1>1, <1>3, <1>4, Constants
  <2> QED
    BY <2>1, <1>2, <1>5 DEF Taken
<1>7. DueKept'
  <2> SUFFICES ASSUME NEW t \in Nat, t >= now
               PROVE  granted' + num_tokens * Cardinality(Due(t)') <= max_tokens + rate_limit * t
    BY DEF DueKept, Due
  <2>1. Cardinality(Due(t)') \in Nat /\ Cardinality(Due(t)') <= Cardinality(Sleepers)
    <3>1. Due(t)' \subseteq Sleepers
      BY DEF Due, Sleepers
    <3> QED
      BY <3>1, SleepersFinite, FS_Subset, FS_CardinalityType
  <2>2. num_tokens * Cardinality(Due(t)') \in Nat /\ num_tokens * Cardinality(Due(t)') <= c
    BY <2>1, <1>1, SleepersFinite, Times
  <2>3. rate_limit * now <= rate_limit * t /\ rate_limit * t \in Nat
    BY <1>1, Times, Constants
  <2> HIDE DEF c
  <2> QED
    BY <2>2, <2>3, <1>1, <1>3, <1>4, Constants
<1> QED
  BY <1>6, <1>7 DEF BucketInv

\* A large request takes its tokens and sleeps until they are refilled.
LEMMA GoesToSleep ==
  ASSUME ConstantsOK, BucketInv, BucketTypes', NEW i \in Items,
         now' = now, num_tokens' = num_tokens, last_update' = now, granted' = granted,
         num_tokens > Refilled, tokens' = Refilled - num_tokens,
         at[i] = "new", at' = [at EXCEPT ![i] = "sleeping"],
         wake' = [wake EXCEPT ![i] = now + Ceil(num_tokens - Refilled, rate_limit)]
  PROVE  BucketInv'
<1> DEFINE n == num_tokens
           c == n * Cardinality(Sleepers)
           d == Ceil(n - Refilled, rate_limit)
<1>1. c \in Nat /\ now \in Nat /\ n \in Nat /\ granted \in Nat /\ Refilled \in Int
  BY SleepersFinite, RefillBound, Times DEF BucketInv, BucketTypes
<1>2. Seen' = now
  BY <1>1, Constants DEF Seen
<1>3. granted + c + Refilled <= max_tokens + rate_limit * now
  BY RefillBound
<1>4. rate_limit * now \in Nat
  BY <1>1, Times, Constants
<1>5. Sleepers' = Sleepers \union {i} /\ i \notin Sleepers
  BY DEF Sleepers, BucketInv, BucketTypes
<1>6. Cardinality(Sleepers') = Cardinality(Sleepers) + 1
  BY <1>5, SleepersFinite, FS_AddElement
<1>7. n * Cardinality(Sleepers') = c + n
  BY <1>6, <1>1, SleepersFinite, Times
<1>8. Taken'
  <2> HIDE DEF c
  <2>1. granted + (c + n) + (Refilled - n) <= max_tokens + rate_limit * now
    BY <1>1, <1>3, <1>4, Constants
  <2> QED
    BY <2>1, <1>2, <1>7 DEF Taken
<1>9. d \in Nat /\ rate_limit * d >= n - Refilled
  BY <1>1, CeilEnough, Constants
<1>10. DueKept'
  <2> SUFFICES ASSUME NEW t \in Nat, t >= now
               PROVE  granted + n * Cardinality(Due(t)') <= max_tokens + rate_limit * t
    BY DEF DueKept, Due
  <2>1. CASE t < now + d
    <3>1. Due(t)' = Due(t)
      BY <2>1, <1>1, <1>9 DEF Due, BucketInv, BucketTypes
    <3> QED
      BY <3>1 DEF BucketInv, DueKept
  <2>2. CASE t >= now + d
    <3>1. Due(t)' \subseteq Sleepers' /\ IsFiniteSet(Sleepers')
      <4>1. Due(t)' \subseteq Sleepers'
        BY DEF Due, Sleepers
      <4>2. IsFiniteSet(Sleepers \union {i})
        BY SleepersFinite, FS_AddElement
      <4> QED
        BY <4>1, <4>2, <1>5
    <3>2. /\ Cardinality(Due(t)') \in Nat /\ Cardinality(Sleepers') \in Nat
          /\ Cardinality(Due(t)') <= Cardinality(Sleepers')
      BY <3>1, FS_Subset, FS_CardinalityType
    <3>3. n * Cardinality(Due(t)') \in Nat /\ n * Cardinality(Due(t)') <= c + n
      BY <3>2, <1>1, <1>7, Times
    <3>4. /\ rate_limit * (now + d) = rate_limit * now + rate_limit * d
          /\ rate_limit * (now + d) <= rate_limit * t
          /\ rate_limit * d \in Int /\ rate_limit * t \in Nat
      BY <2>2, <1>1, <1>9, Times, TimesSplit, Constants
    <3> HIDE DEF c, d, n
    <3> QED
      BY <3>3, <3>4, <1>1, <1>3, <1>4, <1>9, Constants
  <2> QED
    BY <2>1, <2>2, <1>1, <1>9
<1> QED
  BY <1>8, <1>10 DEF BucketInv

\* A small request finds too little and will look again.
LEMMA GoesToWait ==
  ASSUME ConstantsOK, BucketInv, BucketTypes', NEW i \in Items,
         now' = now, num_tokens' = num_tokens, last_update' = now, granted' = granted,
         tokens' = Refilled, at[i] # "sleeping", at' = [at EXCEPT ![i] = "acquiring"],
         \A j \in Items : j # i => wake'[j] = wake[j]
  PROVE  BucketInv'
<1>1. Sleepers' = Sleepers /\ \A t : Due(t)' = Due(t)
  BY DEF Sleepers, Due, BucketInv, BucketTypes
<1>2. Seen' = now
  BY Constants DEF Seen, BucketInv, BucketTypes
<1>3. Taken'
  BY <1>1, <1>2, RefillBound DEF Taken
<1>4. DueKept'
  BY <1>1 DEF DueKept, BucketInv
<1> QED
  BY <1>3, <1>4 DEF BucketInv

\* A sleeper wakes, however late: what it took is passed.
LEMMA Wakes ==
  ASSUME ConstantsOK, BucketInv, BucketTypes', NEW i \in Items,
         now' = now, num_tokens' = num_tokens, last_update' = last_update, tokens' = tokens,
         granted' = granted + num_tokens, at[i] = "sleeping", now >= wake[i],
         at' = [at EXCEPT ![i] = "queued"],
         \A j \in Items : j # i => wake'[j] = wake[j]
  PROVE  BucketInv'
<1> DEFINE n == num_tokens
<1>1. n \in Nat /\ granted \in Nat /\ now \in Nat /\ tokens \in Int
  BY DEF BucketInv, BucketTypes
<1>2. ASSUME NEW S, NEW R, IsFiniteSet(S), i \in S, R = S \ {i}
      PROVE  n * Cardinality(S) = n * Cardinality(R) + n /\ n * Cardinality(R) \in Nat
  <2>1. Cardinality(R) = Cardinality(S) - 1 /\ Cardinality(S) \in Nat
        /\ IsFiniteSet(R) /\ Cardinality(R) \in Nat
    BY <1>2, FS_RemoveElement, FS_CardinalityType
  <2>2. Cardinality(S) = Cardinality(R) + 1
    BY <2>1
  <2> QED
    BY <2>1, <2>2, <1>1, Times
<1>3. Taken'
  <2>1. Sleepers' = Sleepers \ {i} /\ i \in Sleepers
    BY DEF Sleepers, BucketInv, BucketTypes
  <2> DEFINE a == n * Cardinality(Sleepers)
             b == n * Cardinality(Sleepers')
  <2>2. a = b + n /\ b \in Nat
    BY <2>1, <1>2, SleepersFinite
  <2>3. granted + a + tokens <= max_tokens + rate_limit * Seen
    BY DEF BucketInv, Taken
  <2>4. granted + a + tokens = (granted + n) + b + tokens
    <3> HIDE DEF a, b, n
    <3> QED
      BY <2>2, <1>1
  <2> QED
    BY <2>3, <2>4 DEF Taken, Seen
<1>4. DueKept'
  <2> SUFFICES ASSUME NEW t \in Nat, t >= now
               PROVE  (granted + n) + n * Cardinality(Due(t)') <= max_tokens + rate_limit * t
    BY DEF DueKept, Due
  <2>1. Due(t)' = Due(t) \ {i} /\ i \in Due(t)
    BY <1>1 DEF Due, BucketInv, BucketTypes
  <2> DEFINE a == n * Cardinality(Due(t))
             b == n * Cardinality(Due(t)')
  <2>2. a = b + n /\ b \in Nat
    BY <2>1, <1>2, SleepersFinite
  <2>3. granted + a <= max_tokens + rate_limit * t
    BY DEF BucketInv, DueKept
  <2>4. granted + a = (granted + n) + b
    <3> HIDE DEF a, b, n
    <3> QED
      BY <2>2, <1>1
  <2> QED
    BY <2>3, <2>4
<1> QED
  BY <1>3, <1>4 DEF BucketInv

\* Whatever else happens leaves the bucket and its sleepers alone.
LEMMA BucketQuiet ==
  ASSUME ConstantsOK, BucketInv, BucketTypes', UNCHANGED <<num_tokens, bucket>>, now' >= now,
         \A i \in Items : /\ at[i] = "sleeping" <=> at'[i] = "sleeping"
                          /\ at[i] = "sleeping" => wake'[i] = wake[i]
  PROVE  BucketInv'
<1>1. Sleepers' = Sleepers /\ \A t : Due(t)' = Due(t)
  BY DEF Sleepers, Due
<1>2. Seen' = Seen
  BY DEF Seen, bucket
<1>3. Taken'
  BY <1>1, <1>2 DEF Taken, BucketInv, bucket
<1>4. \A t \in Nat : t >= now' => t >= now
  BY DEF BucketInv, BucketTypes
<1>5. DueKept'
  BY <1>1, <1>4 DEF DueKept, BucketInv, bucket
<1> QED
  BY <1>3, <1>5 DEF BucketInv

LEMMA LimitStep ==
  ASSUME ConstantsOK, BucketInv, NEW i \in Items, Limit(i)
  PROVE  BucketInv'
<1>1. now' = now /\ num_tokens' = num_tokens /\ num_tokens \in Nat \ {0} /\ now \in Nat
  BY DEF Limit, BucketInv, BucketTypes
<1>2. Refilled \in Int
  BY RefillBound
<1>3. num_tokens > Refilled => Ceil(num_tokens - Refilled, rate_limit) \in Nat
  <2> SUFFICES ASSUME num_tokens > Refilled PROVE Ceil(num_tokens - Refilled, rate_limit) \in Nat
    OBVIOUS
  <2>1. num_tokens - Refilled \in Nat \ {0}
    BY <1>1, <1>2
  <2> QED
    BY <2>1, CeilEnough, Constants
<1>4. CASE AcquireLarge(i)
  <2>1. CASE num_tokens > Refilled
    <3>1. /\ tokens' = Refilled - num_tokens /\ last_update' = now /\ granted' = granted
          /\ at[i] = "new" /\ at' = [at EXCEPT ![i] = "sleeping"]
          /\ wake' = [wake EXCEPT ![i] = now + Ceil(num_tokens - Refilled, rate_limit)]
      BY <1>4, <2>1 DEF AcquireLarge, Move
    <3>2. BucketTypes'
      BY <3>1, <1>1, <1>2, <1>3, <2>1 DEF BucketInv, BucketTypes
    <3> QED
      BY <3>1, <3>2, <1>1, <2>1, GoesToSleep
  <2>2. CASE ~(num_tokens > Refilled)
    <3>1. /\ tokens' = Refilled - num_tokens /\ last_update' = now /\ granted' = granted + num_tokens
          /\ at[i] = "new" /\ at' = [at EXCEPT ![i] = "queued"] /\ wake' = wake
      BY <1>4, <2>2 DEF AcquireLarge, Move
    <3>2. BucketTypes'
      BY <3>1, <1>1, <1>2 DEF BucketInv, BucketTypes
    <3>3. Sleepers' = Sleepers
      BY <3>1 DEF Sleepers, BucketInv, BucketTypes
    <3>4. tokens' >= 0
      BY <3>1, <1>1, <1>2, <2>2
    <3> QED
      BY <3>1, <3>2, <3>3, <3>4, <1>1, Grants
  <2> QED
    BY <2>1, <2>2
<1>5. CASE SleptEnough(i)
  <2>1. /\ at[i] = "sleeping" /\ now >= wake[i] /\ granted' = granted + num_tokens
        /\ at' = [at EXCEPT ![i] = "queued"] /\ wake' = [wake EXCEPT ![i] = 0]
        /\ tokens' = tokens /\ last_update' = last_update
    BY <1>5 DEF SleptEnough, End, Move
  <2>2. BucketTypes'
    BY <2>1, <1>1 DEF BucketInv, BucketTypes
  <2>3. \A j \in Items : j # i => wake'[j] = wake[j]
    BY <2>1 DEF BucketInv, BucketTypes
  <2> QED
    BY <2>1, <2>2, <2>3, <1>1, Wakes
<1>6. CASE Acquire(i)
  <2>1. at[i] # "sleeping" /\ last_update' = now
    BY <1>6 DEF Acquire
  <2>2. CASE Refilled >= num_tokens
    <3>1. /\ tokens' = Refilled - num_tokens /\ granted' = granted + num_tokens
          /\ at' = [at EXCEPT ![i] = "queued"] /\ wake' = [wake EXCEPT ![i] = 0]
      BY <1>6, <2>2 DEF Acquire, End, Move
    <3>2. BucketTypes'
      BY <2>1, <3>1, <1>1, <1>2 DEF BucketInv, BucketTypes
    <3>3. Sleepers' = Sleepers
      BY <2>1, <3>1 DEF Sleepers, BucketInv, BucketTypes
    <3>4. tokens' >= 0
      BY <3>1, <1>1, <1>2, <2>2
    <3> QED
      BY <2>1, <3>1, <3>2, <3>3, <3>4, <1>1, Grants
  <2>3. CASE ~(Refilled >= num_tokens)
    <3>1. /\ tokens' = Refilled /\ granted' = granted
          /\ at' = [at EXCEPT ![i] = "acquiring"]
          /\ wake' = [wake EXCEPT ![i] = now + Ceil(num_tokens - Refilled, rate_limit)]
      BY <1>6, <2>3 DEF Acquire, Move
    <3>2. BucketTypes'
      BY <2>1, <2>3, <3>1, <1>1, <1>2, <1>3 DEF BucketInv, BucketTypes
    <3>3. \A j \in Items : j # i => wake'[j] = wake[j]
      BY <3>1 DEF BucketInv, BucketTypes
    <3> QED
      BY <2>1, <3>1, <3>2, <3>3, <1>1, GoesToWait
  <2> QED
    BY <2>2, <2>3
<1> QED
  BY <1>4, <1>5, <1>6 DEF Limit

LEMMA ScoreStep ==
  ASSUME ConstantsOK, BucketInv, NEW i \in Items, Score(i)
  PROVE  BucketInv'
<1>1. UNCHANGED <<now, num_tokens, bucket>>
  BY DEF Score, Begin, Post, Answered, Refused, TimesOut
<1>2. \/ UNCHANGED <<at, wake>>
      \/ /\ at[i] \in {"new", "queued", "scoring"}
         /\ \E s \in {"scoring", "scored", "error", "timeout"} : at' = [at EXCEPT ![i] = s]
         /\ \E x \in Int : wake' = [wake EXCEPT ![i] = x] \/ wake' = wake
  <2>1. now + timeout \in Int /\ 0 \in Int
    BY Constants DEF BucketInv, BucketTypes
  <2>2. CASE Begin(i)
    BY <2>1, <2>2 DEF Begin, Move
  <2>3. CASE Post(i)
    BY <2>3 DEF Post
  <2>4. CASE Answered(i)
    BY <2>1, <2>4 DEF Answered, End, Move
  <2>5. CASE Refused(i)
    BY <2>1, <2>5 DEF Refused, End, Move
  <2>6. CASE TimesOut(i)
    BY <2>1, <2>6 DEF TimesOut, End, Move
  <2> QED
    BY <2>2, <2>3, <2>4, <2>5, <2>6 DEF Score
<1>3. BucketTypes'
  BY <1>1, <1>2 DEF BucketInv, BucketTypes, bucket
<1>4. \A j \in Items : /\ at[j] = "sleeping" <=> at'[j] = "sleeping"
                       /\ at[j] = "sleeping" => wake'[j] = wake[j]
  BY <1>2 DEF BucketInv, BucketTypes
<1>5. now' >= now
  BY <1>1 DEF BucketInv, BucketTypes
<1> QED
  BY <1>1, <1>3, <1>4, <1>5, BucketQuiet

LEMMA BucketNext == ASSUME ConstantsOK PROVE BucketInv /\ [Next]_vars => BucketInv'
<1> SUFFICES ASSUME BucketInv, [Next]_vars PROVE BucketInv'
  OBVIOUS
<1>1. ASSUME UNCHANGED <<num_tokens, item, bucket>>, now' \in {now, now + 1} PROVE BucketInv'
  <2>1. BucketTypes' /\ now' >= now
    BY <1>1 DEF BucketInv, BucketTypes, item, bucket
  <2> QED
    BY <1>1, <2>1, BucketQuiet DEF item
<1>2. CASE UNCHANGED vars
  BY <1>2, <1>1 DEF vars
<1>3. CASE Tick
  BY <1>3, <1>1 DEF Tick
<1>4. ASSUME NEW i \in Items, Limit(i) PROVE BucketInv'
  BY <1>4, LimitStep
<1>5. ASSUME NEW i \in Items, Score(i) PROVE BucketInv'
  BY <1>5, ScoreStep
<1>6. ASSUME NEW i \in Items, Serve(i) PROVE BucketInv'
  BY <1>6, <1>1 DEF Serve
<1> QED
  BY <1>2, <1>3, <1>4, <1>5, <1>6 DEF Next

\* RateKept: for any rate, size of bucket, size of the requests and number of items,
\* AsyncTokenBucket.acquire lets through no more than it held and was refilled.
THEOREM RateAlwaysKept == Spec => []RateKept
<1> USE ConstantsOK
<1>1. BucketInv => RateKept
  <2> SUFFICES ASSUME BucketInv PROVE RateKept
    OBVIOUS
  <2>1. now \in Nat /\ granted \in Nat /\ num_tokens \in Nat
    BY DEF BucketInv, BucketTypes
  <2>2. granted + num_tokens * Cardinality(Due(now)) <= max_tokens + rate_limit * now
    BY <2>1 DEF BucketInv, DueKept
  <2>3. num_tokens * Cardinality(Due(now)) \in Nat /\ rate_limit * now \in Nat
    BY <2>1, SleepersFinite, Times, Constants
  <2> QED
    BY <2>1, <2>2, <2>3, Constants DEF RateKept
<1> QED
  BY <1>1, BucketInit, BucketNext, PTL DEF Spec
=============================================================================
