----------------------------- MODULE RateLimitProofs -----------------------------
(***************************************************************************)
(* What a window of time admits, what a request pays, and that refusals    *)
(* do not postpone admission, for any number of requests, keys, credentials *)
(* and buckets, any limit and any clock.                                   *)
(***************************************************************************)
EXTENDS RateLimit, FiniteSetTheorems, TLAPS

USE RateLimitAssumption

(***************************************************************************)
(* Types, but for the bound on the map.                                    *)
(***************************************************************************)
Types ==
    /\ validKeys \in Configurations
    /\ hasToken \in BOOLEAN
    /\ buckets \in [KeyIds -> Buckets \cup {NoBucket}]
    /\ clock \in 0..Horizon
    /\ pc \in [Requests -> {"http", "grpc", "done"}]
    /\ call \in [Requests -> Calls]
    /\ marked \in [Requests -> BOOLEAN]
    /\ status \in [Requests -> Statuses]
    /\ spent \in [Requests -> Nat]
    /\ window \in 0..clock
    /\ charged \in [KeyIds -> Nat]
    /\ forgiven \in [KeyIds -> Nat]
    /\ lastGrant \in [KeyIds -> 0..clock]
    /\ \A k \in KeyIds : buckets[k] # NoBucket => buckets[k].lastTime <= clock

Present == {k \in KeyIds : buckets[k] # NoBucket}
MapBound == Cardinality(Present) <= MaxBuckets

-----------------------------------------------------------------------------
(* The map *)

\* What a request for a key finds, once refilled.
LEMMA AskedIs ==
    ASSUME Types, NEW k \in KeyIds
    PROVE  /\ Asked(k) = [tokens |-> Asked(k).tokens, lastTime |-> clock]
           /\ Asked(k).tokens \in 0..Burst
           /\ buckets[k] = NoBucket => Asked(k).tokens = Burst
           /\ buckets[k] # NoBucket =>
                /\ buckets[k].tokens \in 0..Burst /\ buckets[k].lastTime \in 0..clock
                /\ Asked(k).tokens = AtMost(buckets[k].tokens + (clock - buckets[k].lastTime), Burst)
<1>1. buckets[k] \in Buckets \cup {NoBucket} /\ clock \in Nat
  BY DEF Types
<1>2. CASE buckets[k] = NoBucket
  BY <1>1, <1>2 DEF Asked, Refilled, FullBucket, AtMost
<1>3. CASE buckets[k] # NoBucket
  <2>1. buckets[k].tokens \in 0..Burst /\ buckets[k].lastTime \in 0..clock
    BY <1>1, <1>3 DEF Types, Buckets
  <2> QED BY <1>1, <1>3, <2>1 DEF Asked, Refilled, AtMost
<1> QED BY <1>2, <1>3

\* A bucket is never mistaken for its absence.
LEMMA BucketIsSome ==
    ASSUME NEW t \in Int, NEW l \in Int
    PROVE  [tokens |-> t, lastTime |-> l] # NoBucket
<1>1. [tokens |-> t, lastTime |-> l] \in [tokens : Int, lastTime : Int]
  OBVIOUS
<1> QED BY <1>1

\* One call of allowRequest, key by key.
LEMMA AllowIs ==
    ASSUME Types, NEW key \in KeyIds, allowRequest(key)
    PROVE  \E gone \in Evicted(key), cost \in {0, Cost} :
             /\ cost = (IF Asked(key).tokens >= Cost THEN Cost ELSE 0)
             /\ gone \subseteq KeyIds /\ key \notin gone
             /\ \A k \in gone : buckets[k] # NoBucket
             /\ buckets' = [k \in KeyIds |->
                  IF k = key THEN [tokens |-> Asked(key).tokens - cost, lastTime |-> clock]
                  ELSE IF k \in gone THEN NoBucket ELSE buckets[k]]
             /\ [tokens |-> Asked(key).tokens - cost, lastTime |-> clock] \in Buckets
             /\ [tokens |-> Asked(key).tokens - cost, lastTime |-> clock] # NoBucket
             /\ charged' = [charged EXCEPT ![key] = @ + cost]
             /\ forgiven' = [k \in KeyIds |-> forgiven[k] + (IF k \in gone THEN Burst ELSE 0)]
             /\ lastGrant' = [lastGrant EXCEPT ![key] =
                  IF cost = Cost \/ buckets[key] = NoBucket THEN clock ELSE @]
<1> DEFINE cost == IF Admits(key) THEN Cost ELSE 0
<1>1. PICK gone \in Evicted(key) :
        /\ buckets' = [k \in KeyIds |->
             IF k = key THEN [Asked(key) EXCEPT !.tokens = @ - cost]
             ELSE IF k \in gone THEN NoBucket ELSE buckets[k]]
        /\ charged' = [charged EXCEPT ![key] = @ + cost]
        /\ forgiven' = [k \in KeyIds |-> forgiven[k] + (IF k \in gone THEN Burst ELSE 0)]
        /\ lastGrant' = [lastGrant EXCEPT ![key] =
             IF Admits(key) \/ buckets[key] = NoBucket THEN clock ELSE @]
  BY DEF allowRequest
<1>2. gone \subseteq KeyIds /\ key \notin gone /\ \A k \in gone : buckets[k] # NoBucket
  BY DEF Evicted, Idlest
<1>3. /\ Asked(key) = [tokens |-> Asked(key).tokens, lastTime |-> clock]
      /\ Asked(key).tokens \in 0..Burst /\ clock \in 0..Horizon
  BY AskedIs DEF Types
<1>4. [Asked(key) EXCEPT !.tokens = @ - cost]
        = [tokens |-> Asked(key).tokens - cost, lastTime |-> clock]
  BY <1>3
<1>5. /\ cost \in {0, Cost} /\ cost = (IF Asked(key).tokens >= Cost THEN Cost ELSE 0)
      /\ Admits(key) <=> cost = Cost
  BY <1>3 DEF Admits
<1>6. Asked(key).tokens - cost \in 0..Burst
  BY <1>3, <1>5
<1>7. [tokens |-> Asked(key).tokens - cost, lastTime |-> clock] \in Buckets
  BY <1>3, <1>6 DEF Buckets
<1>8. [tokens |-> Asked(key).tokens - cost, lastTime |-> clock] # NoBucket
  BY <1>3, <1>6, BucketIsSome
<1> HIDE DEF cost
<1>9. lastGrant' = [lastGrant EXCEPT ![key] =
             IF cost = Cost \/ buckets[key] = NoBucket THEN clock ELSE @]
  BY <1>1, <1>5
<1>10. buckets' = [k \in KeyIds |->
             IF k = key THEN [tokens |-> Asked(key).tokens - cost, lastTime |-> clock]
             ELSE IF k \in gone THEN NoBucket ELSE buckets[k]]
  BY <1>1, <1>4
<1>11. WITNESS gone \in Evicted(key), cost \in {0, Cost}
<1> QED BY <1>1, <1>2, <1>5, <1>7, <1>8, <1>9, <1>10

\* What a request does to the map is one call of allowRequest, or nothing.
LEMMA RequestAsks ==
    ASSUME Types, NEW r \in Requests, HTTPMiddleware(r) \/ UnaryInterceptor(r)
    PROVE  /\ UNCHANGED <<clock, window, validKeys, hasToken, call>>
           /\ \/ UNCHANGED <<buckets, charged, forgiven, lastGrant>>
              \/ \E key \in KeyIds : allowRequest(key)
<1>1. Verified(r) => KeyOf(r) \in KeyIds
  BY DEF Verified, KeyOf, Types
<1> QED BY <1>1 DEF HTTPMiddleware, UnaryInterceptor, HTTPPublic, HTTPProtected,
                  InterceptHealth, InterceptCall, NotAsked

-----------------------------------------------------------------------------
(* Types *)

LEMMA TypesInit == Init => Types
<1> SUFFICES ASSUME Init PROVE Types
  OBVIOUS
<1> QED BY DEF Init, Types, Statuses

LEMMA TypesAsk ==
    ASSUME Types, NEW key \in KeyIds, allowRequest(key)
    PROVE  /\ buckets' \in [KeyIds -> Buckets \cup {NoBucket}]
           /\ charged' \in [KeyIds -> Nat]
           /\ forgiven' \in [KeyIds -> Nat]
           /\ lastGrant' \in [KeyIds -> 0..clock]
           /\ \A k \in KeyIds : buckets'[k] # NoBucket => buckets'[k].lastTime <= clock
<1>1. PICK gone \in Evicted(key), cost \in {0, Cost} :
             /\ buckets' = [k \in KeyIds |->
                  IF k = key THEN [tokens |-> Asked(key).tokens - cost, lastTime |-> clock]
                  ELSE IF k \in gone THEN NoBucket ELSE buckets[k]]
             /\ [tokens |-> Asked(key).tokens - cost, lastTime |-> clock] \in Buckets
             /\ charged' = [charged EXCEPT ![key] = @ + cost]
             /\ forgiven' = [k \in KeyIds |-> forgiven[k] + (IF k \in gone THEN Burst ELSE 0)]
             /\ lastGrant' = [lastGrant EXCEPT ![key] =
                  IF cost = Cost \/ buckets[key] = NoBucket THEN clock ELSE @]
  BY AllowIs
<1>2. clock \in Nat /\ cost \in Nat
  BY DEF Types
<1>3. buckets' \in [KeyIds -> Buckets \cup {NoBucket}]
  BY <1>1 DEF Types
<1>4. charged' \in [KeyIds -> Nat] /\ lastGrant' \in [KeyIds -> 0..clock]
  BY <1>1, <1>2 DEF Types
<1>5. forgiven' \in [KeyIds -> Nat]
  BY <1>1 DEF Types
<1>6. \A k \in KeyIds : buckets'[k] # NoBucket => buckets'[k].lastTime <= clock
  BY <1>1, <1>2 DEF Types
<1> QED BY <1>3, <1>4, <1>5, <1>6

\* What a request records of itself, layer by layer: it is forwarded unmarked and
\* unpaid, or marked and paid for, or refused.
Unpaid == UNCHANGED spent
Paid(r) == spent' = [spent EXCEPT ![r] = @ + 1]

LEMMA HTTPOutcome ==
    ASSUME Types, NEW r \in Requests, HTTPMiddleware(r)
    PROVE  /\ pc[r] = "http"
           /\ \/ Forward(r, FALSE) /\ Unpaid
              \/ Verified(r) /\ Forward(r, TRUE) /\ Paid(r)
              \/ \E s \in Statuses : Finish(r, s) /\ UNCHANGED marked /\ Unpaid
<1>1. ASSUME NEW key \in KeyIds, Charge(r, key)
      PROVE  IF Admits(key) THEN Paid(r) ELSE Unpaid
  BY <1>1 DEF Charge, Paid, Unpaid, Types
<1>2. Verified(r) => KeyOf(r) \in KeyIds
  BY DEF Verified, KeyOf, Types
<1>3. CASE HTTPPublic(r)
  <2>1. CASE ~Verified(r)
    BY <1>3, <2>1 DEF HTTPPublic, NotAsked, Unpaid, HTTPMiddleware
  <2>2. CASE Verified(r) /\ Admits(KeyOf(r))
    <3>1. Admits(KeyOf(r)) = TRUE
      BY <2>2 DEF Admits
    <3> QED BY <1>1, <1>2, <1>3, <2>2, <3>1 DEF HTTPPublic, HTTPMiddleware
  <2>3. CASE Verified(r) /\ ~Admits(KeyOf(r))
    <3>1. Admits(KeyOf(r)) = FALSE
      BY <2>3 DEF Admits
    <3> QED BY <1>1, <1>2, <1>3, <2>3, <3>1 DEF HTTPPublic, HTTPMiddleware
  <2> QED BY <2>1, <2>2, <2>3
<1>4. CASE HTTPProtected(r)
  BY <1>1, <1>2, <1>4 DEF HTTPProtected, HTTPMiddleware, NotAsked, Unpaid, Statuses
<1> QED BY <1>3, <1>4 DEF HTTPMiddleware

LEMMA RPCOutcome ==
    ASSUME Types, NEW r \in Requests, UnaryInterceptor(r)
    PROVE  /\ pc[r] = "grpc" /\ UNCHANGED marked
           /\ \E s \in Statuses : Finish(r, s)
           /\ Paid(r) \/ Unpaid
           /\ Verified(r) /\ alreadyRateLimited(r) => Finish(r, "served") /\ Unpaid
<1>1. ASSUME NEW key \in KeyIds, Charge(r, key)
      PROVE  Paid(r) \/ Unpaid
  <2>1. CASE Admits(key)
    BY <1>1, <2>1 DEF Charge, Paid
  <2>2. CASE ~Admits(key)
    BY <1>1, <2>2 DEF Charge, Unpaid, Types
  <2> QED BY <2>1, <2>2
<1>2. Verified(r) => KeyOf(r) \in KeyIds /\ ~AuthDisabled
  BY DEF Verified, KeyOf, Types, AuthDisabled
<1>3. CASE InterceptHealth(r)
  BY <1>1, <1>2, <1>3 DEF InterceptHealth, UnaryInterceptor, NotAsked, Unpaid, Statuses
<1>4. CASE InterceptCall(r)
  BY <1>1, <1>2, <1>4 DEF InterceptCall, UnaryInterceptor, NotAsked, Unpaid, Statuses
<1> QED BY <1>3, <1>4 DEF UnaryInterceptor

LEMMA TypesRequest ==
    ASSUME Types, NEW r \in Requests, HTTPMiddleware(r) \/ UnaryInterceptor(r)
    PROVE  /\ pc' \in [Requests -> {"http", "grpc", "done"}]
           /\ marked' \in [Requests -> BOOLEAN]
           /\ status' \in [Requests -> Statuses]
           /\ spent' \in [Requests -> Nat]
<1>1. \/ Forward(r, FALSE) /\ Unpaid
      \/ Forward(r, TRUE) /\ Paid(r)
      \/ \E s \in Statuses : Finish(r, s) /\ UNCHANGED marked /\ (Paid(r) \/ Unpaid)
  BY HTTPOutcome, RPCOutcome
<1>2. Paid(r) \/ Unpaid => spent' \in [Requests -> Nat]
  BY DEF Paid, Unpaid, Types
<1>3. ASSUME NEW b \in BOOLEAN, Forward(r, b)
      PROVE  /\ pc' \in [Requests -> {"http", "grpc", "done"}]
             /\ marked' \in [Requests -> BOOLEAN] /\ status' \in [Requests -> Statuses]
  BY <1>3 DEF Forward, Types
<1>4. ASSUME NEW s \in Statuses, Finish(r, s), UNCHANGED marked
      PROVE  /\ pc' \in [Requests -> {"http", "grpc", "done"}]
             /\ marked' \in [Requests -> BOOLEAN] /\ status' \in [Requests -> Statuses]
  BY <1>4 DEF Finish, Types
<1> QED BY <1>1, <1>2, <1>3, <1>4

LEMMA TypesNext == Types /\ [Next]_vars => Types'
<1> SUFFICES ASSUME Types, [Next]_vars PROVE Types'
  OBVIOUS
<1>1. ASSUME NEW r \in Requests, HTTPMiddleware(r) \/ UnaryInterceptor(r) PROVE Types'
  <2>1. /\ UNCHANGED <<clock, window, validKeys, hasToken, call>>
        /\ \/ UNCHANGED <<buckets, charged, forgiven, lastGrant>>
           \/ \E key \in KeyIds : allowRequest(key)
    BY <1>1, RequestAsks
  <2>2. /\ buckets' \in [KeyIds -> Buckets \cup {NoBucket}]
        /\ charged' \in [KeyIds -> Nat]
        /\ forgiven' \in [KeyIds -> Nat]
        /\ lastGrant' \in [KeyIds -> 0..clock]
        /\ \A k \in KeyIds : buckets'[k] # NoBucket => buckets'[k].lastTime <= clock
    <3>1. CASE UNCHANGED <<buckets, charged, forgiven, lastGrant>>
      BY <3>1 DEF Types
    <3>2. CASE \E key \in KeyIds : allowRequest(key)
      BY <3>2, TypesAsk
    <3> QED BY <2>1, <3>1, <3>2
  <2> QED BY <1>1, <2>1, <2>2, TypesRequest DEF Types
<1>2. CASE Tick
  <2>1. clock' \in 0..Horizon /\ clock' >= clock /\ clock \in Nat
    BY <1>2 DEF Tick, Types
  <2>2. \A k \in KeyIds : buckets'[k] # NoBucket => buckets'[k].lastTime <= clock'
    BY <1>2, <2>1, AskedIs DEF Tick, Types
  <2>3. window' \in 0..clock' /\ lastGrant' \in [KeyIds -> 0..clock']
    BY <1>2, <2>1 DEF Tick, Types
  <2> QED BY <1>2, <2>1, <2>2, <2>3 DEF Tick, Types
<1>3. CASE Observe
  BY <1>3 DEF Observe, Types
<1>4. CASE UNCHANGED vars
  BY <1>4 DEF vars, Types
<1> QED BY <1>1, <1>2, <1>3, <1>4 DEF Next

-----------------------------------------------------------------------------
(* The map never holds more than MaxBuckets: room is made before a bucket    *)
(* is added.                                                                 *)

LEMMA PresentFinite == IsFiniteSet(Present) /\ Cardinality(Present) \in Nat
BY FS_Subset, FS_CardinalityType DEF Present

LEMMA MapBoundAsk ==
    ASSUME Types, MapBound, NEW key \in KeyIds, allowRequest(key)
    PROVE  MapBound'
<1>1. PICK gone \in Evicted(key), cost \in {0, Cost} :
             /\ gone \subseteq KeyIds /\ key \notin gone
             /\ \A k \in gone : buckets[k] # NoBucket
             /\ buckets' = [k \in KeyIds |->
                  IF k = key THEN [tokens |-> Asked(key).tokens - cost, lastTime |-> clock]
                  ELSE IF k \in gone THEN NoBucket ELSE buckets[k]]
             /\ [tokens |-> Asked(key).tokens - cost, lastTime |-> clock] # NoBucket
  BY AllowIs
<1>2. Present' = (Present \ gone) \cup {key}
  BY <1>1 DEF Present
<1>3. CASE key \in Present
  <2>1. gone = {}
    BY <1>3 DEF Evicted, Present
  <2> QED BY <1>2, <1>3, <2>1 DEF MapBound
<1>4. CASE key \notin Present /\ ~MapFull
  <2>1. gone = {} /\ Present' = Present \cup {key}
    BY <1>2, <1>4 DEF Evicted, Present
  <2>2. Cardinality(Present') = Cardinality(Present) + 1
    BY <1>4, <2>1, PresentFinite, FS_AddElement
  <2>3. Cardinality(Present) < MaxBuckets
    BY <1>4, PresentFinite DEF MapFull, Present
  <2> QED BY <2>2, <2>3, PresentFinite DEF MapBound
<1>5. CASE key \notin Present /\ MapFull
  <2>1. PICK k \in Idlest : gone = {k}
    BY <1>5 DEF Evicted, Present
  <2>2. k \in Present
    BY <2>1 DEF Idlest, Present
  <2>3. IsFiniteSet(Present \ {k}) /\ Cardinality(Present \ {k}) = Cardinality(Present) - 1
    BY <2>2, PresentFinite, FS_RemoveElement
  <2>4. Cardinality(Present') = Cardinality(Present \ {k}) + 1
    BY <1>2, <1>5, <2>1, <2>3, FS_AddElement
  <2> QED BY <2>3, <2>4, PresentFinite DEF MapBound
<1> QED BY <1>3, <1>4, <1>5

LEMMA MapBoundNext == Types /\ MapBound /\ [Next]_vars => MapBound'
<1> SUFFICES ASSUME Types, MapBound, [Next]_vars PROVE MapBound'
  OBVIOUS
<1>1. CASE UNCHANGED buckets
  BY <1>1 DEF MapBound, Present
<1>2. CASE \E key \in KeyIds : allowRequest(key)
  BY <1>2, MapBoundAsk
<1>3. UNCHANGED buckets \/ \E key \in KeyIds : allowRequest(key)
  BY RequestAsks DEF Next, Tick, Observe, vars
<1> QED BY <1>1, <1>2, <1>3

LEMMA MapBoundInit == Init => MapBound
<1> SUFFICES ASSUME Init PROVE MapBound
  OBVIOUS
<1>1. Present = {}
  BY DEF Init, Present
<1> QED BY <1>1, FS_EmptySet DEF MapBound

-----------------------------------------------------------------------------
(* The limit *)

\* What a key paid in the window and what it could pay at once are covered by a
\* full bucket, the refill of the window and the evictions.
Budget ==
    \A k \in KeyIds :
        charged[k] + Asked(k).tokens <= Burst + (clock - window) + forgiven[k]

\* A bucket that has not paid for a while has a token, or is on the way to it.
Granted ==
    \A k \in KeyIds :
        buckets[k] # NoBucket => Asked(k).tokens >= AtMost(clock - lastGrant[k], Cost)

LEMMA BudgetInit == Init => Budget
<1> SUFFICES ASSUME Init, NEW k \in KeyIds
             PROVE  charged[k] + Asked(k).tokens <= Burst + (clock - window) + forgiven[k]
  BY DEF Budget
<1>1. Types
  BY TypesInit
<1> QED BY <1>1, AskedIs DEF Init

\* A call of allowRequest by a key.
LEMMA LimitsAsk ==
    ASSUME Types, Budget, Granted, NEW key \in KeyIds, allowRequest(key),
           UNCHANGED <<clock, window>>, Types'
    PROVE  Budget' /\ Granted'
<1>1. PICK gone \in Evicted(key), cost \in {0, Cost} :
             /\ cost = (IF Asked(key).tokens >= Cost THEN Cost ELSE 0)
             /\ gone \subseteq KeyIds /\ key \notin gone
             /\ \A k \in gone : buckets[k] # NoBucket
             /\ buckets' = [k \in KeyIds |->
                  IF k = key THEN [tokens |-> Asked(key).tokens - cost, lastTime |-> clock]
                  ELSE IF k \in gone THEN NoBucket ELSE buckets[k]]
             /\ [tokens |-> Asked(key).tokens - cost, lastTime |-> clock] # NoBucket
             /\ charged' = [charged EXCEPT ![key] = @ + cost]
             /\ forgiven' = [k \in KeyIds |-> forgiven[k] + (IF k \in gone THEN Burst ELSE 0)]
             /\ lastGrant' = [lastGrant EXCEPT ![key] =
                  IF cost = Cost \/ buckets[key] = NoBucket THEN clock ELSE @]
  BY AllowIs
<1> SUFFICES ASSUME NEW k \in KeyIds
             PROVE  /\ charged'[k] + Asked(k)'.tokens <= Burst + (clock' - window') + forgiven'[k]
                    /\ buckets'[k] # NoBucket =>
                         Asked(k)'.tokens >= AtMost(clock' - lastGrant'[k], Cost)
  BY DEF Budget, Granted, AtMost
<1>2. /\ clock \in Nat /\ window \in Nat /\ window <= clock /\ charged[k] \in Nat
      /\ forgiven[k] \in Nat /\ lastGrant[k] \in 0..clock /\ lastGrant'[k] \in 0..clock
      /\ clock' = clock /\ window' = window
  BY DEF Types
<1>3. /\ charged[k] + Asked(k).tokens <= Burst + (clock - window) + forgiven[k]
      /\ buckets[k] # NoBucket => Asked(k).tokens >= AtMost(clock - lastGrant[k], Cost)
      /\ Asked(k).tokens \in 0..Burst
  BY AskedIs DEF Budget, Granted
<1>4. CASE k = key
  <2>1. /\ buckets'[k] # NoBucket /\ buckets'[k].tokens = Asked(k).tokens - cost
        /\ buckets'[k].lastTime = clock
    BY <1>1, <1>4
  <2>2. Asked(k)'.tokens = Asked(k).tokens - cost
    <3>1. Asked(k)'.tokens = AtMost(buckets'[k].tokens + (clock' - buckets'[k].lastTime), Burst)
      BY <2>1 DEF Asked, Refilled
    <3> QED BY <1>2, <1>3, <2>1, <3>1 DEF AtMost
  <2>3. charged'[k] = charged[k] + cost /\ forgiven'[k] = forgiven[k]
    BY <1>1, <1>4 DEF Types
  <2>4. buckets[k] = NoBucket => Asked(k).tokens = Burst
    BY AskedIs
  <2>5. lastGrant'[k] = (IF cost = Cost \/ buckets[k] = NoBucket THEN clock ELSE lastGrant[k])
    BY <1>1, <1>4 DEF Types
  <2>6. CASE cost = Cost \/ buckets[k] = NoBucket
    BY <1>1, <1>2, <1>3, <1>4, <2>2, <2>3, <2>5, <2>6 DEF AtMost
  <2>7. CASE cost # Cost /\ buckets[k] # NoBucket
    BY <1>1, <1>2, <1>3, <1>4, <2>2, <2>3, <2>5, <2>7 DEF AtMost
  <2> QED BY <2>6, <2>7
<1>5. CASE k \in gone
  <2>1. buckets'[k] = NoBucket
    BY <1>1, <1>5
  <2>2. Asked(k)'.tokens = Burst
    BY <2>1, <1>2 DEF Asked, Refilled, FullBucket, AtMost
  <2>3. charged'[k] = charged[k] /\ forgiven'[k] = forgiven[k] + Burst
    BY <1>1, <1>5 DEF Types
  <2> QED BY <1>2, <1>3, <2>1, <2>2, <2>3
<1>6. CASE k # key /\ k \notin gone
  <2>1. buckets'[k] = buckets[k] /\ lastGrant'[k] = lastGrant[k]
    BY <1>1, <1>6 DEF Types
  <2>2. Asked(k)' = Asked(k)
    BY <1>2, <2>1 DEF Asked, Refilled, FullBucket
  <2>3. charged'[k] = charged[k] /\ forgiven'[k] = forgiven[k]
    BY <1>1, <1>6 DEF Types
  <2> QED BY <1>2, <1>3, <2>1, <2>2, <2>3
<1> QED BY <1>4, <1>5, <1>6

LEMMA LimitsTick ==
    ASSUME Types, Budget, Granted, Tick
    PROVE  Budget' /\ Granted'
<1> SUFFICES ASSUME NEW k \in KeyIds
             PROVE  /\ charged[k] + Asked(k)'.tokens <= Burst + (clock' - window) + forgiven[k]
                    /\ buckets[k] # NoBucket =>
                         Asked(k)'.tokens >= AtMost(clock' - lastGrant[k], Cost)
  BY DEF Budget, Granted, AtMost, Tick
<1>1. /\ clock \in Nat /\ window \in 0..clock /\ charged[k] \in Nat
      /\ forgiven[k] \in Nat /\ lastGrant[k] \in 0..clock /\ clock' = clock + 1
      /\ buckets' = buckets
  BY DEF Types, Tick
<1>2. /\ charged[k] + Asked(k).tokens <= Burst + (clock - window) + forgiven[k]
      /\ buckets[k] # NoBucket => Asked(k).tokens >= AtMost(clock - lastGrant[k], Cost)
      /\ Asked(k).tokens \in 0..Burst
  BY AskedIs DEF Budget, Granted
<1>3. CASE buckets[k] = NoBucket
  <2>1. Asked(k)'.tokens = Burst /\ Asked(k).tokens = Burst
    BY <1>1, <1>3, AskedIs DEF Asked, Refilled, FullBucket, AtMost
  <2> QED BY <1>1, <1>2, <1>3, <2>1
<1>4. CASE buckets[k] # NoBucket
  <2>1. /\ buckets[k].tokens \in 0..Burst /\ buckets[k].lastTime \in 0..clock
        /\ Asked(k).tokens = AtMost(buckets[k].tokens + (clock - buckets[k].lastTime), Burst)
    BY <1>4, AskedIs
  <2>2. Asked(k)'.tokens = AtMost(buckets[k].tokens + (clock' - buckets[k].lastTime), Burst)
    BY <1>1, <1>4 DEF Asked, Refilled
  <2>3. Asked(k)'.tokens = AtMost(Asked(k).tokens + 1, Burst)
    BY <1>1, <2>1, <2>2 DEF AtMost
  <2> QED BY <1>1, <1>2, <2>3 DEF AtMost
<1> QED BY <1>3, <1>4

LEMMA LimitsObserve ==
    ASSUME Types, Budget, Granted, Observe
    PROVE  Budget' /\ Granted'
<1> SUFFICES ASSUME NEW k \in KeyIds
             PROVE  /\ 0 + Asked(k)'.tokens <= Burst + (clock' - clock') + 0
                    /\ buckets'[k] # NoBucket =>
                         Asked(k)'.tokens >= AtMost(clock' - lastGrant'[k], Cost)
  BY DEF Budget, Granted, AtMost, Observe
<1>1. clock' = clock /\ buckets' = buckets /\ lastGrant' = lastGrant /\ clock \in Nat
  BY DEF Observe, Types
<1>2. Asked(k)' = Asked(k)
  BY <1>1 DEF Asked, Refilled, FullBucket
<1> QED BY <1>1, <1>2, AskedIs DEF Granted

LEMMA LimitsNext == Types /\ Budget /\ Granted /\ [Next]_vars => Budget' /\ Granted'
<1> SUFFICES ASSUME Types, Budget, Granted, [Next]_vars PROVE Budget' /\ Granted'
  OBVIOUS
<1>1. Types'
  BY TypesNext
<1>2. CASE UNCHANGED <<buckets, charged, forgiven, lastGrant, clock, window>>
  <2>1. \A k \in KeyIds : Asked(k)' = Asked(k)
    BY <1>2 DEF Asked, Refilled, FullBucket
  <2> QED BY <1>2, <2>1 DEF Budget, Granted
<1>3. CASE UNCHANGED <<clock, window>> /\ \E key \in KeyIds : allowRequest(key)
  BY <1>1, <1>3, LimitsAsk
<1>4. CASE Tick
  BY <1>4, LimitsTick
<1>5. CASE Observe
  BY <1>5, LimitsObserve
<1>6. \/ UNCHANGED <<buckets, charged, forgiven, lastGrant, clock, window>>
      \/ UNCHANGED <<clock, window>> /\ \E key \in KeyIds : allowRequest(key)
      \/ Tick \/ Observe
  BY RequestAsks DEF Next, vars
<1> QED BY <1>2, <1>3, <1>4, <1>5, <1>6

-----------------------------------------------------------------------------
(* The charge *)

\* A request on its way: a mark stands for a payment of a known key.
RequestInv ==
    \A r \in Requests :
        /\ pc[r] = "http" => spent[r] = 0 /\ ~marked[r]
        /\ pc[r] = "grpc" => spent[r] = (IF marked[r] THEN 1 ELSE 0)
        /\ marked[r] => Verified(r)
        /\ pc[r] = "done" /\ hasToken => spent[r] <= 1
        /\ pc[r] = "done" /\ hasToken /\ marked[r] => status[r] = "served" /\ spent[r] = 1
        /\ spent[r] <= 2

LEMMA RequestInvInit == Init => RequestInv
<1> SUFFICES ASSUME Init, NEW r \in Requests
             PROVE  spent[r] = 0 /\ ~marked[r] /\ pc[r] # "done"
  BY DEF RequestInv
<1> QED BY DEF Init

LEMMA RequestInvNext == Types /\ RequestInv /\ [Next]_vars => RequestInv'
<1> SUFFICES ASSUME Types, RequestInv, [Next]_vars PROVE RequestInv'
  OBVIOUS
<1>1. CASE UNCHANGED <<validKeys, hasToken, call, pc, marked, status, spent>>
  BY <1>1 DEF RequestInv, Verified
<1>2. ASSUME NEW r \in Requests, HTTPMiddleware(r) \/ UnaryInterceptor(r) PROVE RequestInv'
  <2> USE <1>2
  <2>0. UNCHANGED <<validKeys, hasToken, call>>
    BY RequestAsks
  <2>1. \A s \in Requests : Verified(s)' <=> Verified(s)
    BY <2>0 DEF Verified
  <2>2. spent[r] \in Nat /\ marked[r] \in BOOLEAN
    BY DEF Types
  <2>3. ASSUME NEW s \in Requests \ {r}
        PROVE  pc'[s] = pc[s] /\ marked'[s] = marked[s] /\ status'[s] = status[s] /\ spent'[s] = spent[s]
    BY HTTPOutcome, RPCOutcome DEF Forward, Finish, Paid, Unpaid, Types
  <2>4. CASE HTTPMiddleware(r) /\ pc[r] = "http"
    <3>1. pc'[r] \in {"grpc", "done"} /\ spent[r] = 0 /\ ~marked[r]
      BY <2>4, HTTPOutcome DEF Forward, Finish, Types, RequestInv
    <3>2. \/ pc'[r] = "grpc" /\ ~marked'[r] /\ spent'[r] = 0
          \/ pc'[r] = "grpc" /\ marked'[r] /\ spent'[r] = 1 /\ Verified(r)
          \/ pc'[r] = "done" /\ ~marked'[r] /\ spent'[r] = 0
      BY <2>4, <3>1, HTTPOutcome DEF Forward, Finish, Paid, Unpaid, Types
    <3> QED BY <2>0, <2>1, <2>3, <3>2 DEF RequestInv
  <2>5. CASE UnaryInterceptor(r)
    <3>1. /\ pc'[r] = "done" /\ marked'[r] = marked[r]
          /\ spent[r] = (IF marked[r] THEN 1 ELSE 0)
          /\ marked[r] => Verified(r)
      BY <2>5, RPCOutcome DEF Finish, Types, RequestInv
    <3>2. spent'[r] \in {spent[r], spent[r] + 1}
      BY <2>5, RPCOutcome DEF Paid, Unpaid, Types
    <3>3. hasToken /\ marked[r] => status'[r] = "served" /\ spent'[r] = spent[r]
      BY <2>5, <3>1, RPCOutcome DEF alreadyRateLimited, Finish, Unpaid, Types
    <3> QED BY <2>0, <2>1, <2>2, <2>3, <3>1, <3>2, <3>3 DEF RequestInv
  <2> QED BY <2>4, <2>5, HTTPOutcome
<1> QED BY <1>1, <1>2 DEF Next, Tick, Observe, vars

-----------------------------------------------------------------------------
(* The theorems *)

IInv == Types /\ MapBound /\ Budget /\ Granted /\ RequestInv

LEMMA IInvInit == Init => IInv
<1> SUFFICES ASSUME Init PROVE IInv
  OBVIOUS
<1>1. Granted
  BY DEF Init, Granted
<1> QED BY <1>1, TypesInit, MapBoundInit, BudgetInit, RequestInvInit DEF IInv

LEMMA IInvNext == IInv /\ [Next]_vars => IInv'
BY TypesNext, MapBoundNext, LimitsNext, RequestInvNext DEF IInv

LEMMA IInvAlways == Spec => []IInv
BY IInvInit, IInvNext, PTL DEF Spec

\* Types, and that the map of buckets never outgrows maxBuckets
\* (evictIdlestLocked).
THEOREM TypeCorrect == Spec => []TypeOK
<1>1. IInv => TypeOK
  BY DEF IInv, Types, MapBound, Present, TypeOK
<1> QED BY <1>1, IInvAlways, PTL

\* In any window a key is admitted at most a full burst, the refill of the
\* window, and a burst for each eviction of its bucket (tokenBucket.allow,
\* evictIdlestLocked).
THEOREM WindowBounded == Spec => []WindowBound
<1>1. IInv => WindowBound
  <2> SUFFICES ASSUME IInv, NEW k \in KeyIds
               PROVE  charged[k] <= Burst + (clock - window) + forgiven[k]
    BY DEF WindowBound
  <2>1. /\ charged[k] + Asked(k).tokens <= Burst + (clock - window) + forgiven[k]
        /\ Asked(k).tokens \in 0..Burst /\ charged[k] \in Nat /\ forgiven[k] \in Nat
        /\ clock \in Nat /\ window \in Nat
    BY AskedIs DEF IInv, Budget, Types
  <2> QED BY <2>1
<1> QED BY <1>1, IInvAlways, PTL

\* A request pays once whichever layers it passes, and what HTTPMiddleware
\* marked as paid UnaryInterceptor serves (alreadyRateLimited).
THEOREM PaidOnce == Spec => []ChargedOnce
<1>1. IInv => ChargedOnce
  <2> SUFFICES ASSUME IInv, NEW r \in Requests
               PROVE  /\ spent[r] <= (IF hasToken THEN 1 ELSE 2)
                      /\ hasToken /\ marked[r] /\ pc[r] = "done" => status[r] = "served" /\ spent[r] = 1
    BY DEF ChargedOnce
  <2> QED BY DEF IInv, RequestInv, Types
<1> QED BY <1>1, IInvAlways, PTL

\* Refused requests do not postpone the next grant: Cost ticks after the last one
\* a bucket pays again (tokenBucket.allow refills on refusal, too).
THEOREM RetriesServed == Spec => []RetriesDoNotStarve
<1>1. IInv => RetriesDoNotStarve
  <2> SUFFICES ASSUME IInv, NEW k \in KeyIds, buckets[k] # NoBucket, clock - lastGrant[k] >= Cost
               PROVE  Admits(k)
    BY DEF RetriesDoNotStarve
  <2>1. /\ Asked(k).tokens >= AtMost(clock - lastGrant[k], Cost)
        /\ clock \in Nat /\ lastGrant[k] \in Nat /\ Asked(k).tokens \in Int
    BY AskedIs DEF IInv, Granted, Types
  <2> QED BY <2>1 DEF Admits, AtMost
<1> QED BY <1>1, IInvAlways, PTL
=============================================================================
