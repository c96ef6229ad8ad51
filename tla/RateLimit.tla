------------------------------- MODULE RateLimit -------------------------------
(***************************************************************************)
(* internal/auth: API keys and the per-key token bucket, as a request      *)
(* meets them.  A gRPC call passes UnaryInterceptor.  A REST call passes   *)
(* HTTPMiddleware, and then, through grpc-gateway and another connection,  *)
(* UnaryInterceptor: two steps with other requests and time in between.    *)
(*                                                                         *)
(* The clock and the tokens share a unit: one tick refills one unit, a     *)
(* request costs Cost units, a full bucket holds Burst units.  The code's  *)
(* float64 arithmetic is exact here.  A credential stands for its hash.    *)
(***************************************************************************)
EXTENDS Integers, FiniteSets

CONSTANTS
    Requests,
    Credentials,     \* what a caller may present in X-API-Key
    NoCredential,    \* ... or not
    KeyIds,          \* what ParseKey makes of a credential; keys may share one
    Configurations,  \* the validKeys a process may be started with
    Cost,            \* ticks that refill one token
    Burst,           \* units in a full bucket: the limit per minute, times Cost
    MaxBuckets,
    NoBucket,
    Horizon          \* bound on the clock

ASSUME RateLimitAssumption ==
    /\ NoCredential \notin Credentials
    /\ IsFiniteSet(KeyIds)
    /\ \A valid \in Configurations :
          /\ DOMAIN valid \subseteq Credentials
          /\ \A c \in DOMAIN valid : valid[c] \in KeyIds
    /\ Cost \in Nat \ {0} /\ Burst \in Nat /\ Burst >= Cost
    /\ MaxBuckets \in Nat \ {0}
    /\ NoBucket \notin [tokens : Int, lastTime : Int]
    /\ Horizon \in Nat

VARIABLES
    validKeys,   \* credential -> key id
    hasToken,    \* rateLimitToken is not empty: the process had entropy
    buckets,
    clock,
    pc,
    call,        \* how and with what the request came
    marked,      \* RateLimitedHeader carries rateLimitToken
    status,
    \* history
    spent,       \* tokens a request has been charged
    window,      \* when the observer began to count
    charged,     \* units a key paid since
    forgiven,    \* Burst for each bucket of the key evicted since
    lastGrant    \* when the key's present bucket last paid, or was created

configVars == <<validKeys, hasToken>>
bucketVars == <<buckets, charged, forgiven, lastGrant>>
vars == <<validKeys, hasToken, buckets, clock, pc, call, marked, status,
          spent, window, charged, forgiven, lastGrant>>

Buckets == [tokens : 0..Burst, lastTime : 0..Horizon]
Calls == [via : {"rest", "grpc"}, health : BOOLEAN, key : Credentials \cup {NoCredential}]
Statuses == {"none", "Unauthenticated", "ResourceExhausted", "anonymous", "served"}

TypeOK ==
    /\ validKeys \in Configurations
    /\ hasToken \in BOOLEAN
    /\ buckets \in [KeyIds -> Buckets \cup {NoBucket}]
    /\ Cardinality({k \in KeyIds : buckets[k] # NoBucket}) <= MaxBuckets
    /\ clock \in 0..Horizon
    /\ pc \in [Requests -> {"http", "grpc", "done"}]
    /\ call \in [Requests -> Calls]
    /\ marked \in [Requests -> BOOLEAN]
    /\ status \in [Requests -> Statuses]
    /\ spent \in [Requests -> Nat]
    /\ window \in 0..Horizon
    /\ charged \in [KeyIds -> Nat]
    /\ forgiven \in [KeyIds -> Nat]
    /\ lastGrant \in [KeyIds -> 0..Horizon]

Init ==
    /\ validKeys \in Configurations
    /\ hasToken \in BOOLEAN
    /\ buckets = [k \in KeyIds |-> NoBucket]
    /\ clock = 0
    /\ call \in [Requests -> Calls]
    /\ pc = [r \in Requests |-> IF call[r].via = "rest" THEN "http" ELSE "grpc"]
    /\ marked = [r \in Requests |-> FALSE]
    /\ status = [r \in Requests |-> "none"]
    /\ spent = [r \in Requests |-> 0]
    /\ window = 0
    /\ charged = [k \in KeyIds |-> 0]
    /\ forgiven = [k \in KeyIds |-> 0]
    /\ lastGrant = [k \in KeyIds |-> 0]

-----------------------------------------------------------------------------
(* The bucket map, under APIKeyAuth.mu. *)

AtMost(x, cap) == IF x > cap THEN cap ELSE x

FullBucket == [tokens |-> Burst, lastTime |-> clock]

\* Bugs: no cap at the burst limit; the fraction of a token forgotten.
RefilledUncapped(b) == [tokens |-> b.tokens + (clock - b.lastTime), lastTime |-> clock]
RefilledWhole(b) ==
    [tokens |-> AtMost(b.tokens + Cost * ((clock - b.lastTime) \div Cost), Burst),
     lastTime |-> clock]

\* The refill half of tokenBucket.allow; a rejected request refills too.
Refilled(b) == [tokens |-> AtMost(b.tokens + (clock - b.lastTime), Burst), lastTime |-> clock]

Idlest ==
    {k \in KeyIds : /\ buckets[k] # NoBucket
                    /\ \A j \in KeyIds : buckets[j] # NoBucket =>
                                            buckets[k].lastTime <= buckets[j].lastTime}

MapFull == Cardinality({k \in KeyIds : buckets[k] # NoBucket}) >= MaxBuckets

\* The keys evictIdlestLocked may drop to make room for a bucket of key.
Evicted(key) ==
    IF buckets[key] = NoBucket /\ MapFull THEN {{k} : k \in Idlest} ELSE {{}}

Asked(key) == Refilled(IF buckets[key] = NoBucket THEN FullBucket ELSE buckets[key])

AdmitsAny(key) == Asked(key).tokens > 0  \* a bug: the threshold of one token
Admits(key) == Asked(key).tokens >= Cost

allowRequest(key) ==
    \E gone \in Evicted(key) :
        /\ buckets' = [k \in KeyIds |->
             IF k = key THEN [Asked(key) EXCEPT !.tokens = @ - (IF Admits(key) THEN Cost ELSE 0)]
             ELSE IF k \in gone THEN NoBucket ELSE buckets[k]]
        /\ charged' = [charged EXCEPT ![key] = @ + (IF Admits(key) THEN Cost ELSE 0)]
        /\ forgiven' = [k \in KeyIds |-> forgiven[k] + (IF k \in gone THEN Burst ELSE 0)]
        /\ lastGrant' = [lastGrant EXCEPT ![key] =
             IF Admits(key) \/ buckets[key] = NoBucket THEN clock ELSE @]

\* What the caller's request costs, once allowRequest was asked for key.
Charge(r, key) == spent' = [spent EXCEPT ![r] = @ + (IF Admits(key) THEN 1 ELSE 0)]

NotAsked == UNCHANGED <<buckets, charged, forgiven, lastGrant, spent>>

-----------------------------------------------------------------------------

Verified(r) == call[r].key \in DOMAIN validKeys
KeyOf(r) == validKeys[call[r].key]
AuthDisabled == DOMAIN validKeys = {}
alreadyRateLimitedNever(r) == FALSE  \* a bug: the gateway drops the header
alreadyRateLimited(r) == hasToken /\ marked[r]

Finish(r, s) ==
    /\ pc' = [pc EXCEPT ![r] = "done"]
    /\ status' = [status EXCEPT ![r] = s]

Forward(r, withMark) ==
    /\ pc' = [pc EXCEPT ![r] = "grpc"]
    /\ marked' = [marked EXCEPT ![r] = withMark]
    /\ UNCHANGED status

\* A public path is always forwarded; a key with tokens left makes it authenticated.
HTTPPublic(r) ==
    /\ call[r].health
    /\ IF Verified(r)
       THEN /\ allowRequest(KeyOf(r)) /\ Charge(r, KeyOf(r))
            /\ Forward(r, Admits(KeyOf(r)))
       ELSE Forward(r, FALSE) /\ NotAsked

HTTPProtected(r) ==
    /\ ~call[r].health
    /\ \/ AuthDisabled /\ Forward(r, FALSE) /\ NotAsked
       \/ /\ ~AuthDisabled /\ ~Verified(r)
          /\ Finish(r, "Unauthenticated") /\ UNCHANGED marked /\ NotAsked
       \/ /\ Verified(r)
          /\ allowRequest(KeyOf(r)) /\ Charge(r, KeyOf(r))
          /\ IF Admits(KeyOf(r)) THEN Forward(r, TRUE)
             ELSE Finish(r, "ResourceExhausted") /\ UNCHANGED marked

HTTPMiddleware(r) ==
    /\ pc[r] = "http"
    /\ HTTPPublic(r) \/ HTTPProtected(r)
    /\ UNCHANGED <<validKeys, hasToken, clock, call, window>>

InterceptHealth(r) ==
    /\ call[r].health
    /\ \/ ~Verified(r) /\ Finish(r, "anonymous") /\ NotAsked
       \/ Verified(r) /\ alreadyRateLimited(r) /\ Finish(r, "served") /\ NotAsked
       \/ /\ Verified(r) /\ ~alreadyRateLimited(r)
          /\ allowRequest(KeyOf(r)) /\ Charge(r, KeyOf(r))
          /\ Finish(r, IF Admits(KeyOf(r)) THEN "served" ELSE "anonymous")

InterceptCall(r) ==
    /\ ~call[r].health
    /\ \/ AuthDisabled /\ Finish(r, "served") /\ NotAsked
       \/ ~AuthDisabled /\ ~Verified(r) /\ Finish(r, "Unauthenticated") /\ NotAsked
       \/ Verified(r) /\ alreadyRateLimited(r) /\ Finish(r, "served") /\ NotAsked
       \/ /\ Verified(r) /\ ~alreadyRateLimited(r)
          /\ allowRequest(KeyOf(r)) /\ Charge(r, KeyOf(r))
          /\ Finish(r, IF Admits(KeyOf(r)) THEN "served" ELSE "ResourceExhausted")

UnaryInterceptor(r) ==
    /\ pc[r] = "grpc"
    /\ InterceptHealth(r) \/ InterceptCall(r)
    /\ UNCHANGED <<validKeys, hasToken, clock, call, marked, window>>

Tick ==
    /\ clock < Horizon
    /\ clock' = clock + 1
    /\ UNCHANGED <<validKeys, hasToken, buckets, pc, call, marked, status, spent,
                   window, charged, forgiven, lastGrant>>

\* Not the code: an observer begins to count at a moment of its choice.
Observe ==
    /\ window = 0 /\ clock > 0
    /\ window' = clock
    /\ charged' = [k \in KeyIds |-> 0]
    /\ forgiven' = [k \in KeyIds |-> 0]
    /\ UNCHANGED <<validKeys, hasToken, buckets, clock, pc, call, marked, status,
                   spent, lastGrant>>

Next ==
    \/ \E r \in Requests : HTTPMiddleware(r) \/ UnaryInterceptor(r)
    \/ Tick
    \/ Observe

Spec == Init /\ [][Next]_vars

-----------------------------------------------------------------------------

(* The limit itself.  In any window of time a key is admitted at most one   *)
(* full burst, one request for every Cost ticks of the window, and one more *)
(* burst for each time evictIdlestLocked dropped the key's bucket in it:    *)
(* eviction is the only way past the limit.                                 *)
WindowBound ==
    \A k \in KeyIds : charged[k] <= Burst + (clock - window) + forgiven[k]

(* A request pays once however many layers it passes, and the layers agree: *)
(* what HTTPMiddleware charged and forwarded, UnaryInterceptor does not     *)
(* reject or take for anonymous.  Without a rateLimitToken (no entropy at   *)
(* start) a request may pay twice, never more.                              *)
ChargedOnce ==
    \A r \in Requests :
        /\ spent[r] <= (IF hasToken THEN 1 ELSE 2)
        /\ hasToken /\ marked[r] /\ pc[r] = "done" => status[r] = "served" /\ spent[r] = 1

(* Rejected requests do not postpone admission: Cost ticks after the last   *)
(* request a bucket paid for (what Retry-After tells the client to wait)    *)
(* the next one is admitted, however often clients were refused meanwhile.  *)
RetriesDoNotStarve ==
    \A k \in KeyIds :
        buckets[k] # NoBucket /\ clock - lastGrant[k] >= Cost => Admits(k)
=============================================================================
