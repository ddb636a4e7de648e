----------------------------- MODULE RateLimit -----------------------------
(***************************************************************************)
(* The rate-limit guard (src/api/src/common/guards/rate-limit.guard.ts): a *)
(* token bucket per key.  The guard runs before the one that reads the     *)
(* session, so that request.user is never set: the key is the caller's     *)
(* address and the capacity always the unauthenticated one.                *)
(***************************************************************************)
EXTENDS Integers

CONSTANTS
    Clients,             \* the callers' IP addresses
    CAPACITY,         \* unauthenticatedCapacity
    REFILL_INTERVAL,  \* refillInterval, for one token
    MaxRateTime,      \* bound: the clock
    NoBucket

ASSUME RateLimitAssumption ==
    /\ CAPACITY \in Nat \ {0} /\ REFILL_INTERVAL \in Nat \ {0} /\ MaxRateTime \in Nat
    \* a bucket is not NoBucket
    /\ \A n \in 0..CAPACITY, t \in 0..MaxRateTime : NoBucket # [tokens |-> n, lastRefill |-> t]

VARIABLES
    buckets,    \* per key NoBucket or [tokens, lastRefill]
    rateNow,    \* Date.now()
    firstSeen,  \* history: when the bucket of a key was made
    admitted    \* history: the requests let through per key

rateVars == <<buckets, rateNow, firstSeen, admitted>>

-----------------------------------------------------------------------------
bucket_of(k) ==
    IF buckets[k] = NoBucket THEN [tokens |-> CAPACITY, lastRefill |-> rateNow] ELSE buckets[k]

refillTokens(b) == (rateNow - b.lastRefill) \div REFILL_INTERVAL

\* Mutant: the time of the last refill is not moved.
refilled_KeepsTime(b) ==
    IF b.tokens + refillTokens(b) <= CAPACITY
    THEN [b EXCEPT !.tokens = @ + refillTokens(b)]
    ELSE [b EXCEPT !.tokens = CAPACITY]

refilled(b) ==
    IF refillTokens(b) = 0 THEN b
    ELSE [tokens |-> IF b.tokens + refillTokens(b) <= CAPACITY
                     THEN b.tokens + refillTokens(b) ELSE CAPACITY,
          lastRefill |-> rateNow]

\* One request; without a token it is refused, and the refill is kept.
canActivate(k) ==
    LET b == refilled(bucket_of(k)) IN
    /\ buckets' = [buckets EXCEPT ![k] = IF b.tokens = 0 THEN b ELSE [b EXCEPT !.tokens = @ - 1]]
    /\ admitted' = [admitted EXCEPT ![k] = IF b.tokens = 0 THEN @ ELSE @ + 1]
    /\ firstSeen' = [firstSeen EXCEPT ![k] = IF buckets[k] = NoBucket THEN rateNow ELSE @]
    /\ UNCHANGED rateNow

rate_tick ==
    /\ rateNow < MaxRateTime /\ rateNow' = rateNow + 1
    /\ UNCHANGED <<buckets, firstSeen, admitted>>

-----------------------------------------------------------------------------
RateInit ==
    /\ buckets = [k \in Clients |-> NoBucket] /\ rateNow = 0
    /\ firstSeen = [k \in Clients |-> 0] /\ admitted = [k \in Clients |-> 0]

RateNext == rate_tick \/ \E k \in Clients : canActivate(k)

RateSpec == RateInit /\ [][RateNext]_rateVars

-----------------------------------------------------------------------------
\* However requests fall between refills, a caller is let through at most the
\* capacity plus one request per interval since it was first seen.
AdmittedWithinBudget ==
    \A k \in Clients :
        admitted[k] <= CAPACITY + (rateNow - firstSeen[k]) \div REFILL_INTERVAL

=============================================================================
