--------------------------- MODULE ServicesProofs ---------------------------
(***************************************************************************)
(* Theorems about the parts of CarbonVeritas that share no state with the  *)
(* others: sessions and the token bucket of the API, the pages of the      *)
(* frontend, the stakes of the verifiers, the division of a payment, the   *)
(* webhooks, the reports, the paged lists and the guards before the API's  *)
(* handlers; for any accounts, rows, amounts, times and answers, and any   *)
(* number of requests side by side.                                        *)
(***************************************************************************)
EXTENDS Sessions, RateLimit, WebPages, RetirePage, ConfigForm, VerifierStake,
        RevenueSplit, Webhooks, Reports, PagedLists, Gateway, FoldLemmas,
        FiniteSetTheorems

-----------------------------------------------------------------------------
(* Sessions. *)

Token == [user : UserIds, wallet : Wallets, until : Nat, challenge : ChallengeIds]

SessionsTypeOK ==
    /\ challenge \in [ChallengeIds -> Challenge \cup {NoRow}]
    /\ issued \subseteq ChallengeIds
    /\ user \in [UserIds -> Wallets \cup {NoRow}]
    /\ exchange \in [Exchanges -> Exchange \cup {NoRow}]
    /\ tokens \subseteq Token
    /\ authNow \in Nat

redeemed_by(c, w) == [challenge |-> c, wallet |-> w] \in redeemed

\* The row of an exchange's challenge, while there is one, is its wallet's: ids
\* are not given out again.
RowIsOwn(e) ==
    /\ e.challenge \in issued
    /\ challenge[e.challenge] # NoRow => challenge[e.challenge].wallet = e.wallet

\* What an exchange has done by its stage.
StageReached(e) ==
    /\ e.at # "mark" => redeemed_by(e.challenge, e.wallet)
    /\ e.at = "sign" => e.user \in UserIds /\ user[e.user] = e.wallet

SessionInv ==
    /\ SessionsTypeOK
    /\ \A c \in ChallengeIds : challenge[c] # NoRow => c \in issued
    /\ \A u, v \in UserIds : user[u] # NoRow /\ user[u] = user[v] => u = v
    /\ \A x \in Exchanges : exchange[x] # NoRow => RowIsOwn(exchange[x]) /\ StageReached(exchange[x])
    /\ \A t \in tokens : user[t.user] = t.wallet /\ redeemed_by(t.challenge, t.wallet)

\* Creating and cleaning up challenges takes no row from under an exchange but its own.
LEMMA ChallengesKeep ==
    ASSUME SessionInv, deleteMany \/ \E w \in Wallets, c \in ChallengeIds : create_challenge(w, c)
    PROVE  SessionInv'
  <1> USE SessionsAssumption DEF SessionInv, SessionsTypeOK
  <1>1. CASE deleteMany
    <2>1. /\ \A c \in ChallengeIds : challenge'[c] \in {challenge[c], NoRow}
          /\ challenge' \in [ChallengeIds -> Challenge \cup {NoRow}]
          /\ UNCHANGED <<issued, user, exchange, tokens, redeemed, authNow>>
      BY <1>1 DEF deleteMany
    <2>2. ASSUME NEW x \in Exchanges, exchange[x] # NoRow
          PROVE  RowIsOwn(exchange[x])' /\ StageReached(exchange[x])'
      <3>1. exchange[x].challenge \in ChallengeIds
        BY <2>2 DEF Exchange
      <3> QED
        BY <2>1, <2>2, <3>1 DEF RowIsOwn, StageReached, redeemed_by
    <2> QED
      BY <2>1, <2>2 DEF redeemed_by
  <1>2. ASSUME NEW w \in Wallets, NEW c \in ChallengeIds, create_challenge(w, c)
        PROVE  SessionInv'
    <2>1. [wallet |-> w, expires |-> authNow + TIMEOUT, used |-> FALSE] \in Challenge
      BY DEF Challenge
    <2>2. /\ c \notin issued /\ issued' = issued \cup {c}
          /\ challenge' \in [ChallengeIds -> Challenge \cup {NoRow}]
          /\ \A d \in ChallengeIds \ {c} : challenge'[d] = challenge[d]
          /\ UNCHANGED <<user, exchange, tokens, redeemed, authNow>>
      BY <1>2, <2>1 DEF create_challenge
    <2>3. ASSUME NEW x \in Exchanges, exchange[x] # NoRow
          PROVE  RowIsOwn(exchange[x])' /\ StageReached(exchange[x])'
      <3>1. exchange[x].challenge \in ChallengeIds
        BY <2>3 DEF Exchange
      <3> QED
        BY <2>2, <2>3, <3>1 DEF RowIsOwn, StageReached, redeemed_by
    <2> QED
      BY <2>2, <2>3 DEF redeemed_by
  <1> QED
    BY <1>1, <1>2

\* An exchange that ends leaves the others as they are.
LEMMA EndKeeps ==
    ASSUME SessionInv, NEW x \in Exchanges, exchange_ends(x),
           UNCHANGED <<challengeRows, user, redeemed, authNow>>,
           \/ UNCHANGED tokens
           \/ \E t \in Token : /\ tokens' = tokens \cup {t}
                               /\ user[t.user] = t.wallet /\ redeemed_by(t.challenge, t.wallet)
    PROVE  SessionInv'
  <1>1. /\ exchange' \in [Exchanges -> Exchange \cup {NoRow}]
        /\ \A y \in Exchanges : exchange'[y] \in {exchange[y], NoRow}
    BY DEF SessionInv, SessionsTypeOK, exchange_ends
  <1> QED
    BY <1>1 DEF SessionInv, SessionsTypeOK, challengeRows, RowIsOwn, StageReached, redeemed_by

\* A step of one exchange keeps it.
LEMMA ExchangeKeeps ==
    ASSUME SessionInv, NEW x \in Exchanges,
           \/ \E w \in Wallets, c \in ChallengeIds : begin_exchange(x, w, c)
           \/ mark_used(x) \/ find_user(x) \/ create_user(x) \/ sign_tokens(x) \/ exchange_fails(x)
    PROVE  SessionInv'
  <1> USE SessionsAssumption
  <1> DEFINE e == exchange[x]
  <1>1. ASSUME NEW w \in Wallets, NEW c \in ChallengeIds, begin_exchange(x, w, c)
        PROVE  SessionInv'
    <2> DEFINE new == [wallet |-> w, challenge |-> c, at |-> "mark", user |-> NoRow]
    <2>1. new \in Exchange
      BY DEF Exchange, Stages
    <2>2. /\ exchange' = [exchange EXCEPT ![x] = new]
          /\ c \in issued /\ challenge[c].wallet = w
          /\ UNCHANGED <<challenge, issued, user, tokens, redeemed, authNow>>
      BY <1>1 DEF begin_exchange, accepts, challengeRows
    <2>3. new.challenge = c /\ new.wallet = w /\ new.at = "mark"
      OBVIOUS
    <2> HIDE DEF new
    <2> QED
      BY <2>1, <2>2, <2>3 DEF SessionInv, SessionsTypeOK, RowIsOwn, StageReached, redeemed_by
  <1>2. CASE mark_used(x)
    <2>1. e \in Exchange /\ e # NoRow /\ e.at = "mark" /\ e.challenge \in ChallengeIds /\ RowIsOwn(e)
      BY <1>2 DEF mark_used, exchanges_at, SessionInv, SessionsTypeOK, Exchange
    <2>2. CASE challenge[e.challenge] = NoRow
      BY <1>2, <2>2, EndKeeps DEF mark_used, challengeRows
    <2>3. CASE challenge[e.challenge] # NoRow
      <3> DEFINE c == e.challenge
                 new == [e EXCEPT !.at = "find"]
      <3>1. /\ new \in Exchange /\ new.challenge = c /\ new.wallet = e.wallet /\ new.at = "find"
        BY <2>1 DEF Exchange, Stages
      <3>0. challenge[c] \in Challenge /\ challenge[c].wallet = e.wallet
        BY <2>1, <2>3 DEF SessionInv, SessionsTypeOK, RowIsOwn
      <3>2. /\ [challenge[c] EXCEPT !.used = TRUE] \in Challenge
            /\ [challenge[c] EXCEPT !.used = TRUE].wallet = e.wallet
            /\ challenge[c].wallet = e.wallet
        BY <3>0 DEF Challenge
      <3>3. /\ challenge' = [challenge EXCEPT ![c] = [challenge[c] EXCEPT !.used = TRUE]]
            /\ redeemed' = redeemed \cup {[challenge |-> c, wallet |-> e.wallet]}
            /\ exchange' = [exchange EXCEPT ![x] = new]
            /\ UNCHANGED <<issued, user, tokens, authNow>>
        BY <1>2, <2>3, <3>2 DEF mark_used, exchange_goes
      <3>4. c \in ChallengeIds
        BY <2>1
      <3> HIDE DEF c, new
      <3>5. /\ \A d \in ChallengeIds : d # c => challenge'[d] = challenge[d]
            /\ challenge'[c] # NoRow /\ challenge'[c].wallet = e.wallet
            /\ challenge' \in [ChallengeIds -> Challenge \cup {NoRow}]
        BY <3>2, <3>3, <3>4 DEF SessionInv, SessionsTypeOK
      <3>6. ASSUME NEW y \in Exchanges, y # x, exchange[y] # NoRow
            PROVE  RowIsOwn(exchange[y])' /\ StageReached(exchange[y])'
        <4>1. exchange'[y] = exchange[y] /\ exchange[y].challenge \in ChallengeIds
          BY <3>3, <3>6 DEF SessionInv, SessionsTypeOK, Exchange
        <4>2. challenge[c] # NoRow /\ challenge[c].wallet = e.wallet
          BY <2>3, <3>2 DEF c
        <4> QED
          BY <3>3, <3>5, <3>6, <4>1, <4>2 DEF SessionInv, RowIsOwn, StageReached, redeemed_by
      <3>7. RowIsOwn(exchange[x])' /\ StageReached(exchange[x])' /\ exchange'[x] \in Exchange
        <4>1. exchange'[x] = new
          BY <3>3 DEF SessionInv, SessionsTypeOK
        <4>2. c \in issued
          BY <2>1 DEF RowIsOwn, c
        <4> QED
          BY <3>1, <3>3, <3>5, <4>1, <4>2 DEF RowIsOwn, StageReached, redeemed_by
      <3>8. exchange' \in [Exchanges -> Exchange \cup {NoRow}]
        BY <3>1, <3>3 DEF SessionInv, SessionsTypeOK
      <3>9. c \in issued
        BY <2>1 DEF RowIsOwn, c
      <3>10. \A y \in Exchanges : y # x => exchange'[y] = exchange[y]
        BY <3>3 DEF SessionInv, SessionsTypeOK
      <3> QED
        BY <3>3, <3>5, <3>6, <3>7, <3>8, <3>9, <3>10 DEF SessionInv, SessionsTypeOK, redeemed_by
    <2> QED
      BY <2>2, <2>3
  <1>3. ASSUME NEW new \in Exchange, exchange' = [exchange EXCEPT ![x] = new],
               e # NoRow, new.challenge = e.challenge, new.wallet = e.wallet,
               e.at # "mark", new.at # "mark",
               UNCHANGED <<challengeRows, tokens, redeemed, authNow>>,
               user' \in [UserIds -> Wallets \cup {NoRow}],
               \A u \in UserIds : user[u] # NoRow => user'[u] = user[u],
               \A u, v \in UserIds : user'[u] # NoRow /\ user'[u] = user'[v] => u = v,
               new.at = "sign" => new.user \in UserIds /\ user'[new.user] = e.wallet
        PROVE  SessionInv'
    <2>1. e \in Exchange /\ e.challenge \in ChallengeIds /\ RowIsOwn(e) /\ StageReached(e)
      BY <1>3 DEF SessionInv, SessionsTypeOK, Exchange
    <2>2. /\ exchange' \in [Exchanges -> Exchange \cup {NoRow}] /\ exchange'[x] = new
          /\ \A y \in Exchanges : y # x => exchange'[y] = exchange[y]
      BY <1>3 DEF SessionInv, SessionsTypeOK
    <2>3. RowIsOwn(exchange[x])' /\ StageReached(exchange[x])'
      BY <1>3, <2>1, <2>2 DEF RowIsOwn, StageReached, redeemed_by, challengeRows
    <2>4. ASSUME NEW y \in Exchanges, y # x, exchange[y] # NoRow
          PROVE  RowIsOwn(exchange[y])' /\ StageReached(exchange[y])'
      <3>1. exchange[y] \in Exchange /\ exchange[y].wallet # NoRow
        BY <2>4 DEF SessionInv, SessionsTypeOK, Exchange
      <3> QED
        BY <1>3, <2>2, <2>4, <3>1 DEF SessionInv, RowIsOwn, StageReached, redeemed_by, challengeRows
    <2>5. \A t \in tokens : t \in Token /\ t.wallet # NoRow /\ t.user \in UserIds
      BY DEF SessionInv, SessionsTypeOK, Token
    <2> QED
      BY <1>3, <2>2, <2>3, <2>4, <2>5 DEF SessionInv, SessionsTypeOK, redeemed_by, challengeRows
  <1>4. CASE find_user(x)
    <2>1. e \in Exchange /\ e # NoRow /\ e.at = "find"
      BY <1>4 DEF find_user, exchanges_at, SessionInv, SessionsTypeOK
    <2>2. CASE users_of(e.wallet) = {}
      <3> DEFINE new == [e EXCEPT !.at = "create"]
      <3>1. /\ new \in Exchange /\ new.challenge = e.challenge /\ new.wallet = e.wallet
            /\ new.at = "create"
        BY <2>1 DEF Exchange, Stages
      <3>2. exchange' = [exchange EXCEPT ![x] = new]
            /\ UNCHANGED <<challengeRows, user, tokens, redeemed, authNow>>
        BY <1>4, <2>2 DEF find_user, exchange_goes
      <3> HIDE DEF new
      <3> QED
        BY <1>3, <2>1, <3>1, <3>2 DEF SessionInv, SessionsTypeOK
    <2>3. CASE users_of(e.wallet) # {}
      <3>1. PICK u \in users_of(e.wallet) : exchange' = [exchange EXCEPT ![x].at = "sign", ![x].user = u]
        BY <1>4, <2>3 DEF find_user
      <3> DEFINE new == [e EXCEPT !.at = "sign", !.user = u]
      <3>2. u \in UserIds /\ user[u] = e.wallet
        BY DEF users_of
      <3>3. /\ new \in Exchange /\ new.challenge = e.challenge /\ new.wallet = e.wallet
            /\ new.at = "sign" /\ new.user = u
        BY <2>1, <3>2 DEF Exchange, Stages
      <3>4. exchange' = [exchange EXCEPT ![x] = new]
            /\ UNCHANGED <<challengeRows, user, tokens, redeemed, authNow>>
        BY <1>4, <3>1 DEF find_user, SessionInv, SessionsTypeOK
      <3> HIDE DEF new
      <3> QED
        BY <1>3, <2>1, <3>2, <3>3, <3>4 DEF SessionInv, SessionsTypeOK
    <2> QED
      BY <2>2, <2>3
  <1>5. CASE create_user(x)
    <2>1. e \in Exchange /\ e # NoRow /\ e.at = "create" /\ e.wallet \in Wallets
      BY <1>5 DEF create_user, exchanges_at, SessionInv, SessionsTypeOK, Exchange
    <2>2. CASE users_of(e.wallet) # {}
      BY <1>5, <2>2, EndKeeps DEF create_user
    <2>3. CASE users_of(e.wallet) = {}
      <3>1. PICK u \in UserIds :
               /\ user[u] = NoRow /\ user' = [user EXCEPT ![u] = e.wallet]
               /\ exchange' = [exchange EXCEPT ![x].at = "sign", ![x].user = u]
        BY <1>5, <2>3 DEF create_user
      <3> DEFINE new == [e EXCEPT !.at = "sign", !.user = u]
      <3>2. /\ new \in Exchange /\ new.challenge = e.challenge /\ new.wallet = e.wallet
            /\ new.at = "sign" /\ new.user = u
        BY <2>1 DEF Exchange, Stages
      <3>3. exchange' = [exchange EXCEPT ![x] = new]
            /\ UNCHANGED <<challengeRows, tokens, redeemed, authNow>>
        BY <1>5, <3>1 DEF create_user, SessionInv, SessionsTypeOK
      <3>4. /\ user' \in [UserIds -> Wallets \cup {NoRow}] /\ user'[u] = e.wallet
            /\ \A v \in UserIds : v # u => user'[v] = user[v] /\ user[v] # e.wallet
        BY <2>1, <2>3, <3>1 DEF SessionInv, SessionsTypeOK, users_of
      <3>5. \A v \in UserIds : user[v] # NoRow => user'[v] = user[v]
        BY <3>1, <3>4
      <3>6. \A v, w \in UserIds : user'[v] # NoRow /\ user'[v] = user'[w] => v = w
        BY <3>4 DEF SessionInv
      <3> HIDE DEF new
      <3> QED
        BY <1>3, <2>1, <3>2, <3>3, <3>4, <3>5, <3>6
    <2> QED
      BY <2>2, <2>3
  <1>6. CASE sign_tokens(x)
    <2> DEFINE t == [user |-> e.user, wallet |-> e.wallet, until |-> authNow + LIFETIME,
                     challenge |-> e.challenge]
    <2>1. e \in Exchange /\ e # NoRow /\ e.at = "sign" /\ StageReached(e)
      BY <1>6 DEF sign_tokens, exchanges_at, SessionInv, SessionsTypeOK
    <2>2. t \in Token /\ t.user = e.user /\ t.wallet = e.wallet /\ t.challenge = e.challenge
      BY <2>1 DEF Token, Exchange, StageReached, SessionInv, SessionsTypeOK
    <2>3. tokens' = tokens \cup {t} /\ exchange_ends(x)
          /\ UNCHANGED <<challengeRows, user, redeemed, authNow>>
      BY <1>6 DEF sign_tokens
    <2> HIDE DEF t
    <2>4. user[t.user] = t.wallet /\ redeemed_by(t.challenge, t.wallet)
      BY <2>1, <2>2 DEF StageReached
    <2> QED
      BY <2>2, <2>3, <2>4, EndKeeps
  <1>7. CASE exchange_fails(x)
    BY <1>7, EndKeeps DEF exchange_fails
  <1> QED
    BY <1>1, <1>2, <1>4, <1>5, <1>6, <1>7

\* A session is handed out only for a wallet that signed a challenge of its own,
\* names that wallet's only user, and refreshing it changes neither.
THEOREM SessionsAreOwn == SessionsSpec => []SessionsNameTheirUser
  <1> USE SessionsAssumption
  <1>1. SessionsInit => SessionInv
    BY DEF SessionsInit, SessionInv, SessionsTypeOK
  <1>2. SessionInv /\ [SessionsNext]_sessionVars => SessionInv'
    <2> SUFFICES ASSUME SessionInv, [SessionsNext]_sessionVars PROVE SessionInv'
      OBVIOUS
    <2>1. CASE auth_tick
      BY <2>1 DEF auth_tick, challengeRows, SessionInv, SessionsTypeOK, RowIsOwn, StageReached,
         redeemed_by
    <2>2. ASSUME NEW t \in tokens, refreshToken(t) PROVE SessionInv'
      <3> DEFINE new == [t EXCEPT !.until = authNow + LIFETIME]
      <3>1. /\ new \in Token /\ new.user = t.user /\ new.wallet = t.wallet
            /\ new.challenge = t.challenge
        BY DEF SessionInv, SessionsTypeOK, Token
      <3>2. tokens' = tokens \cup {new} /\ UNCHANGED <<challengeRows, user, exchange, redeemed, authNow>>
        BY <2>2 DEF refreshToken
      <3> HIDE DEF new
      <3> QED
        BY <3>1, <3>2 DEF challengeRows, SessionInv, SessionsTypeOK, RowIsOwn, StageReached, redeemed_by
    <2>3. CASE UNCHANGED sessionVars
      BY <2>3 DEF sessionVars, challengeRows, SessionInv, SessionsTypeOK, RowIsOwn, StageReached,
         redeemed_by
    <2> QED
      BY <2>1, <2>2, <2>3, ChallengesKeep, ExchangeKeeps DEF SessionsNext
  <1>3. SessionInv => SessionsNameTheirUser
    <2> SUFFICES ASSUME SessionInv, NEW t \in tokens
                 PROVE  users_of(t.wallet) = {t.user}
                        /\ [challenge |-> t.challenge, wallet |-> t.wallet] \in redeemed
      BY DEF SessionsNameTheirUser
    <2>1. t.user \in UserIds /\ t.wallet \in Wallets
      BY DEF SessionInv, SessionsTypeOK, Token
    <2> QED
      BY <2>1 DEF SessionInv, users_of, redeemed_by
  <1> QED
    BY <1>1, <1>2, <1>3, PTL DEF SessionsSpec

-----------------------------------------------------------------------------
(* The token bucket. *)

\* Whole intervals since a time are at most those to a moment in between and
\* those from it on: what is lost by rounding is never refilled.
LEMMA IntervalsAdd ==
    ASSUME NEW a \in Nat, NEW b \in Nat, NEW d \in Nat \ {0}
    PROVE  /\ a \div d \in Nat /\ b \div d \in Nat /\ (a + b) \div d \in Nat
           /\ (a \div d) + (b \div d) <= (a + b) \div d
  <1> DEFINE x == a \div d
             y == b \div d
             z == (a + b) \div d
  <1>1. x \in Nat /\ d * x <= a
    OBVIOUS
  <1>2. y \in Nat /\ d * y <= b
    OBVIOUS
  <1>3. z \in Nat /\ a + b < d * (z + 1)
    OBVIOUS
  <1> HIDE DEF x, y, z
  <1>4. d * (x + y) = d * x + d * y
    BY <1>1, <1>2
  <1>5. d * (x + y) < d * (z + 1)
    BY <1>1, <1>2, <1>3, <1>4
  <1>6. x + y < z + 1
    BY <1>1, <1>2, <1>3, <1>5
  <1> QED
    BY <1>1, <1>2, <1>3, <1>6 DEF x, y, z

Bucket == [tokens : 0..CAPACITY, lastRefill : 0..rateNow]

\* A bucket's tokens and what it let through never exceed the capacity and the
\* intervals up to its last refill.
WithinIntervals(admissions, b, seen) ==
    /\ seen <= b.lastRefill
    /\ admissions + b.tokens <= CAPACITY + (b.lastRefill - seen) \div REFILL_INTERVAL

BucketInv ==
    /\ rateNow \in 0..MaxRateTime
    /\ admitted \in [Clients -> Nat]
    /\ firstSeen \in [Clients -> 0..rateNow]
    /\ buckets \in [Clients -> Bucket \cup {NoBucket}]
    /\ \A k \in Clients :
          IF buckets[k] = NoBucket THEN admitted[k] = 0
          ELSE WithinIntervals(admitted[k], buckets[k], firstSeen[k])

\* A refill gives at most the tokens of the intervals since the last one.
LEMMA RefillKeepsBudget ==
    ASSUME rateNow \in 0..MaxRateTime, NEW b \in Bucket, NEW n \in Nat, NEW f \in 0..rateNow,
           WithinIntervals(n, b, f)
    PROVE  refilled(b) \in Bucket /\ WithinIntervals(n, refilled(b), f)
  <1> USE RateLimitAssumption
  <1> DEFINE d == REFILL_INTERVAL
             more == refillTokens(b)
  <1>1. b.tokens \in 0..CAPACITY /\ b.lastRefill \in 0..rateNow
    BY DEF Bucket
  <1>2. b.lastRefill - f \in Nat /\ rateNow - b.lastRefill \in Nat
    BY <1>1 DEF WithinIntervals
  <1>3. more \in Nat /\ (b.lastRefill - f) \div d \in Nat /\ (rateNow - f) \div d \in Nat
        /\ ((b.lastRefill - f) \div d) + more <= (rateNow - f) \div d
    <2>1. (b.lastRefill - f) + (rateNow - b.lastRefill) = rateNow - f
      BY <1>1
    <2> QED
      BY <1>2, <2>1, IntervalsAdd DEF refillTokens
  <1> HIDE DEF more
  <1>4. CASE more = 0
    BY <1>4 DEF refilled, more
  <1>5. CASE more # 0
    <2> DEFINE left == IF b.tokens + more <= CAPACITY THEN b.tokens + more ELSE CAPACITY
    <2>1. refilled(b) = [tokens |-> left, lastRefill |-> rateNow]
      BY <1>5 DEF refilled, more
    <2>2. left \in 0..CAPACITY /\ left <= b.tokens + more
      BY <1>1, <1>3
    <2>3. n + left <= CAPACITY + (rateNow - f) \div d
      BY <1>1, <1>3, <2>2 DEF WithinIntervals
    <2> HIDE DEF left
    <2>4. f <= rateNow /\ rateNow \in 0..rateNow
      OBVIOUS
    <2> QED
      BY <2>1, <2>2, <2>3, <2>4 DEF Bucket, WithinIntervals
  <1> QED
    BY <1>4, <1>5

\* One request keeps it, admitted or refused.
LEMMA RequestKeepsBudget ==
    ASSUME BucketInv, NEW k \in Clients, canActivate(k)
    PROVE  BucketInv'
  <1> USE RateLimitAssumption
  <1> DEFINE b == bucket_of(k)
             r == refilled(b)
             f == firstSeen'[k]
             s == IF r.tokens = 0 THEN r ELSE [r EXCEPT !.tokens = @ - 1]
             n == IF r.tokens = 0 THEN admitted[k] ELSE admitted[k] + 1
  <1>1. /\ rateNow' = rateNow
        /\ buckets' = [buckets EXCEPT ![k] = s]
        /\ admitted' = [admitted EXCEPT ![k] = n]
        /\ firstSeen' = [firstSeen EXCEPT ![k] = f]
        /\ f = IF buckets[k] = NoBucket THEN rateNow ELSE firstSeen[k]
    BY DEF canActivate, BucketInv
  <1>2. b \in Bucket /\ f \in 0..rateNow /\ WithinIntervals(admitted[k], b, f)
    <2>1. CASE buckets[k] = NoBucket
      <3>1. b = [tokens |-> CAPACITY, lastRefill |-> rateNow] /\ f = rateNow /\ admitted[k] = 0
        BY <1>1, <2>1 DEF bucket_of, BucketInv
      <3>2. 0 \div REFILL_INTERVAL = 0
        OBVIOUS
      <3> QED
        BY <3>1, <3>2 DEF Bucket, WithinIntervals, BucketInv
    <2>2. CASE buckets[k] # NoBucket
      BY <1>1, <2>2 DEF bucket_of, BucketInv
    <2> QED
      BY <2>1, <2>2
  <1> HIDE DEF b, f
  <1>3. r \in Bucket /\ WithinIntervals(admitted[k], r, f)
    BY <1>2, RefillKeepsBudget DEF BucketInv
  <1> HIDE DEF r
  <1>4. /\ s \in Bucket /\ n \in Nat /\ s.lastRefill = r.lastRefill
        /\ n + s.tokens = admitted[k] + r.tokens
    BY <1>3 DEF Bucket, BucketInv
  <1> HIDE DEF s, n
  <1>5. WithinIntervals(n, s, f)
    BY <1>3, <1>4 DEF WithinIntervals
  <1>6. s # NoBucket
    BY <1>4 DEF Bucket, BucketInv
  <1>7. Bucket' = Bucket
    BY <1>1 DEF Bucket
  <1> QED
    BY <1>1, <1>2, <1>4, <1>5, <1>6, <1>7 DEF BucketInv

\* The limiter keeps its budget: requests and refills in any order admit no more
\* than the capacity and one request per interval.
THEOREM BudgetIsKept == RateSpec => []AdmittedWithinBudget
  <1> USE RateLimitAssumption
  <1>1. RateInit => BucketInv
    BY DEF RateInit, BucketInv
  <1>2. BucketInv /\ [RateNext]_rateVars => BucketInv'
    <2> SUFFICES ASSUME BucketInv, [RateNext]_rateVars PROVE BucketInv'
      OBVIOUS
    <2>1. CASE rate_tick
      <3>1. Bucket \subseteq Bucket' /\ rateNow' \in 0..MaxRateTime /\ rateNow < rateNow'
        BY <2>1 DEF rate_tick, Bucket, BucketInv
      <3> QED
        BY <2>1, <3>1 DEF rate_tick, BucketInv, WithinIntervals
    <2>2. CASE UNCHANGED rateVars
      BY <2>2 DEF rateVars, BucketInv, Bucket, WithinIntervals
    <2> QED
      BY <2>1, <2>2, RequestKeepsBudget DEF RateNext
  <1>3. BucketInv => AdmittedWithinBudget
    <2> SUFFICES ASSUME BucketInv, NEW k \in Clients
                 PROVE  admitted[k] <= CAPACITY + (rateNow - firstSeen[k]) \div REFILL_INTERVAL
      BY DEF AdmittedWithinBudget
    <2> DEFINE f == firstSeen[k]
    <2>1. f \in 0..rateNow /\ rateNow \in Nat /\ admitted[k] \in Nat
          /\ (rateNow - f) \div REFILL_INTERVAL \in Nat
      BY IntervalsAdd DEF BucketInv
    <2>2. CASE buckets[k] = NoBucket
      BY <2>1, <2>2 DEF BucketInv
    <2>3. CASE buckets[k] # NoBucket
      <3> DEFINE t == buckets[k].lastRefill
      <3>1. /\ t \in f..rateNow /\ buckets[k].tokens \in Nat
            /\ admitted[k] + buckets[k].tokens <= CAPACITY + (t - f) \div REFILL_INTERVAL
        BY <2>1, <2>3 DEF BucketInv, Bucket, WithinIntervals
      <3>2. (t - f) + (rateNow - t) = rateNow - f /\ t - f \in Nat /\ rateNow - t \in Nat
        <4>1. \A x, y, z \in Int : x <= y /\ y <= z =>
                 (y - x) + (z - y) = z - x /\ y - x \in Nat /\ z - y \in Nat
          OBVIOUS
        <4>2. f \in Int /\ t \in Int /\ rateNow \in Int /\ f <= t /\ t <= rateNow
          BY ONLY <2>1, <3>1
        <4> HIDE DEF f, t
        <4> QED
          BY ONLY <4>1, <4>2
      <3>3. /\ (t - f) \div REFILL_INTERVAL \in Nat
            /\ (t - f) \div REFILL_INTERVAL <= (rateNow - f) \div REFILL_INTERVAL
        <4>1. /\ (t - f) \div REFILL_INTERVAL \in Nat /\ (rateNow - t) \div REFILL_INTERVAL \in Nat
              /\ ((t - f) \div REFILL_INTERVAL) + ((rateNow - t) \div REFILL_INTERVAL)
                    <= (rateNow - f) \div REFILL_INTERVAL
          BY <3>2, IntervalsAdd
        <4> QED
          BY <2>1, <4>1
      <3> QED
        BY <2>1, <3>1, <3>3
    <2> QED
      BY <2>2, <2>3
  <1> QED
    BY <1>1, <1>2, <1>3, PTL DEF RateSpec

-----------------------------------------------------------------------------
(* Where the session token of a browser comes from. *)

\* The token is sound because a login only reaches the exchange with a signer, and
\* the button to disconnect is hidden while a login is under way.
LoginInv ==
    /\ WebSessionTypeOK
    /\ TokenWasSigned
    /\ isConnecting => ~signedOut
    /\ isConnecting /\ login.at = "exchange" => login.by \in signers

\* The token in a browser's storage is that of an account that signed there, and
\* there is none after the user disconnected.
THEOREM SessionsAreSigned == WebSessionSpec => []TokenWasSigned
  <1>1. WebSessionInit => LoginInv
    BY DEF WebSessionInit, LoginInv, WebSessionTypeOK, TokenWasSigned, isConnecting
  <1>2. LoginInv /\ [WebSessionNext]_sessionPageVars => LoginInv'
    <2> SUFFICES ASSUME LoginInv, [WebSessionNext]_sessionPageVars PROVE LoginInv'
      OBVIOUS
    <2> USE DEF LoginInv, WebSessionTypeOK, TokenWasSigned, isConnecting
    <2>1. CASE select_account
      BY <2>1 DEF select_account
    <2>2. CASE checkConnection
      BY <2>2 DEF checkConnection
    <2>3. CASE connect
      <3>1. login' \in [at : Awaits, key : Keys \cup {NoKey, Blank}, by : Keys \cup {NoKey}]
            /\ login'.at = "access"
        BY <2>3 DEF connect, Awaits
      <3> QED
        BY <2>3, <3>1 DEF connect, shows_connect
    <2>4. ASSUME NEW reply \in {active, Blank}, connectWallet(reply) PROVE LoginInv'
      <3>1. reply \in Keys \cup {Blank}
        BY <2>4 DEF connectWallet
      <3>2. login' \in [at : Awaits, key : Keys \cup {NoKey, Blank}, by : Keys \cup {NoKey}]
            /\ login'.at = "challenge"
        BY <2>4, <3>1 DEF connectWallet, Awaits
      <3> QED
        BY <2>4, <3>1, <3>2 DEF connectWallet
    <2>5. CASE requestAuthChallenge
      <3>1. login' \in [at : Awaits, key : Keys \cup {NoKey, Blank}, by : Keys \cup {NoKey}]
            /\ login'.at = "sign"
        BY <2>5 DEF requestAuthChallenge, Awaits
      <3> QED
        BY <2>5, <3>1 DEF requestAuthChallenge
    <2>6. CASE signTransaction
      <3>1. login' \in [at : Awaits, key : Keys \cup {NoKey, Blank}, by : Keys \cup {NoKey}]
            /\ login'.by = active
        BY <2>6 DEF signTransaction, Awaits
      <3> QED
        BY <2>6, <3>1 DEF signTransaction
    <2>7. CASE submitAuthChallenge
      BY <2>7 DEF submitAuthChallenge, token_granted
    <2>8. CASE connect_throws
      BY <2>8 DEF connect_throws
    <2>9. CASE disconnect
      BY <2>9 DEF disconnect, shows_disconnect
    <2>10. CASE reload
      BY <2>10 DEF reload
    <2>11. CASE UNCHANGED sessionPageVars
      BY <2>11 DEF sessionPageVars
    <2> QED
      BY <2>1, <2>2, <2>3, <2>4, <2>5, <2>6, <2>7, <2>8, <2>9, <2>10, <2>11
         DEF WebSessionNext, SessionStep
  <1> QED
    BY <1>1, <1>2, PTL DEF WebSessionSpec, LoginInv

-----------------------------------------------------------------------------
(* What a save of the protocol configuration can overwrite. *)

Inputs == [Fields -> FieldValues \cup {DefaultValue}]

\* Where the form was loaded and nobody else wrote since, a field that was not
\* edited holds the chain's value in the form and in the update under way.
FormInv ==
    /\ chainConfig \in Inputs /\ form \in Inputs
    /\ payload # NoPayload => payload \in Inputs
    /\ loadedConfig = "waiting" => payload = NoPayload
    /\ loadedConfig = "loaded" /\ ~moved =>
          \A f \in Fields \ edited :
              /\ form[f] = chainConfig[f]
              /\ payload # NoPayload => payload[f] = chainConfig[f]

\* Every step of the form keeps it.
LEMMA FormStep == FormInv /\ [ConfigFormNext]_formVars => FormInv'
  <1> SUFFICES ASSUME FormInv, [ConfigFormNext]_formVars PROVE FormInv'
    OBVIOUS
  <1> USE DEF FormInv
  <1>1. CASE config_answers
    BY <1>1 DEF config_answers, loaded_form, Inputs
  <1>2. CASE handleSaveConfig
    BY <1>2 DEF handleSaveConfig
  <1>3. CASE save_ends
    BY <1>3 DEF save_ends
  <1>4. ASSUME NEW f \in Fields, NEW v \in FieldValues, edit_field(f, v) PROVE FormInv'
    BY <1>4 DEF edit_field, Inputs
  <1>5. ASSUME NEW f \in Fields, NEW v \in FieldValues, other_admin(f, v) PROVE FormInv'
    BY <1>5 DEF other_admin, Inputs
  <1>6. CASE UNCHANGED formVars
    BY <1>6 DEF formVars
  <1> QED
    BY <1>1, <1>2, <1>3, <1>4, <1>5, <1>6 DEF ConfigFormNext

\* A save overwrites nothing the administrator left alone, while the form is
\* loaded and no one else writes.
THEOREM SavesAreSafe == ConfigFormSpec => SavesKeepTheRest
  <1>1. ConfigFormInit => FormInv
    BY DEF ConfigFormInit, FormInv, Inputs
  <1>2. FormInv /\ [ConfigFormNext]_formVars =>
          [chainConfig' # chainConfig /\ payload # NoPayload /\ payload' = NoPayload
           /\ loadedConfig = "loaded" /\ ~moved =>
              \A f \in Fields \ edited : chainConfig'[f] = chainConfig[f]]_formVars
    <2> SUFFICES ASSUME FormInv, ConfigFormNext, payload # NoPayload, payload' = NoPayload,
                        loadedConfig = "loaded", ~moved, NEW f \in Fields \ edited
                 PROVE  chainConfig'[f] = chainConfig[f]
      OBVIOUS
    <2>1. save_ends
      BY DEF ConfigFormNext, config_answers, handleSaveConfig, edit_field, other_admin
    <2> QED
      BY <2>1 DEF save_ends, FormInv
  <1> QED
    BY <1>1, <1>2, FormStep, PTL DEF ConfigFormSpec, SavesKeepTheRest

-----------------------------------------------------------------------------
(* What a page shows. *)

\* While requests for one filter at most are under way, they are for the filter
\* on the page; and without a page nothing is shown or asked.
PageInv ==
    /\ SpinnerHasRequest /\ QuietPagesMatch
    /\ ~mixed => \A r \in asked : r.query = query
    /\ page = NoPage => shown = NoAnswer /\ asked = {}

\* Running the effect asks for what the filter says, or stops the spinner.
LEMMA LoadKeeps ==
    ASSUME PageInv, NEW q, q # query => ~(page.needs_wallet /\ wallet' = NoKey),
           NEW token, query' = q, load(page, q, wallet', asked, token, loading),
           page # NoPage, UNCHANGED <<page, shown, failed>>
    PROVE  PageInv'
  <1> USE DEF PageInv, SpinnerHasRequest, QuietPagesMatch
  <1>1. CASE page.needs_wallet /\ wallet' = NoKey
    BY <1>1 DEF load
  <1>2. CASE ~(page.needs_wallet /\ wallet' = NoKey)
    <2>1. PICK n : asked' = asked \cup {request(n, q, token)}
      BY <1>2 DEF load
    <2>2. request(n, q, token).query = q
      BY DEF request
    <2>3. asked' # {} /\ (mixed' <=> \E r \in asked : r.query # q)
      BY <1>2, <2>1 DEF load
    <2> QED
      BY <2>1, <2>2, <2>3
  <1> QED
    BY <1>1, <1>2

\* Every step of the user, the wallet and the API keeps it.
LEMMA PageStep == PageInv /\ [WebPagesNext]_webVars => PageInv'
  <1> SUFFICES ASSUME PageInv, [WebPagesNext]_webVars PROVE PageInv'
    OBVIOUS
  <1>0. CASE UNCHANGED pageVars
    BY <1>0 DEF PageInv, SpinnerHasRequest, QuietPagesMatch, pageVars
  <1>1. CASE session_step
    <2>1. CASE page # NoPage /\ effect_depends(page, wallet, wallet')
      BY <1>1, <2>1, LoadKeeps DEF session_step
    <2> QED
      BY <1>0, <1>1, <2>1 DEF session_step
  <1>2. ASSUME no_page PROVE PageInv'
    BY <1>2 DEF no_page, PageInv, SpinnerHasRequest, QuietPagesMatch
  <1>3. CASE reload_page \/ unmount
    BY <1>2, <1>3 DEF reload_page, unmount
  <1>4. ASSUME NEW p \in Pages, mount(p) PROVE PageInv'
    <2>1. request(1, query, auth_token).query = query
      BY DEF request
    <2>2. shown' = NoAnswer
      BY <1>4 DEF mount, PageInv
    <2>3. CASE p.needs_wallet /\ wallet = NoKey
      BY <1>4, <2>2, <2>3 DEF mount, PageInv, SpinnerHasRequest, QuietPagesMatch
    <2>4. CASE ~(p.needs_wallet /\ wallet = NoKey)
      <3>1. asked' = {request(1, query, auth_token)} /\ query' = query
        BY <1>4, <2>4 DEF mount
      <3>2. asked' # {} /\ \A r \in asked' : r.query = query'
        BY <2>1, <3>1
      <3>3. page' # NoPage
        BY <1>4, PagesAssumption DEF mount
      <3> QED
        BY <2>2, <3>2, <3>3 DEF PageInv, SpinnerHasRequest, QuietPagesMatch
    <2> QED
      BY <2>3, <2>4
  <1>5. ASSUME NEW q \in Queries, change_query(q) PROVE PageInv'
    BY <1>5, LoadKeeps DEF change_query, sessionPageVars
  <1>6. CASE poll \/ refresh
    BY <1>6, LoadKeeps DEF poll, refresh, sessionPageVars
  <1>7. ASSUME NEW r \in asked, answer(r) PROVE PageInv'
    <2>1. /\ asked' = asked \ {r} /\ ~loading' /\ shown'.query = r.query
          /\ UNCHANGED <<page, query, mixed>>
      BY <1>7 DEF answer
    <2> QED
      BY <2>1 DEF PageInv, SpinnerHasRequest, QuietPagesMatch
  <1>8. ASSUME NEW r \in asked, fail(r) PROVE PageInv'
    BY <1>8 DEF fail, PageInv, SpinnerHasRequest, QuietPagesMatch
  <1> QED
    BY <1>0, <1>1, <1>3, <1>4, <1>5, <1>6, <1>7, <1>8 DEF WebPagesNext, webVars

\* No order of wallet changes, filters, failures and answers leaves a page with
\* a spinner and no request under way.
THEOREM SpinnersEnd == WebPagesSpec => []SpinnerHasRequest
  <1>1. WebPagesInit => PageInv
    BY DEF WebPagesInit, PageInv, SpinnerHasRequest, QuietPagesMatch
  <1>2. PageInv => SpinnerHasRequest
    BY DEF PageInv
  <1> QED
    BY <1>1, <1>2, PageStep, PTL DEF WebPagesSpec

\* A page at rest shows what its filter says, whatever was asked, changed and
\* answered before, unless requests for different filters overlapped.
THEOREM QuietPagesAreRight == WebPagesSpec => []QuietPagesMatch
  <1>1. WebPagesInit => PageInv
    BY DEF WebPagesInit, PageInv, SpinnerHasRequest, QuietPagesMatch
  <1>2. PageInv => QuietPagesMatch
    BY DEF PageInv
  <1> QED
    BY <1>1, <1>2, PageStep, PTL DEF WebPagesSpec

-----------------------------------------------------------------------------
(* What the retire page claims. *)

\* Everything the page says of a credit, and every certificate under way, is of
\* a retired one.
ClaimsInv == ClaimsAreTrue /\ certAsks \subseteq chainRetired

\* Every step of the page and of the requests behind it keeps it.
LEMMA ClaimsStep == ClaimsInv /\ [RetirePageNext]_retireVars => ClaimsInv'
  <1> SUFFICES ASSUME ClaimsInv, [RetirePageNext]_retireVars PROVE ClaimsInv'
    OBVIOUS
  <1> USE DEF ClaimsInv, ClaimsAreTrue
  <1>0. CASE UNCHANGED <<retired, certificate, certAsks, chainRetired>>
    BY <1>0
  <1>1. CASE retire_answers
    BY <1>1 DEF retire_answers, certificate_effect
  <1>2. ASSUME NEW c \in Owned, retired_late(c) PROVE ClaimsInv'
    BY <1>2 DEF retired_late
  <1>3. ASSUME NEW c \in Owned, certificate_answers(c) PROVE ClaimsInv'
    BY <1>3 DEF certificate_answers
  <1>4. CASE retire_more
    BY <1>4 DEF retire_more, certificate_effect
  <1> QED
    BY <1>0, <1>1, <1>2, <1>3, <1>4
       DEF RetirePageNext, retireVars, toggleCredit, openConfirm, close_dialog, handleRetire,
           retire_throws

\* The page never says of a credit that it is retired, nor shows a certificate
\* for it, while it is not, however late the answers come.
THEOREM PageClaimsAreTrue == RetirePageSpec => []ClaimsAreTrue
  <1>1. RetirePageInit => ClaimsInv
    BY DEF RetirePageInit, ClaimsInv, ClaimsAreTrue
  <1>2. ClaimsInv => ClaimsAreTrue
    BY DEF ClaimsInv
  <1> QED
    BY <1>1, <1>2, ClaimsStep, PTL DEF RetirePageSpec

\* The loop goes through confirmed credits, so does what the browser gave up on,
\* and what a run without an error has left is still in the loop.
LoopInv ==
    /\ selectedIds \in Seq(Owned) /\ batch \in Seq(Owned)
    /\ OnlyConfirmed
    /\ given_up \subseteq confirmed
    /\ retiring => batch # <<>> /\ cleared \subseteq chainRetired \cup chosen(batch)
    /\ ~retiring => batch = <<>>

\* Taking a credit out of the selection leaves a selection.
LEMMA DeselectedIs ==
    ASSUME selectedIds \in Seq(Owned), NEW c \in chosen(selectedIds)
    PROVE  deselected(c) \in Seq(Owned)
  <1> DEFINE at == CHOOSE i \in 1 .. Len(selectedIds) : selectedIds[i] = c
  <1>1. at \in 1 .. Len(selectedIds)
    BY DEF chosen
  <1>0. deselected(c) = RemoveAt(selectedIds, at)
    BY DEF deselected
  <1> HIDE DEF at
  <1>2. /\ SubSeq(selectedIds, 1, at - 1) \in Seq(Owned)
        /\ SubSeq(selectedIds, at + 1, Len(selectedIds)) \in Seq(Owned)
    BY <1>1
  <1>3. RemoveAt(selectedIds, at)
          = SubSeq(selectedIds, 1, at - 1) \o SubSeq(selectedIds, at + 1, Len(selectedIds))
    BY DEF RemoveAt
  <1> QED
    BY <1>0, <1>2, <1>3

\* The first of a sequence and the rest are all of it.
LEMMA HeadAndTail ==
    ASSUME NEW s \in Seq(Owned), s # <<>>
    PROVE  /\ Head(s) \in chosen(s) /\ Tail(s) \in Seq(Owned)
           /\ chosen(s) = {Head(s)} \cup chosen(Tail(s))
           /\ Len(s) = 1 <=> Tail(s) = <<>>
  <1>1. Len(s) \in Nat /\ Len(s) >= 1 /\ Head(s) = s[1]
    OBVIOUS
  <1>2. /\ Tail(s) \in Seq(Owned) /\ Len(Tail(s)) = Len(s) - 1
        /\ \A k \in 1 .. Len(Tail(s)) : Tail(s)[k] = s[k + 1]
    BY <1>1
  <1>3. ASSUME NEW x \in chosen(s) PROVE x \in {Head(s)} \cup chosen(Tail(s))
    <2>1. PICK k \in 1 .. Len(s) : s[k] = x
      BY <1>3 DEF chosen
    <2>2. CASE k = 1
      BY <1>1, <2>1, <2>2
    <2>3. CASE k # 1
      <3>1. k - 1 \in 1 .. Len(Tail(s)) /\ Tail(s)[k - 1] = x
        BY <1>1, <1>2, <2>1, <2>3
      <3> QED
        BY <3>1 DEF chosen
    <2> QED
      BY <2>2, <2>3
  <1>4. ASSUME NEW x \in chosen(Tail(s)) PROVE x \in chosen(s)
    <2>1. PICK k \in 1 .. Len(Tail(s)) : Tail(s)[k] = x
      BY <1>4 DEF chosen
    <2>2. k + 1 \in 1 .. Len(s) /\ s[k + 1] = x
      BY <1>1, <1>2, <2>1
    <2> QED
      BY <2>2 DEF chosen
  <1>5. Head(s) \in chosen(s)
    BY <1>1 DEF chosen
  <1>6. Len(s) = 1 <=> Tail(s) = <<>>
    <2>1. Tail(s) = <<>> <=> Len(Tail(s)) = 0
      BY <1>2
    <2> QED
      BY <1>1, <1>2, <2>1
  <1> QED
    BY <1>2, <1>3, <1>4, <1>5, <1>6

\* Every step keeps it.
LEMMA LoopStep == LoopInv /\ [RetirePageNext]_retireVars => LoopInv'
  <1> SUFFICES ASSUME LoopInv, [RetirePageNext]_retireVars PROVE LoopInv'
    OBVIOUS
  <1> USE DEF LoopInv, OnlyConfirmed
  <1>0. CASE /\ UNCHANGED <<batch, given_up, chainRetired, confirmed, retiring, cleared>>
             /\ selectedIds' \in Seq(Owned)
    BY <1>0
  <1>1. ASSUME NEW c \in Owned, toggleCredit(c) PROVE LoopInv'
    <2>1. selectedIds' \in Seq(Owned)
      BY <1>1, DeselectedIs DEF toggleCredit
    <2> QED
      BY <1>0, <1>1, <2>1 DEF toggleCredit
  <1>2. CASE handleRetire
    <2>1. chosen(selectedIds) \subseteq chainRetired \cup chosen(selectedIds)
      OBVIOUS
    <2>2. /\ batch' = selectedIds /\ retiring' /\ cleared' = chosen(selectedIds)
          /\ confirmed' = confirmed \cup chosen(selectedIds) /\ selectedIds # <<>>
          /\ UNCHANGED <<selectedIds, given_up, chainRetired>>
      BY <1>2 DEF handleRetire, loop_over
    <2> QED
      BY <2>1, <2>2
  <1>3. CASE retire_answers
    <2>1. /\ retiring /\ batch # <<>> /\ batch' = Tail(batch)
          /\ chainRetired' = chainRetired \cup {Head(batch)}
          /\ retiring' <=> Len(batch) # 1
          /\ UNCHANGED <<given_up, confirmed, cleared>>
      BY <1>3 DEF retire_answers
    <2>4. selectedIds' \in Seq(Owned)
      <3>1. selectedIds' = selectedIds \/ selectedIds' = <<>>
        BY <1>3 DEF retire_answers
      <3>2. <<>> \in Seq(Owned)
        OBVIOUS
      <3> QED
        BY <3>1, <3>2, Zenon
    <2>2. /\ Head(batch) \in chosen(batch) /\ batch' \in Seq(Owned)
          /\ chosen(batch) = {Head(batch)} \cup chosen(batch')
          /\ Len(batch) = 1 <=> batch' = <<>>
      BY <2>1, HeadAndTail
    <2>3. batch' = <<>> => chosen(batch') = {}
      BY DEF chosen
    <2> QED
      BY <2>1, <2>2, <2>3, <2>4
  <1>4. CASE retire_throws
    <2>1. /\ retiring /\ batch # <<>> /\ batch' = <<>> /\ ~retiring' /\ cleared' = {}
          /\ given_up' \subseteq given_up \cup {Head(batch)}
          /\ UNCHANGED <<selectedIds, chainRetired, confirmed>>
      BY <1>4 DEF retire_throws
    <2>2. Head(batch) \in chosen(batch)
      BY <2>1, HeadAndTail
    <2>3. chosen(batch') = {} /\ batch' \in Seq(Owned)
      BY <2>1 DEF chosen
    <2> QED
      BY <2>1, <2>2, <2>3
  <1>5. ASSUME NEW c \in Owned, retired_late(c) PROVE LoopInv'
    <2>1. /\ given_up' = given_up \ {c} /\ c \in given_up /\ chainRetired' = chainRetired \cup {c}
          /\ UNCHANGED <<selectedIds, batch, confirmed, retiring, cleared>>
      BY <1>5 DEF retired_late
    <2> QED
      BY <2>1
  <1> QED
    BY <1>0, <1>1, <1>2, <1>3, <1>4, <1>5
       DEF RetirePageNext, retireVars, openConfirm, close_dialog, certificate_answers, retire_more

\* No credit is retired that the user did not confirm, and a run without an
\* error leaves none out, although the selection changes under the running loop
\* and requests take effect after the browser gave up on them.
THEOREM RetiresWhatWasConfirmed == RetirePageSpec => []OnlyConfirmed
  <1>1. RetirePageInit => LoopInv
    <2>1. chosen(<<>>) = {} /\ <<>> \in Seq(Owned)
      BY DEF chosen
    <2> QED
      BY <2>1 DEF RetirePageInit, LoopInv, OnlyConfirmed
  <1>2. LoopInv => OnlyConfirmed
    BY DEF LoopInv
  <1> QED
    BY <1>1, <1>2, LoopStep, PTL DEF RetirePageSpec

-----------------------------------------------------------------------------
(* The stakes of the verifiers. *)

Record == [total_staked : Nat, reputation_score : Nat,
           last_heartbeat : Nat, registered_at : Nat]

\* Type invariant: what the contract stores.
StakeTypeOK ==
    /\ clock \in 0..MaxClock /\ pool \in Nat
    /\ balances \in [Stakers -> Nat]
    /\ record \in [Stakers -> Record \cup {NoRecord}]

StakeStep == [StakeNext]_stakeVars

\* A slash that the stake covers leaves a record, with as much less at stake, and
\* with less reputation unless there was none.
LEMMA SlashedRecord ==
    ASSUME NEW r \in Record, NEW n \in Nat, n <= r.total_staked
    PROVE  /\ slashed(r, n) \in Record
           /\ slashed(r, n).total_staked = r.total_staked - n
           /\ slashed(r, n).reputation_score < r.reputation_score \/ r.reputation_score = 0
  <1> DEFINE stakeLeft == r.total_staked - n
             score == IF r.reputation_score >= 10 THEN r.reputation_score - 10 ELSE 0
  <1>1. r.total_staked \in Nat /\ r.reputation_score \in Nat
    BY DEF Record
  <1>2. stakeLeft \in Nat /\ score \in Nat
        /\ (score < r.reputation_score \/ r.reputation_score = 0)
    BY <1>1
  <1>3. slashed(r, n) = [r EXCEPT !.total_staked = stakeLeft, !.reputation_score = score]
    BY DEF slashed, Record
  <1> HIDE DEF stakeLeft, score
  <1>4. /\ slashed(r, n) \in Record
        /\ slashed(r, n).total_staked = stakeLeft /\ slashed(r, n).reputation_score = score
    BY <1>2, <1>3 DEF Record
  <1> QED
    BY <1>2, <1>4 DEF stakeLeft

\* Every call keeps the types.
LEMMA StakeTypeStep == StakeTypeOK /\ StakeStep => StakeTypeOK'
  <1> SUFFICES ASSUME StakeTypeOK, StakeStep PROVE StakeTypeOK'
    OBVIOUS
  <1> USE StakeAssumption DEF StakeTypeOK, registered, deposit, pay_out
  <1>1. ASSUME NEW v \in Stakers, register(v) PROVE StakeTypeOK'
    <2>1. [total_staked |-> MIN_STAKE_AMOUNT, reputation_score |-> 100,
           last_heartbeat |-> clock, registered_at |-> clock] \in Record
      BY DEF Record
    <2> QED
      BY <1>1, <2>1 DEF register
  <1>2. ASSUME NEW v \in Stakers, unregister(v) PROVE StakeTypeOK'
    BY <1>2 DEF unregister, Record
  <1>3. ASSUME NEW v \in Stakers, update_heartbeat(v) PROVE StakeTypeOK'
    <2>1. [record[v] EXCEPT !.last_heartbeat = clock] \in Record
      BY <1>3 DEF update_heartbeat, Record
    <2> QED
      BY <1>3, <2>1 DEF update_heartbeat
  <1>4. ASSUME NEW v \in Stakers, NEW n \in StakeAmounts, stake(v, n) PROVE StakeTypeOK'
    <2>1. [record[v] EXCEPT !.total_staked = @ + n] \in Record
      BY <1>4 DEF stake, Record
    <2> QED
      BY <1>4, <2>1 DEF stake
  <1>5. ASSUME NEW a \in StakeAdmins, NEW v \in Stakers, NEW n \in StakeAmounts, slash(a, v, n)
        PROVE  StakeTypeOK'
    <2>1. slashed(record[v], n) \in Record
      BY <1>5, SlashedRecord DEF slash
    <2> QED
      BY <1>5, <2>1 DEF slash
  <1>6. CASE close_ledger
    BY <1>6 DEF close_ledger
  <1>7. ASSUME NEW a \in StakeAdmins, stake_init(a) PROVE StakeTypeOK'
    BY <1>7 DEF stake_init
  <1>8. CASE UNCHANGED stakeVars
    BY <1>8 DEF stakeVars
  <1> QED
    BY <1>1, <1>2, <1>3, <1>4, <1>5, <1>6, <1>7, <1>8 DEF StakeStep, StakeNext

\* What verifier v may experience in a step: its balance and its stake add up as
\* before, or it is slashed.
Fair(v) ==
    \/ balances'[v] + staked(v)' = balances[v] + staked(v)
    \/ /\ staked(v)' < staked(v) /\ balances' = balances /\ pool' = pool
       /\ registered(v)'
       /\ \/ record'[v].reputation_score < record[v].reputation_score
          \/ record[v].reputation_score = 0

\* Every call leaves every verifier what is its own, or slashes one.
LEMMA FairStep ==
    ASSUME StakeTypeOK, StakeTypeOK', StakeStep, NEW v \in Stakers
    PROVE  Fair(v)
  <1> USE StakeAssumption DEF StakeTypeOK, registered, deposit, pay_out, staked
  <1>0. CASE balances'[v] = balances[v] /\ staked(v)' = staked(v)
    BY <1>0 DEF Fair
  <1>1. ASSUME NEW w \in Stakers, register(w) PROVE Fair(v)
    <2>1. CASE w # v
      BY <1>1, <2>1, <1>0 DEF register
    <2>2. CASE w = v
      <3>1. staked(v) = 0 /\ staked(v)' = MIN_STAKE_AMOUNT
            /\ balances'[v] = balances[v] - MIN_STAKE_AMOUNT
        BY <1>1, <2>2 DEF register
      <3> QED
        BY <3>1 DEF Fair
    <2> QED
      BY <2>1, <2>2
  <1>2. ASSUME NEW w \in Stakers, unregister(w) PROVE Fair(v)
    <2>1. CASE w # v
      BY <1>2, <2>1, <1>0 DEF unregister
    <2>2. CASE w = v
      <3>1. /\ staked(v) = record[v].total_staked /\ staked(v) \in Nat /\ staked(v)' = 0
            /\ balances'[v] = balances[v] + staked(v)
        BY <1>2, <2>2 DEF unregister, Record
      <3> QED
        BY <3>1 DEF Fair
    <2> QED
      BY <2>1, <2>2
  <1>3. ASSUME NEW w \in Stakers, update_heartbeat(w) PROVE Fair(v)
    <2>1. [record[w] EXCEPT !.last_heartbeat = clock] # NoRecord
      BY <1>3 DEF update_heartbeat, Record
    <2> QED
      BY <1>3, <1>0, <2>1 DEF update_heartbeat, Record
  <1>4. ASSUME NEW w \in Stakers, NEW n \in StakeAmounts, stake(w, n) PROVE Fair(v)
    <2>1. CASE w # v
      BY <1>4, <2>1, <1>0 DEF stake
    <2>2. CASE w = v
      <3>1. [record[v] EXCEPT !.total_staked = @ + n] # NoRecord
        BY <1>4, <2>2 DEF stake, Record
      <3>2. staked(v) \in Nat /\ staked(v)' = staked(v) + n /\ balances'[v] = balances[v] - n
        BY <1>4, <2>2, <3>1 DEF stake, Record
      <3> QED
        BY <3>2 DEF Fair
    <2> QED
      BY <2>1, <2>2
  <1>5. ASSUME NEW a \in StakeAdmins, NEW w \in Stakers, NEW n \in StakeAmounts, slash(a, w, n)
        PROVE  Fair(v)
    <2>1. CASE w # v
      BY <1>5, <2>1, <1>0 DEF slash
    <2>2. CASE w = v
      <3>1. /\ record[v] \in Record /\ n \in Nat \ {0} /\ n <= record[v].total_staked
            /\ record'[v] = slashed(record[v], n) /\ balances' = balances /\ pool' = pool
        BY <1>5, <2>2 DEF slash
      <3>2. /\ slashed(record[v], n) \in Record
            /\ slashed(record[v], n).total_staked = record[v].total_staked - n
            /\ \/ slashed(record[v], n).reputation_score < record[v].reputation_score
               \/ record[v].reputation_score = 0
        BY <3>1, SlashedRecord
      <3>3. record[v] # NoRecord /\ record'[v] # NoRecord
        BY <3>1, <3>2 DEF Record
      <3>4. staked(v)' < staked(v)
        BY <3>1, <3>2, <3>3 DEF Record
      <3> QED
        BY <3>1, <3>2, <3>3, <3>4 DEF Fair
    <2> QED
      BY <2>1, <2>2
  <1>6. CASE close_ledger
    BY <1>6, <1>0 DEF close_ledger
  <1>7. ASSUME NEW a \in StakeAdmins, stake_init(a) PROVE Fair(v)
    BY <1>7, <1>0 DEF stake_init
  <1>8. CASE UNCHANGED stakeVars
    BY <1>8, <1>0 DEF stakeVars
  <1> QED
    BY <1>1, <1>2, <1>3, <1>4, <1>5, <1>6, <1>7, <1>8 DEF StakeStep, StakeNext

\* Registering, staking and leaving move a verifier's tokens without loss; only a
\* slash takes from it, and never without the reputation telling.
THEOREM NoSilentLoss == StakeSpec => OnlySlashTakes
  <1>1. StakeInit => StakeTypeOK
    BY StakeAssumption DEF StakeInit, StakeTypeOK
  <1>2. StakeTypeOK /\ StakeTypeOK' /\ StakeStep => [\A v \in Stakers : Fair(v)]_stakeVars
    BY FairStep
  <1>3. StakeTypeOK /\ StakeTypeOK' /\ StakeStep =>
          [\A v \in Stakers :
              \/ balances'[v] + staked(v)' = balances[v] + staked(v)
              \/ /\ staked(v)' < staked(v) /\ balances' = balances /\ pool' = pool
                 /\ registered(v)'
                 /\ \/ record'[v].reputation_score < record[v].reputation_score
                    \/ record[v].reputation_score = 0]_stakeVars
    BY <1>2 DEF Fair
  <1> QED
    BY <1>1, <1>3, StakeTypeStep, PTL DEF StakeSpec, StakeStep, OnlySlashTakes

\* What all records say together.
AllStaked == SumFunctionOnSet([v \in Stakers |-> staked(v)], Stakers)

\* What one verifier's record says changes by d, and the sum of them all with it.
LEMMA TotalMoves ==
    ASSUME StakeTypeOK, StakeTypeOK', NEW v \in Stakers, NEW d \in Int,
           staked(v)' = staked(v) + d,
           \A w \in Stakers \ {v} : record'[w] = record[w]
    PROVE  AllStaked \in Int /\ AllStaked' = AllStaked + d
  <1> DEFINE f == [w \in Stakers |-> staked(w)]
             g == [w \in Stakers |-> staked(w)']
  <1>1. \A w \in Stakers : f[w] \in Int
    BY DEF StakeTypeOK, staked, registered, Record
  <1>2. \A w \in Stakers \ {v} : f[w] = g[w]
    BY DEF staked, registered
  <1>3. f[v] \in Int /\ g[v] = f[v] + d /\ g[v] \in Int
    BY <1>1
  <1>4. IsFiniteSet(Stakers)
    BY StakeAssumption
  <1>5. AllStaked' = SumFunctionOnSet(g, Stakers)
    BY DEF AllStaked
  <1>6. AllStaked = SumFunctionOnSet(f, Stakers)
    BY DEF AllStaked
  <1> HIDE DEF f, g
  <1>7. SumFunctionOnSet(f, Stakers) \in Int
    BY ONLY <1>1, <1>4, SumInt
  <1>8. SumFunctionOnSet(g, Stakers) = SumFunctionOnSet(f, Stakers) - f[v] + g[v]
    BY ONLY <1>1, <1>2, <1>3, <1>4, SumChanges
  <1> QED
    BY ONLY <1>3, <1>5, <1>6, <1>7, <1>8, d \in Int

\* A deposit and the record of it, and a payment and its record, are one step.
LEMMA PaidStep ==
    ASSUME StakeTypeOK, StakeTypeOK', StakesArePaid, StakeStep
    PROVE  StakesArePaid'
  <1> USE StakeAssumption DEF StakeTypeOK, registered
  <1>0. ASSUME NEW v \in Stakers, NEW d \in Int, staked(v)' = staked(v) + d,
               \A w \in Stakers \ {v} : record'[w] = record[w], pool' >= pool + d
        PROVE  StakesArePaid'
    <2>1. pool \in Int /\ pool' \in Int
      OBVIOUS
    <2>2. AllStaked \in Int /\ AllStaked' = AllStaked + d
      BY <1>0, TotalMoves
    <2>3. pool >= AllStaked
      BY DEF StakesArePaid, AllStaked
    <2>4. pool' >= AllStaked'
      BY ONLY <1>0, <2>1, <2>2, <2>3
    <2> QED
      BY <2>4 DEF StakesArePaid, AllStaked
  <1>1. CASE UNCHANGED <<record, pool>>
    BY <1>1 DEF StakesArePaid, staked
  <1>2. ASSUME NEW v \in Stakers, register(v) PROVE StakesArePaid'
    <2>1. staked(v)' = staked(v) + MIN_STAKE_AMOUNT
      BY <1>2 DEF register, staked
    <2>2. pool' = pool + MIN_STAKE_AMOUNT /\ \A w \in Stakers \ {v} : record'[w] = record[w]
      BY <1>2 DEF register, deposit
    <2> QED
      BY <1>0, <2>1, <2>2
  <1>3. ASSUME NEW v \in Stakers, unregister(v) PROVE StakesArePaid'
    <2> DEFINE n == record[v].total_staked
    <2>1. n \in Nat /\ staked(v) = n /\ staked(v)' = 0
      BY <1>3 DEF unregister, staked, Record
    <2>2. pool' = pool - n /\ \A w \in Stakers \ {v} : record'[w] = record[w]
      BY <1>3 DEF unregister, pay_out
    <2> HIDE DEF n
    <2>3. -n \in Int /\ staked(v)' = staked(v) + (-n) /\ pool' >= pool + (-n)
      BY <2>1, <2>2
    <2> QED
      BY <1>0, <2>2, <2>3
  <1>4. ASSUME NEW v \in Stakers, update_heartbeat(v) PROVE StakesArePaid'
    <2>1. staked(v)' = staked(v) + 0
      BY <1>4 DEF update_heartbeat, staked, Record
    <2>2. pool' = pool /\ \A w \in Stakers \ {v} : record'[w] = record[w]
      BY <1>4 DEF update_heartbeat
    <2> QED
      BY <1>0, <2>1, <2>2
  <1>5. ASSUME NEW v \in Stakers, NEW n \in StakeAmounts, stake(v, n) PROVE StakesArePaid'
    <2>1. [record[v] EXCEPT !.total_staked = @ + n] # NoRecord
      BY <1>5 DEF stake, Record
    <2>2. staked(v)' = staked(v) + n
      BY <1>5, <2>1 DEF stake, staked, Record
    <2>3. pool' = pool + n /\ \A w \in Stakers \ {v} : record'[w] = record[w]
      BY <1>5 DEF stake, deposit
    <2> QED
      BY <1>0, <2>2, <2>3
  <1>6. ASSUME NEW a \in StakeAdmins, NEW v \in Stakers, NEW n \in StakeAmounts, slash(a, v, n)
        PROVE  StakesArePaid'
    <2>1. /\ record[v] \in Record /\ n \in Nat /\ n <= record[v].total_staked /\ record[v] # NoRecord
          /\ record'[v] = slashed(record[v], n) /\ pool' = pool
          /\ \A w \in Stakers \ {v} : record'[w] = record[w]
      BY <1>6 DEF slash
    <2>2. record'[v] # NoRecord /\ record'[v].total_staked = record[v].total_staked - n
      BY <2>1, SlashedRecord DEF Record
    <2>3. record[v].total_staked \in Int /\ pool \in Int
      BY <2>1 DEF Record
    <2>4. staked(v) = record[v].total_staked /\ staked(v)' = record'[v].total_staked
      BY <2>1, <2>2 DEF staked
    <2>5. -n \in Int /\ staked(v)' = staked(v) + (-n) /\ pool' >= pool + (-n)
      BY ONLY <2>1, <2>2, <2>3, <2>4
    <2> QED
      BY <1>0, <2>1, <2>5
  <1> QED
    BY <1>1, <1>2, <1>3, <1>4, <1>5, <1>6 DEF StakeStep, StakeNext, stake_init, close_ledger, stakeVars

\* The contract's own balance covers every stake at once, over any order of
\* deposits, slashes and departures: nobody's refund is paid with another's stake.
THEOREM StakesAreCovered == StakeSpec => []StakesArePaid
  <1>1. StakeInit => StakeTypeOK
    BY StakeAssumption DEF StakeInit, StakeTypeOK
  <1>2. StakeInit => StakesArePaid
    <2> SUFFICES ASSUME StakeInit PROVE StakesArePaid
      OBVIOUS
    <2> DEFINE f == [v \in Stakers |-> staked(v)]
               zero == [v \in Stakers |-> 0]
    <2>1. \A v \in Stakers : f[v] \in Int /\ f[v] = 0
      BY DEF StakeInit, staked, registered
    <2>2. IsFiniteSet(Stakers) /\ f = zero
      BY <2>1, StakeAssumption
    <2> HIDE DEF f
    <2>3. SumFunctionOnSet(f, Stakers) = 0
      BY <2>2, SumZero
    <2> QED
      BY <2>3 DEF StakesArePaid, StakeInit, f
  <1> QED
    BY <1>1, <1>2, StakeTypeStep, PaidStep, PTL DEF StakeSpec, StakeStep

-----------------------------------------------------------------------------
(* What a division of a payment pays. *)

\* Division towards zero.
LEMMA TruncatedIs ==
    ASSUME NEW n \in Int, NEW d \in Nat \ {0}
    PROVE  /\ truncated(n, d) \in Int
           /\ n >= 0 => /\ 0 <= truncated(n, d)
                        /\ d * truncated(n, d) <= n /\ n <= d * truncated(n, d) + (d - 1)
           /\ n <= 0 => truncated(n, d) <= 0 /\ n <= d * truncated(n, d)
  <1>1. \A m \in Nat : m \div d \in Nat /\ d * (m \div d) <= m /\ m <= d * (m \div d) + (d - 1)
    OBVIOUS
  <1>2. CASE n >= 0
    BY <1>1, <1>2 DEF truncated
  <1>3. CASE n < 0
    BY <1>1, <1>3 DEF truncated
  <1> QED
    BY <1>2, <1>3
\* A project's shares are a sequence of beneficiaries, or none yet.
SplitTypeOK ==
    \A p \in Projects :
        split[p] = << >> \/ \E n \in 1..MaxBeneficiaries : split[p] \in Beneficiaries_of(n)

SplitStep == [SplitNext]_splitVars

\* configure stores what it was given, for one project.
LEMMA SplitTypeStep ==
    SplitTypeOK /\ split \in [Projects -> {split[p] : p \in Projects}] /\ SplitStep
        => SplitTypeOK' /\ split' \in [Projects -> {split'[p] : p \in Projects}]
  <1> SUFFICES ASSUME SplitTypeOK, split \in [Projects -> {split[p] : p \in Projects}], SplitStep
               PROVE  SplitTypeOK' /\ split' \in [Projects -> {split'[p] : p \in Projects}]
    OBVIOUS
  <1>1. CASE UNCHANGED split
    BY <1>1 DEF SplitTypeOK
  <1>2. ASSUME NEW a \in SplitAdmins, NEW q \in Projects, NEW n \in 1..MaxBeneficiaries,
               NEW b \in Beneficiaries_of(n), configure(a, q, b)
        PROVE  SplitTypeOK' /\ split' \in [Projects -> {split'[p] : p \in Projects}]
    <2>1. split' = [split EXCEPT ![q] = b]
      BY <1>2 DEF configure
    <2>2. \A p \in Projects : split'[p] = IF p = q THEN b ELSE split[p]
      BY <2>1
    <2>3. SplitTypeOK'
      BY <2>2 DEF SplitTypeOK
    <2>4. split' \in [Projects -> {split'[p] : p \in Projects}]
      BY <2>1
    <2> QED
      BY <2>3, <2>4
  <1>3. \/ UNCHANGED split
        \/ \E a \in SplitAdmins, q \in Projects, n \in 1..MaxBeneficiaries :
              \E b \in Beneficiaries_of(n) : configure(a, q, b)
    BY DEF SplitStep, SplitNext, splitVars, split_init, distribute
  <1> QED
    BY <1>1, <1>2, <1>3

\* What a division pays when the shares make up the whole.
LEMMA PaysWithin ==
    ASSUME NEW k \in 1..MaxBeneficiaries, NEW b \in Beneficiaries_of(k), true_bps(b) = WHOLE,
           NEW n \in Payments
    PROVE  IF n < 0 THEN total_paid(b, n) = 0
           ELSE total_paid(b, n) <= n /\ n - total_paid(b, n) < Len(b)
  <1> DEFINE S == 1..k
             f == [i \in S |-> b[i].bps]
             g == [i \in S |-> share(n, b[i].bps)]
             t == [i \in S |-> sent(share(n, b[i].bps))]
             net == n - fee(n)
  <1>1. /\ k \in Nat \ {0} /\ DOMAIN b = S /\ Len(b) = k /\ n \in Int
        /\ \A i \in S : b[i].bps \in Nat
    <2>1. k \in Nat \ {0} /\ Shares \subseteq Nat /\ n \in Int
      <3>1. MaxBeneficiaries \in Nat /\ U32 \in Nat
        BY RevenueSplitAssumption
      <3>2. k \in Nat \ {0}
        BY <3>1
      <3>3. 0..(U32 - 1) \subseteq Nat
        BY <3>1
      <3> QED
        BY <3>2, <3>3, RevenueSplitAssumption
    <2>2. b \in Seq([to : Payers, bps : Shares]) /\ DOMAIN b = 1..k
      <3> DEFINE R == [to : Payers, bps : Shares]
      <3>1. b \in [1..k -> R]
        BY DEF Beneficiaries_of
      <3> HIDE DEF R
      <3>2. b \in Seq(R) /\ DOMAIN b = 1..k
        BY <2>1, <3>1
      <3> QED
        BY <3>2 DEF R
    <2>3. Len(b) = k
      BY <2>1, <2>2
    <2> QED
      BY <2>1, <2>2, <2>3 DEF Beneficiaries_of
  <1>2. IsFiniteSet(S) /\ Cardinality(S) = k
    BY <1>1, FS_Interval
  <1>3. /\ WHOLE \in Nat \ {0} /\ PROTOCOL_FEE_BPS \in Nat /\ PROTOCOL_FEE_BPS <= WHOLE
    BY RevenueSplitAssumption
  <1>4. true_bps(b) = SumFunctionOnSet(f, S)
    BY <1>1 DEF true_bps
  <1>5. total_paid(b, n) = sent(fee(n)) + SumFunctionOnSet(t, S)
    <2>1. DOMAIN share_payments(b, n) = S
          /\ \A i \in S : share_payments(b, n)[i].n = share(n, b[i].bps)
      BY <1>1 DEF share_payments
    <2>2. [i \in DOMAIN share_payments(b, n) |-> sent(share_payments(b, n)[i].n)] = t
      BY <2>1
    <2>3. fee_payment(n).n = fee(n)
      BY DEF fee_payment
    <2> HIDE DEF t
    <2> QED
      BY <2>1, <2>2, <2>3 DEF total_paid
  <1>6. n * PROTOCOL_FEE_BPS \in Int /\ fee(n) \in Int /\ net \in Int
    <2>1. n * PROTOCOL_FEE_BPS \in Int
      BY <1>1, <1>3
    <2>2. fee(n) \in Int
      BY <1>3, <2>1, TruncatedIs DEF fee
    <2> QED
      BY <1>1, <2>1, <2>2
  <1>7. CASE n < 0
    <2>1. n * PROTOCOL_FEE_BPS <= 0 /\ WHOLE * n <= n * PROTOCOL_FEE_BPS
      <3>1. \A x, y, z \in Nat : y <= z => (-x) * y <= 0 /\ z * (-x) <= (-x) * y
        OBVIOUS
      <3>2. -n \in Nat /\ -(-n) = n
        BY <1>1, <1>7
      <3> QED
        BY <1>3, <3>1, <3>2
    <2>2. fee(n) <= 0 /\ n * PROTOCOL_FEE_BPS <= WHOLE * fee(n)
      BY <1>3, <1>6, <2>1, TruncatedIs DEF fee
    <2>3. net <= 0
      <3>1. WHOLE * n <= WHOLE * fee(n)
        <4>1. \A x, y, z \in Int : x <= y /\ y <= z => x <= z
          OBVIOUS
        <4>2. WHOLE * n \in Int /\ WHOLE * fee(n) \in Int
          BY <1>1, <1>3, <1>6
        <4> QED
          BY <1>6, <2>1, <2>2, <4>1, <4>2
      <3>2. \A w \in Nat \ {0} : \A x, y \in Int : w * x <= w * y => x <= y
        OBVIOUS
      <3>3. n <= fee(n)
        BY <1>1, <1>3, <1>6, <3>1, <3>2
      <3> QED
        BY <1>1, <1>6, <3>3
    <2>4. \A i \in S : t[i] = 0
      <3> SUFFICES ASSUME NEW i \in S PROVE sent(share(n, b[i].bps)) = 0
        OBVIOUS
      <3>1. net * b[i].bps \in Int /\ net * b[i].bps <= 0
        <4>1. \A x \in Int : \A y \in Nat : x <= 0 => x * y \in Int /\ x * y <= 0
          OBVIOUS
        <4> QED
          BY <1>1, <1>6, <2>3, <4>1
      <3>2. share(n, b[i].bps) \in Int /\ share(n, b[i].bps) <= 0
        BY <1>3, <3>1, TruncatedIs DEF share
      <3> QED
        BY <3>2 DEF sent
    <2>5. SumFunctionOnSet(t, S) = 0
      <3> HIDE DEF t
      <3> QED
        BY <1>2, <2>4, SumZero
    <2>6. sent(fee(n)) = 0
      BY <1>6, <2>2 DEF sent
    <2> QED
      BY <1>5, <1>7, <2>5, <2>6
  <1>8. CASE n >= 0
    <2>1. n * PROTOCOL_FEE_BPS >= 0 /\ n * PROTOCOL_FEE_BPS <= WHOLE * n
      <3>1. \A x, y, z \in Nat : y <= z => x * y >= 0 /\ x * y <= z * x
        OBVIOUS
      <3> QED
        BY <1>1, <1>3, <1>8, <3>1
    <2>2. fee(n) >= 0 /\ WHOLE * fee(n) <= n * PROTOCOL_FEE_BPS
      BY <1>3, <1>6, <2>1, TruncatedIs DEF fee
    <2>3. net >= 0
      <3>1. WHOLE * fee(n) <= WHOLE * n
        <4>1. \A x, y, z \in Int : x <= y /\ y <= z => x <= z
          OBVIOUS
        <4>2. WHOLE * n \in Int /\ WHOLE * fee(n) \in Int
          BY <1>1, <1>3, <1>6
        <4> QED
          BY <1>6, <2>1, <2>2, <4>1, <4>2
      <3>2. \A w \in Nat \ {0} : \A x, y \in Int : w * x <= w * y => x <= y
        OBVIOUS
      <3>3. fee(n) <= n
        BY <1>1, <1>3, <1>6, <3>1, <3>2
      <3> QED
        BY <1>1, <1>6, <3>3
    <2>4. \A i \in S : /\ f[i] \in Int /\ g[i] \in Int /\ g[i] >= 0
                       /\ WHOLE * g[i] <= net * f[i]
                       /\ net * f[i] <= WHOLE * g[i] + (WHOLE - 1)
      <3> SUFFICES ASSUME NEW i \in S
                   PROVE  /\ b[i].bps \in Int /\ share(n, b[i].bps) \in Int
                          /\ share(n, b[i].bps) >= 0
                          /\ WHOLE * share(n, b[i].bps) <= net * b[i].bps
                          /\ net * b[i].bps <= WHOLE * share(n, b[i].bps) + (WHOLE - 1)
        OBVIOUS
      <3>1. net * b[i].bps \in Int /\ net * b[i].bps >= 0
        <4>1. \A x, y \in Nat : x * y \in Int /\ x * y >= 0
          OBVIOUS
        <4> QED
          BY <1>1, <1>6, <2>3, <4>1
      <3> QED
        <4>1. share(n, b[i].bps) = truncated(net * b[i].bps, WHOLE) /\ b[i].bps \in Int
          BY <1>1 DEF share
        <4> HIDE DEF net
        <4> QED
          BY <1>3, <3>1, <4>1, TruncatedIs
    <2>5. \A i \in S : g[i] \in Int /\ g[i] = t[i]
      BY <2>4 DEF sent
    <2> DEFINE paid == SumFunctionOnSet(g, S)
    <2>6. SumFunctionOnSet(t, S) = paid /\ paid \in Int
      <3> HIDE DEF t, g
      <3> QED
        BY <1>2, <2>5, SumSame, SumInt
    <2>7. WHOLE * paid <= net * WHOLE /\ net * WHOLE <= WHOLE * paid + (WHOLE - 1) * k
      <3>1. \A i \in S : /\ f[i] \in Int /\ g[i] \in Int
                         /\ WHOLE * g[i] <= net * f[i]
                         /\ net * f[i] <= WHOLE * g[i] + (WHOLE - 1)
        BY <2>4
      <3> HIDE DEF f, g, S, net
      <3>2. /\ WHOLE * SumFunctionOnSet(g, S) <= net * SumFunctionOnSet(f, S)
            /\ net * SumFunctionOnSet(f, S)
                 <= WHOLE * SumFunctionOnSet(g, S) + (WHOLE - 1) * Cardinality(S)
        BY <1>2, <1>3, <1>6, <3>1, SumShares
      <3> QED
        BY <1>2, <1>4, <3>2
    <2>8. sent(fee(n)) = fee(n)
      BY <1>6, <2>2 DEF sent
    <2> HIDE DEF paid, net
    <2>9. paid <= net /\ net - paid < k
      <3>1. \A w \in Nat \ {0} : \A x, y \in Int : \A c \in Nat \ {0} :
               /\ w * x <= y * w => x <= y
               /\ y * w <= w * x + (w - 1) * c => y - x < c
        <4> SUFFICES ASSUME NEW w \in Nat \ {0}, NEW x \in Int, NEW y \in Int, NEW c \in Nat \ {0}
                     PROVE  /\ w * x <= y * w => x <= y
                            /\ y * w <= w * x + (w - 1) * c => y - x < c
          OBVIOUS
        <4>1. w * x <= y * w => x <= y
          OBVIOUS
        <4>2. ASSUME y * w <= w * x + (w - 1) * c, y - x >= c PROVE FALSE
          <5>1. w * (y - x) = y * w - w * x /\ (w - 1) * c = w * c - c
            OBVIOUS
          <5>2. w * (y - x) >= w * c
            BY <4>2
          <5>3. w * (y - x) \in Int /\ w * c \in Int /\ y * w \in Int /\ w * x \in Int
            OBVIOUS
          <5> QED
            BY ONLY <4>2, <5>1, <5>2, <5>3, c \in Nat \ {0}
        <4> QED
          BY <4>1, <4>2
      <3> QED
        BY <1>1, <1>3, <1>6, <2>6, <2>7, <3>1
    <2>10. total_paid(b, n) = fee(n) + paid /\ net = n - fee(n)
      BY <1>5, <2>6, <2>8 DEF net
    <2> QED
      BY ONLY <1>1, <1>6, <1>8, <2>6, <2>9, <2>10
  <1> QED
    BY <1>1, <1>7, <1>8

\* Every division of a payment pays at most the payment and keeps back less than a
\* unit per beneficiary, whatever the fee, the shares and the truncations
\* (distribute of the revenue-split contract).
THEOREM DivisionPaysWithinAmount == SplitSpec => []PaysWithinAmount
  <1> DEFINE Inv == SplitTypeOK /\ split \in [Projects -> {split[p] : p \in Projects}]
  <1>1. SplitInit => Inv
    BY DEF SplitInit, SplitTypeOK
  <1>2. Inv /\ SplitStep => Inv'
    BY SplitTypeStep
  <1>3. Inv => PaysWithinAmount
    <2> SUFFICES ASSUME SplitTypeOK, NEW p \in Projects, NEW n \in Payments,
                        split[p] # << >>, true_bps(split[p]) = WHOLE
                 PROVE  IF n < 0 THEN total_paid(split[p], n) = 0
                        ELSE total_paid(split[p], n) <= n
                             /\ n - total_paid(split[p], n) < Len(split[p])
      BY DEF PaysWithinAmount
    <2>1. PICK k \in 1..MaxBeneficiaries : split[p] \in Beneficiaries_of(k)
      BY DEF SplitTypeOK
    <2> QED
      BY <2>1, PaysWithin
  <1> QED
    BY <1>1, <1>2, <1>3, PTL DEF SplitSpec, SplitStep

-----------------------------------------------------------------------------
(* What the log of deliveries says. *)

Job == [at : {"post", "sleep", "record", "done"}, attempt : 0..MAX_ATTEMPTS, answer : Answers]
Emission == [event : EventTypes, job : [Hooks -> Job]]

\* Every job has attempts left where it is going to make one.
JobOK(j) ==
    /\ j.at \in {"post", "sleep", "record"} => j.attempt >= 1
    /\ j.at = "sleep" => j.attempt < MAX_ATTEMPTS

WebhooksTypeOK ==
    /\ emission \in [Emitters -> Emission \cup {NoEmit}]
    /\ \A e \in Emitters, h \in Hooks : emitting(e) => JobOK(job(e, h))
    /\ deliveries \in [Row -> Nat]
    /\ posted \in [Hooks \X EventTypes -> Nat]
    /\ taken \in [Hooks \X EventTypes -> Nat]

\* What the job of emitter e for webhook h has done and not logged yet: whether
\* the receiver took the event, and the requests it was sent.
unlogged_success(e, h, event) ==
    IF emitting(e) /\ emission[e].event = event
       /\ job(e, h).at = "record" /\ job(e, h).answer = "ok"
    THEN 1 ELSE 0
unlogged_attempts(e, h, event) ==
    IF ~emitting(e) \/ emission[e].event # event \/ job(e, h).at = "done" THEN 0
    ELSE IF job(e, h).at = "post" THEN job(e, h).attempt - 1
    ELSE job(e, h).attempt

LoggedSuccesses(h, event) == SumFunctionOnSet(successes, logged(h, event))
LoggedAttempts(h, event) == SumFunctionOnSet(attempts_made, logged(h, event))
UnloggedSuccesses(h, event) ==
    SumFunctionOnSet([e \in Emitters |-> unlogged_success(e, h, event)], Emitters)
UnloggedAttempts(h, event) ==
    SumFunctionOnSet([e \in Emitters |-> unlogged_attempts(e, h, event)], Emitters)

\* Together with what is under way, the log says at most what happened.
LogInv(h, event) ==
    /\ LoggedSuccesses(h, event) + UnloggedSuccesses(h, event) <= taken[<<h, event>>]
    /\ LoggedAttempts(h, event) + UnloggedAttempts(h, event) <= posted[<<h, event>>]

\* A webhook and an event have finitely many rows: two outcomes, and so many attempts.
LEMMA LoggedFinite ==
    ASSUME NEW h \in Hooks, NEW event \in EventTypes
    PROVE  IsFiniteSet(logged(h, event)) /\ logged(h, event) \subseteq Row
  <1> DEFINE P == BOOLEAN \X (1..MAX_ATTEMPTS)
             f == [p \in P |-> [hook |-> h, event |-> event, success |-> p[1], attempts |-> p[2]]]
             L == logged(h, event)
  <1>1. IsFiniteSet(P)
    <2>1. IsFiniteSet(BOOLEAN)
      <3>1. BOOLEAN = {TRUE, FALSE}
        OBVIOUS
      <3>2. IsFiniteSet({TRUE} \cup {FALSE})
        BY FS_Singleton, FS_Union
      <3>3. {TRUE, FALSE} = {TRUE} \cup {FALSE}
        OBVIOUS
      <3> QED
        BY <3>1, <3>2, <3>3
    <2>2. IsFiniteSet(1..MAX_ATTEMPTS)
      <3>1. MAX_ATTEMPTS \in Int /\ 1 \in Int
        BY WebhooksAssumption
      <3> QED
        BY <3>1, FS_Interval
    <2> QED
      BY <2>1, <2>2, FS_Product
  <1>2. \A p \in P : f[p] \in L
    BY DEF logged, Row
  <1>3. \A r \in L : \E p \in P : f[p] = r
    <2> SUFFICES ASSUME NEW r \in L PROVE \E p \in P : f[p] = r
      OBVIOUS
    <2>1. r = [hook |-> h, event |-> event, success |-> r.success, attempts |-> r.attempts]
          /\ r.success \in BOOLEAN /\ r.attempts \in 1..MAX_ATTEMPTS
      BY DEF logged, Row
    <2>2. <<r.success, r.attempts>> \in P /\ f[<<r.success, r.attempts>>] = r
      BY <2>1
    <2> QED
      BY <2>2
  <1>4. f \in [P -> L]
    BY <1>2
  <1> HIDE DEF f, P, L
  <1>5. f \in Surjection(P, L)
    BY <1>3, <1>4 DEF Surjection
  <1>6. IsFiniteSet(L)
    BY <1>1, <1>5, FS_Surjection DEF ExistsSurjection
  <1> QED
    BY <1>6 DEF L, logged

\* A row counts some attempts.
LEMMA RowAttempts ==
    ASSUME NEW r \in Row
    PROVE  r.attempts \in Nat
  BY WebhooksAssumption DEF Row

\* The jobs that the steps make of a job.
FirstPost == [NoJob EXCEPT !.at = "post", !.attempt = 1]
Answered(j, a) == [j EXCEPT !.answer = a, !.at =
                    IF success(a) \/ ~retryable(a) \/ j.attempt = MAX_ATTEMPTS
                    THEN "record" ELSE "sleep"]
NextPost(j) == [j EXCEPT !.at = "post", !.attempt = @ + 1]

\* There is an attempt.
LEMMA SomeAttempts == MAX_ATTEMPTS \in Nat /\ MAX_ATTEMPTS >= 1
  BY WebhooksAssumption

\* They are jobs with attempts left.
LEMMA JobsAre ==
    /\ NoJob \in Job /\ JobOK(NoJob) /\ FirstPost \in Job /\ JobOK(FirstPost)
    /\ \A j \in Job : JobOK(j) =>
          /\ j.at = "post" => \A a \in Answers : Answered(j, a) \in Job /\ JobOK(Answered(j, a))
          /\ j.at = "sleep" => NextPost(j) \in Job /\ JobOK(NextPost(j))
  <1>1. NoJob \in Job /\ JobOK(NoJob)
    BY SomeAttempts DEF NoJob, Job, JobOK, Answers
  <1>2. FirstPost = [at |-> "post", attempt |-> 1, answer |-> "ok"]
    <2>1. [NoJob EXCEPT !.at = "post"] = [at |-> "post", attempt |-> 0, answer |-> "ok"]
      BY DEF NoJob
    <2>2. FirstPost = [[NoJob EXCEPT !.at = "post"] EXCEPT !.attempt = 1]
      BY DEF FirstPost
    <2> QED
      BY <2>1, <2>2
  <1>3. FirstPost \in Job /\ JobOK(FirstPost)
    BY <1>2, SomeAttempts DEF Job, JobOK, Answers
  <1>4. ASSUME NEW j \in Job, JobOK(j), j.at = "post", NEW a \in Answers
        PROVE  Answered(j, a) \in Job /\ JobOK(Answered(j, a))
    <2> DEFINE at == IF success(a) \/ ~retryable(a) \/ j.attempt = MAX_ATTEMPTS
                     THEN "record" ELSE "sleep"
    <2>1. Answered(j, a) = [at |-> at, attempt |-> j.attempt, answer |-> a]
      <3>1. [j EXCEPT !.answer = a] = [at |-> j.at, attempt |-> j.attempt, answer |-> a]
        BY DEF Job
      <3>2. Answered(j, a) = [[j EXCEPT !.answer = a] EXCEPT !.at = at]
        BY DEF Answered
      <3> HIDE DEF at
      <3> QED
        BY <3>1, <3>2
    <2>2. /\ at \in {"record", "sleep"} /\ (at = "sleep" => j.attempt # MAX_ATTEMPTS)
          /\ j.attempt \in 0..MAX_ATTEMPTS /\ j.attempt >= 1
      BY <1>4 DEF Job, JobOK
    <2> HIDE DEF at
    <2> QED
      BY <2>1, <2>2, SomeAttempts DEF Job, JobOK
  <1>5. ASSUME NEW j \in Job, JobOK(j), j.at = "sleep"
        PROVE  NextPost(j) \in Job /\ JobOK(NextPost(j))
    <2>1. NextPost(j) = [at |-> "post", attempt |-> j.attempt + 1, answer |-> j.answer]
      <3>1. [j EXCEPT !.at = "post"] = [at |-> "post", attempt |-> j.attempt, answer |-> j.answer]
        BY DEF Job
      <3>2. NextPost(j) = [[j EXCEPT !.at = "post"] EXCEPT !.attempt = j.attempt + 1]
        BY DEF NextPost
      <3> QED
        BY <3>1, <3>2
    <2>2. j.attempt \in 0..MAX_ATTEMPTS /\ j.attempt < MAX_ATTEMPTS /\ j.answer \in Answers
      BY <1>5 DEF Job, JobOK
    <2> QED
      BY <2>1, <2>2, SomeAttempts DEF Job, JobOK
  <1> QED
    BY <1>1, <1>3, <1>4, <1>5

\* The counts are numbers.
LEMMA CountsAre ==
    ASSUME WebhooksTypeOK, NEW e \in Emitters, NEW h \in Hooks, NEW event \in EventTypes
    PROVE  /\ unlogged_success(e, h, event) \in Nat
           /\ unlogged_attempts(e, h, event) \in Nat
  <1>1. unlogged_success(e, h, event) \in Nat
    BY DEF unlogged_success
  <1>2. unlogged_attempts(e, h, event) \in Nat
    <2>1. CASE ~emitting(e)
      BY <2>1 DEF unlogged_attempts
    <2>2. CASE emitting(e)
      <3>1. job(e, h) \in Job /\ JobOK(job(e, h))
        BY <2>2 DEF WebhooksTypeOK, emitting, Emission, job
      <3>2. job(e, h).attempt \in Nat /\ job(e, h).at \in {"post", "sleep", "record", "done"}
        BY <3>1, WebhooksAssumption DEF Job
      <3> QED
        BY <3>1, <3>2 DEF unlogged_attempts, JobOK
    <2> QED
      BY <2>1, <2>2
  <1> QED
    BY <1>1, <1>2

CountsAreNumbers ==
    \A e \in Emitters, h \in Hooks, event \in EventTypes :
        unlogged_success(e, h, event) \in Nat /\ unlogged_attempts(e, h, event) \in Nat

\* They are numbers after every step too.
LEMMA CountsAreKept == WebhooksTypeOK' => CountsAreNumbers'
  <1>1. WebhooksTypeOK => CountsAreNumbers
    BY CountsAre DEF CountsAreNumbers
  <1> QED
    BY <1>1, PTL

\* What is logged and not logged is counted in natural numbers.
LEMMA SumsAre ==
    ASSUME WebhooksTypeOK, NEW h \in Hooks, NEW event \in EventTypes
    PROVE  /\ LoggedSuccesses(h, event) \in Nat /\ LoggedAttempts(h, event) \in Nat
           /\ UnloggedSuccesses(h, event) \in Nat /\ UnloggedAttempts(h, event) \in Nat
  <1>1. \A r \in logged(h, event) : successes[r] \in Nat /\ attempts_made[r] \in Nat
    <2> SUFFICES ASSUME NEW r \in logged(h, event)
                 PROVE  successes[r] \in Nat /\ attempts_made[r] \in Nat
      OBVIOUS
    <2>0. r \in Row
      BY DEF logged
    <2>1. deliveries[r] \in Nat /\ r.attempts \in Nat
      BY <2>0, RowAttempts DEF WebhooksTypeOK
    <2>2. r.attempts * deliveries[r] \in Nat
      BY <2>1
    <2> QED
      BY <2>0, <2>1, <2>2 DEF successes, attempts_made
  <1>2. LoggedSuccesses(h, event) \in Nat /\ LoggedAttempts(h, event) \in Nat
    BY <1>1, LoggedFinite, SumNat DEF LoggedSuccesses, LoggedAttempts
  <1>3. UnloggedSuccesses(h, event) \in Nat
    <2> DEFINE f == [e \in Emitters |-> unlogged_success(e, h, event)]
    <2>1. \A e \in Emitters : f[e] \in Nat
      BY CountsAre
    <2>2. IsFiniteSet(Emitters)
      BY WebhooksAssumption
    <2> HIDE DEF f
    <2>3. SumFunctionOnSet(f, Emitters) \in Nat
      BY <2>1, <2>2, SumNat
    <2> QED
      BY <2>3 DEF UnloggedSuccesses, f
  <1>4. UnloggedAttempts(h, event) \in Nat
    <2> DEFINE f == [e \in Emitters |-> unlogged_attempts(e, h, event)]
    <2>1. \A e \in Emitters : f[e] \in Nat
      BY CountsAre
    <2>2. IsFiniteSet(Emitters)
      BY WebhooksAssumption
    <2> HIDE DEF f
    <2>3. SumFunctionOnSet(f, Emitters) \in Nat
      BY <2>1, <2>2, SumNat
    <2> QED
      BY <2>3 DEF UnloggedAttempts, f
  <1> QED
    BY <1>2, <1>3, <1>4

\* One emitter's step changes what is not logged by its own part.
LEMMA EmitterMoves ==
    ASSUME WebhooksTypeOK, WebhooksTypeOK', NEW e \in Emitters,
           \A d \in Emitters \ {e} : emission'[d] = emission[d],
           NEW h \in Hooks, NEW event \in EventTypes
    PROVE  /\ UnloggedSuccesses(h, event)' = UnloggedSuccesses(h, event)
                - unlogged_success(e, h, event) + unlogged_success(e, h, event)'
           /\ UnloggedAttempts(h, event)' = UnloggedAttempts(h, event)
                - unlogged_attempts(e, h, event) + unlogged_attempts(e, h, event)'
  <1>0. IsFiniteSet(Emitters)
    BY WebhooksAssumption
  <1>1. UnloggedSuccesses(h, event)' = UnloggedSuccesses(h, event)
                - unlogged_success(e, h, event) + unlogged_success(e, h, event)'
    <2> DEFINE f == [d \in Emitters |-> unlogged_success(d, h, event)]
               g == [d \in Emitters |-> unlogged_success(d, h, event)']
    <2>1. /\ UnloggedSuccesses(h, event) = SumFunctionOnSet(f, Emitters)
          /\ UnloggedSuccesses(h, event)' = SumFunctionOnSet(g, Emitters)
      BY DEF UnloggedSuccesses
    <2>2. f[e] = unlogged_success(e, h, event) /\ g[e] = unlogged_success(e, h, event)'
      OBVIOUS
    <2>3. f[e] \in Int /\ g[e] \in Int /\ \A d \in Emitters \ {e} : f[d] \in Int
      <3>1. unlogged_success(e, h, event)' \in Nat
        BY CountsAreKept DEF CountsAreNumbers
      <3>2. \A d \in Emitters : unlogged_success(d, h, event) \in Nat
        BY CountsAre
      <3> QED
        BY <3>1, <3>2
    <2>4. \A d \in Emitters \ {e} : f[d] = g[d]
      BY DEF unlogged_success, emitting, job
    <2> HIDE DEF f, g
    <2> QED
      BY <1>0, <2>1, <2>2, <2>3, <2>4, SumChanges
  <1>2. UnloggedAttempts(h, event)' = UnloggedAttempts(h, event)
                - unlogged_attempts(e, h, event) + unlogged_attempts(e, h, event)'
    <2> DEFINE f == [d \in Emitters |-> unlogged_attempts(d, h, event)]
               g == [d \in Emitters |-> unlogged_attempts(d, h, event)']
    <2>1. /\ UnloggedAttempts(h, event) = SumFunctionOnSet(f, Emitters)
          /\ UnloggedAttempts(h, event)' = SumFunctionOnSet(g, Emitters)
      BY DEF UnloggedAttempts
    <2>2. f[e] = unlogged_attempts(e, h, event) /\ g[e] = unlogged_attempts(e, h, event)'
      OBVIOUS
    <2>3. f[e] \in Int /\ g[e] \in Int /\ \A d \in Emitters \ {e} : f[d] \in Int
      <3>1. unlogged_attempts(e, h, event)' \in Nat
        BY CountsAreKept DEF CountsAreNumbers
      <3>2. \A d \in Emitters : unlogged_attempts(d, h, event) \in Nat
        BY CountsAre
      <3> QED
        BY <3>1, <3>2
    <2>4. \A d \in Emitters \ {e} : f[d] = g[d]
      BY DEF unlogged_attempts, emitting, job
    <2> HIDE DEF f, g
    <2> QED
      BY <1>0, <2>1, <2>2, <2>3, <2>4, SumChanges
  <1> QED
    BY <1>1, <1>2

\* A new row adds what it claims to what the log says of its webhook and event.
LEMMA RowAdds ==
    ASSUME WebhooksTypeOK, NEW r \in Row, deliveries' = [deliveries EXCEPT ![r] = @ + 1],
           NEW h \in Hooks, NEW event \in EventTypes
    PROVE  IF r.hook = h /\ r.event = event
           THEN /\ LoggedSuccesses(h, event)'
                     = LoggedSuccesses(h, event) + (IF r.success THEN 1 ELSE 0)
                /\ LoggedAttempts(h, event)' = LoggedAttempts(h, event) + r.attempts
           ELSE /\ LoggedSuccesses(h, event)' = LoggedSuccesses(h, event)
                /\ LoggedAttempts(h, event)' = LoggedAttempts(h, event)
  <1> DEFINE L == logged(h, event)
             f == successes
             g == successes'
             p == attempts_made
             q == attempts_made'
  <1>1. IsFiniteSet(L) /\ L \subseteq Row /\ (r \in L <=> r.hook = h /\ r.event = event)
    BY LoggedFinite DEF logged
  <1>2. /\ LoggedSuccesses(h, event) = SumFunctionOnSet(f, L)
        /\ LoggedSuccesses(h, event)' = SumFunctionOnSet(g, L)
        /\ LoggedAttempts(h, event) = SumFunctionOnSet(p, L)
        /\ LoggedAttempts(h, event)' = SumFunctionOnSet(q, L)
    BY DEF LoggedSuccesses, LoggedAttempts, logged
  <1>3. /\ deliveries[r] \in Nat /\ deliveries'[r] = deliveries[r] + 1 /\ r.attempts \in Nat
        /\ \A s \in Row : deliveries[s] \in Nat /\ s.attempts \in Nat
        /\ \A s \in Row \ {r} : deliveries'[s] = deliveries[s]
    BY RowAttempts DEF WebhooksTypeOK
  <1>4. \A s \in Row : f[s] \in Int /\ p[s] \in Int
    <2> SUFFICES ASSUME NEW s \in Row PROVE f[s] \in Int /\ p[s] \in Int
      OBVIOUS
    <2>1. s.attempts * deliveries[s] \in Int /\ deliveries[s] \in Int
      BY <1>3
    <2> QED
      BY <2>1 DEF successes, attempts_made
  <1>5. \A s \in Row \ {r} : f[s] = g[s] /\ p[s] = q[s]
    BY <1>3 DEF successes, attempts_made
  <1>6. g[r] = f[r] + (IF r.success THEN 1 ELSE 0)
    BY <1>3 DEF successes
  <1>7. q[r] = p[r] + r.attempts
    <2>1. q[r] = r.attempts * (deliveries[r] + 1) /\ p[r] = r.attempts * deliveries[r]
      BY <1>3 DEF attempts_made
    <2>2. \A a, b \in Nat : a * (b + 1) = a * b + a
      OBVIOUS
    <2> QED
      BY <1>3, <2>1, <2>2
  <1>8. g[r] \in Int /\ q[r] \in Int
    BY <1>3, <1>4, <1>6, <1>7
  <1> HIDE DEF L, f, g, p, q
  <1>9. CASE r \in L
    <2>1. SumFunctionOnSet(g, L) = SumFunctionOnSet(f, L) - f[r] + g[r]
      BY <1>1, <1>4, <1>5, <1>8, <1>9, SumChanges
    <2>2. SumFunctionOnSet(q, L) = SumFunctionOnSet(p, L) - p[r] + q[r]
      BY <1>1, <1>4, <1>5, <1>8, <1>9, SumChanges
    <2>3. SumFunctionOnSet(f, L) \in Int /\ SumFunctionOnSet(p, L) \in Int
      BY <1>1, <1>4, SumInt
    <2>4. f[r] \in Int /\ p[r] \in Int /\ r.attempts \in Int
      BY <1>3, <1>4
    <2>5. /\ SumFunctionOnSet(g, L) = SumFunctionOnSet(f, L) + (IF r.success THEN 1 ELSE 0)
          /\ SumFunctionOnSet(q, L) = SumFunctionOnSet(p, L) + r.attempts
      BY ONLY <1>6, <1>7, <2>1, <2>2, <2>3, <2>4
    <2> QED
      BY <1>1, <1>2, <1>9, <2>5
  <1>10. CASE r \notin L
    <2>1. \A s \in L : f[s] \in Int /\ f[s] = g[s] /\ p[s] \in Int /\ p[s] = q[s]
      BY <1>1, <1>4, <1>5, <1>10
    <2>2. SumFunctionOnSet(g, L) = SumFunctionOnSet(f, L)
          /\ SumFunctionOnSet(q, L) = SumFunctionOnSet(p, L)
      BY <1>1, <2>1, SumSame
    <2> QED
      BY <1>1, <1>2, <1>10, <2>2
  <1> QED
    BY <1>9, <1>10

\* A record with one job replaced is an emission again.
LEMMA JobGoes ==
    ASSUME WebhooksTypeOK, NEW e \in Emitters, NEW h \in Hooks, emitting(e),
           NEW j \in Job, JobOK(j), job_goes(e, h, j)
    PROVE  /\ emission' \in [Emitters -> Emission \cup {NoEmit}]
           /\ \A d \in Emitters, k \in Hooks : emitting(d)' => JobOK(job(d, k)')
           /\ emitting(e)' /\ job(e, h)' = j /\ emission'[e].event = emission[e].event
           /\ \A k \in Hooks \ {h} : job(e, k)' = job(e, k)
           /\ \A d \in Emitters \ {e} : emission'[d] = emission[d]
  <1>1. emission[e] \in Emission /\ emission \in [Emitters -> Emission \cup {NoEmit}]
    BY DEF WebhooksTypeOK, emitting
  <1>2. /\ emission'[e] = [emission[e] EXCEPT !.job[h] = j]
        /\ \A d \in Emitters \ {e} : emission'[d] = emission[d]
        /\ emission' \in [Emitters -> {emission'[d] : d \in Emitters}]
    BY <1>1 DEF job_goes
  <1>3. /\ emission'[e] \in Emission /\ emission'[e].event = emission[e].event
        /\ emission'[e].job[h] = j
        /\ \A k \in Hooks \ {h} : emission'[e].job[k] = emission[e].job[k]
    BY <1>1, <1>2 DEF Emission
  <1>4. emission' \in [Emitters -> Emission \cup {NoEmit}]
    BY <1>1, <1>2, <1>3
  <1>5. emission'[e] # NoEmit
    BY <1>3, WebhooksAssumption DEF Emission, Job, Answers
  <1>6. \A d \in Emitters, k \in Hooks : emitting(d)' => JobOK(job(d, k)')
    <2> SUFFICES ASSUME NEW d \in Emitters, NEW k \in Hooks, emitting(d)'
                 PROVE  JobOK(emission'[d].job[k])
      BY DEF job
    <2>1. CASE d = e /\ k = h
      BY <1>3, <2>1
    <2>2. CASE d = e /\ k # h
      BY <1>3, <2>2 DEF WebhooksTypeOK, job
    <2>3. CASE d # e
      BY <1>2, <2>3 DEF WebhooksTypeOK, job, emitting
    <2> QED
      BY <2>1, <2>2, <2>3
  <1> QED
    BY <1>2, <1>3, <1>4, <1>5, <1>6 DEF emitting, job

\* The states keep their types, and the jobs their attempts.
LEMMA WebhooksTypeStep ==
    ASSUME WebhooksTypeOK, [WebhooksNext]_webhookVars
    PROVE  WebhooksTypeOK'
  <1>1. CASE UNCHANGED webhookVars
    BY <1>1 DEF webhookVars, hookRows, WebhooksTypeOK, emitting, job
  <1>2. CASE UNCHANGED <<emission, deliveries, posted, taken>>
    BY <1>2 DEF WebhooksTypeOK, emitting, job
  <1>3. ASSUME NEW e \in Emitters, NEW event \in EventTypes, emit(e, event)
        PROVE  WebhooksTypeOK'
    <2>1. PICK hs \in {subscribed(event), {}} :
            emission' = [emission EXCEPT ![e] =
              [event |-> event, job |-> [h \in Hooks |-> IF h \in hs THEN FirstPost ELSE NoJob]]]
      BY <1>3 DEF emit, FirstPost
    <2> DEFINE em ==
            [event |-> event, job |-> [h \in Hooks |-> IF h \in hs THEN FirstPost ELSE NoJob]]
    <2>3. em \in Emission /\ \A h \in Hooks : JobOK(em.job[h])
      BY JobsAre DEF Emission
    <2> HIDE DEF em
    <2>4. emission' = [emission EXCEPT ![e] = em]
      BY <2>1 DEF em
    <2>5. emission' \in [Emitters -> Emission \cup {NoEmit}]
      BY <2>3, <2>4 DEF WebhooksTypeOK
    <2>6. \A d \in Emitters, h \in Hooks : emitting(d)' => JobOK(job(d, h)')
      BY <2>3, <2>4 DEF WebhooksTypeOK, emitting, job
    <2>7. UNCHANGED <<deliveries, posted, taken>>
      BY <1>3 DEF emit
    <2> QED
      BY <2>5, <2>6, <2>7 DEF WebhooksTypeOK
  <1>4. ASSUME NEW e \in Emitters, emit_returns(e)
        PROVE  WebhooksTypeOK'
    BY <1>4 DEF emit_returns, WebhooksTypeOK, emitting, job
  <1>5. ASSUME NEW e \in Emitters, NEW h \in Hooks, dispatch(e, h)
        PROVE  WebhooksTypeOK'
    <2> DEFINE k == <<h, emission[e].event>>
    <2>1. emitting(e) /\ job(e, h) \in Job /\ JobOK(job(e, h)) /\ job(e, h).at = "post"
          /\ k \in Hooks \X EventTypes
      BY <1>5 DEF dispatch, WebhooksTypeOK, emitting, Emission, job
    <2>2. PICK a \in Answers :
            /\ job_goes(e, h, Answered(job(e, h), a))
            /\ taken' = [taken EXCEPT ![k] = IF a = "ok" THEN @ + 1 ELSE @]
      BY <1>5 DEF dispatch, Answered
    <2> DEFINE j == Answered(job(e, h), a)
    <2>3. j \in Job /\ JobOK(j)
      BY <2>1, JobsAre
    <2>4. posted' = [posted EXCEPT ![k] = @ + 1] /\ deliveries' = deliveries
      BY <1>5 DEF dispatch
    <2>5. posted' \in [Hooks \X EventTypes -> Nat] /\ taken' \in [Hooks \X EventTypes -> Nat]
      BY <2>1, <2>2, <2>4 DEF WebhooksTypeOK
    <2> HIDE DEF j, k
    <2>6. job_goes(e, h, j)
      BY <2>2 DEF j
    <2>7. /\ emission' \in [Emitters -> Emission \cup {NoEmit}]
          /\ \A d \in Emitters, l \in Hooks : emitting(d)' => JobOK(job(d, l)')
      BY <2>1, <2>3, <2>6, JobGoes
    <2> QED
      BY <2>4, <2>5, <2>7 DEF WebhooksTypeOK
  <1>6. ASSUME NEW e \in Emitters, NEW h \in Hooks, wakes(e, h)
        PROVE  WebhooksTypeOK'
    <2> DEFINE j == NextPost(job(e, h))
    <2>1. emitting(e) /\ job(e, h) \in Job /\ JobOK(job(e, h)) /\ job(e, h).at = "sleep"
      BY <1>6 DEF wakes, WebhooksTypeOK, emitting, Emission, job
    <2>2. j \in Job /\ JobOK(j)
      BY <2>1, JobsAre
    <2>3. job_goes(e, h, j) /\ UNCHANGED <<deliveries, posted, taken>>
      BY <1>6 DEF wakes, NextPost
    <2> HIDE DEF j
    <2>4. /\ emission' \in [Emitters -> Emission \cup {NoEmit}]
          /\ \A d \in Emitters, l \in Hooks : emitting(d)' => JobOK(job(d, l)')
      BY <2>1, <2>2, <2>3, JobGoes
    <2> QED
      BY <2>3, <2>4 DEF WebhooksTypeOK
  <1>7. ASSUME NEW e \in Emitters, NEW h \in Hooks, recordDelivery(e, h)
        PROVE  WebhooksTypeOK'
    <2>1. emitting(e) /\ job(e, h) \in Job /\ JobOK(job(e, h)) /\ job(e, h).at = "record"
          /\ emission[e].event \in EventTypes
      BY <1>7 DEF recordDelivery, WebhooksTypeOK, emitting, Emission, job
    <2>2. NoJob \in Job /\ JobOK(NoJob)
      BY JobsAre
    <2>3. job_goes(e, h, NoJob) /\ UNCHANGED <<posted, taken>>
      BY <1>7 DEF recordDelivery
    <2>4. /\ emission' \in [Emitters -> Emission \cup {NoEmit}]
          /\ \A d \in Emitters, l \in Hooks : emitting(d)' => JobOK(job(d, l)')
      BY <2>1, <2>2, <2>3, JobGoes
    <2>5. deliveries' \in [Row -> Nat]
      BY <1>7 DEF recordDelivery, WebhooksTypeOK
    <2> QED
      BY <2>3, <2>4, <2>5 DEF WebhooksTypeOK
  <1>8. CASE api_restarts
    BY <1>8 DEF api_restarts, WebhooksTypeOK, emitting, job
  <1>9. \A u \in HookUsers, h \in Hooks :
          (\E es \in (SUBSET EventTypes) \ {{}} : register_webhook(u, h, es))
          \/ remove_webhook(u, h) => UNCHANGED <<emission, deliveries, posted, taken>>
    BY DEF register_webhook, remove_webhook
  <1> QED
    BY <1>1, <1>2, <1>3, <1>4, <1>5, <1>6, <1>7, <1>8, <1>9 DEF WebhooksNext, EmitStep

\* A step that leaves the rows alone leaves what they say alone.
LEMMA LogStays ==
    ASSUME UNCHANGED deliveries, NEW h \in Hooks, NEW event \in EventTypes
    PROVE  /\ LoggedSuccesses(h, event)' = LoggedSuccesses(h, event)
           /\ LoggedAttempts(h, event)' = LoggedAttempts(h, event)
  BY DEF LoggedSuccesses, LoggedAttempts, logged, successes, attempts_made

\* A step of one job: what it leaves undone and what happened are all that LogInv
\* of its webhook and event counts anew.
LEMMA OtherJobs ==
    ASSUME WebhooksTypeOK, NEW e \in Emitters, NEW h \in Hooks, emitting(e),
           NEW j \in Job, JobOK(j), job_goes(e, h, j),
           NEW k \in Hooks, NEW event \in EventTypes, <<k, event>> # <<h, emission[e].event>>
    PROVE  /\ unlogged_success(e, k, event)' = unlogged_success(e, k, event)
           /\ unlogged_attempts(e, k, event)' = unlogged_attempts(e, k, event)
  <1>1. /\ emitting(e)' /\ emission'[e].event = emission[e].event
        /\ \A l \in Hooks \ {h} : job(e, l)' = job(e, l)
    BY JobGoes
  <1>2. CASE emission[e].event # event
    BY <1>1, <1>2 DEF unlogged_success, unlogged_attempts
  <1>3. CASE k # h
    BY <1>1, <1>3 DEF unlogged_success, unlogged_attempts
  <1> QED
    BY <1>2, <1>3

\* Every step keeps LogInv.
LEMMA LogStep ==
    ASSUME WebhooksTypeOK, WebhooksTypeOK', [WebhooksNext]_webhookVars,
           NEW h \in Hooks, NEW event \in EventTypes, LogInv(h, event)
    PROVE  LogInv(h, event)'
  <1> DEFINE key == <<h, event>>
  <1>0. /\ LoggedSuccesses(h, event) \in Nat /\ LoggedAttempts(h, event) \in Nat
        /\ UnloggedSuccesses(h, event) \in Nat /\ UnloggedAttempts(h, event) \in Nat
        /\ posted[key] \in Nat /\ taken[key] \in Nat
        /\ LoggedSuccesses(h, event) + UnloggedSuccesses(h, event) <= taken[key]
        /\ LoggedAttempts(h, event) + UnloggedAttempts(h, event) <= posted[key]
    BY SumsAre DEF WebhooksTypeOK, LogInv
  <1> SUFFICES /\ LoggedSuccesses(h, event)' + UnloggedSuccesses(h, event)' <= taken'[key]
               /\ LoggedAttempts(h, event)' + UnloggedAttempts(h, event)' <= posted'[key]
    BY DEF LogInv
  <1>1. CASE UNCHANGED <<emission, deliveries, posted, taken>>
    <2>1. /\ UnloggedSuccesses(h, event)' = UnloggedSuccesses(h, event)
          /\ UnloggedAttempts(h, event)' = UnloggedAttempts(h, event)
      BY <1>1 DEF UnloggedSuccesses, UnloggedAttempts, unlogged_success, unlogged_attempts,
                  emitting, job
    <2>2. posted' = posted /\ taken' = taken /\ deliveries' = deliveries
      BY <1>1
    <2> QED
      BY <1>0, <2>1, <2>2, LogStays
  <1>2. ASSUME NEW e \in Emitters, \A d \in Emitters \ {e} : emission'[d] = emission[d],
               unlogged_success(e, h, event) = 0, unlogged_success(e, h, event)' = 0,
               unlogged_attempts(e, h, event) = 0, unlogged_attempts(e, h, event)' = 0,
               UNCHANGED <<deliveries, posted, taken>>
        PROVE  /\ LoggedSuccesses(h, event)' + UnloggedSuccesses(h, event)' <= taken'[key]
               /\ LoggedAttempts(h, event)' + UnloggedAttempts(h, event)' <= posted'[key]
    <2>1. /\ UnloggedSuccesses(h, event)' = UnloggedSuccesses(h, event)
          /\ UnloggedAttempts(h, event)' = UnloggedAttempts(h, event)
      BY <1>0, <1>2, EmitterMoves
    <2>2. posted' = posted /\ taken' = taken /\ deliveries' = deliveries
      BY <1>2
    <2> QED
      BY <1>0, <2>1, <2>2, LogStays
  <1>3. ASSUME NEW e \in Emitters, NEW ev \in EventTypes, emit(e, ev)
        PROVE  /\ LoggedSuccesses(h, event)' + UnloggedSuccesses(h, event)' <= taken'[key]
               /\ LoggedAttempts(h, event)' + UnloggedAttempts(h, event)' <= posted'[key]
    <2>1. PICK hs \in {subscribed(ev), {}} :
            emission' = [emission EXCEPT ![e] =
              [event |-> ev, job |-> [k \in Hooks |-> IF k \in hs THEN FirstPost ELSE NoJob]]]
      BY <1>3 DEF emit, FirstPost
    <2>2. emission'[e].job[h] \in {FirstPost, NoJob}
      BY <2>1 DEF WebhooksTypeOK
    <2>3. /\ FirstPost.at = "post" /\ FirstPost.attempt = 1
          /\ NoJob.at = "done"
      BY DEF FirstPost, NoJob
    <2>4. unlogged_success(e, h, event)' = 0 /\ unlogged_attempts(e, h, event)' = 0
      BY <2>2, <2>3 DEF unlogged_success, unlogged_attempts, job
    <2>5. unlogged_success(e, h, event) = 0 /\ unlogged_attempts(e, h, event) = 0
      BY <1>3 DEF emit, unlogged_success, unlogged_attempts
    <2>6. \A d \in Emitters \ {e} : emission'[d] = emission[d]
      BY <2>1 DEF WebhooksTypeOK
    <2>7. UNCHANGED <<deliveries, posted, taken>>
      BY <1>3 DEF emit
    <2> QED
      BY <1>2, <2>4, <2>5, <2>6, <2>7
  <1>4. ASSUME NEW e \in Emitters, emit_returns(e)
        PROVE  /\ LoggedSuccesses(h, event)' + UnloggedSuccesses(h, event)' <= taken'[key]
               /\ LoggedAttempts(h, event)' + UnloggedAttempts(h, event)' <= posted'[key]
    <2>1. unlogged_success(e, h, event) = 0 /\ unlogged_attempts(e, h, event) = 0
      BY <1>4 DEF emit_returns, unlogged_success, unlogged_attempts
    <2>2. emission' = [emission EXCEPT ![e] = NoEmit] /\ UNCHANGED <<deliveries, posted, taken>>
      BY <1>4 DEF emit_returns
    <2>3. emission'[e] = NoEmit /\ \A d \in Emitters \ {e} : emission'[d] = emission[d]
      BY <2>2 DEF WebhooksTypeOK
    <2>4. unlogged_success(e, h, event)' = 0 /\ unlogged_attempts(e, h, event)' = 0
      BY <2>3 DEF unlogged_success, unlogged_attempts, emitting
    <2> QED
      BY <1>2, <2>1, <2>2, <2>3, <2>4
  <1>5. ASSUME NEW e \in Emitters, NEW k \in Hooks, NEW j \in Job, JobOK(j), emitting(e),
               job_goes(e, k, j), UNCHANGED deliveries, key # <<k, emission[e].event>>,
               taken'[key] = taken[key], posted'[key] = posted[key]
        PROVE  /\ LoggedSuccesses(h, event)' + UnloggedSuccesses(h, event)' <= taken'[key]
               /\ LoggedAttempts(h, event)' + UnloggedAttempts(h, event)' <= posted'[key]
    <2>1. /\ unlogged_success(e, h, event)' = unlogged_success(e, h, event)
          /\ unlogged_attempts(e, h, event)' = unlogged_attempts(e, h, event)
      BY <1>5, OtherJobs
    <2>2. /\ unlogged_success(e, h, event) \in Nat /\ unlogged_attempts(e, h, event) \in Nat
      BY CountsAre
    <2>3. \A d \in Emitters \ {e} : emission'[d] = emission[d]
      BY <1>5, JobGoes
    <2>4. /\ UnloggedSuccesses(h, event)' = UnloggedSuccesses(h, event)
                - unlogged_success(e, h, event) + unlogged_success(e, h, event)'
          /\ UnloggedAttempts(h, event)' = UnloggedAttempts(h, event)
                - unlogged_attempts(e, h, event) + unlogged_attempts(e, h, event)'
      BY <2>3, EmitterMoves
    <2>5. LoggedSuccesses(h, event)' = LoggedSuccesses(h, event)
          /\ LoggedAttempts(h, event)' = LoggedAttempts(h, event)
      BY <1>5, LogStays
    <2> QED
      BY <1>0, <1>5, <2>1, <2>2, <2>4, <2>5
  <1>6. ASSUME NEW e \in Emitters, NEW k \in Hooks, dispatch(e, k)
        PROVE  /\ LoggedSuccesses(h, event)' + UnloggedSuccesses(h, event)' <= taken'[key]
               /\ LoggedAttempts(h, event)' + UnloggedAttempts(h, event)' <= posted'[key]
    <2> DEFINE at == <<k, emission[e].event>>
    <2>1. emitting(e) /\ job(e, k) \in Job /\ JobOK(job(e, k)) /\ job(e, k).at = "post"
          /\ at \in Hooks \X EventTypes /\ key \in Hooks \X EventTypes
      BY <1>6 DEF dispatch, WebhooksTypeOK, emitting, Emission, job
    <2>2. PICK a \in Answers :
            /\ job_goes(e, k, Answered(job(e, k), a))
            /\ taken' = [taken EXCEPT ![at] = IF a = "ok" THEN @ + 1 ELSE @]
      BY <1>6 DEF dispatch, Answered
    <2> DEFINE j == Answered(job(e, k), a)
    <2>3. j \in Job /\ JobOK(j)
      BY <2>1, JobsAre
    <2>4. posted' = [posted EXCEPT ![at] = @ + 1] /\ deliveries' = deliveries
      BY <1>6 DEF dispatch
    <2>5. j.answer = a /\ j.at \in {"record", "sleep"} /\ j.attempt = job(e, k).attempt
          /\ job(e, k).attempt \in Nat /\ job(e, k).attempt >= 1 /\ (a = "ok" => j.at = "record")
      BY <2>1, SomeAttempts DEF Answered, Job, JobOK, success
    <2> HIDE DEF j
    <2>6. job_goes(e, k, j)
      BY <2>2 DEF j
    <2>7. CASE key # at
      <3>1. taken'[key] = taken[key] /\ posted'[key] = posted[key]
        BY <2>1, <2>2, <2>4, <2>7 DEF WebhooksTypeOK
      <3> QED
        BY <1>5, <2>1, <2>3, <2>4, <2>6, <2>7, <3>1
    <2>8. CASE key = at
      <3>1. /\ emitting(e)' /\ job(e, h)' = j /\ emission'[e].event = emission[e].event
            /\ \A d \in Emitters \ {e} : emission'[d] = emission[d]
        BY <2>1, <2>3, <2>6, <2>8, JobGoes
      <3>2. h = k /\ event = emission[e].event
        BY <2>8
      <3>3. /\ posted'[key] = posted[key] + 1
            /\ taken'[key] = taken[key] + (IF a = "ok" THEN 1 ELSE 0)
        BY <2>1, <2>2, <2>4, <2>8, <1>0 DEF WebhooksTypeOK
      <3>4. /\ unlogged_success(e, h, event) = 0
            /\ unlogged_success(e, h, event)' \in 0..(IF a = "ok" THEN 1 ELSE 0)
        BY <2>1, <2>5, <3>1, <3>2 DEF unlogged_success
      <3>5. /\ unlogged_attempts(e, h, event) = job(e, k).attempt - 1
            /\ unlogged_attempts(e, h, event)' = job(e, k).attempt
        BY <2>1, <2>5, <3>1, <3>2 DEF unlogged_attempts
      <3>6. /\ UnloggedSuccesses(h, event)' = UnloggedSuccesses(h, event)
                - unlogged_success(e, h, event) + unlogged_success(e, h, event)'
            /\ UnloggedAttempts(h, event)' = UnloggedAttempts(h, event)
                - unlogged_attempts(e, h, event) + unlogged_attempts(e, h, event)'
        BY <3>1, EmitterMoves
      <3>7. /\ LoggedSuccesses(h, event)' = LoggedSuccesses(h, event)
            /\ LoggedAttempts(h, event)' = LoggedAttempts(h, event)
        BY <2>4, LogStays
      <3>8. LoggedSuccesses(h, event)' + UnloggedSuccesses(h, event)' <= taken'[key]
        BY <1>0, <3>3, <3>4, <3>6, <3>7
      <3>9. LoggedAttempts(h, event)' + UnloggedAttempts(h, event)' <= posted'[key]
        BY <1>0, <2>5, <3>3, <3>5, <3>6, <3>7
      <3> QED
        BY <3>8, <3>9
    <2> QED
      BY <2>7, <2>8
  <1>7. ASSUME NEW e \in Emitters, NEW k \in Hooks, wakes(e, k)
        PROVE  /\ LoggedSuccesses(h, event)' + UnloggedSuccesses(h, event)' <= taken'[key]
               /\ LoggedAttempts(h, event)' + UnloggedAttempts(h, event)' <= posted'[key]
    <2> DEFINE j == NextPost(job(e, k))
    <2>1. emitting(e) /\ job(e, k) \in Job /\ JobOK(job(e, k)) /\ job(e, k).at = "sleep"
      BY <1>7 DEF wakes, WebhooksTypeOK, emitting, Emission, job
    <2>2. j \in Job /\ JobOK(j)
      BY <2>1, JobsAre
    <2>3. job_goes(e, k, j) /\ UNCHANGED <<deliveries, posted, taken>>
      BY <1>7 DEF wakes, NextPost
    <2>4. j.at = "post" /\ j.attempt = job(e, k).attempt + 1 /\ job(e, k).attempt \in Nat
      BY <2>1, SomeAttempts DEF NextPost, Job
    <2> HIDE DEF j
    <2>5. CASE key # <<k, emission[e].event>>
      BY <1>5, <2>1, <2>2, <2>3, <2>5
    <2>6. CASE key = <<k, emission[e].event>>
      <3>1. /\ emitting(e)' /\ job(e, h)' = j /\ emission'[e].event = emission[e].event
            /\ \A d \in Emitters \ {e} : emission'[d] = emission[d]
        BY <2>1, <2>2, <2>3, <2>6, JobGoes
      <3>2. h = k /\ event = emission[e].event
        BY <2>6
      <3>3. unlogged_success(e, h, event) = 0 /\ unlogged_success(e, h, event)' = 0
        BY <2>1, <2>4, <3>1, <3>2 DEF unlogged_success
      <3>4. /\ unlogged_attempts(e, h, event) = job(e, k).attempt
            /\ unlogged_attempts(e, h, event)' = job(e, k).attempt
        BY <2>1, <2>4, <3>1, <3>2 DEF unlogged_attempts
      <3>5. /\ UnloggedSuccesses(h, event)' = UnloggedSuccesses(h, event)
                - unlogged_success(e, h, event) + unlogged_success(e, h, event)'
            /\ UnloggedAttempts(h, event)' = UnloggedAttempts(h, event)
                - unlogged_attempts(e, h, event) + unlogged_attempts(e, h, event)'
        BY <3>1, EmitterMoves
      <3>6. /\ LoggedSuccesses(h, event)' = LoggedSuccesses(h, event)
            /\ LoggedAttempts(h, event)' = LoggedAttempts(h, event)
            /\ posted' = posted /\ taken' = taken
        BY <2>3, LogStays
      <3> QED
        BY <1>0, <2>4, <3>3, <3>4, <3>5, <3>6
    <2> QED
      BY <2>5, <2>6
  <1>8. ASSUME NEW e \in Emitters, NEW k \in Hooks, recordDelivery(e, k)
        PROVE  /\ LoggedSuccesses(h, event)' + UnloggedSuccesses(h, event)' <= taken'[key]
               /\ LoggedAttempts(h, event)' + UnloggedAttempts(h, event)' <= posted'[key]
    <2> DEFINE r == [hook |-> k, event |-> emission[e].event,
                     success |-> success(job(e, k).answer), attempts |-> job(e, k).attempt]
    <2>1. emitting(e) /\ job(e, k) \in Job /\ JobOK(job(e, k)) /\ job(e, k).at = "record"
          /\ emission[e].event \in EventTypes
      BY <1>8 DEF recordDelivery, WebhooksTypeOK, emitting, Emission, job
    <2>2. NoJob \in Job /\ JobOK(NoJob) /\ NoJob.at = "done"
      BY JobsAre DEF NoJob
    <2>3. job_goes(e, k, NoJob) /\ UNCHANGED <<posted, taken>>
      BY <1>8 DEF recordDelivery
    <2>4. deliveries' = deliveries \/ deliveries' = [deliveries EXCEPT ![r] = @ + 1]
      BY <1>8 DEF recordDelivery
    <2>5. /\ r \in Row /\ r.hook = k /\ r.event = emission[e].event
          /\ r.attempts = job(e, k).attempt /\ (r.success <=> job(e, k).answer = "ok")
          /\ job(e, k).attempt \in Nat
      <3>1. job(e, k).attempt \in 1..MAX_ATTEMPTS /\ job(e, k).attempt \in Nat
        BY <2>1, SomeAttempts DEF Job, JobOK
      <3>2. success(job(e, k).answer) \in BOOLEAN
        BY DEF success
      <3>3. r \in Row
        BY <2>1, <3>1, <3>2, Zenon DEF Row
      <3>4. r.success <=> job(e, k).answer = "ok"
        BY Zenon DEF success
      <3> QED
        BY <3>1, <3>3, <3>4
    <2> HIDE DEF r
    <2>6. CASE key # <<k, emission[e].event>>
      <3>1. LoggedSuccesses(h, event)' = LoggedSuccesses(h, event)
            /\ LoggedAttempts(h, event)' = LoggedAttempts(h, event)
        <4>1. CASE deliveries' = deliveries
          BY <4>1, LogStays
        <4>2. CASE deliveries' = [deliveries EXCEPT ![r] = @ + 1]
          <5>1. ~(r.hook = h /\ r.event = event)
            BY <2>5, <2>6
          <5>2. r \in Row
            BY <2>5
          <5> QED
            BY <4>2, <5>1, <5>2, RowAdds
        <4> QED
          BY <2>4, <4>1, <4>2
      <3>2. /\ unlogged_success(e, h, event)' = unlogged_success(e, h, event)
            /\ unlogged_attempts(e, h, event)' = unlogged_attempts(e, h, event)
        BY <2>1, <2>2, <2>3, <2>6, OtherJobs
      <3>3. unlogged_success(e, h, event) \in Nat /\ unlogged_attempts(e, h, event) \in Nat
        BY CountsAre
      <3>4. \A d \in Emitters \ {e} : emission'[d] = emission[d]
        BY <2>1, <2>2, <2>3, JobGoes
      <3>5. /\ UnloggedSuccesses(h, event)' = UnloggedSuccesses(h, event)
                - unlogged_success(e, h, event) + unlogged_success(e, h, event)'
            /\ UnloggedAttempts(h, event)' = UnloggedAttempts(h, event)
                - unlogged_attempts(e, h, event) + unlogged_attempts(e, h, event)'
        BY <3>4, EmitterMoves
      <3> QED
        BY <1>0, <2>3, <3>1, <3>2, <3>3, <3>5
    <2>7. CASE key = <<k, emission[e].event>>
      <3>1. /\ emitting(e)' /\ job(e, h)' = NoJob /\ emission'[e].event = emission[e].event
            /\ \A d \in Emitters \ {e} : emission'[d] = emission[d]
        BY <2>1, <2>2, <2>3, <2>7, JobGoes
      <3>2. h = k /\ event = emission[e].event
        BY <2>7
      <3>3. /\ unlogged_success(e, h, event) = (IF r.success THEN 1 ELSE 0)
            /\ unlogged_success(e, h, event)' = 0
        BY <2>1, <2>2, <2>5, <3>1, <3>2 DEF unlogged_success
      <3>4. /\ unlogged_attempts(e, h, event) = r.attempts
            /\ unlogged_attempts(e, h, event)' = 0
        BY <2>1, <2>2, <2>5, <3>1, <3>2 DEF unlogged_attempts
      <3>5. /\ UnloggedSuccesses(h, event)' = UnloggedSuccesses(h, event)
                - unlogged_success(e, h, event) + unlogged_success(e, h, event)'
            /\ UnloggedAttempts(h, event)' = UnloggedAttempts(h, event)
                - unlogged_attempts(e, h, event) + unlogged_attempts(e, h, event)'
        BY <3>1, EmitterMoves
      <3>6. \/ LoggedSuccesses(h, event)' = LoggedSuccesses(h, event)
               /\ LoggedAttempts(h, event)' = LoggedAttempts(h, event)
            \/ LoggedSuccesses(h, event)' = LoggedSuccesses(h, event)
                                               + (IF r.success THEN 1 ELSE 0)
               /\ LoggedAttempts(h, event)' = LoggedAttempts(h, event) + r.attempts
        <4>1. CASE deliveries' = deliveries
          BY <4>1, LogStays
        <4>2. CASE deliveries' = [deliveries EXCEPT ![r] = @ + 1]
          BY <2>5, <3>2, <4>2, RowAdds
        <4> QED
          BY <2>4, <4>1, <4>2
      <3>7. r.attempts \in Nat
        BY <2>5
      <3>8. posted' = posted /\ taken' = taken
        BY <2>3
      <3> QED
        BY <1>0, <3>3, <3>4, <3>5, <3>6, <3>7, <3>8
    <2> QED
      BY <2>6, <2>7
  <1>9. CASE api_restarts
    <2>1. IsFiniteSet(Emitters)
      BY WebhooksAssumption
    <2>2. \A e \in Emitters : ~emitting(e)'
      BY <1>9 DEF api_restarts, emitting
    <2>3. UnloggedSuccesses(h, event)' = 0
      <3> DEFINE f == [e \in Emitters |-> unlogged_success(e, h, event)']
      <3>1. \A e \in Emitters : f[e] = 0
        BY <2>2 DEF unlogged_success
      <3> HIDE DEF f
      <3>2. SumFunctionOnSet(f, Emitters) = 0
        BY <2>1, <3>1, SumZero
      <3> QED
        BY <3>2 DEF UnloggedSuccesses, f
    <2>4. UnloggedAttempts(h, event)' = 0
      <3> DEFINE f == [e \in Emitters |-> unlogged_attempts(e, h, event)']
      <3>1. \A e \in Emitters : f[e] = 0
        BY <2>2 DEF unlogged_attempts
      <3> HIDE DEF f
      <3>2. SumFunctionOnSet(f, Emitters) = 0
        BY <2>1, <3>1, SumZero
      <3> QED
        BY <3>2 DEF UnloggedAttempts, f
    <2>5. posted' = posted /\ taken' = taken /\ deliveries' = deliveries
      BY <1>9 DEF api_restarts
    <2> QED
      BY <1>0, <2>3, <2>4, <2>5, LogStays
  <1>10. CASE \E u \in HookUsers, k \in Hooks :
                \/ \E es \in (SUBSET EventTypes) \ {{}} : register_webhook(u, k, es)
                \/ remove_webhook(u, k)
    BY <1>1, <1>10 DEF register_webhook, remove_webhook
  <1>11. CASE UNCHANGED webhookVars
    BY <1>1, <1>11 DEF webhookVars
  <1> QED
    BY <1>3, <1>4, <1>6, <1>7, <1>8, <1>9, <1>10, <1>11 DEF WebhooksNext, EmitStep

LogsAreTrue == \A h \in Hooks, event \in EventTypes : LogInv(h, event)

WebhooksStep == [WebhooksNext]_webhookVars

\* The same for every webhook and event.
LEMMA LogsStep == WebhooksTypeOK /\ WebhooksTypeOK' /\ LogsAreTrue /\ WebhooksStep => LogsAreTrue'
  BY LogStep DEF LogsAreTrue, WebhooksStep

\* The log of deliveries claims no success that the receiver did not grant and no
\* attempt that was not made (deliverWithRetry, recordDelivery), for all emits,
\* failed inserts, removals and restarts.
THEOREM DeliveryLogIsTrue == WebhooksSpec => []DeliveryRowsTrue
  <1>1. WebhooksInit => WebhooksTypeOK
    BY DEF WebhooksInit, WebhooksTypeOK, emitting
  <1>2. WebhooksInit => LogsAreTrue
    <2> SUFFICES ASSUME WebhooksInit, NEW h \in Hooks, NEW event \in EventTypes
                 PROVE  LogInv(h, event)
      BY DEF LogsAreTrue
    <2>1. \A e \in Emitters : ~emitting(e)
      BY DEF WebhooksInit, emitting
    <2>2. UnloggedSuccesses(h, event) = 0
      <3> DEFINE f == [e \in Emitters |-> unlogged_success(e, h, event)]
      <3>1. \A e \in Emitters : f[e] = 0
        BY <2>1 DEF unlogged_success
      <3> HIDE DEF f
      <3>2. SumFunctionOnSet(f, Emitters) = 0
        BY <3>1, SumZero, WebhooksAssumption
      <3> QED
        BY <3>2 DEF UnloggedSuccesses, f
    <2>3. UnloggedAttempts(h, event) = 0
      <3> DEFINE f == [e \in Emitters |-> unlogged_attempts(e, h, event)]
      <3>1. \A e \in Emitters : f[e] = 0
        BY <2>1 DEF unlogged_attempts
      <3> HIDE DEF f
      <3>2. SumFunctionOnSet(f, Emitters) = 0
        BY <3>1, SumZero, WebhooksAssumption
      <3> QED
        BY <3>2 DEF UnloggedAttempts, f
    <2>4. \A r \in logged(h, event) : successes[r] = 0 /\ attempts_made[r] = 0
      <3> SUFFICES ASSUME NEW r \in logged(h, event)
                   PROVE  successes[r] = 0 /\ attempts_made[r] = 0
        OBVIOUS
      <3>1. r \in Row /\ deliveries[r] = 0
        BY DEF logged, WebhooksInit
      <3>2. r.attempts * 0 = 0
        BY <3>1, RowAttempts
      <3> QED
        BY <3>1, <3>2 DEF successes, attempts_made
    <2>5. LoggedSuccesses(h, event) = 0 /\ LoggedAttempts(h, event) = 0
      BY <2>4, LoggedFinite, SumZero DEF LoggedSuccesses, LoggedAttempts
    <2>6. taken[<<h, event>>] = 0 /\ posted[<<h, event>>] = 0
      BY DEF WebhooksInit
    <2> QED
      BY <2>2, <2>3, <2>5, <2>6 DEF LogInv
  <1>3. WebhooksTypeOK /\ WebhooksStep => WebhooksTypeOK'
    BY WebhooksTypeStep DEF WebhooksStep
  <1>4. WebhooksTypeOK /\ LogsAreTrue => DeliveryRowsTrue
    <2> SUFFICES ASSUME WebhooksTypeOK, NEW h \in Hooks, NEW event \in EventTypes,
                        LogInv(h, event)
                 PROVE  /\ LoggedSuccesses(h, event) <= taken[<<h, event>>]
                        /\ LoggedAttempts(h, event) <= posted[<<h, event>>]
      BY DEF DeliveryRowsTrue, LogsAreTrue, LoggedSuccesses, LoggedAttempts
    <2>1. taken[<<h, event>>] \in Nat /\ posted[<<h, event>>] \in Nat
      BY DEF WebhooksTypeOK
    <2> QED
      BY <2>1, SumsAre DEF LogInv
  <1> QED
    BY <1>1, <1>2, <1>3, <1>4, LogsStep, PTL DEF WebhooksSpec, WebhooksStep

-----------------------------------------------------------------------------
(* What the reports add up. *)

BookedRow == [n : Nat, by : Accounts, at : Moments, amount : Tonnes, credit : Codes, code : Codes]

BookedOK == IsFiniteSet(booked) /\ booked \subseteq BookedRow

\* The tonnes of some rows are those that the rows have in the table.
LEMMA SumOfIs ==
    ASSUME NEW S, IsFiniteSet(S), S \subseteq BookedRow, NEW T \in SUBSET S
    PROVE  /\ sum_of(T) = SumFunctionOnSet([r \in S |-> r.amount], T)
           /\ \A r \in S : [r2 \in S |-> r2.amount][r] \in Int
  <1> DEFINE f == [r \in T |-> r.amount]
             g == [r \in S |-> r.amount]
  <1>1. \A r \in S : g[r] \in Int
    <2> SUFFICES ASSUME NEW r \in S PROVE r.amount \in Int
      OBVIOUS
    <2>1. r.amount \in Tonnes
      BY DEF BookedRow
    <2>2. Tonnes \subseteq Nat
      BY ReportsAssumption, Zenon
    <2>3. r.amount \in Nat
      BY <2>1, <2>2, Zenon
    <2> QED
      BY <2>3
  <1>2. IsFiniteSet(T) /\ \A r \in T : f[r] \in Int /\ f[r] = g[r]
    BY <1>1, FS_Subset
  <1>3. sum_of(T) = SumFunctionOnSet(f, T)
    BY DEF sum_of
  <1> HIDE DEF f, g
  <1>4. SumFunctionOnSet(f, T) = SumFunctionOnSet(g, T)
    BY <1>2, SumSame
  <1> QED
    BY <1>1, <1>3, <1>4 DEF g

\* Rows by their key: the parts add up to all of them.
LEMMA PartsAddUp ==
    ASSUME NEW S, IsFiniteSet(S), S \subseteq BookedRow, NEW Y, IsFiniteSet(Y),
           NEW key, \A r \in S : key[r] \in Y
    PROVE  SumFunctionOnSet([y \in Y |-> sum_of({r \in S : key[r] = y})], Y) = sum_of(S)
  <1> DEFINE v == [r \in S |-> r.amount]
  <1>1. \A r \in S : v[r] \in Int
    BY SumOfIs
  <1>2. \A y \in Y : sum_of({r \in S : key[r] = y}) = SumFunctionOnSet(v, Keyed(S, key, y))
    BY SumOfIs DEF Keyed
  <1>3. sum_of(S) = SumFunctionOnSet(v, S)
    BY SumOfIs
  <1> DEFINE a == [y \in Y |-> sum_of({r \in S : key[r] = y})]
             b == [y \in Y |-> SumFunctionOnSet(v, Keyed(S, key, y))]
  <1>4. a = b
    BY <1>2
  <1> HIDE DEF v
  <1>5. SumFunctionOnSet(b, Y) = SumFunctionOnSet(v, S)
    BY <1>1, SumPartition
  <1> HIDE DEF a, b
  <1>6. SumFunctionOnSet(a, Y) = sum_of(S)
    BY <1>3, <1>4, <1>5
  <1> QED
    BY <1>6 DEF a

\* Division into years.
LEMMA YearIs ==
    ASSUME NEW t \in Nat, NEW y \in Nat
    PROVE  /\ year_of(t) \in Nat
           /\ t >= y * YEAR /\ t < (y + 1) * YEAR <=> year_of(t) = y
           /\ t >= YEAR => year_of(t) # 0
  <1>1. YEAR \in Nat \ {0}
    BY ReportsAssumption
  <1> DEFINE q == t \div YEAR
  <1>2. q \in Nat /\ YEAR * q <= t /\ t < YEAR * q + YEAR
    BY <1>1
  <1> HIDE DEF q
  <1>3. \A a, b \in Nat : a < b => YEAR * a + YEAR <= YEAR * b
    <2> SUFFICES ASSUME NEW a \in Nat, NEW b \in Nat, a < b PROVE YEAR * a + YEAR <= YEAR * b
      OBVIOUS
    <2>1. YEAR * (b - a) = YEAR * b - YEAR * a /\ b - a >= 1
      BY <1>1
    <2>2. YEAR * (b - a) >= YEAR
      BY <1>1, <2>1
    <2>3. YEAR * a \in Nat /\ YEAR * b \in Nat
      BY <1>1
    <2> QED
      BY <1>1, <2>1, <2>2, <2>3
  <1>4. y * YEAR = YEAR * y /\ (y + 1) * YEAR = YEAR * y + YEAR /\ YEAR * y \in Nat /\ YEAR * q \in Nat
    BY <1>1, <1>2
  <1>5. t >= y * YEAR /\ t < (y + 1) * YEAR <=> q = y
    <2>1. CASE q < y
      <3>1. YEAR * q + YEAR <= YEAR * y
        BY <1>2, <1>3, <2>1
      <3> QED
        BY <1>1, <1>2, <1>4, <2>1, <3>1
    <2>2. CASE y < q
      <3>1. YEAR * y + YEAR <= YEAR * q
        BY <1>2, <1>3, <2>2
      <3> QED
        BY <1>1, <1>2, <1>4, <2>2, <3>1
    <2>3. CASE y = q
      BY <1>2, <1>4, <2>3
    <2> QED
      BY <1>2, <2>1, <2>2, <2>3
  <1>6. t >= YEAR => q # 0
    BY <1>1, <1>2
  <1> QED
    BY <1>2, <1>5, <1>6 DEF q, year_of
\* The rows of a year are those of its part of the table.
LEMMA RowsOfYear ==
    ASSUME BookedOK, NEW a \in Accounts
    PROVE  LET all == fetchRetirements(a, 0) IN
           /\ all \subseteq BookedRow /\ IsFiniteSet(all)
           /\ \A y : fetchRetirements(a, y) \subseteq all
           /\ \A r \in all : year_of(r.at) \in {year_of(t) : t \in Moments}
           /\ \A y \in {year_of(t) : t \in Moments} :
                 fetchRetirements(a, y) = {r \in all : year_of(r.at) = y}
  <1> DEFINE all == fetchRetirements(a, 0)
             years == {year_of(t) : t \in Moments}
  <1>1. all = {r \in booked : r.by = a}
    BY DEF fetchRetirements
  <1>2. all \subseteq BookedRow /\ IsFiniteSet(all)
    BY <1>1, FS_Subset DEF BookedOK
  <1>3. \A r \in all : r.at \in Moments
    BY <1>2 DEF BookedRow
  <1>4. Moments \subseteq Nat /\ \A t \in Moments : t >= YEAR
    BY ReportsAssumption
  <1>5. \A y \in years : y \in Nat /\ y # 0
    <2> SUFFICES ASSUME NEW t \in Moments PROVE year_of(t) \in Nat /\ year_of(t) # 0
      OBVIOUS
    <2>1. 0 \in Nat /\ t \in Nat /\ t >= YEAR
      BY <1>4
    <2> QED
      BY <2>1, YearIs
  <1>6. ASSUME NEW y \in years
        PROVE  fetchRetirements(a, y) = {r \in all : year_of(r.at) = y}
    <2>1. y \in Nat /\ y # 0
      BY <1>5
    <2>2. \A r \in all : r.at >= y * YEAR /\ r.at < (y + 1) * YEAR <=> year_of(r.at) = y
      <3> SUFFICES ASSUME NEW r \in all
                   PROVE  r.at >= y * YEAR /\ r.at < (y + 1) * YEAR <=> year_of(r.at) = y
        OBVIOUS
      <3>1. r.at \in Nat
        BY <1>3, <1>4
      <3> QED
        BY <2>1, <3>1, YearIs
    <2>3. fetchRetirements(a, y)
            = {r \in all : r.at >= y * YEAR /\ r.at < (y + 1) * YEAR}
      BY <1>1, <2>1 DEF fetchRetirements
    <2> QED
      BY <2>2, <2>3
  <1>7. \A y : fetchRetirements(a, y) \subseteq all
    BY <1>1 DEF fetchRetirements
  <1> QED
    BY <1>2, <1>3, <1>6, <1>7

\* One breakdown adds up, and a credit is counted once.
LEMMA SummaryAddsUp ==
    ASSUME NEW S, IsFiniteSet(S), S \subseteq BookedRow
    PROVE  LET map == buildSummary(S).byMethodology IN
           /\ SumFunctionOnSet([k \in DOMAIN map |-> map[k].tonnes], DOMAIN map)
                = buildSummary(S).totalTonnesRetired
           /\ buildSummary(S).totalCredits <= buildSummary(S).totalRetirements
  <1> DEFINE key == [r \in S |-> r.code]
             Y == {key[r] : r \in S}
             map == buildSummary(S).byMethodology
  <1>1. IsFiniteSet(Y) /\ \A r \in S : key[r] \in Y
    BY ImageIsNoLarger
  <1>2. SumFunctionOnSet([y \in Y |-> sum_of({r \in S : key[r] = y})], Y) = sum_of(S)
    <2> HIDE DEF key, Y
    <2> QED
      BY <1>1, PartsAddUp
  <1>3. Y = {r.code : r \in S}
    OBVIOUS
  <1>4. \A y : {r \in S : key[r] = y} = {r \in S : r.code = y}
    OBVIOUS
  <1>5. /\ DOMAIN map = {r.code : r \in S}
        /\ \A y \in DOMAIN map : map[y].tonnes = sum_of({r \in S : r.code = y})
    BY DEF buildSummary, accumulate
  <1>6. [k \in DOMAIN map |-> map[k].tonnes] = [y \in Y |-> sum_of({r \in S : key[r] = y})]
    BY <1>3, <1>4, <1>5
  <1>7. SumFunctionOnSet([k \in DOMAIN map |-> map[k].tonnes], DOMAIN map) = sum_of(S)
    BY <1>2, <1>3, <1>5, <1>6
  <1>8. Cardinality({r.credit : r \in S}) <= Cardinality(S)
    <2> DEFINE f == [r \in S |-> r.credit]
    <2>1. {f[r] : r \in S} = {r.credit : r \in S}
      OBVIOUS
    <2>2. DOMAIN f = S
      OBVIOUS
    <2>3. Cardinality({f[r] : r \in S}) <= Cardinality(S)
      <3> HIDE DEF f
      <3> QED
        BY <2>2, ImageIsNoLarger
    <2> QED
      BY <2>1, <2>3
  <1>9. /\ buildSummary(S).totalTonnesRetired = sum_of(S)
        /\ buildSummary(S).totalCredits = Cardinality({r.credit : r \in S})
        /\ buildSummary(S).totalRetirements = Cardinality(S)
    BY DEF buildSummary
  <1> QED
    BY <1>7, <1>8, <1>9

\* So do the days of the price history.
LEMMA HistoryAddsUp ==
    ASSUME BookedOK
    PROVE  SumFunctionOnSet([k \in DOMAIN getPriceHistory |-> getPriceHistory[k].tonnes],
                            DOMAIN getPriceHistory) = sum_of(booked)
  <1> DEFINE key == [r \in booked |-> year_of(r.at)]
             Y == {key[r] : r \in booked}
             map == getPriceHistory
  <1>0. IsFiniteSet(booked) /\ booked \subseteq BookedRow
    BY DEF BookedOK
  <1>1. IsFiniteSet(Y) /\ \A r \in booked : key[r] \in Y
    BY <1>0, ImageIsNoLarger
  <1>2. SumFunctionOnSet([y \in Y |-> sum_of({r \in booked : key[r] = y})], Y) = sum_of(booked)
    <2> HIDE DEF key, Y
    <2> QED
      BY <1>0, <1>1, PartsAddUp
  <1>3. Y = {year_of(r.at) : r \in booked}
    OBVIOUS
  <1>4. \A y : {r \in booked : key[r] = y} = {r \in booked : year_of(r.at) = y}
    OBVIOUS
  <1>5. /\ DOMAIN map = {year_of(r.at) : r \in booked}
        /\ \A y \in DOMAIN map : map[y].tonnes = sum_of({r \in booked : year_of(r.at) = y})
    BY DEF getPriceHistory, accumulate
  <1>6. [k \in DOMAIN map |-> map[k].tonnes]
          = [y \in Y |-> sum_of({r \in booked : key[r] = y})]
    BY <1>3, <1>4, <1>5
  <1> QED
    BY <1>2, <1>3, <1>5, <1>6

\* The reports add up to one another and to what was booked, for any rows, years
\* and accounts (buildSummary, fetchRetirements, getPriceHistory, getStats).
THEOREM ReportsTotalUp == ReportsSpec => []ReportsAddUp
  <1>1. ReportsInit => BookedOK
    BY FS_EmptySet DEF ReportsInit, BookedOK
  <1>2. BookedOK /\ [ReportsNext]_booked => BookedOK'
    <2> SUFFICES ASSUME BookedOK, [ReportsNext]_booked PROVE BookedOK'
      OBVIOUS
    <2>1. CASE UNCHANGED booked
      BY <2>1 DEF BookedOK
    <2>2. ASSUME NEW a \in Accounts, NEW t \in Moments, NEW n \in Tonnes, NEW c \in Codes,
                 book([n |-> Cardinality(booked), by |-> a, at |-> t, amount |-> n,
                       credit |-> c, code |-> c])
          PROVE  BookedOK'
      <3>1. Cardinality(booked) \in Nat
        BY FS_CardinalityType DEF BookedOK
      <3>2. [n |-> Cardinality(booked), by |-> a, at |-> t, amount |-> n,
             credit |-> c, code |-> c] \in BookedRow
        BY <3>1 DEF BookedRow
      <3> QED
        BY <2>2, <3>2, FS_AddElement DEF book, BookedOK
    <2> QED
      BY <2>1, <2>2 DEF ReportsNext
  <1>3. BookedOK => ReportsAddUp
    <2> SUFFICES ASSUME BookedOK PROVE ReportsAddUp
      OBVIOUS
    <2> DEFINE years == {year_of(t) : t \in Moments}
               total(map) == SumFunctionOnSet([k \in DOMAIN map |-> map[k].tonnes], DOMAIN map)
    <2>1. total(getPriceHistory) = getStats.totalVolume
      BY HistoryAddsUp DEF getStats
    <2>2. ASSUME NEW a \in Accounts
          PROVE  SumFunctionOnSet([y \in years |-> getScope3Report(a, y).totalTonnesRetired],
                                  years) = getScope3Report(a, 0).totalTonnesRetired
      <3> DEFINE all == fetchRetirements(a, 0)
                 key == [r \in all |-> year_of(r.at)]
                 f == [y \in years |-> getScope3Report(a, y).totalTonnesRetired]
                 g == [y \in years |-> sum_of({r \in all : key[r] = y})]
      <3>1. IsFiniteSet(years)
        <4> DEFINE h == [t \in Moments |-> year_of(t)]
        <4>1. years = {h[t] : t \in Moments} /\ DOMAIN h = Moments
          OBVIOUS
        <4>2. IsFiniteSet(Moments)
          BY ReportsAssumption, Zenon
        <4> HIDE DEF h
        <4>3. IsFiniteSet({h[t] : t \in Moments})
          BY <4>1, <4>2, ImageIsNoLarger
        <4> HIDE DEF years
        <4> QED
          BY <4>1, <4>3
      <3>2. /\ all \subseteq BookedRow /\ IsFiniteSet(all)
            /\ \A r \in all : key[r] \in years
            /\ \A y \in years : fetchRetirements(a, y) = {r \in all : key[r] = y}
        BY RowsOfYear
      <3>3. f = g
        BY <3>2 DEF getScope3Report, buildSummary
      <3>4. getScope3Report(a, 0).totalTonnesRetired = sum_of(all)
        BY DEF getScope3Report, buildSummary
      <3>5. SumFunctionOnSet(g, years) = sum_of(all)
        <4> HIDE DEF years, all, key
        <4> QED
          BY <3>1, <3>2, PartsAddUp
      <3> QED
        BY <3>3, <3>4, <3>5
    <2>3. ASSUME NEW a \in Accounts, NEW y
          PROVE  /\ total(getScope3Report(a, y).byMethodology)
                      = getScope3Report(a, y).totalTonnesRetired
                 /\ getScope3Report(a, y).totalCredits <= getScope3Report(a, y).totalRetirements
      <3>1. fetchRetirements(a, y) \subseteq BookedRow /\ IsFiniteSet(fetchRetirements(a, y))
        BY RowsOfYear, FS_Subset
      <3> QED
        BY <3>1, SummaryAddsUp DEF getScope3Report
    <2> QED
      BY <2>1, <2>2, <2>3, Zenon DEF ReportsAddUp
  <1> QED
    BY <1>1, <1>2, <1>3, PTL DEF ReportsSpec

-----------------------------------------------------------------------------
(* What a walk through the pages of a list sees. *)

Walk == [where : SUBSET ListStatuses, sort : {"created_asc", "created_desc"},
         page : Nat \ {0}, todo : SUBSET {"find", "count"}, total : Nat,
         seen : SUBSET Nat, due : SUBSET Nat, done : BOOLEAN]

ListsTypeOK ==
    /\ rows \in Seq(ListStatuses)
    /\ walk # NoWalk => walk \in Walk
    /\ shifted \in BOOLEAN

\* How many rows of the list come before row i.
place(i) == Cardinality(ahead(matching(walk.where), walk.sort, i))

\* Where a due row is that no page has shown yet: on this page or behind it, behind
\* it once this page was read, and counted if this page was counted too.
StillAhead(i) ==
    /\ "find" \in walk.todo => place(i) >= (walk.page - 1) * PageSize
    /\ "find" \notin walk.todo => place(i) >= walk.page * PageSize
    /\ walk.todo = {"find"} => place(i) < walk.total
    /\ walk.todo = {} => walk.page * PageSize < walk.total

WalkInv ==
    walk # NoWalk /\ ~shifted =>
        /\ walk.due \subseteq matching(walk.where)
        /\ walk.done => walk.due \subseteq walk.seen
        /\ ~walk.done => \A i \in walk.due \ walk.seen : StillAhead(i)

ListInv == ListsTypeOK /\ WalkInv

\* The rows that match are finitely many, and so are those ahead of one of them.
LEMMA MatchingIs ==
    ASSUME NEW S \in SUBSET ListStatuses, rows \in Seq(ListStatuses)
    PROVE  /\ matching(S) \subseteq 1..Len(rows) /\ Len(rows) \in Nat
           /\ IsFiniteSet(matching(S)) /\ count(S) \in Nat
           /\ \A sort, i : /\ ahead(matching(S), sort, i) \subseteq matching(S)
                           /\ IsFiniteSet(ahead(matching(S), sort, i))
                           /\ Cardinality(ahead(matching(S), sort, i)) \in Nat
           /\ \A sort : \A i \in matching(S) :
                 Cardinality(ahead(matching(S), sort, i)) < count(S)
  <1>1. matching(S) \subseteq 1..Len(rows) /\ Len(rows) \in Nat
    BY DEF matching
  <1>2. IsFiniteSet(matching(S))
    <2>1. Len(rows) \in Int /\ 1 \in Int
      BY <1>1
    <2>2. IsFiniteSet(1..Len(rows))
      BY <2>1, FS_Interval
    <2> QED
      BY <1>1, <2>2, FS_Subset
  <1>3. count(S) \in Nat
    BY <1>2, FS_CardinalityType DEF count
  <1>4. ASSUME NEW sort, NEW i
        PROVE  /\ ahead(matching(S), sort, i) \subseteq matching(S)
               /\ IsFiniteSet(ahead(matching(S), sort, i))
               /\ Cardinality(ahead(matching(S), sort, i)) \in Nat
    <2>1. ahead(matching(S), sort, i) \subseteq matching(S)
      BY DEF ahead
    <2> QED
      BY <1>2, <2>1, FS_Subset, FS_CardinalityType
  <1>5. ASSUME NEW sort, NEW i \in matching(S)
        PROVE  Cardinality(ahead(matching(S), sort, i)) < count(S)
    <2> DEFINE A == ahead(matching(S), sort, i)
    <2>1. i \in Nat
      BY <1>1
    <2>2. i \notin A
      BY <2>1 DEF ahead
    <2>3. A \subseteq matching(S) /\ Cardinality(A) \in Nat
      BY <1>4
    <2> HIDE DEF A
    <2>4. A # matching(S)
      BY <2>2
    <2>5. Cardinality(A) <= Cardinality(matching(S)) /\ Cardinality(A) # Cardinality(matching(S))
      BY <1>2, <2>3, <2>4, FS_Subset
    <2> QED
      BY <1>3, <2>3, <2>5 DEF A, count
  <1> QED
    BY <1>1, <1>2, <1>3, <1>4, <1>5

\* More rows ahead, a later place.
LEMMA LaterPlace ==
    ASSUME NEW A, NEW B, A \subseteq B, IsFiniteSet(B)
    PROVE  Cardinality(A) \in Nat /\ Cardinality(B) \in Nat /\ Cardinality(A) <= Cardinality(B)
  BY FS_Subset, FS_CardinalityType

\* A page holds something.
LEMMA PageSizeIs == PageSize \in Nat /\ PageSize >= 1
  BY PagedListsAssumption

\* A page that is the last is the end of what was counted.
LEMMA LastPage ==
    ASSUME NEW t \in Nat, NEW p \in Nat, ~(p < totalPages(t))
    PROVE  t <= p * PageSize
  <1> DEFINE n == PageSize
             q == totalPages(t)
  <1>0. n \in Nat /\ n >= 1
    BY PageSizeIs
  <1>1. q \in Nat /\ t + n - 1 < q * n + n
    <2>1. t + n - 1 \in Nat
      BY <1>0
    <2> HIDE DEF n
    <2>2. q = (t + n - 1) \div n
      BY DEF totalPages, n
    <2> HIDE DEF q
    <2> DEFINE m == t + n - 1
    <2>3. m \in Nat /\ q = m \div n
      BY <2>1, <2>2
    <2> HIDE DEF m
    <2>4. q \in Nat /\ m < q * n + n
      BY <1>0, <2>3
    <2> QED
      BY <2>4 DEF m
  <1> HIDE DEF n, q
  <1>2. q <= p
    BY <1>1 DEF q
  <1>3. q * n <= p * n
    <2>1. p - q \in Nat
      BY <1>1, <1>2
    <2>2. (p - q) * n \in Nat
      BY <1>0, <2>1
    <2>3. (p - q) * n = p * n - q * n
      BY <1>0, <1>1
    <2>4. q * n \in Nat /\ p * n \in Nat
      BY <1>0, <1>1
    <2> QED
      BY <2>2, <2>3, <2>4
  <1>4. q * n \in Nat /\ p * n \in Nat
    BY <1>0, <1>1
  <1>5. t <= p * n
    BY <1>0, <1>1, <1>3, <1>4
  <1> QED
    BY <1>5 DEF n

\* Where a page begins and ends.
LEMMA PageBounds ==
    ASSUME NEW p \in Nat \ {0}
    PROVE  /\ (p - 1) * PageSize \in Nat /\ p * PageSize \in Nat
           /\ p * PageSize = (p - 1) * PageSize + PageSize
           /\ (p + 1 - 1) * PageSize = p * PageSize
  <1> DEFINE n == PageSize
  <1>0. n \in Nat
    BY PageSizeIs
  <1> HIDE DEF n
  <1>1. (p - 1) * n \in Nat /\ p * n \in Nat /\ p * n = (p - 1) * n + n /\ p + 1 - 1 = p
    BY <1>0
  <1> QED
    BY <1>1 DEF n

\* One of the two queries of a page keeps what is known of the due rows: what a page
\* did not show lies behind it, and what was counted includes it.
LEMMA QueryKeeps ==
    ASSUME ListsTypeOK, WalkInv, walk # NoWalk, ~shifted, UNCHANGED <<rows, shifted>>,
           NEW q \in walk.todo,
           walk' = [walk EXCEPT
               !.todo = @ \ {q},
               !.seen = IF q = "find"
                        THEN @ \cup findMany(walk.where, walk.sort, walk.page) ELSE @,
               !.total = IF q = "count" THEN count(walk.where) ELSE @]
    PROVE  WalkInv'
  <1> DEFINE w == walk.where
             p == walk.page
  <1>0. walk \in Walk /\ rows \in Seq(ListStatuses) /\ w \in SUBSET ListStatuses /\ p \in Nat \ {0}
    BY DEF ListsTypeOK, Walk
  <1>1. /\ q \in {"find", "count"}
        /\ walk'.where = w /\ walk'.sort = walk.sort /\ walk'.page = p
        /\ walk'.due = walk.due /\ walk'.done = walk.done
        /\ walk'.todo = walk.todo \ {q}
        /\ walk'.seen = IF q = "find" THEN walk.seen \cup findMany(w, walk.sort, p) ELSE walk.seen
        /\ walk'.total = IF q = "count" THEN count(w) ELSE walk.total
    BY <1>0 DEF Walk
  <1>2. matching(w)' = matching(w)
    BY <1>1 DEF matching
  <1>3. walk.due \subseteq matching(w)
    BY DEF WalkInv
  <1>4. ASSUME ~walk.done, NEW i \in walk.due \ walk'.seen
        PROVE  StillAhead(i)'
    <2>1. i \in walk.due \ walk.seen /\ StillAhead(i)
      BY <1>1, <1>4 DEF WalkInv
    <2>2. i \in matching(w)
      BY <1>3, <2>1
    <2>3. place(i)' = place(i)
      BY <1>1, <1>2 DEF place, ahead
    <2>4. place(i) \in Nat /\ place(i) < count(w) /\ count(w) \in Nat
      BY <1>0, <2>2, MatchingIs DEF place
    <2>5. /\ (p - 1) * PageSize \in Nat /\ p * PageSize \in Nat
          /\ p * PageSize = (p - 1) * PageSize + PageSize /\ PageSize \in Nat
      BY <1>0, PageBounds, PageSizeIs
    <2> DEFINE pl == place(i)
               start == (p - 1) * PageSize
               end == p * PageSize
    <2>6. CASE q = "find"
      <3>1. i \notin findMany(w, walk.sort, p)
        BY <1>1, <1>4, <2>6
      <3>2. pl \notin start .. start + PageSize - 1
        BY <2>2, <3>1 DEF findMany, place
      <3>3. pl >= start
        BY <2>1, <2>6 DEF StillAhead
      <3>4. pl >= end
        <4> HIDE DEF pl, start, end
        <4> QED
          BY <2>4, <2>5, <3>2, <3>3 DEF pl, start, end
      <3>5. walk.todo = {"find"} => end < walk.total
        <4>1. walk.todo = {"find"} => pl < walk.total
          BY <2>1 DEF StillAhead
        <4>2. walk.total \in Nat
          BY <1>0 DEF Walk
        <4> HIDE DEF pl, end
        <4> QED
          BY <2>4, <2>5, <3>4, <4>1, <4>2 DEF pl, end
      <3>6. "find" \notin walk'.todo /\ walk'.total = walk.total
        BY <1>1, <2>6
      <3>7. walk'.todo = {} => walk.todo = {"find"}
        BY <1>1, <2>6
      <3>8. walk'.todo # {"find"}
        BY <3>6
      <3> HIDE DEF pl, start, end
      <3> QED
        BY <1>1, <2>3, <3>4, <3>5, <3>6, <3>7, <3>8 DEF StillAhead, pl, end
    <2>7. CASE q = "count"
      <3>1. ("find" \in walk'.todo) = ("find" \in walk.todo) /\ walk'.total = count(w)
        BY <1>1, <2>7
      <3>2. /\ "find" \in walk.todo => pl >= start
            /\ "find" \notin walk.todo => pl >= end
        BY <2>1 DEF StillAhead
      <3>3. walk'.todo = {} => end < count(w)
        <4>1. walk'.todo = {} => pl >= end
          BY <3>1, <3>2
        <4> HIDE DEF pl, end
        <4> QED
          BY <2>4, <2>5, <4>1 DEF pl, end
      <3>4. pl < count(w)
        BY <2>4
      <3> HIDE DEF pl, start, end
      <3> QED
        BY <1>1, <2>3, <3>1, <3>2, <3>3, <3>4 DEF StillAhead, pl, start, end
    <2> QED
      BY <1>1, <2>6, <2>7
  <1>5. walk.done => walk.due \subseteq walk'.seen
    BY <1>1 DEF WalkInv
  <1> QED
    BY <1>1, <1>2, <1>3, <1>4, <1>5 DEF WalkInv

\* The next page begins where this one ended; the last one showed the rest.
LEMMA TurnKeeps ==
    ASSUME ListsTypeOK, WalkInv, next_page
    PROVE  WalkInv'
  <1> DEFINE p == walk.page
  <1>0. walk \in Walk /\ p \in Nat \ {0} /\ walk.total \in Nat
    BY DEF ListsTypeOK, Walk, next_page
  <1>1. walk.todo = {} /\ ~walk.done /\ UNCHANGED <<rows, shifted>>
    BY DEF next_page
  <1>2. ASSUME ~shifted, NEW i \in walk.due \ walk.seen
        PROVE  StillAhead(i) /\ p * PageSize < walk.total /\ place(i) >= p * PageSize
    BY <1>1, <1>2 DEF WalkInv, StillAhead, next_page
  <1>3. CASE p < totalPages(walk.total)
    <2>1. walk' = [walk EXCEPT !.page = p + 1, !.todo = {"find", "count"}]
      BY <1>3 DEF next_page
    <2>2. /\ walk'.where = walk.where /\ walk'.sort = walk.sort /\ walk'.page = p + 1
          /\ walk'.due = walk.due /\ walk'.done = walk.done /\ walk'.seen = walk.seen
          /\ walk'.todo = {"find", "count"}
      BY <1>0, <2>1 DEF Walk
    <2>3. matching(walk.where)' = matching(walk.where)
      BY <1>1, <2>2 DEF matching
    <2>4. ASSUME ~shifted, NEW i \in walk.due \ walk.seen PROVE StillAhead(i)'
      <3>1. place(i)' = place(i)
        BY <2>2, <2>3 DEF place, ahead
      <3>3. walk'.todo # {"find"} /\ walk'.todo # {} /\ "find" \in walk'.todo
        BY <2>2
      <3>4. place(i)' >= (walk'.page - 1) * PageSize
        <4>0. p \in Nat
          BY <1>0
        <4>1. walk'.page = p + 1
          BY <2>2
        <4> HIDE DEF p
        <4>2. walk'.page - 1 = p
          BY <4>0, <4>1
        <4>3. (walk'.page - 1) * PageSize = p * PageSize
          BY <4>2
        <4> QED
          BY <1>2, <2>4, <3>1, <4>3
      <3> QED
        BY <3>3, <3>4 DEF StillAhead
    <2> QED
      BY <1>1, <2>2, <2>3, <2>4 DEF WalkInv, next_page
  <1>4. CASE ~(p < totalPages(walk.total))
    <2>1. walk' = [walk EXCEPT !.done = TRUE]
      BY <1>4 DEF next_page
    <2>2. /\ walk'.where = walk.where /\ walk'.due = walk.due
          /\ walk'.done /\ walk'.seen = walk.seen
      BY <1>0, <2>1 DEF Walk
    <2>3. matching(walk.where)' = matching(walk.where)
      BY <1>1, <2>2 DEF matching
    <2>4. walk.total <= p * PageSize
      BY <1>0, <1>4, LastPage
    <2>5. p * PageSize \in Nat
      BY <1>0, PageBounds
    <2>6. ~shifted => walk.due \subseteq walk.seen
      <3> HIDE DEF p
      <3> QED
        BY <1>0, <1>2, <2>4, <2>5
    <2> QED
      BY <1>1, <2>2, <2>3, <2>6 DEF WalkInv, next_page
  <1> QED
    BY <1>3, <1>4

\* Rows that only begin to match, and between the two queries of a page only behind
\* those that matched, leave every due row at its place or further behind.
LEMMA RowsKeep ==
    ASSUME ListsTypeOK, ListsTypeOK', WalkInv, UNCHANGED walk, walk # NoWalk, ~shifted,
           matching(walk.where) \subseteq matching(walk.where)',
           walk.todo = {"find"} =>
               \A i \in matching(walk.where) :
                   ahead(matching(walk.where)', walk.sort, i)
                       = ahead(matching(walk.where), walk.sort, i)
    PROVE  WalkInv'
  <1> DEFINE M == matching(walk.where)
             p == walk.page
  <1>0. walk \in Walk /\ p \in Nat \ {0} /\ walk.where \in SUBSET ListStatuses
    BY DEF ListsTypeOK, Walk
  <1>1. walk.due \subseteq M /\ walk.due \subseteq M'
    BY DEF WalkInv
  <1>2. ASSUME NEW i \in walk.due \ walk.seen, ~walk.done PROVE StillAhead(i)'
    <2>1. StillAhead(i) /\ i \in M
      BY <1>1, <1>2 DEF WalkInv
    <2>2. place(i) \in Nat /\ place(i)' \in Nat /\ place(i) <= place(i)'
      <3> DEFINE A == ahead(M, walk.sort, i)
                 B == ahead(M', walk.sort, i)
      <3>1. A \subseteq B
        BY DEF ahead
      <3>2. IsFiniteSet(M')
        <4>1. M' \subseteq 1..Len(rows') /\ Len(rows') \in Int /\ 1 \in Int
          BY DEF ListsTypeOK, matching
        <4>2. IsFiniteSet(1..Len(rows'))
          BY <4>1, FS_Interval
        <4> QED
          BY <4>1, <4>2, FS_Subset
      <3>3. B \subseteq M'
        BY DEF ahead
      <3>4. IsFiniteSet(B)
        BY <3>2, <3>3, FS_Subset
      <3>5. place(i) = Cardinality(A) /\ place(i)' = Cardinality(B)
        BY DEF place, ahead
      <3> HIDE DEF A, B
      <3> QED
        BY <3>1, <3>4, <3>5, LaterPlace
    <2>3. walk.todo = {"find"} => place(i)' = place(i)
      <3>1. walk.todo = {"find"} => ahead(M', walk.sort, i) = ahead(M, walk.sort, i)
        BY <2>1
      <3>2. place(i) = Cardinality(ahead(M, walk.sort, i)) /\ place(i)' = Cardinality(ahead(M', walk.sort, i))
        BY DEF place, ahead
      <3> QED
        BY <3>1, <3>2
    <2>4. (p - 1) * PageSize \in Nat /\ p * PageSize \in Nat
      BY <1>0, PageBounds
    <2> DEFINE start == (p - 1) * PageSize
               end == p * PageSize
               pl == place(i)
               plx == place(i)'
    <2>5. /\ "find" \in walk.todo => pl >= start
          /\ "find" \notin walk.todo => pl >= end
          /\ walk.todo = {"find"} => pl < walk.total
          /\ walk.todo = {} => end < walk.total
      BY <2>1 DEF StillAhead
    <2>6. pl \in Nat /\ plx \in Nat /\ pl <= plx /\ start \in Nat /\ end \in Nat
      BY <2>2, <2>4
    <2>7. walk.todo = {"find"} => plx = pl
      BY <2>3
    <2> HIDE DEF start, end, pl, plx
    <2>8. /\ "find" \in walk.todo => plx >= start
          /\ "find" \notin walk.todo => plx >= end
          /\ walk.todo = {"find"} => plx < walk.total
          /\ walk.todo = {} => end < walk.total
      BY <2>5, <2>6, <2>7
    <2> QED
      BY <2>8 DEF StillAhead, start, end, plx
  <1> QED
    BY <1>1, <1>2 DEF WalkInv

\* A new row comes last, which is first in a list that shows the newest first.
LEMMA AddKeeps ==
    ASSUME ListsTypeOK, ListsTypeOK', WalkInv, walk # NoWalk,
           NEW s \in ListStatuses, add_row(s), ~shifted'
    PROVE  WalkInv'
  <1>0. walk \in Walk /\ rows \in Seq(ListStatuses) /\ rows' = Append(rows, s)
    BY DEF ListsTypeOK, add_row
  <1>1. UNCHANGED walk /\ ~shifted
    BY DEF add_row, ListsTypeOK
  <1>2. /\ matching(walk.where) \subseteq 1..Len(rows)
        /\ matching(walk.where) \subseteq matching(walk.where)'
        /\ matching(walk.where)' \subseteq matching(walk.where) \cup {Len(rows) + 1}
    BY <1>0, <1>1 DEF matching
  <1>3. walk.todo = {"find"} => walk.sort = "created_asc"
    <2>1. walk.todo = {"find"} => Cardinality(walk.todo) = 1
      BY FS_Singleton
    <2> QED
      BY <1>0, <2>1 DEF add_row, between_queries, Walk
  <1>4. ASSUME NEW i \in matching(walk.where), walk.sort = "created_asc"
        PROVE  ahead(matching(walk.where)', walk.sort, i) = ahead(matching(walk.where), walk.sort, i)
    <2>1. i \in Nat /\ Len(rows) \in Nat /\ i < Len(rows) + 1
      BY <1>0, <1>2
    <2> QED
      BY <1>2, <1>4, <2>1 DEF ahead
  <1> QED
    BY <1>1, <1>2, <1>3, <1>4, RowsKeep

\* A row that changes begins to match, or matches as before.
LEMMA ChangeKeeps ==
    ASSUME ListsTypeOK, ListsTypeOK', WalkInv, walk # NoWalk,
           NEW i \in DOMAIN rows, NEW s \in ListStatuses, change_row(i, s), ~shifted'
    PROVE  WalkInv'
  <1>0. walk \in Walk /\ rows \in Seq(ListStatuses) /\ rows' = [rows EXCEPT ![i] = s]
    BY DEF ListsTypeOK, change_row
  <1>1. UNCHANGED walk /\ ~shifted /\ (rows[i] \in walk.where => s \in walk.where)
    BY DEF change_row, ListsTypeOK
  <1>2. DOMAIN rows' = DOMAIN rows /\ \A j \in DOMAIN rows : rows'[j] = IF j = i THEN s ELSE rows[j]
    BY <1>0
  <1>3. matching(walk.where) \subseteq matching(walk.where)'
    BY <1>1, <1>2 DEF matching
  <1>4. walk.todo = {"find"} => matching(walk.where)' = matching(walk.where)
    <2>1. walk.todo = {"find"} => Cardinality(walk.todo) = 1
      BY FS_Singleton
    <2>2. walk.todo = {"find"} => s \notin walk.where
      BY <2>1 DEF change_row, between_queries
    <2> QED
      BY <1>1, <1>2, <2>2 DEF matching
  <1> QED
    BY <1>1, <1>3, <1>4, RowsKeep

\* The type of the rows and of the walk is kept.
LEMMA ListsTypeStep == ListsTypeOK /\ [PagedListsNext]_listVars => ListsTypeOK'
  <1> SUFFICES ASSUME ListsTypeOK, [PagedListsNext]_listVars PROVE ListsTypeOK'
    OBVIOUS
  <1>1. CASE UNCHANGED listVars
    BY <1>1 DEF listVars, ListsTypeOK
  <1>2. ASSUME NEW list \in {"credits", "listings", "records"},
               NEW f \in ListStatuses \cup {NoFilter}, NEW sort \in sorts(list),
               start_walk(list, f, sort)
        PROVE  ListsTypeOK'
    <2>1. shown_statuses(list, f) \in SUBSET ListStatuses
      BY DEF shown_statuses
    <2>2. matching(shown_statuses(list, f)) \in SUBSET Nat
      BY <2>1, MatchingIs DEF ListsTypeOK
    <2>3. sort \in {"created_asc", "created_desc"}
      BY DEF sorts
    <2>4. walk' \in Walk
      BY <1>2, <2>1, <2>2, <2>3 DEF start_walk, Walk
    <2> QED
      BY <1>2, <2>4 DEF start_walk, ListsTypeOK
  <1>3. CASE query_page
    <2>1. walk \in Walk
      BY <1>3 DEF query_page, ListsTypeOK
    <2>2. /\ findMany(walk.where, walk.sort, walk.page) \in SUBSET Nat
          /\ count(walk.where) \in Nat
      <3>1. walk.where \in SUBSET ListStatuses
        BY <2>1 DEF Walk
      <3>2. matching(walk.where) \in SUBSET Nat /\ count(walk.where) \in Nat
        BY <3>1, MatchingIs DEF ListsTypeOK
      <3> QED
        BY <3>2 DEF findMany
    <2> DEFINE found == findMany(walk.where, walk.sort, walk.page)
               counted == count(walk.where)
    <2>3. PICK q \in walk.todo :
            walk' = [walk EXCEPT
                !.todo = @ \ {q},
                !.seen = IF q = "find" THEN @ \cup found ELSE @,
                !.total = IF q = "count" THEN counted ELSE @]
      BY <1>3 DEF query_page
    <2> HIDE DEF found, counted
    <2>4. found \in SUBSET Nat /\ counted \in Nat
      BY <2>2 DEF found, counted
    <2>5. walk' \in Walk
      BY <2>1, <2>3, <2>4 DEF Walk
    <2> QED
      BY <1>3, <2>5 DEF query_page, ListsTypeOK
  <1>4. CASE next_page
    <2>1. walk \in Walk
      BY <1>4 DEF next_page, ListsTypeOK
    <2>2. walk.page \in Nat \ {0} /\ walk.page + 1 \in Nat \ {0}
      BY <2>1 DEF Walk
    <2>3. /\ [walk EXCEPT !.page = @ + 1, !.todo = {"find", "count"}] \in Walk
          /\ [walk EXCEPT !.done = TRUE] \in Walk
      BY <2>1, <2>2 DEF Walk
    <2>4. walk' \in Walk
      BY <1>4, <2>3 DEF next_page
    <2> QED
      BY <1>4, <2>4 DEF next_page, ListsTypeOK
  <1>5. CASE end_walk
    BY <1>5 DEF end_walk, ListsTypeOK
  <1>6. ASSUME NEW s \in ListStatuses, add_row(s) PROVE ListsTypeOK'
    BY <1>6 DEF add_row, ListsTypeOK
  <1>7. ASSUME NEW s \in ListStatuses, NEW i \in DOMAIN rows, change_row(i, s) PROVE ListsTypeOK'
    BY <1>7 DEF change_row, ListsTypeOK
  <1> QED
    BY <1>1, <1>2, <1>3, <1>4, <1>5, <1>6, <1>7 DEF PagedListsNext

\* Every step keeps the due rows seen or ahead.
LEMMA ListStep == ListInv /\ [PagedListsNext]_listVars => ListInv'
  <1> SUFFICES ASSUME ListInv, [PagedListsNext]_listVars PROVE WalkInv'
    BY ListsTypeStep DEF ListInv
  <1> USE DEF ListInv
  <1>0. ListsTypeOK'
    BY ListsTypeStep
  <1> SUFFICES ASSUME walk' # NoWalk, ~shifted' PROVE WalkInv'
    BY DEF WalkInv
  <1>1. CASE UNCHANGED listVars
    BY <1>1 DEF listVars, WalkInv, StillAhead, place, ahead, matching
  <1>2. ASSUME NEW list \in {"credits", "listings", "records"},
               NEW f \in ListStatuses \cup {NoFilter}, NEW sort \in sorts(list),
               start_walk(list, f, sort)
        PROVE  WalkInv'
    <2> DEFINE S == shown_statuses(list, f)
    <2>1. /\ walk'.where = S /\ walk'.page = 1 /\ walk'.todo = {"find", "count"}
          /\ walk'.due = matching(S) /\ walk'.done = FALSE /\ UNCHANGED rows
      BY <1>2 DEF start_walk
    <2>3. ASSUME NEW i \in walk'.due PROVE StillAhead(i)'
      <3>1. S \in SUBSET ListStatuses
        BY DEF shown_statuses
      <3>2. ahead(matching(walk.where)', walk'.sort, i) = ahead(matching(S), walk'.sort, i)
        BY <2>1 DEF matching
      <3>3. place(i)' = Cardinality(ahead(matching(S), walk'.sort, i))
        BY <3>2 DEF place, ahead
      <3>4. place(i)' \in Nat
        BY <3>1, <3>3, MatchingIs DEF ListsTypeOK
      <3>5. (1 - 1) * PageSize = 0
        BY PageSizeIs
      <3>6. walk'.todo # {"find"} /\ walk'.todo # {} /\ "find" \in walk'.todo
        BY <2>1
      <3>7. place(i)' >= (walk'.page - 1) * PageSize
        BY <2>1, <3>4, <3>5
      <3> QED
        BY <3>6, <3>7 DEF StillAhead
    <2>4. walk'.due \subseteq matching(walk.where)'
      BY <2>1 DEF matching
    <2> HIDE DEF S
    <2> QED
      BY <2>1, <2>3, <2>4 DEF WalkInv
  <1>3. CASE query_page
    BY <1>3, QueryKeeps DEF query_page
  <1>4. CASE next_page
    BY <1>4, TurnKeeps
  <1>5. CASE end_walk
    BY <1>5 DEF end_walk
  <1>6. ASSUME NEW s \in ListStatuses, add_row(s) PROVE WalkInv'
    BY <1>0, <1>6, AddKeeps DEF add_row
  <1>7. ASSUME NEW s \in ListStatuses, NEW i \in DOMAIN rows, change_row(i, s) PROVE WalkInv'
    BY <1>0, <1>7, ChangeKeeps DEF change_row
  <1> QED
    BY <1>1, <1>2, <1>3, <1>4, <1>5, <1>6, <1>7 DEF PagedListsNext

\* Turning the pages to the end shows every row that matched at the beginning,
\* whatever is added meanwhile (getCredits, getListings, getRecords).
THEOREM NoRowIsMissed == PagedListsSpec => []PagesMissNothing
  <1>1. PagedListsInit => ListInv
    <2>1. <<>> \in Seq(ListStatuses)
      OBVIOUS
    <2>2. PagedListsInit => rows \in Seq(ListStatuses) /\ walk = NoWalk /\ shifted \in BOOLEAN
      BY <2>1 DEF PagedListsInit
    <2> QED
      BY <2>2 DEF ListInv, ListsTypeOK, WalkInv
  <1>2. ListInv => PagesMissNothing
    BY DEF ListInv, WalkInv, PagesMissNothing
  <1> QED
    BY <1>1, <1>2, ListStep, PTL DEF PagedListsSpec

-----------------------------------------------------------------------------
(* The HTTP interface. *)

\* What has to be said of each entry of the controllers' tables.
Guarded(r) ==
    /\ r.reads_user => r.admits # "anyone"
    /\ r.handler \in Governing => r.admits = "admin"

RoutesIn(table) == {table[i] : i \in DOMAIN table}

Registered ==
    UNION {RoutesIn(table) : table \in
        {AuthController, CreditsController, MarketplaceController, RetirementController,
         VerifiersController, CertificatesController, WebhooksController, AdminController,
         ObservabilityController, ReportingController, BridgeController, RevenueSplitController}}

\* Each way to write a route: @Public reads no session, and only what is behind
\* the guard of the administrators governs.
LEMMA RoutesAreGuarded ==
    ASSUME NEW v, NEW p, NEW h, NEW d
    PROVE  /\ Guarded(Admin(v, p, h, d))
           /\ Guarded(AdminUser(v, p, h, d))
           /\ h \notin Governing => /\ Guarded(Public(v, p, h, d))
                                   /\ Guarded(Session(v, p, h, d))
                                   /\ Guarded(User(v, p, h, d))
  BY DEF Admin, AdminUser, Public, Session, User, Route, Guarded

\* The tables of the controllers hold such routes only.
LEMMA ControllersAreGuarded ==
    /\ \A r \in Registered : Guarded(r)
    /\ AuthController \in Seq(Registered)
    /\ CreditsController \in Seq(Registered)
    /\ MarketplaceController \in Seq(Registered)
    /\ RetirementController \in Seq(Registered)
    /\ VerifiersController \in Seq(Registered)
    /\ CertificatesController \in Seq(Registered)
    /\ WebhooksController \in Seq(Registered)
    /\ AdminController \in Seq(Registered)
    /\ ObservabilityController \in Seq(Registered)
    /\ ReportingController \in Seq(Registered)
    /\ BridgeController \in Seq(Registered)
    /\ RevenueSplitController \in Seq(Registered)
  <1>1. AuthController \in Seq(RoutesIn(AuthController)) /\ \A r \in RoutesIn(AuthController) : Guarded(r)
    <2>1. \A i \in DOMAIN AuthController : Guarded(AuthController[i])
      BY RoutesAreGuarded DEF AuthController, Governing
    <2>2. AuthController \in Seq({AuthController[i] : i \in DOMAIN AuthController})
      BY DEF AuthController
    <2> QED
      BY <2>1, <2>2 DEF RoutesIn
  <1>2. CreditsController \in Seq(RoutesIn(CreditsController)) /\ \A r \in RoutesIn(CreditsController) : Guarded(r)
    <2>1. \A i \in DOMAIN CreditsController : Guarded(CreditsController[i])
      BY RoutesAreGuarded DEF CreditsController, Governing
    <2>2. CreditsController \in Seq({CreditsController[i] : i \in DOMAIN CreditsController})
      BY DEF CreditsController
    <2> QED
      BY <2>1, <2>2 DEF RoutesIn
  <1>3. MarketplaceController \in Seq(RoutesIn(MarketplaceController)) /\ \A r \in RoutesIn(MarketplaceController) : Guarded(r)
    <2>1. \A i \in DOMAIN MarketplaceController : Guarded(MarketplaceController[i])
      BY RoutesAreGuarded DEF MarketplaceController, Governing
    <2>2. MarketplaceController \in Seq({MarketplaceController[i] : i \in DOMAIN MarketplaceController})
      BY DEF MarketplaceController
    <2> QED
      BY <2>1, <2>2 DEF RoutesIn
  <1>4. RetirementController \in Seq(RoutesIn(RetirementController)) /\ \A r \in RoutesIn(RetirementController) : Guarded(r)
    <2>1. \A i \in DOMAIN RetirementController : Guarded(RetirementController[i])
      BY RoutesAreGuarded DEF RetirementController, Governing
    <2>2. RetirementController \in Seq({RetirementController[i] : i \in DOMAIN RetirementController})
      BY DEF RetirementController
    <2> QED
      BY <2>1, <2>2 DEF RoutesIn
  <1>5. VerifiersController \in Seq(RoutesIn(VerifiersController)) /\ \A r \in RoutesIn(VerifiersController) : Guarded(r)
    <2>1. \A i \in DOMAIN VerifiersController : Guarded(VerifiersController[i])
      BY RoutesAreGuarded DEF VerifiersController, Governing
    <2>2. VerifiersController \in Seq({VerifiersController[i] : i \in DOMAIN VerifiersController})
      BY DEF VerifiersController
    <2> QED
      BY <2>1, <2>2 DEF RoutesIn
  <1>6. CertificatesController \in Seq(RoutesIn(CertificatesController)) /\ \A r \in RoutesIn(CertificatesController) : Guarded(r)
    <2>1. \A i \in DOMAIN CertificatesController : Guarded(CertificatesController[i])
      BY RoutesAreGuarded DEF CertificatesController, Governing
    <2>2. CertificatesController \in Seq({CertificatesController[i] : i \in DOMAIN CertificatesController})
      BY DEF CertificatesController
    <2> QED
      BY <2>1, <2>2 DEF RoutesIn
  <1>7. WebhooksController \in Seq(RoutesIn(WebhooksController)) /\ \A r \in RoutesIn(WebhooksController) : Guarded(r)
    <2>1. \A i \in DOMAIN WebhooksController : Guarded(WebhooksController[i])
      BY RoutesAreGuarded DEF WebhooksController, Governing
    <2>2. WebhooksController \in Seq({WebhooksController[i] : i \in DOMAIN WebhooksController})
      BY DEF WebhooksController
    <2> QED
      BY <2>1, <2>2 DEF RoutesIn
  <1>8. AdminController \in Seq(RoutesIn(AdminController)) /\ \A r \in RoutesIn(AdminController) : Guarded(r)
    <2>1. \A i \in DOMAIN AdminController : Guarded(AdminController[i])
      BY RoutesAreGuarded DEF AdminController, Governing
    <2>2. AdminController \in Seq({AdminController[i] : i \in DOMAIN AdminController})
      BY DEF AdminController
    <2> QED
      BY <2>1, <2>2 DEF RoutesIn
  <1>9. ObservabilityController \in Seq(RoutesIn(ObservabilityController)) /\ \A r \in RoutesIn(ObservabilityController) : Guarded(r)
    <2>1. \A i \in DOMAIN ObservabilityController : Guarded(ObservabilityController[i])
      BY RoutesAreGuarded DEF ObservabilityController, Governing
    <2>2. ObservabilityController \in Seq({ObservabilityController[i] : i \in DOMAIN ObservabilityController})
      BY DEF ObservabilityController
    <2> QED
      BY <2>1, <2>2 DEF RoutesIn
  <1>10. ReportingController \in Seq(RoutesIn(ReportingController)) /\ \A r \in RoutesIn(ReportingController) : Guarded(r)
    <2>1. \A i \in DOMAIN ReportingController : Guarded(ReportingController[i])
      BY RoutesAreGuarded DEF ReportingController, Governing
    <2>2. ReportingController \in Seq({ReportingController[i] : i \in DOMAIN ReportingController})
      BY DEF ReportingController
    <2> QED
      BY <2>1, <2>2 DEF RoutesIn
  <1>11. BridgeController \in Seq(RoutesIn(BridgeController)) /\ \A r \in RoutesIn(BridgeController) : Guarded(r)
    <2>1. \A i \in DOMAIN BridgeController : Guarded(BridgeController[i])
      BY RoutesAreGuarded DEF BridgeController, Governing
    <2>2. BridgeController \in Seq({BridgeController[i] : i \in DOMAIN BridgeController})
      BY DEF BridgeController
    <2> QED
      BY <2>1, <2>2 DEF RoutesIn
  <1>12. RevenueSplitController \in Seq(RoutesIn(RevenueSplitController)) /\ \A r \in RoutesIn(RevenueSplitController) : Guarded(r)
    <2>1. \A i \in DOMAIN RevenueSplitController : Guarded(RevenueSplitController[i])
      BY RoutesAreGuarded DEF RevenueSplitController, Governing
    <2>2. RevenueSplitController \in Seq({RevenueSplitController[i] : i \in DOMAIN RevenueSplitController})
      BY DEF RevenueSplitController
    <2> QED
      BY <2>1, <2>2 DEF RoutesIn
  <1>20. ASSUME NEW S, NEW T, S \subseteq T, NEW s \in Seq(S) PROVE s \in Seq(T)
    <2>1. \A i \in 1..Len(s) : s[i] \in T
      BY <1>20, ElementIn
    <2>2. Len(s) \in Nat /\ s = [i \in 1..Len(s) |-> s[i]]
      OBVIOUS
    <2> QED
      BY <2>1, <2>2
  <1>21. AuthController \in Seq(Registered)
    BY <1>1, <1>20 DEF Registered
  <1>22. CreditsController \in Seq(Registered)
    BY <1>2, <1>20 DEF Registered
  <1>23. MarketplaceController \in Seq(Registered)
    BY <1>3, <1>20 DEF Registered
  <1>24. RetirementController \in Seq(Registered)
    BY <1>4, <1>20 DEF Registered
  <1>25. VerifiersController \in Seq(Registered)
    BY <1>5, <1>20 DEF Registered
  <1>26. CertificatesController \in Seq(Registered)
    BY <1>6, <1>20 DEF Registered
  <1>27. WebhooksController \in Seq(Registered)
    BY <1>7, <1>20 DEF Registered
  <1>28. AdminController \in Seq(Registered)
    BY <1>8, <1>20 DEF Registered
  <1>29. ObservabilityController \in Seq(Registered)
    BY <1>9, <1>20 DEF Registered
  <1>30. ReportingController \in Seq(Registered)
    BY <1>10, <1>20 DEF Registered
  <1>31. BridgeController \in Seq(Registered)
    BY <1>11, <1>20 DEF Registered
  <1>32. RevenueSplitController \in Seq(Registered)
    BY <1>12, <1>20 DEF Registered
  <1>33. \A r \in Registered : Guarded(r)
    BY <1>1, <1>2, <1>3, <1>4, <1>5, <1>6, <1>7, <1>8, <1>9, <1>10, <1>11, <1>12 DEF Registered
  <1> QED
    BY <1>21, <1>22, <1>23, <1>24, <1>25, <1>26, <1>27, <1>28, <1>29, <1>30, <1>31, <1>32, <1>33

\* The application registers nothing else.
LEMMA AppIsGuarded == AppModule \in Seq(Registered)
  <1>1. ASSUME NEW s \in Seq(Registered), NEW t \in Seq(Registered) PROVE s \o t \in Seq(Registered)
    BY ConcatIs
  <1> QED
    BY <1>1, ControllersAreGuarded DEF AppModule

\* Express answers with a route of the table, if any route fits.
LEMMA FirstRouteIs ==
    ASSUME NEW call, candidates(call) # {}
    PROVE  first_route(call) \in Registered /\ Guarded(first_route(call))
  <1> DEFINE S == candidates(call)
             i == CHOOSE i \in S : \A j \in S : i <= j
  <1>1. AppModule \in Seq(Registered)
    BY AppIsGuarded
  <1>2. S \subseteq DOMAIN AppModule /\ DOMAIN AppModule \subseteq Nat
    BY <1>1 DEF candidates
  <1>3. i \in S
    BY <1>2, NatMin
  <1>4. AppModule[i] \in Registered
    BY <1>1, <1>2, <1>3, ElementIn
  <1> QED
    BY <1>4, ControllersAreGuarded DEF first_route

\* How far a request is says who sent it.
GateInv ==
    gate # NoRequest =>
        /\ gate \in [call : {gate.call}, who : Callers,
                     at : Ends \cup {"express", "limiter", "session", "administrator", "pipe"}]
        /\ gate.at \notin {"express", "no_route"} => candidates(gate.call) # {}
        /\ gate.at \in {"administrator", "forbidden", "pipe", "bad_request", "handled"} =>
               first_route(gate.call).admits = "anyone" \/ gate.who \in SignedIn
        /\ gate.at \in {"pipe", "bad_request", "handled"} =>
               (first_route(gate.call).admits = "admin" => gate.who = "admin")

\* Each guard lets through only whom it should, whatever is asked.
LEMMA GateStep ==
    ASSUME NEW Requests, GateInv,
           [GatewayNext \/ \E call \in Requests, who \in Callers : send(call, who)]_gate
    PROVE  GateInv'
  <1>1. CASE UNCHANGED gate
    BY <1>1 DEF GateInv, candidates, first_route
  <1>2. ASSUME NEW call, NEW who \in Callers, send(call, who) PROVE GateInv'
    BY <1>2 DEF send, GateInv, Ends
  <1>3. ASSUME gate # NoRequest, NEW to \in Ends \cup {"limiter", "session", "administrator", "pipe"}, moves(to)
        PROVE  /\ gate' \in [call : {gate.call}, who : Callers,
                     at : Ends \cup {"express", "limiter", "session", "administrator", "pipe"}]
               /\ gate'.call = gate.call /\ gate'.who = gate.who /\ gate'.at = to
    BY <1>3 DEF moves, GateInv
  <1> USE DEF Ends
  <1>4. CASE route
    BY <1>3, <1>4 DEF route, GateInv
  <1>5. CASE RateLimitGuard
    BY <1>3, <1>5 DEF RateLimitGuard, GateInv
  <1>6. CASE JwtAuthGuard
    BY <1>3, <1>6 DEF JwtAuthGuard, GateInv
  <1>7. CASE AdminGuard
    BY <1>3, <1>7 DEF AdminGuard, GateInv
  <1>8. CASE ValidationPipe
    BY <1>3, <1>8 DEF ValidationPipe, GateInv
  <1>9. CASE respond
    BY <1>9 DEF respond, GateInv
  <1> QED
    BY <1>1, <1>2, <1>4, <1>5, <1>6, <1>7, <1>8, <1>9 DEF GatewayNext

\* Whatever is requested, on whichever path and by whom: a handler that reads the
\* session's user runs for somebody who is signed in, and what governs the protocol
\* for administrators only (JwtAuthGuard, AdminGuard and the controllers' decorators).
THEOREM HandlersRunAsAllowed ==
    ASSUME NEW CONSTANT Requests
    PROVE  GatewayInit /\ [][GatewayNext \/ \E call \in Requests, who \in Callers : send(call, who)]_gate
               => []HandlersMayRun
  <1>1. GatewayInit => GateInv
    BY DEF GatewayInit, GateInv
  <1>2. GateInv => HandlersMayRun
    <2> SUFFICES ASSUME GateInv, ended, gate.at = "handled"
                 PROVE  /\ first_route(gate.call).reads_user => gate.who \in SignedIn
                        /\ first_route(gate.call).handler \in Governing => gate.who = "admin"
      BY DEF HandlersMayRun
    <2>1. Guarded(first_route(gate.call))
      BY FirstRouteIs DEF GateInv, ended
    <2> QED
      BY <2>1 DEF Guarded, GateInv, ended
  <1> QED
    BY <1>1, <1>2, GateStep, PTL

=============================================================================
