------------------------------ MODULE Sessions ------------------------------
(***************************************************************************)
(* Logging in (src/api/src/auth/auth.service.ts): a wallet asks for a      *)
(* challenge, signs it and exchanges it for tokens; the exchange reads the *)
(* challenge, marks it used, and finds or creates the wallet's user, with  *)
(* an await between any two.  Signatures are external: the signed          *)
(* challenge that a wallet sends is its own.                               *)
(***************************************************************************)
EXTENDS Integers, FiniteSets

CONSTANTS
    Wallets,
    ChallengeIds,   \* the ids challenge rows get
    UserIds,        \* the ids user rows get
    Exchanges,      \* the exchanges that can run at one time
    TIMEOUT,        \* SEP10_CHALLENGE_TIMEOUT
    LIFETIME,       \* of a refresh token
    MaxAuthTime,    \* bound: the clock
    NoRow

Challenge == [wallet : Wallets, expires : Nat, used : BOOLEAN]
Stages == {"mark", "find", "create", "sign"}
Exchange == [wallet : Wallets, challenge : ChallengeIds, at : Stages, user : UserIds \cup {NoRow}]

ASSUME SessionsAssumption ==
    /\ TIMEOUT \in Nat \ {0} /\ LIFETIME \in Nat /\ MaxAuthTime \in Nat
    /\ NoRow \notin Wallets /\ NoRow \notin UserIds
    /\ NoRow \notin Challenge /\ NoRow \notin Exchange

VARIABLES
    challenge,   \* Challenge rows: [wallet, expires, used], NoRow
    issued,      \* the challenge ids that rows have had
    user,        \* User rows: the wallet (stellarPub), NoRow
    exchange,    \* NoRow or [wallet, challenge, at, user]
    tokens,      \* the refresh tokens handed out: [user, wallet, until, challenge]
    redeemed,    \* history: the [challenge, wallet] that were marked used
    authNow

challengeRows == <<challenge, issued>>
sessionVars == <<challengeRows, user, exchange, tokens, redeemed, authNow>>

expired_challenge(c) == challenge[c].expires < authNow
exchanges_at(x, stage) == exchange[x] # NoRow /\ exchange[x].at = stage
exchange_goes(x, stage) == exchange' = [exchange EXCEPT ![x].at = stage]
exchange_ends(x) == exchange' = [exchange EXCEPT ![x] = NoRow]

-----------------------------------------------------------------------------
(* generateChallenge: two statements, the first of which may also run alone *)
(* when the second fails.                                                   *)

deleteMany ==
    /\ challenge' = [c \in ChallengeIds |->
          IF challenge[c] # NoRow /\ (challenge[c].used \/ expired_challenge(c))
          THEN NoRow ELSE challenge[c]]
    /\ UNCHANGED <<issued, user, exchange, tokens, redeemed, authNow>>

create_challenge(w, c) ==
    /\ c \notin issued /\ issued' = issued \cup {c}
    /\ challenge' = [challenge EXCEPT ![c] =
          [wallet |-> w, expires |-> authNow + TIMEOUT, used |-> FALSE]]
    /\ UNCHANGED <<user, exchange, tokens, redeemed, authNow>>

-----------------------------------------------------------------------------
(* exchangeToken. *)

\* Mutant: the challenge's wallet is not compared.
accepts_AnyWallet(w, c) == challenge[c] # NoRow /\ ~challenge[c].used /\ ~expired_challenge(c)

\* findUnique and the checks on what it returned.
accepts(w, c) ==
    /\ challenge[c] # NoRow /\ challenge[c].wallet = w
    /\ ~challenge[c].used /\ ~expired_challenge(c)

begin_exchange(x, w, c) ==
    /\ exchange[x] = NoRow /\ c \in issued
    /\ accepts(w, c)
    /\ exchange' = [exchange EXCEPT ![x] = [wallet |-> w, challenge |-> c, at |-> "mark", user |-> NoRow]]
    /\ UNCHANGED <<challengeRows, user, tokens, redeemed, authNow>>

\* update by id throws when the row is gone by now.
mark_used(x) ==
    LET c == exchange[x].challenge IN
    /\ exchanges_at(x, "mark")
    /\ IF challenge[c] = NoRow
       THEN exchange_ends(x) /\ UNCHANGED <<challenge, redeemed>>
       ELSE /\ challenge' = [challenge EXCEPT ![c].used = TRUE]
            /\ redeemed' = redeemed \cup {[challenge |-> c, wallet |-> challenge[c].wallet]}
            /\ exchange_goes(x, "find")
    /\ UNCHANGED <<issued, user, tokens, authNow>>

users_of(w) == {u \in UserIds : user[u] = w}

find_user(x) ==
    LET found == users_of(exchange[x].wallet) IN
    /\ exchanges_at(x, "find")
    /\ IF found = {} THEN exchange_goes(x, "create")
       ELSE \E u \in found :
              exchange' = [exchange EXCEPT ![x].at = "sign", ![x].user = u]
    /\ UNCHANGED <<challengeRows, user, tokens, redeemed, authNow>>

\* stellarPub is unique: the second of two that create a wallet's user throws.
create_user(x) ==
    LET w == exchange[x].wallet IN
    /\ exchanges_at(x, "create")
    /\ IF users_of(w) # {} THEN exchange_ends(x) /\ UNCHANGED user
       ELSE \E u \in UserIds :
              /\ user[u] = NoRow /\ user' = [user EXCEPT ![u] = w]
              /\ exchange' = [exchange EXCEPT ![x].at = "sign", ![x].user = u]
    /\ UNCHANGED <<challengeRows, tokens, redeemed, authNow>>

sign_tokens(x) ==
    /\ exchanges_at(x, "sign")
    /\ tokens' = tokens \cup {[user |-> exchange[x].user, wallet |-> exchange[x].wallet,
                               until |-> authNow + LIFETIME, challenge |-> exchange[x].challenge]}
    /\ exchange_ends(x)
    /\ UNCHANGED <<challengeRows, user, redeemed, authNow>>

\* Any statement may fail.
exchange_fails(x) ==
    /\ exchange[x] # NoRow /\ exchange_ends(x)
    /\ UNCHANGED <<challengeRows, user, tokens, redeemed, authNow>>

\* refreshToken: of a refresh token that has not expired, without the database.
refreshToken(t) ==
    /\ t \in tokens /\ authNow < t.until
    /\ tokens' = tokens \cup {[t EXCEPT !.until = authNow + LIFETIME]}
    /\ UNCHANGED <<challengeRows, user, exchange, redeemed, authNow>>

auth_tick ==
    /\ authNow < MaxAuthTime /\ authNow' = authNow + 1
    /\ UNCHANGED <<challengeRows, user, exchange, tokens, redeemed>>

-----------------------------------------------------------------------------
SessionsInit ==
    /\ challenge = [c \in ChallengeIds |-> NoRow] /\ issued = {}
    /\ user = [u \in UserIds |-> NoRow]
    /\ exchange = [x \in Exchanges |-> NoRow]
    /\ tokens = {} /\ redeemed = {} /\ authNow = 0

SessionsNext ==
    \/ deleteMany \/ auth_tick
    \/ \E w \in Wallets, c \in ChallengeIds : create_challenge(w, c)
    \/ \E x \in Exchanges :
          \/ \E w \in Wallets, c \in ChallengeIds : begin_exchange(x, w, c)
          \/ mark_used(x) \/ find_user(x) \/ create_user(x) \/ sign_tokens(x) \/ exchange_fails(x)
    \/ \E t \in tokens : refreshToken(t)

SessionsSpec == SessionsInit /\ [][SessionsNext]_sessionVars

-----------------------------------------------------------------------------
\* Every session names the one user of the wallet that signed for it, and goes
\* back to a challenge of that wallet that was marked used: also when exchanges
\* of one wallet run side by side or its challenge is cleaned up under them.
SessionsNameTheirUser ==
    \A t \in tokens :
        /\ users_of(t.wallet) = {t.user}
        /\ [challenge |-> t.challenge, wallet |-> t.wallet] \in redeemed

=============================================================================
