---------------------------- MODULE VerifierStake ----------------------------
(***************************************************************************)
(* contracts/verifier-stake: verifiers deposit a stake, the admin slashes  *)
(* it, and a verifier takes back what is left of it after a cooldown.  The *)
(* staking token and the ledger clock are external.                        *)
(***************************************************************************)
EXTENDS Naturals, Sequences, FiniteSets, FiniteSetsExt

CONSTANTS
    Stakers,       \* the accounts that register
    StakeAdmins,   \* the addresses init and slash are called with
    NoRecord,      \* no stored record, no stored admin
    StakeAmounts,  \* the amounts stake and slash are called with
    Wealth,        \* the tokens every account starts with
    MaxClock,      \* bound on the ledger clock
    MIN_STAKE_AMOUNT,
    COOLDOWN_PERIOD_SECONDS

ASSUME StakeAssumption ==
    /\ IsFiniteSet(Stakers)
    /\ StakeAmounts \subseteq Nat
    /\ Wealth \in Nat /\ MaxClock \in Nat
    /\ MIN_STAKE_AMOUNT \in Nat \ {0}
    /\ COOLDOWN_PERIOD_SECONDS \in Nat
    /\ NoRecord \notin StakeAdmins
    /\ NoRecord \notin [total_staked : Nat, reputation_score : Nat,
                         last_heartbeat : Nat, registered_at : Nat]

VARIABLES
    stakeAdmin,   \* "admin", NoRecord before init; "asset" is stored with it
    record,       \* the Verifier stored under its address
    v_list,       \* "v_list"
    balances,       \* the accounts' balances of the staking token
    pool,         \* the contract's own balance
    clock         \* env.ledger().timestamp()

stakeVars == <<stakeAdmin, record, v_list, balances, pool, clock>>

registered(v) == record[v] # NoRecord

-----------------------------------------------------------------------------
stake_init(admin) ==
    /\ stakeAdmin = NoRecord
    /\ stakeAdmin' = admin
    /\ UNCHANGED <<record, v_list, balances, pool, clock>>

\* token_client.transfer between an account and the contract.
deposit(v, n) ==
    /\ balances[v] >= n
    /\ balances' = [balances EXCEPT ![v] = @ - n]
    /\ pool' = pool + n
pay_out(v, n) ==
    /\ pool >= n
    /\ balances' = [balances EXCEPT ![v] = @ + n]
    /\ pool' = pool - n

register(v) ==
    /\ ~registered(v)
    /\ stakeAdmin # NoRecord
    /\ deposit(v, MIN_STAKE_AMOUNT)
    /\ record' = [record EXCEPT ![v] =
          [total_staked |-> MIN_STAKE_AMOUNT, reputation_score |-> 100,
           last_heartbeat |-> clock, registered_at |-> clock]]
    /\ v_list' = Append(v_list, v)
    /\ UNCHANGED <<stakeAdmin, clock>>

\* Mutant: the deposit is not added to the record.
stake_NotRecorded(v, amount) ==
    /\ amount > 0
    /\ registered(v)
    /\ deposit(v, amount)
    /\ UNCHANGED <<stakeAdmin, record, v_list, clock>>

stake(v, amount) ==
    /\ amount > 0
    /\ registered(v)
    /\ deposit(v, amount)
    /\ record' = [record EXCEPT ![v].total_staked = @ + amount]
    /\ UNCHANGED <<stakeAdmin, v_list, clock>>

\* The record after a slash: saturating_sub stops the reputation at zero.
slashed(r, amount) ==
    [r EXCEPT !.total_staked = @ - amount,
              !.reputation_score = IF @ >= 10 THEN @ - 10 ELSE 0]

\* The tokens stay in the contract.
slash(admin, v, amount) ==
    /\ stakeAdmin # NoRecord
    /\ admin = stakeAdmin
    /\ amount > 0
    /\ registered(v)
    /\ amount <= record[v].total_staked
    /\ record' = [record EXCEPT ![v] = slashed(@, amount)]
    /\ UNCHANGED <<stakeAdmin, v_list, balances, pool, clock>>

\* Mutant: the record survives the payment.
unregister_KeepsRecord(v) ==
    /\ registered(v)
    /\ clock - record[v].registered_at >= COOLDOWN_PERIOD_SECONDS
    /\ pay_out(v, record[v].total_staked)
    /\ v_list' = SelectSeq(v_list, LAMBDA w : w # v)
    /\ UNCHANGED <<stakeAdmin, record, clock>>
unregister(v) ==
    /\ registered(v)
    /\ clock - record[v].registered_at >= COOLDOWN_PERIOD_SECONDS
    /\ pay_out(v, record[v].total_staked)
    /\ record' = [record EXCEPT ![v] = NoRecord]
    /\ v_list' = SelectSeq(v_list, LAMBDA w : w # v)
    /\ UNCHANGED <<stakeAdmin, clock>>

update_heartbeat(v) ==
    /\ registered(v)
    /\ record' = [record EXCEPT ![v].last_heartbeat = clock]
    /\ UNCHANGED <<stakeAdmin, v_list, balances, pool, clock>>

close_ledger ==
    /\ clock < MaxClock
    /\ clock' = clock + 1
    /\ UNCHANGED <<stakeAdmin, record, v_list, balances, pool>>

StakeInit ==
    /\ stakeAdmin = NoRecord
    /\ record = [v \in Stakers |-> NoRecord]
    /\ v_list = << >>
    /\ balances = [v \in Stakers |-> Wealth]
    /\ pool = 0
    /\ clock = 0

StakeNext ==
    \/ \E a \in StakeAdmins : stake_init(a)
    \/ \E v \in Stakers : register(v) \/ unregister(v) \/ update_heartbeat(v)
    \/ \E v \in Stakers, n \in StakeAmounts : stake(v, n)
    \/ \E a \in StakeAdmins, v \in Stakers, n \in StakeAmounts : slash(a, v, n)
    \/ close_ledger

StakeSpec == StakeInit /\ [][StakeNext]_stakeVars

-----------------------------------------------------------------------------
(* Properties. *)

staked(v) == IF registered(v) THEN record[v].total_staked ELSE 0

\* The contract can always pay every registered verifier what its record says,
\* all of them at once: slashing and leaving never spend another's stake.
StakesArePaid == pool >= SumFunctionOnSet([v \in Stakers |-> staked(v)], Stakers)

\* What a verifier owns, in its balances or staked, changes only by a slash: then
\* it shrinks, the tokens stay in the contract and the reputation tells of it.
OnlySlashTakes ==
    [][\A v \in Stakers :
          \/ balances'[v] + staked(v)' = balances[v] + staked(v)
          \/ /\ staked(v)' < staked(v) /\ balances' = balances /\ pool' = pool
             /\ registered(v)'
             /\ \/ record'[v].reputation_score < record[v].reputation_score
                \/ record[v].reputation_score = 0]_stakeVars

=============================================================================
