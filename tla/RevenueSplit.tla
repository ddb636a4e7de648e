---------------------------- MODULE RevenueSplit ----------------------------
(***************************************************************************)
(* The revenue-split contract and the RevenueSplitService in front of it:  *)
(* the beneficiaries of a project, their shares in basis points, and the   *)
(* division of a payment after the protocol's fee.  The payment token is   *)
(* external.                                                               *)
(***************************************************************************)
EXTENDS Integers, Sequences, SequencesExt

CONSTANTS
    Payers,            \* the accounts
    SplitAdmins,       \* the accounts init may name
    FEE_ADDRESS,       \* the account the fee goes to
    Projects,
    Shares,            \* the basis points a caller may give
    Payments,          \* the amounts a caller may distribute
    MaxBeneficiaries,  \* bound: beneficiaries of a project
    SplitFunds,        \* bound: what an account starts with
    WHOLE,             \* 10000 basis points
    PROTOCOL_FEE_BPS,
    U32,               \* 2^32
    NoSplit

ASSUME RevenueSplitAssumption ==
    /\ SplitAdmins \cup {FEE_ADDRESS} \subseteq Payers
    /\ U32 \in Nat /\ WHOLE \in Nat \ {0} /\ PROTOCOL_FEE_BPS \in 0..WHOLE /\ WHOLE < U32
    /\ Shares \subseteq 0..(U32 - 1) /\ Payments \subseteq Int
    /\ MaxBeneficiaries \in Nat

VARIABLES
    splitAdmin,   \* instance storage "admin", NoSplit before init
    split,        \* the beneficiaries of each project: a sequence of [to, bps]
    purse         \* the payment token's balances

splitVars == <<splitAdmin, split, purse>>

-----------------------------------------------------------------------------
\* Division in i128 truncates towards zero.
truncated(n, d) == IF n >= 0 THEN n \div d ELSE -((-n) \div d)

fee(amount) == truncated(amount * PROTOCOL_FEE_BPS, WHOLE)

\* Mutant: the shares are taken of the amount before the fee.
share_Gross(amount, bps) == truncated(amount * bps, WHOLE)

share(amount, bps) == truncated((amount - fee(amount)) * bps, WHOLE)

\* What a distribution asks the token for: the fee, and then the shares in order.
fee_payment(amount) == [to |-> FEE_ADDRESS, n |-> fee(amount)]
share_payments(beneficiaries, amount) ==
    [i \in DOMAIN beneficiaries |->
        [to |-> beneficiaries[i].to, n |-> share(amount, beneficiaries[i].bps)]]

\* Payments of nothing are left out.
sent(n) == IF n > 0 THEN n ELSE 0

\* The sum of the shares, kept in 32 bits.
total_bps(beneficiaries) == FoldLeft(LAMBDA sum, x : (sum + x.bps) % U32, 0, beneficiaries)

total_paid(beneficiaries, amount) ==
    LET shares == share_payments(beneficiaries, amount)
    IN  sent(fee_payment(amount).n)
        + SumFunctionOnSet([i \in DOMAIN shares |-> sent(shares[i].n)], DOMAIN shares)

-----------------------------------------------------------------------------
split_init(admin) ==
    /\ splitAdmin = NoSplit /\ splitAdmin' = admin
    /\ UNCHANGED <<split, purse>>

configure(admin, p, beneficiaries) ==
    /\ splitAdmin = admin
    /\ beneficiaries # << >> /\ total_bps(beneficiaries) = WHOLE
    /\ split' = [split EXCEPT ![p] = beneficiaries]
    /\ UNCHANGED <<splitAdmin, purse>>

\* token::Client::transfer of x from the caller, on the balances b: it panics,
\* and the whole call with it, when the caller has less.
transfer(caller, b, x) ==
    IF b = NoSplit \/ sent(x.n) = 0 THEN b
    ELSE IF b[caller] < x.n THEN NoSplit
    ELSE [[b EXCEPT ![caller] = @ - x.n] EXCEPT ![x.to] = @ + x.n]

distribute(caller, p, amount) ==
    /\ split[p] # << >> /\ splitAdmin # NoSplit
    /\ purse' = FoldLeft(LAMBDA b, x : transfer(caller, b, x),
                         transfer(caller, purse, fee_payment(amount)),
                         share_payments(split[p], amount))
    /\ purse' # NoSplit
    /\ UNCHANGED <<splitAdmin, split>>

-----------------------------------------------------------------------------
SplitInit ==
    /\ splitAdmin = NoSplit
    /\ split = [p \in Projects |-> << >>]
    /\ purse = [a \in Payers |-> SplitFunds]

Beneficiaries_of(n) == [1..n -> [to : Payers, bps : Shares]]

SplitNext ==
    \/ \E a \in SplitAdmins : split_init(a)
    \/ \E a \in SplitAdmins, p \in Projects, n \in 1..MaxBeneficiaries :
          \E b \in Beneficiaries_of(n) : configure(a, p, b)
    \/ \E a \in Payers, p \in Projects, n \in Payments : distribute(a, p, n)

SplitSpec == SplitInit /\ [][SplitNext]_splitVars

-----------------------------------------------------------------------------
(* Properties. *)

true_bps(beneficiaries) ==
    SumFunctionOnSet([i \in DOMAIN beneficiaries |-> beneficiaries[i].bps], DOMAIN beneficiaries)

\* A distribution of shares that make up the whole pays out at most the amount,
\* and leaves less than one unit per beneficiary undistributed, over the
\* truncations of the fee and of every share.
PaysWithinAmount ==
    \A p \in Projects, n \in Payments :
        split[p] # << >> /\ true_bps(split[p]) = WHOLE =>
            IF n < 0 THEN total_paid(split[p], n) = 0
            ELSE /\ total_paid(split[p], n) <= n
                 /\ n - total_paid(split[p], n) < Len(split[p]) \/ n = total_paid(split[p], n)

(* A claim of the source, which a build without overflow checks does not keep. *)

\* configure: "The sum of all shares must equal exactly 10000".
SharesSumToWhole ==
    \A p \in Projects : split[p] # << >> => true_bps(split[p]) = WHOLE

=============================================================================
