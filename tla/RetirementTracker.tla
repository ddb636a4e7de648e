------------------------- MODULE RetirementTracker -------------------------
(***************************************************************************)
(* contracts/retirement-tracker: retires credits in the registry, one or a *)
(* batch at a time, and keeps the retirement records and the beneficiaries'*)
(* lists of them.                                                          *)
(***************************************************************************)
EXTENDS CreditRegistry

CONSTANTS
    TRACKER,       \* the tracker's address
    Beneficiaries, \* the beneficiaries callers name
    RetireInputs,  \* the inputs callers pass, empty strings included
    MaxBatch,      \* bound on the batches callers pass
    MAX_BATCH_RETIRE

ASSUME TrackerAssumption ==
    /\ TRACKER \in RetirerContracts
    /\ \A x \in RetireInputs : x.credit_id \in CreditIds /\ x.beneficiary \in Beneficiaries
    /\ MaxBatch \in Nat /\ MAX_BATCH_RETIRE \in Nat
    /\ \A o \in Accounts, x \in RetireInputs :
          None # [retired_by |-> o, beneficiary |-> x.beneficiary,
                  reason |-> x.reason, accounting_period |-> x.accounting_period]

VARIABLES
    trackerReady,     \* init has stored the registry's address
    retirement,       \* ("r", id): the record, None when there is none
    beneficiaryList   \* ("b", beneficiary)

trackerVars == <<trackerReady, retirement, beneficiaryList>>

-----------------------------------------------------------------------------
tracker_init == trackerReady' = TRUE /\ UNCHANGED <<retirement, beneficiaryList, registryVars>>

is_retired(c) == retirement[c] # None

\* Mutant: no check of the owner.
may_retire_AnyOwner(o, x) ==
    /\ x.reason # "" /\ x.beneficiary # "" /\ x.accounting_period # ""
    /\ ~is_retired(x.credit_id)
    /\ TRACKER \in retirers
    /\ status[x.credit_id] = "Active"

\* What retire checks for one input, get_owner's and mark_retired's checks included.
may_retire(o, x) ==
    /\ x.reason # "" /\ x.beneficiary # "" /\ x.accounting_period # ""
    /\ ~is_retired(x.credit_id)
    /\ owner[x.credit_id] = o
    /\ TRACKER \in retirers
    /\ status[x.credit_id] = "Active"

\* The ids of a batch's inputs for one beneficiary, in the order of the batch.
retired_for(inputs, b) ==
    LET mine == SelectSeq(inputs, LAMBDA x : x.beneficiary = b)
    IN  [i \in 1..Len(mine) |-> mine[i].credit_id]

\* The loop over the inputs, as one step: each input passes the checks against
\* what the inputs before it left behind, so no id may come twice (its record
\* is there by then), and one failure reverts all.
retire_each(o, inputs) ==
    LET ids == {inputs[i].credit_id : i \in 1..Len(inputs)}
        input(c) == inputs[CHOOSE i \in 1..Len(inputs) : inputs[i].credit_id = c]
    IN  /\ trackerReady
        /\ \A i \in 1..Len(inputs) : may_retire(o, inputs[i])
        /\ \A i, j \in 1..Len(inputs) : inputs[i].credit_id = inputs[j].credit_id => i = j
        /\ status' = [c \in CreditIds |-> IF c \in ids THEN "Retired" ELSE status[c]]
        /\ retirement' = [c \in CreditIds |->
              IF c \in ids
              THEN [retired_by |-> o, beneficiary |-> input(c).beneficiary,
                    reason |-> input(c).reason, accounting_period |-> input(c).accounting_period]
              ELSE retirement[c]]
        /\ beneficiaryList' = [b \in Beneficiaries |->
              beneficiaryList[b] \o retired_for(inputs, b)]
        /\ UNCHANGED <<trackerReady, counter, token, metadata, owner, votes, issuerList,
                       ownerList, adminVars>>

retire(o, x) == retire_each(o, <<x>>)

batch_retire(o, inputs) == Len(inputs) <= MAX_BATCH_RETIRE /\ retire_each(o, inputs)

TrackerInit ==
    /\ trackerReady = FALSE
    /\ retirement = [c \in CreditIds |-> None]
    /\ beneficiaryList = [b \in Beneficiaries |-> << >>]

TrackerNext ==
    \/ tracker_init
    \/ \E o \in Accounts, x \in RetireInputs : retire(o, x)
    \/ \E o \in Accounts, n \in 1..MaxBatch : \E inputs \in [1..n -> RetireInputs] :
          batch_retire(o, inputs)

=============================================================================
