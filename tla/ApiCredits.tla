----------------------------- MODULE ApiCredits -----------------------------
(***************************************************************************)
(* Issuance and verification through the API: CreditsService,              *)
(* VerifiersService.register and AdminService's calls, each a check of the *)
(* database, a contract call signed with one of the API's two keys, and    *)
(* the rows written after it.  The registry is the CreditRegistry module.  *)
(*                                                                         *)
(* No other process writes these rows: the registry publishes its events   *)
(* under topics the indexer drops (see IndexerSync).                       *)
(***************************************************************************)
EXTENDS CreditRegistry, SorobanClient

LOCAL INSTANCE FiniteSetsExt

CONSTANTS
    ADMIN_KEY,         \* the account of STELLAR_ADMIN_SECRET_KEY
    VERIFIER_KEY,      \* the account of STELLAR_VERIFIER_SECRET_KEY
    VERIFIER_THRESHOLD, VERIFIER_QUORUM,   \* the API's environment
    Requests,          \* [op, wallet, arg, key]: the requests users make
    Thresholds,        \* the [threshold, quorum] the administrators set
    Direct             \* the accounts that call the registry themselves

CreditRow == [status : {"PENDING", "ACTIVE", "REJECTED"}, project : {m.project_id : m \in Metadata}]

ASSUME ApiCreditsAssumption ==
    /\ ADMIN_KEY \in Admins /\ VERIFIER_KEY \in Voters /\ Direct \subseteq Accounts
    /\ VERIFIER_THRESHOLD \in Nat /\ VERIFIER_QUORUM \in Nat
    /\ \A q \in Requests :
          /\ q.wallet \in Accounts
          /\ q.op = "issue" => q.arg \in Metadata
          /\ q.op \in {"approve", "reject"} => q.arg \in CreditIds
    /\ \A t \in Thresholds : t.threshold \in VoteCount /\ t.quorum \in VoteCount
    /\ None \notin CreditRow

VARIABLES
    creditRow,     \* Credit by creditId: [status, project], None
    approvalRow,   \* Approval: how many rows per [credit, verifier, approved]
    verifierRow,   \* Verifier: the users with an ACTIVE row
    staked         \* the accounts registered in the VerifierStake contract

rowVars == <<creditRow, approvalRow, verifierRow>>
apiCreditsVars == <<registryVars, request, rowVars, staked>>

Ballot == [credit : CreditIds, verifier : Accounts, approved : BOOLEAN]

rows_of(c, approved) ==
    MapThenSumSet(LAMBDA b : approvalRow[b],
                  {[credit |-> c, verifier |-> v, approved |-> approved] : v \in Accounts})

-----------------------------------------------------------------------------
(* The checks before the call. *)

\* requireVerifier, findUnique, and the loop over the credit's approvals.
may_decide(wallet, c, approved) ==
    /\ wallet \in verifierRow
    /\ creditRow[c] # None /\ creditRow[c].status = "PENDING"
    /\ approvalRow[[credit |-> c, verifier |-> wallet, approved |-> approved]] = 0

\* The handler of issueCredit reads nothing that can refuse.
passes(r) ==
    CASE r.op = "approve" -> may_decide(r.wallet, r.arg, TRUE)
      [] r.op = "reject" -> may_decide(r.wallet, r.arg, FALSE)
      [] r.op = "register" -> r.wallet \notin verifierRow
      [] OTHER -> TRUE

-----------------------------------------------------------------------------
(* StellarService: the transactions.  A contract takes a call only when the *)
(* address it asks to authorize is the account whose key signed.            *)

submitCredit(r) ==
    /\ r.op = "issue" /\ r.wallet = ADMIN_KEY
    /\ submit_credit(r.wallet, r.arg)

approveAndMint(r) ==
    /\ r.op = "approve" /\ r.wallet = VERIFIER_KEY
    /\ approve_and_mint(r.wallet, r.arg)

rejectCredit(r) ==
    /\ r.op = "reject" /\ r.wallet = VERIFIER_KEY
    /\ reject_credit(r.wallet, r.arg)

registerVerifier(r) ==
    /\ r.op = "register" /\ r.wallet = VERIFIER_KEY
    /\ r.wallet \notin staked
    /\ staked' = staked \cup {r.wallet}
    /\ UNCHANGED registryVars

\* The value the handler keeps of the receipt: whether a token came back.
receipt(r) == IF r.op = "approve" /\ status'[r.arg] = "Active" THEN 1 ELSE 0

transaction(s) ==
    LET r == request[s] IN
    /\ in_flight(s)
    /\ \/ (submitCredit(r) \/ approveAndMint(r) \/ rejectCredit(r)) /\ UNCHANGED staked
       \/ registerVerifier(r)
    /\ enters_ledger(s, receipt(r))
    /\ UNCHANGED <<rowVars>>

-----------------------------------------------------------------------------
(* The handlers. *)

\* A user sends a request.
asks(s) ==
    /\ \E q \in Requests : begins(s, q, q.key)
    /\ UNCHANGED <<registryVars, rowVars, staked>>

checks(s) ==
    /\ at(s, "check")
    /\ IF passes(request[s]) THEN goes(s, "send") ELSE ends(s)
    /\ UNCHANGED <<registryVars, rowVars, staked>>

\* The handler's own steps around the transaction, which change no row.
settles(s) ==
    /\ \/ invoke(s)
       \/ wait_ends(s, IF request[s].op = "issue" THEN "tally" ELSE "insert")
    /\ UNCHANGED <<registryVars, rowVars, staked>>

\* One more than the highest id that has a row.
getNextCreditCounter(n) ==
    LET ids == {c \in CreditIds : creditRow[c] # None}
    IN  n - 1 \in {0} \cup ids /\ \A c \in ids : c < n

\* issueCredit: the next id is read, then the row created; creditId is unique.
issueCredit(s) ==
    LET r == request[s] IN
    /\ ~idle(s) /\ r.op = "issue"
    /\ \/ /\ at(s, "tally")
          /\ \E n \in 1 .. MaxCredits + 1 : getNextCreditCounter(n) /\ goes_with(s, "insert", n)
          /\ UNCHANGED creditRow
       \/ /\ at(s, "insert")
          /\ IF creditRow[r.val] = None
             THEN creditRow' = [creditRow EXCEPT ![r.val] =
                      [status |-> "PENDING", project |-> r.arg.project_id]]
             ELSE UNCHANGED creditRow
          /\ ends(s)
    /\ UNCHANGED <<registryVars, approvalRow, verifierRow, staked>>

\* Mutant: the rows alone decide.
verdict_RowsOnly(r) ==
    IF r.op = "approve" THEN rows_of(r.arg, TRUE) >= VERIFIER_THRESHOLD
    ELSE rows_of(r.arg, FALSE) >= VERIFIER_QUORUM

\* The new status is written when enough rows were counted, and for an
\* approval only when the call brought back a token.
verdict(r) ==
    IF r.op = "approve" THEN rows_of(r.arg, TRUE) >= VERIFIER_THRESHOLD /\ r.val = 1
    ELSE rows_of(r.arg, FALSE) >= VERIFIER_QUORUM

\* approveCredit and rejectCredit after the call: the row, the count, the status.
recordsDecision(s) ==
    LET r == request[s]
        ballot == [credit |-> r.arg, verifier |-> r.wallet, approved |-> r.op = "approve"]
    IN  /\ ~idle(s) /\ r.op \in {"approve", "reject"}
        /\ \/ /\ at(s, "insert")
              /\ approvalRow' = [approvalRow EXCEPT ![ballot] = @ + 1]
              /\ goes(s, "tally")
              /\ UNCHANGED creditRow
           \/ /\ at(s, "tally")
              /\ IF verdict(r) THEN goes(s, "update") ELSE ends(s)
              /\ UNCHANGED <<creditRow, approvalRow>>
           \/ /\ at(s, "update")
              /\ creditRow' = [creditRow EXCEPT ![r.arg].status =
                    IF r.op = "approve" THEN "ACTIVE" ELSE "REJECTED"]
              /\ ends(s)
              /\ UNCHANGED approvalRow
        /\ UNCHANGED <<registryVars, verifierRow, staked>>

\* VerifiersService.register: the row after the call.
register(s) ==
    /\ at(s, "insert") /\ request[s].op = "register"
    /\ verifierRow' = verifierRow \cup {request[s].wallet}
    /\ ends(s)
    /\ UNCHANGED <<registryVars, creditRow, approvalRow, staked>>

fails(s) ==
    /\ transaction_lost(s) \/ statement_fails(s)
    /\ UNCHANGED <<registryVars, rowVars, staked>>

-----------------------------------------------------------------------------
(* AdminService's calls touch no row and keep nothing between two awaits,  *)
(* so that each is the step in which its transaction enters a ledger.      *)

updateProtocolConfig(t) == update_config(ADMIN_KEY, t.threshold, t.quorum, DefaultParams)
addVerifier(v) == add_verifier({ADMIN_KEY}, v)
removeVerifier(v) == remove_verifier({ADMIN_KEY}, v)

admin_call ==
    /\ \/ \E t \in Thresholds : updateProtocolConfig(t)
       \/ \E v \in {VERIFIER_KEY} : addVerifier(v) \/ removeVerifier(v)
    /\ UNCHANGED <<request, rowVars, staked>>

\* Accounts that call the registry without the API.
direct_call ==
    /\ CreditNext(Direct, Direct)
    /\ UNCHANGED <<request, rowVars, staked>>

-----------------------------------------------------------------------------
\* The API is deployed with a registry that is configured and knows verifiers.
ApiCreditsInit ==
    /\ counter = 0
    /\ status = [c \in CreditIds |-> "Absent"] /\ token = [c \in CreditIds |-> 0]
    /\ metadata = [c \in CreditIds |-> None] /\ owner = [c \in CreditIds |-> None]
    /\ votes = [c \in CreditIds |-> << >>]
    /\ issuerList = [a \in Address |-> << >>] /\ ownerList = [a \in Address |-> {}]
    /\ \E t \in Thresholds :
          config = [admin |-> ADMIN_KEY, verifier_threshold |-> t.threshold,
                    verifier_quorum |-> t.quorum, params |-> DefaultParams]
    /\ verifiers = Voters /\ bridges = {} /\ retirers = {}
    /\ request = [s \in Slots |-> NoRequest]
    /\ creditRow = [c \in CreditIds |-> None]
    /\ approvalRow = [b \in Ballot |-> 0]
    /\ verifierRow = {} /\ staked = {}

\* What the handler in a slot does by itself.
HandlerStep(s) ==
    checks(s) \/ settles(s) \/ issueCredit(s) \/ recordsDecision(s) \/ register(s)

ApiCreditsNext ==
    \/ \E s \in Slots : asks(s) \/ HandlerStep(s) \/ transaction(s) \/ fails(s)
    \/ admin_call \/ direct_call

\* Every await of a handler returns or throws; nothing makes the network settle.
ApiCreditsSpec ==
    /\ ApiCreditsInit /\ [][ApiCreditsNext]_apiCreditsVars
    /\ \A s \in Slots : WF_apiCreditsVars(HandlerStep(s))

-----------------------------------------------------------------------------
(* Properties. *)

\* Every approval row stands for a vote on the chain, and no vote has two rows,
\* also when a call timed out and was repeated or two requests ran side by side.
VoteRowsOnChain ==
    \A b \in Ballot : approvalRow[b] > 0 =>
        /\ approvalRow[b] = 1
        /\ \E i \in 1..Len(votes[b.credit]) :
              votes[b.credit][i] = [verifier |-> b.verifier, approved |-> b.approved]

\* A row reads ACTIVE only after the registry minted that credit, whatever the
\* environment's threshold and the registry's are.
ActiveRowIsMinted ==
    \A c \in CreditIds : creditRow[c] # None /\ creditRow[c].status = "ACTIVE" =>
        token[c] = c /\ status[c] \in {"Active", "Retired"}

\* Every request is answered, whatever the network does.
RequestsEnd == \A s \in Slots : ~idle(s) ~> (idle(s) \/ at(s, "orphan"))

(* A claim of the documentation, which the code does not keep. *)

\* overview.md: "PostgreSQL mirrors on-chain state": a credit's row describes
\* the credit with that id.
RowDescribesCredit ==
    \A c \in CreditIds : creditRow[c] # None =>
        exists(c) /\ creditRow[c].project = metadata[c].project_id

=============================================================================
