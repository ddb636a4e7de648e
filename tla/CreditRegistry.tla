--------------------------- MODULE CreditRegistry ---------------------------
(***************************************************************************)
(* contracts/credit-registry: issuance of carbon credits, the verifiers'   *)
(* votes that mint or reject them, ownership, retirement, and the          *)
(* administration of the configuration, the verifiers, the bridges and the *)
(* retirers.                                                               *)
(*                                                                         *)
(* One Soroban invocation is one atomic step: a call that panics reverts   *)
(* everything it wrote, so a failing call is a step that is not taken.     *)
(* x.require_auth() is "x is one of the addresses that sign this step":    *)
(* RegistryNext(S, R) takes the set S of addresses that may sign a direct  *)
(* call and the set R of those a direct call may send a credit to.  Alone, *)
(* the registry is checked with every address in both; in OnChain the      *)
(* other contracts sign only through their own code.                       *)
(***************************************************************************)
EXTENDS Naturals, Sequences, FiniteSets

CONSTANTS
    Accounts,      \* addresses with a key: issuers, verifiers, admins, traders
    Contracts,     \* addresses of contracts
    Admins,        \* the addresses init is called with (a bound on its input)
    Voters,        \* the addresses an admin proposes as verifiers (a bound)
    BridgeContracts,   \* the contracts an admin authorizes with add_bridge
    RetirerContracts,  \* the contracts an admin authorizes with add_retirer
    Metadata,      \* the metadata records callers submit, invalid ones too
    Params,        \* [approval_window, protocol_fee_bps, buffer_pool_pct] inputs
    None,          \* the absent address, configuration or record
    MaxCredits,    \* bound on the credit counter (a u64 in the code)
    MaxQuorum,     \* bound on the thresholds and quorums callers pass
    MAX_VERIFIERS,
    MAX_TONNES

Address == Accounts \cup Contracts
CreditIds == 1..MaxCredits
VoteCount == 0..MaxQuorum

ASSUME RegistryAssumption ==
    /\ MaxCredits \in Nat
    /\ MaxQuorum \in Nat
    /\ MAX_VERIFIERS \in Nat
    /\ Admins \subseteq Accounts
    /\ Voters \subseteq Accounts
    /\ BridgeContracts \subseteq Contracts
    /\ RetirerContracts \subseteq Contracts
    /\ None \notin Address
    /\ None \notin Metadata
    /\ \A p \in Params, a \in Admins, t, q \in VoteCount :
          None # [admin |-> a, verifier_threshold |-> t,
                  verifier_quorum |-> q, params |-> p]
    /\ \A t, q \in VoteCount : None # [threshold |-> t, quorum |-> q]

VARIABLES
    counter,      \* DataKey::CreditCounter
    status,       \* CreditMetadata.status, "Absent" when no credit is stored
    token,        \* CreditMetadata.token_id: id stands for sha256(id), 0 for zeros
    metadata,     \* the caller's fields of the stored CreditMetadata
    owner,        \* ("o", id)
    votes,        \* ("a", id): the approval records, in the order of the votes
    issuerList,   \* ("il", issuer)
    ownerList,    \* ("ol", owner): the ids ever appended, order and repeats dropped
    config,       \* DataKey::ContractConfig
    verifiers,    \* "vl": add_verifier refuses duplicates, so a set
    bridges,      \* ("b", address) = true
    retirers      \* ("r", address) = true

creditVars == <<counter, status, token, metadata, owner, votes, issuerList, ownerList>>
adminVars == <<config, verifiers, bridges, retirers>>
registryVars == <<counter, status, token, metadata, owner, votes, issuerList,
                  ownerList, config, verifiers, bridges, retirers>>

\* CreditStatus also has Bridged, which no contract ever writes.
Status == {"Pending", "Active", "Retired", "Rejected"}
Vote == [verifier : Address, approved : BOOLEAN]
Config == [admin : Admins, verifier_threshold : VoteCount,
           verifier_quorum : VoteCount, params : Params]

\* The parameters init writes: APPROVAL_WINDOW_SECONDS, PROTOCOL_FEE_BPS, 10.
DefaultParams == [approval_window |-> 604800, protocol_fee_bps |-> 50, buffer_pool_pct |-> 10]

ASSUME DefaultParamsAssumption == DefaultParams \in Params

-----------------------------------------------------------------------------
(* Reads and checks. *)

exists(c) == status[c] # "Absent"

\* Strings are given by their lengths, the other fields by their values.
validate_metadata(m) ==
    /\ m.project_id > 0
    /\ m.methodology > 0
    /\ m.vintage_start > 0
    /\ m.vintage_end > 0
    /\ m.vintage_start <= m.vintage_end
    /\ m.tonnes \in 1..MAX_TONNES
    /\ m.geography = 2
    /\ m.sdg_flags <= 16383
    /\ m.buffer_contribution_pct <= 20
    /\ m.permanence_rating <= 100
    /\ m.additionality_type <= 2

valid_params(p) ==
    /\ p.approval_window \in 3600..(90 * 24 * 3600)
    /\ p.protocol_fee_bps <= 1000
    /\ p.buffer_pool_pct <= 50

\* The stored administrator is among the addresses that sign the call.
require_admin(S) == config # None /\ config.admin \in S

require_verifier(v) == v \in verifiers

has_approval(v, c) == \E i \in 1..Len(votes[c]) : votes[c][i].verifier = v

\* Mutant: every record counts as an approval.
count_approvals_AnyRecord(records) == Len(records)

count_approvals(records) == Cardinality({i \in 1..Len(records) : records[i].approved})
count_rejections(records) == Cardinality({i \in 1..Len(records) : ~records[i].approved})

-----------------------------------------------------------------------------
(* Writes. *)

\* next_credit_id, write_credit, write_owner and add_credit_to_owner together.
store_credit(s, tok, m, to) ==
    LET id == counter + 1
    IN  /\ counter < MaxCredits
        /\ counter' = id
        /\ status' = [status EXCEPT ![id] = s]
        /\ token' = [token EXCEPT ![id] = tok]
        /\ metadata' = [metadata EXCEPT ![id] = m]
        /\ owner' = [owner EXCEPT ![id] = to]
        /\ ownerList' = [ownerList EXCEPT ![to] = @ \cup {id}]

write_approval(v, c, approved) ==
    votes' = [votes EXCEPT ![c] = Append(@, [verifier |-> v, approved |-> approved])]

-----------------------------------------------------------------------------
(* The contract's functions. *)

submit_credit(issuer, m) ==
    /\ validate_metadata(m)
    /\ store_credit("Pending", 0, m, issuer)
    /\ issuerList' = [issuerList EXCEPT ![issuer] = Append(@, counter + 1)]
    /\ UNCHANGED <<votes, adminVars>>

\* Mutants: a verifier may vote again; a credit in any status may be voted on.
may_vote_Again(v, c) ==
    require_verifier(v) /\ status[c] = "Pending" /\ config # None
may_vote_AnyStatus(v, c) ==
    require_verifier(v) /\ exists(c) /\ ~has_approval(v, c) /\ config # None

\* What approve_and_mint and reject_credit check before they record the vote;
\* read_config panics after it when there is no configuration yet.
may_vote(v, c) ==
    /\ require_verifier(v)
    /\ status[c] = "Pending"
    /\ ~has_approval(v, c)
    /\ config # None

\* Mutants: the approvals must exceed the threshold; quorum - threshold
\* rejections already reject.
minted_Exceed(records) == count_approvals(records) > config.verifier_threshold
rejected_Early(records) ==
    count_rejections(records) >= config.verifier_quorum - config.verifier_threshold

\* The verdicts on a credit's records under the configuration of the moment.
minted(records) == count_approvals(records) >= config.verifier_threshold
rejected(records) ==
    count_rejections(records) > config.verifier_quorum - config.verifier_threshold

approve_and_mint(v, c) ==
    /\ may_vote(v, c)
    /\ write_approval(v, c, TRUE)
    /\ IF minted(votes'[c])
       THEN /\ status' = [status EXCEPT ![c] = "Active"]
            /\ token' = [token EXCEPT ![c] = c]
       ELSE UNCHANGED <<status, token>>
    /\ UNCHANGED <<counter, metadata, owner, issuerList, ownerList, adminVars>>

reject_credit(v, c) ==
    /\ may_vote(v, c)
    /\ write_approval(v, c, FALSE)
    /\ status' = [status EXCEPT ![c] = IF rejected(votes'[c]) THEN "Rejected" ELSE @]
    /\ UNCHANGED <<counter, token, metadata, owner, issuerList, ownerList, adminVars>>

may_transfer(from, c) == exists(c) /\ owner[c] = from /\ status[c] = "Active"

\* Mutant: the new owner's list is not written.
transfer_credit_KeepsLists(from, to, c) ==
    /\ may_transfer(from, c)
    /\ owner' = [owner EXCEPT ![c] = to]
    /\ UNCHANGED <<counter, status, token, metadata, votes, issuerList, ownerList, adminVars>>
transfer_credit(from, to, c) ==
    /\ may_transfer(from, c)
    /\ owner' = [owner EXCEPT ![c] = to]
    /\ ownerList' = [ownerList EXCEPT ![to] = @ \cup {c}]
    /\ UNCHANGED <<counter, status, token, metadata, votes, issuerList, adminVars>>

mark_retired(caller, c) ==
    /\ caller \in retirers
    /\ status[c] = "Active"
    /\ status' = [status EXCEPT ![c] = "Retired"]
    /\ UNCHANGED <<counter, token, metadata, owner, votes, issuerList, ownerList, adminVars>>

\* init neither asks for a signature nor looks whether it ran before.
init(admin, threshold, quorum) ==
    /\ threshold > 0
    /\ quorum > 0
    /\ threshold <= quorum
    /\ config' = [admin |-> admin, verifier_threshold |-> threshold,
                  verifier_quorum |-> quorum, params |-> DefaultParams]
    /\ UNCHANGED <<creditVars, verifiers, bridges, retirers>>

update_config(admin, threshold, quorum, p) ==
    /\ config # None
    /\ admin = config.admin
    /\ threshold > 0
    /\ quorum > 0
    /\ threshold <= quorum
    /\ quorum <= MAX_VERIFIERS
    /\ valid_params(p)
    /\ config' = [config EXCEPT !.verifier_threshold = threshold,
                                !.verifier_quorum = quorum, !.params = p]
    /\ UNCHANGED <<creditVars, verifiers, bridges, retirers>>

add_verifier(S, v) ==
    /\ require_admin(S)
    /\ v \notin verifiers
    /\ Cardinality(verifiers) < MAX_VERIFIERS
    /\ verifiers' = verifiers \cup {v}
    /\ UNCHANGED <<creditVars, config, bridges, retirers>>

remove_verifier(S, v) ==
    /\ require_admin(S)
    /\ v \in verifiers
    /\ verifiers' = verifiers \ {v}
    /\ UNCHANGED <<creditVars, config, bridges, retirers>>

\* Mutant: the unused Bridged status is stored.
mint_bridged_Status(bridge, to, m) ==
    /\ bridge \in bridges
    /\ validate_metadata(m)
    /\ store_credit("Bridged", counter + 1, m, to)
    /\ UNCHANGED <<votes, issuerList, adminVars>>
\* A bridged credit is Active at once and belongs to no issuer's list.
mint_bridged(bridge, to, m) ==
    /\ bridge \in bridges
    /\ validate_metadata(m)
    /\ store_credit("Active", counter + 1, m, to)
    /\ UNCHANGED <<votes, issuerList, adminVars>>

add_bridge(S, b) ==
    /\ require_admin(S)
    /\ bridges' = bridges \cup {b}
    /\ UNCHANGED <<creditVars, config, verifiers, retirers>>

remove_bridge(S, b) ==
    /\ require_admin(S)
    /\ bridges' = bridges \ {b}
    /\ UNCHANGED <<creditVars, config, verifiers, retirers>>

add_retirer(S, r) ==
    /\ require_admin(S)
    /\ retirers' = retirers \cup {r}
    /\ UNCHANGED <<creditVars, config, verifiers, bridges>>

remove_retirer(S, r) ==
    /\ require_admin(S)
    /\ retirers' = retirers \ {r}
    /\ UNCHANGED <<creditVars, config, verifiers, bridges>>

-----------------------------------------------------------------------------
(* The specification. *)

RegistryInit ==
    /\ counter = 0
    /\ status = [c \in CreditIds |-> "Absent"]
    /\ token = [c \in CreditIds |-> 0]
    /\ metadata = [c \in CreditIds |-> None]
    /\ owner = [c \in CreditIds |-> None]
    /\ votes = [c \in CreditIds |-> << >>]
    /\ issuerList = [a \in Address |-> << >>]
    /\ ownerList = [a \in Address |-> {}]
    /\ config = None
    /\ verifiers = {}
    /\ bridges = {}
    /\ retirers = {}

\* Submissions, votes, transfers, retirements and mints, signed by members of S;
\* direct transfers go to members of R.
CreditNext(S, R) ==
    \/ \E issuer \in S, m \in Metadata : submit_credit(issuer, m)
    \/ \E v \in S, c \in CreditIds : approve_and_mint(v, c) \/ reject_credit(v, c)
    \/ \E from \in S, to \in R, c \in CreditIds : transfer_credit(from, to, c)
    \/ \E caller \in S, c \in CreditIds : mark_retired(caller, c)
    \/ \E b \in S, to \in R, m \in Metadata : mint_bridged(b, to, m)

AdminNext(S) ==
    \/ \E a \in Admins, t, q \in VoteCount : init(a, t, q)
    \/ \E a \in S, t, q \in VoteCount, p \in Params : update_config(a, t, q, p)
    \/ \E v \in Voters : add_verifier(S, v) \/ remove_verifier(S, v)
    \/ \E b \in BridgeContracts : add_bridge(S, b) \/ remove_bridge(S, b)
    \/ \E r \in RetirerContracts : add_retirer(S, r) \/ remove_retirer(S, r)

RegistryNext(S, R) == AdminNext(S) \/ CreditNext(S, R)

RegistrySpec == RegistryInit /\ [][RegistryNext(Address, Address)]_registryVars

-----------------------------------------------------------------------------
(* Properties. *)

\* Type invariant: what each storage key of the registry can hold.
RegistryTypeOK ==
    /\ counter \in 0..MaxCredits
    /\ status \in [CreditIds -> Status \cup {"Absent"}]
    /\ token \in [CreditIds -> {0} \cup CreditIds]
    /\ metadata \in [CreditIds -> Metadata \cup {None}]
    /\ owner \in [CreditIds -> Address \cup {None}]
    /\ votes \in [CreditIds -> Seq(Vote)]
    /\ issuerList \in [Address -> Seq(CreditIds)]
    /\ ownerList \in [Address -> SUBSET CreditIds]
    /\ config \in Config \cup {None}
    /\ verifiers \in SUBSET Voters
    /\ bridges \in SUBSET BridgeContracts
    /\ retirers \in SUBSET RetirerContracts

\* No verifier has two records on one credit, whatever the admins do to the
\* verifier list in between: has_approval looks at the records, not at the list.
OneVotePerVerifier ==
    \A c \in CreditIds : \A i, j \in 1..Len(votes[c]) :
        votes[c][i].verifier = votes[c][j].verifier => i = j

Approvers(records) == {records[i].verifier : i \in {j \in 1..Len(records) : records[j].approved}}
Rejecters(records) == {records[i].verifier : i \in {j \in 1..Len(records) : ~records[j].approved}}

\* A Pending credit becomes Active only with as many different approvers as the
\* threshold in force asks for: count_approvals counts records, not verifiers.
MintNeedsApprovers ==
    [][\A c \in CreditIds : status[c] = "Pending" /\ status'[c] = "Active" =>
          Cardinality(Approvers(votes'[c])) >= config.verifier_threshold]_registryVars

issued(c) == \E a \in Address : \E i \in 1..Len(issuerList[a]) : issuerList[a][i] = c

\* The two ways a credit is born never mix: one that is Pending or Rejected, or
\* that anybody voted on, was submitted, and until it is minted it is still its
\* issuer's; a bridged one is in no issuer's list.
UnmintedStaysWithIssuer ==
    \A c \in CreditIds :
        /\ status[c] \in {"Pending", "Rejected"} =>
              \E i \in 1..Len(issuerList[owner[c]]) : issuerList[owner[c]][i] = c
        /\ votes[c] # << >> => issued(c)

\* Ids are handed out once: an id has a stored credit exactly when the counter
\* has passed it, and all issuers' lists together name such ids at most once.
IdsUsedOnce ==
    /\ \A c \in CreditIds : exists(c) <=> c <= counter
    /\ \A a \in Address : \A i \in 1..Len(issuerList[a]) : issuerList[a][i] <= counter
    /\ \A a, b \in Address : \A i \in 1..Len(issuerList[a]), j \in 1..Len(issuerList[b]) :
          issuerList[a][i] = issuerList[b][j] => a = b /\ i = j

\* mark_retired is irreversible and ends trading: a Retired credit keeps its
\* status, its owner and its token id for ever.
RetirementPermanent ==
    [][\A c \in CreditIds : status[c] = "Retired" =>
          status'[c] = "Retired" /\ owner'[c] = owner[c] /\ token'[c] = token[c]]_registryVars

\* The owner of a credit finds it in get_credits_by_owner, after any transfers.
OwnerFindsCredit ==
    \A c \in CreditIds : exists(c) => owner[c] \in Address /\ c \in ownerList[owner[c]]

\* token_id is sha256(id) on exactly the credits that were minted; in particular
\* a rejected credit never carries one.
TokenIffMinted ==
    \A c \in CreditIds : token[c] = IF status[c] \in {"Active", "Retired"} THEN c ELSE 0

\* Under a settled configuration the status of a submitted credit is exactly
\* what its votes say: no credit waits once a verdict is reached, the two
\* verdicts exclude each other, and no vote is recorded after a verdict.
VerdictMatchesTally ==
    \A c \in CreditIds : issued(c) /\ config # None =>
        LET ayes == Cardinality(Approvers(votes[c]))
            nays == Cardinality(Rejecters(votes[c]))
            slack == config.verifier_quorum - config.verifier_threshold
        IN  /\ status[c] = "Pending" => ayes < config.verifier_threshold /\ nays <= slack
            /\ status[c] \in {"Active", "Retired"} =>
                  ayes = config.verifier_threshold /\ nays <= slack
            /\ status[c] = "Rejected" => nays = slack + 1 /\ ayes < config.verifier_threshold

\* The ledger the registry implements: the approval records become the sets of
\* those who said aye and nay, the configuration becomes the voting rule.
Ledger == INSTANCE CreditLedger WITH
    Holder <- Address,
    Credit <- CreditIds,
    Rule <- {[threshold |-> t, quorum |-> q] : t, q \in VoteCount},
    ayes <- [c \in CreditIds |-> Approvers(votes[c])],
    nays <- [c \in CreditIds |-> Rejecters(votes[c])],
    rule <- IF config = None THEN None
            ELSE [threshold |-> config.verifier_threshold, quorum |-> config.verifier_quorum]

\* The registry implements the credit ledger.
ImplementsLedger == Ledger!LedgerSpec

=============================================================================
