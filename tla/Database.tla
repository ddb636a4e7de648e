------------------------------ MODULE Database ------------------------------
(***************************************************************************)
(* The rows of the PostgreSQL database (src/api/prisma/schema.prisma) that *)
(* the indexer and the API services share, and the four kinds of write     *)
(* Prisma makes to them.  A table with a unique key is a function from the *)
(* key to a row or None; a table that only grows is a sequence of rows.    *)
(* Users are their Stellar addresses: user.upsert never changes a row.     *)
(***************************************************************************)
EXTENDS Integers, Sequences, FiniteSets, TLC

CONSTANTS Users, CreditIds, OfferIds, Serials, MaxAmount, None

ASSUME MaxAmountAssumption == MaxAmount \in Nat

VARIABLE db

CreditStatus == {"PENDING", "ACTIVE", "RETIRED", "REJECTED", "BRIDGED"}
OfferStatus == {"ACTIVE", "FILLED", "CANCELLED", "EXPIRED"}
BridgeStatus == {"INBOUND", "OUTBOUND"}

Credit == [status : CreditStatus, owner : Users]
Offer == [credit : CreditIds, seller : Users, amount : 1..MaxAmount, filled : Nat, status : OfferStatus]
BridgeRecord == [credit : CreditIds, status : BridgeStatus]
Approval == [credit : CreditIds, verifier : Users, approved : BOOLEAN]
Trade == [offer : OfferIds, buyer : Users, amount : 1..MaxAmount]
Retirement == [credit : CreditIds, by : Users]

\* A missing row is no row.
ASSUME NoneAssumption == None \notin Credit \cup Offer \cup BridgeRecord

DbTypeOK ==
    /\ \A c \in CreditIds : db.credit[c] \in Credit \cup {None}
    /\ \A o \in OfferIds : db.offer[o] \in Offer \cup {None}
    /\ \A s \in Serials : db.bridgeRecord[s] \in BridgeRecord \cup {None}
    /\ db.approval \in Seq(Approval)
    /\ db.trade \in Seq(Trade)
    /\ db.retirement \in Seq(Retirement)

EmptyTables ==
    [credit |-> [c \in CreditIds |-> None], offer |-> [o \in OfferIds |-> None],
     bridgeRecord |-> [s \in Serials |-> None],
     approval |-> << >>, trade |-> << >>, retirement |-> << >>]

-----------------------------------------------------------------------------
(* Statements.  update throws when the row is missing, upsert creates it   *)
(* with the fields of rest besides its own, updateFirst changes the bridge *)
(* record that names a credit if there is one.                             *)

create(t, row) == [op |-> "create", table |-> t, row |-> row]
update(t, k, fields) == [op |-> "update", table |-> t, key |-> k, fields |-> fields]
upsert(t, k, fields, rest) ==
    [op |-> "upsert", table |-> t, key |-> k, fields |-> fields, rest |-> rest]
updateFirst(c, fields) == [op |-> "updateFirst", credit |-> c, fields |-> fields]

throws(d, s) == s.op = "update" /\ d[s.table][s.key] = None

RecordsOf(d, c) == {s \in Serials : d.bridgeRecord[s] # None /\ d.bridgeRecord[s].credit = c}

\* The row with the columns of fields changed, or added.
merged(fields, row) ==
    [c \in DOMAIN fields \cup DOMAIN row |-> IF c \in DOMAIN fields THEN fields[c] ELSE row[c]]

written(d, s) ==
    CASE s.op = "create" -> [d EXCEPT ![s.table] = Append(@, s.row)]
      [] s.op = "update" -> [d EXCEPT ![s.table][s.key] = merged(s.fields, @)]
      [] s.op = "upsert" -> [d EXCEPT ![s.table][s.key] = merged(s.fields, IF @ = None THEN s.rest ELSE @)]
      [] s.op = "updateFirst" ->
            IF RecordsOf(d, s.credit) = {} THEN d
            ELSE [d EXCEPT !.bridgeRecord[CHOOSE r \in RecordsOf(d, s.credit) : TRUE] = merged(s.fields, @)]

=============================================================================
