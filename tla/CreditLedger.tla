---------------------------- MODULE CreditLedger ----------------------------
(***************************************************************************)
(* What the CreditRegistry promises, without its storage: every credit has *)
(* a status and an owner, a Pending credit is decided by two disjoint sets *)
(* of verifiers (the ayes and the nays), and the current voting rule says  *)
(* how large they must be.  Nothing here counts records, keeps counters or *)
(* lists, or remembers who administers the registry.                       *)
(***************************************************************************)
EXTENDS Naturals, FiniteSets

CONSTANTS
    Holder,     \* whoever may own a credit or vote on one
    Credit,     \* the identities of credits
    Rule,       \* the voting rules: records [threshold, quorum]
    None        \* no owner yet, no rule yet

VARIABLES status, owner, ayes, nays, rule

ledgerVars == <<status, owner, ayes, nays, rule>>

LedgerInit ==
    /\ status = [c \in Credit |-> "Absent"]
    /\ owner = [c \in Credit |-> None]
    /\ ayes = [c \in Credit |-> {}]
    /\ nays = [c \in Credit |-> {}]
    /\ rule = None

\* A credit appears once, waiting for a decision or already decided elsewhere.
Create(c, s, h) ==
    /\ status[c] = "Absent"
    /\ s \in {"Pending", "Active"}
    /\ status' = [status EXCEPT ![c] = s]
    /\ owner' = [owner EXCEPT ![c] = h]
    /\ UNCHANGED <<ayes, nays, rule>>

\* A holder says aye or nay once, and the sets then decide under the rule.
Aye(h, c) ==
    /\ rule # None
    /\ status[c] = "Pending"
    /\ h \notin ayes[c] \cup nays[c]
    /\ ayes' = [ayes EXCEPT ![c] = @ \cup {h}]
    /\ status' = [status EXCEPT ![c] =
          IF Cardinality(ayes[c] \cup {h}) >= rule.threshold THEN "Active" ELSE @]
    /\ UNCHANGED <<owner, nays, rule>>

Nay(h, c) ==
    /\ rule # None
    /\ status[c] = "Pending"
    /\ h \notin ayes[c] \cup nays[c]
    /\ nays' = [nays EXCEPT ![c] = @ \cup {h}]
    /\ status' = [status EXCEPT ![c] =
          IF Cardinality(nays[c] \cup {h}) > rule.quorum - rule.threshold
          THEN "Rejected" ELSE @]
    /\ UNCHANGED <<owner, ayes, rule>>

Move(c, h) ==
    /\ status[c] = "Active"
    /\ owner' = [owner EXCEPT ![c] = h]
    /\ UNCHANGED <<status, ayes, nays, rule>>

\* Credits are retired one at a time or several at once, all of them or none.
Retire(C) ==
    /\ C # {}
    /\ \A c \in C : status[c] = "Active"
    /\ status' = [c \in Credit |-> IF c \in C THEN "Retired" ELSE status[c]]
    /\ UNCHANGED <<owner, ayes, nays, rule>>

SetRule(r) ==
    /\ rule' = r
    /\ UNCHANGED <<status, owner, ayes, nays>>

LedgerNext ==
    \/ \E c \in Credit, h \in Holder :
          \/ \E s \in {"Pending", "Active"} : Create(c, s, h)
          \/ Aye(h, c)
          \/ Nay(h, c)
          \/ Move(c, h)
    \/ \E C \in SUBSET Credit : Retire(C)
    \/ \E r \in Rule : SetRule(r)

LedgerSpec == LedgerInit /\ [][LedgerNext]_ledgerVars

=============================================================================
