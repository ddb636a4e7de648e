----------------------------- MODULE IndexerSync -----------------------------
(***************************************************************************)
(* The indexer (src/indexer/src): a loop that asks the RPC node for the    *)
(* events of the watched contracts, page by page from a cursor it keeps in *)
(* memory, and hands each event to a processor that writes the database.   *)
(* An await is the end of an action: one page and one statement at a time. *)
(* The node, the chain and the API that creates bridge records are outside *)
(* the indexer.  At least one contract is configured.                      *)
(***************************************************************************)
EXTENDS Database, SequencesExt

CONSTANTS
    PAGE_LIMIT, MAX_PAGES,
    Scripts,        \* the events of a chain, in order, that close_ledger may publish
    LedgerShapes,   \* the transaction indexes of the events of one ledger
    MaxLedger,      \* bound: ledgers that close
    MaxRestarts,    \* bound: restarts of the process
    Faults          \* whether the node and the database may fail

ASSUME IndexerAssumption ==
    /\ PAGE_LIMIT \in Nat \ {0} /\ MAX_PAGES \in Nat \ {0}
    /\ MaxLedger \in Nat /\ MaxRestarts \in Nat /\ Faults \in BOOLEAN
    /\ LedgerShapes \subseteq Seq(Nat)

\* parseRpcEvent: the topics it knows; every other event is dropped.
CreditTopics == {"credit_submitted", "credit_approved", "credit_minted", "credit_rejected",
                 "credit_transferred", "credit_retired", "bridged", "bridge_ot"}
OfferTopics == {"offer_created", "offer_filled", "offer_cancelled"}
UserTopics == {"credit_submitted", "credit_approved", "credit_rejected", "credit_transferred",
               "credit_retired", "offer_created", "offer_filled"}
Topics == CreditTopics \cup OfferTopics \cup {"root_upd"}

\* Every event of the scripts.
Published == UNION {Range(script) : script \in Scripts}

\* What the contracts publish with the topics the processors read.
ASSUME ScriptsAssumption ==
    /\ Scripts \subseteq Seq(Published)
    /\ \A e \in Published :
         /\ e.topic \in CreditTopics \cup {"offer_created"} => e.credit \in CreditIds
         /\ e.topic \in UserTopics => e.user \in Users
         /\ e.topic \in OfferTopics => e.offer \in OfferIds
         /\ e.topic \in {"offer_created", "offer_filled"} => e.amount \in 1..MaxAmount
         /\ e.topic = "bridged" => e.serial \in Serials

VARIABLES
    chain,          \* the published events: [ledger, txIndex, event]
    tip, future,    \* the last closed ledger, the events still to come
    cursor,         \* the position the next poll starts from
    pc,             \* "sleeping", "fetching" or "processing"
    seen, startLedger, pageCount, sawEvents,    \* locals of fetchEvents
    events,         \* indexes into chain of the parsed events of this poll
    statements,     \* the statements the current processor still has to run
    handed,         \* history: the events handed to processEvent since the start
    restarts,
    faulty          \* history: an answer or a statement failed

chainVars == <<chain, tip, future>>
fetchVars == <<seen, startLedger, pageCount, sawEvents>>
indexerVars == <<chainVars, cursor, pc, fetchVars, events, statements, handed, restarts, faulty, db>>

Genesis == [ledgerSequence |-> 1, txIndex |-> 0]

-----------------------------------------------------------------------------
(* Processors: the statements each runs for an event, given the rows it    *)
(* finds first.                                                            *)

processCreditSubmitted(e, d) ==
    <<upsert("credit", e.credit, [status |-> "PENDING"], [owner |-> e.user])>>

processCreditApproved(e, d) ==
    IF d.credit[e.credit] = None THEN << >>
    ELSE <<create("approval", [credit |-> e.credit, verifier |-> e.user, approved |-> TRUE])>>

processCreditMinted(e, d) == <<update("credit", e.credit, [status |-> "ACTIVE"])>>

\* Mutant: the approval row alone is written.
processCreditRejected_NoStatus(e, d) ==
    IF d.credit[e.credit] = None THEN << >>
    ELSE <<create("approval", [credit |-> e.credit, verifier |-> e.user, approved |-> FALSE])>>

processCreditRejected(e, d) ==
    IF d.credit[e.credit] = None THEN << >>
    ELSE <<create("approval", [credit |-> e.credit, verifier |-> e.user, approved |-> FALSE]),
           update("credit", e.credit, [status |-> "REJECTED"])>>

processCreditTransferred(e, d) == <<update("credit", e.credit, [owner |-> e.user])>>

processCreditRetired(e, d) ==
    IF d.credit[e.credit] = None THEN << >>
    ELSE <<create("retirement", [credit |-> e.credit, by |-> e.user]),
           update("credit", e.credit, [status |-> "RETIRED"])>>

processOfferCreated(e, d) ==
    IF d.credit[e.credit] = None THEN << >>
    ELSE <<upsert("offer", e.offer, [amount |-> e.amount, status |-> "ACTIVE"],
                  [credit |-> e.credit, seller |-> e.user, filled |-> 0])>>

\* Mutant: the trade is written before the offer.
processOfferFilled_TradeFirst(e, d) ==
    LET o == d.offer[e.offer] IN
    IF o = None THEN << >>
    ELSE LET filled == o.filled + e.amount
             state == IF filled >= o.amount THEN "FILLED" ELSE o.status
         IN  <<create("trade", [offer |-> e.offer, buyer |-> e.user, amount |-> e.amount]),
               update("offer", e.offer, [filled |-> filled, status |-> state]),
               update("credit", o.credit, [owner |-> e.user])>>

\* A status of undefined leaves the column as it is.
processOfferFilled(e, d) ==
    LET o == d.offer[e.offer] IN
    IF o = None THEN << >>
    ELSE LET filled == [filled |-> o.filled + e.amount]
             state == IF filled.filled >= o.amount THEN [status |-> "FILLED"] ELSE << >>
         IN  <<update("offer", e.offer, merged(filled, state)),
               create("trade", [offer |-> e.offer, buyer |-> e.user, amount |-> e.amount]),
               update("credit", o.credit, [owner |-> e.user])>>

processOfferCancelled(e, d) == <<update("offer", e.offer, [status |-> "CANCELLED"])>>

processCreditBridged(e, d) ==
    IF d.bridgeRecord[e.serial] = None THEN << >>
    ELSE <<update("bridgeRecord", e.serial, [status |-> "INBOUND"])>>

processCreditBridgedOut(e, d) ==
    <<update("credit", e.credit, [status |-> "RETIRED"]),
      updateFirst(e.credit, [status |-> "OUTBOUND"])>>

processRegistryRootUpdated == << >>

processEvent(e, d) ==
    CASE e.topic = "credit_submitted" -> processCreditSubmitted(e, d)
      [] e.topic = "credit_approved" -> processCreditApproved(e, d)
      [] e.topic = "credit_minted" -> processCreditMinted(e, d)
      [] e.topic = "credit_rejected" -> processCreditRejected(e, d)
      [] e.topic = "credit_transferred" -> processCreditTransferred(e, d)
      [] e.topic = "credit_retired" -> processCreditRetired(e, d)
      [] e.topic = "offer_created" -> processOfferCreated(e, d)
      [] e.topic = "offer_filled" -> processOfferFilled(e, d)
      [] e.topic = "offer_cancelled" -> processOfferCancelled(e, d)
      [] e.topic = "bridged" -> processCreditBridged(e, d)
      [] e.topic = "bridge_ot" -> processCreditBridgedOut(e, d)
      [] e.topic = "root_upd" -> processRegistryRootUpdated

-----------------------------------------------------------------------------
(* The chain and the API, outside the indexer.                             *)

\* A ledger closes with the next events, one or more to a transaction.  No
\* processor reads the chain, so that ledgers that close while one runs are
\* taken to close right after it.
close_ledger ==
    /\ tip < MaxLedger /\ pc # "processing"
    /\ \E shape \in LedgerShapes :
         /\ Len(shape) <= Len(future)
         /\ chain' = chain \o [i \in 1..Len(shape) |->
                [ledger |-> tip + 1, txIndex |-> shape[i], event |-> future[i]]]
         /\ future' = SubSeq(future, Len(shape) + 1, Len(future))
    /\ tip' = tip + 1
    /\ UNCHANGED <<cursor, pc, fetchVars, events, statements, handed, restarts, faulty, db>>

\* The API stores the record of an import once the contract call has returned.
api_bridge_record ==
    /\ \E i \in DOMAIN chain :
         LET e == chain[i].event IN
         /\ e.topic = "bridged" /\ e.ok
         /\ db.bridgeRecord[e.serial] = None
         /\ db' = [db EXCEPT !.bridgeRecord[e.serial] = [credit |-> e.credit, status |-> "INBOUND"]]
    /\ UNCHANGED <<chainVars, cursor, pc, fetchVars, events, statements, handed, restarts, faulty>>

\* getEvents: the first PAGE_LIMIT events from a ledger on, as indexes into chain.
page(from) ==
    LET found == {i \in DOMAIN chain : chain[i].ledger >= from}
        first == Len(chain) - Cardinality(found)
    IN  [k \in 1..IF Cardinality(found) < PAGE_LIMIT THEN Cardinality(found) ELSE PAGE_LIMIT |-> first + k]

-----------------------------------------------------------------------------
(* Fetching.                                                               *)

\* Mutant: the event the cursor stands on is taken again.
after_OrAt(i, at) ==
    \/ chain[i].ledger > at.ledgerSequence
    \/ chain[i].ledger = at.ledgerSequence /\ chain[i].txIndex >= at.txIndex

\* Mutant: one ledger is one position.
after_LedgerOnly(i, at) == chain[i].ledger > at.ledgerSequence

after(i, at) ==
    \/ chain[i].ledger > at.ledgerSequence
    \/ chain[i].ledger = at.ledgerSequence /\ chain[i].txIndex > at.txIndex

position(i) == [ledgerSequence |-> chain[i].ledger, txIndex |-> chain[i].txIndex]

\* The loop over one page: failed calls and covered positions are skipped,
\* topics nobody knows move the position and nothing else.
take(acc, i) ==
    IF ~chain[i].event.ok \/ ~after(i, acc.seen) THEN acc
    ELSE [seen |-> position(i), saw |-> TRUE,
          events |-> IF chain[i].event.topic \in Topics THEN Append(acc.events, i) ELSE acc.events]

scan(answer, start) == FoldLeft(take, start, answer)

beyond(p, q) ==
    \/ p.ledgerSequence > q.ledgerSequence
    \/ p.ledgerSequence = q.ledgerSequence /\ p.txIndex > q.txIndex

next_cursor(drained, saw, at) ==
    IF drained /\ saw THEN [ledgerSequence |-> at.ledgerSequence + 1, txIndex |-> 0]
    ELSE IF beyond(at, cursor) THEN at ELSE cursor

\* Outside fetchEvents its locals have one value.
fetchLocals == seen' = Genesis /\ startLedger' = 1 /\ pageCount' = 0 /\ sawEvents' = FALSE

\* Mutant: the next page starts behind the last ledger seen.
next_start_Behind(at) == at.ledgerSequence + 1

next_start(at) == at.ledgerSequence

poll ==
    /\ pc = "sleeping"
    /\ pc' = "fetching"
    /\ seen' = cursor /\ startLedger' = cursor.ledgerSequence
    /\ pageCount' = 0 /\ sawEvents' = FALSE /\ events' = << >>
    /\ UNCHANGED <<chainVars, cursor, statements, handed, restarts, faulty, db>>

\* One page arrives, or an error that reads as an empty page.
page_arrives(answer, wrong) ==
    LET r == scan(answer, [seen |-> seen, saw |-> sawEvents, events |-> events])
        drained == Len(answer) < PAGE_LIMIT
    IN  /\ pc = "fetching"
        /\ events' = r.events
        /\ faulty' = (faulty \/ wrong)
        /\ IF drained \/ pageCount + 1 = MAX_PAGES
           THEN /\ cursor' = next_cursor(drained, r.saw, r.seen)
                /\ pc' = "processing"
                /\ fetchLocals
           ELSE /\ startLedger' = next_start(r.seen)
                /\ pageCount' = pageCount + 1
                /\ seen' = r.seen /\ sawEvents' = r.saw
                /\ UNCHANGED <<cursor, pc>>
        /\ UNCHANGED <<chainVars, statements, handed, restarts, db>>

fetchEvents == page_arrives(page(startLedger), FALSE)
fetch_error == Faults /\ page_arrives(<< >>, TRUE)

\* The request itself throws: start() logs it and sleeps.
fetch_throws ==
    /\ Faults /\ pc = "fetching"
    /\ pc' = "sleeping" /\ events' = << >> /\ faulty' = TRUE /\ fetchLocals
    /\ UNCHANGED <<chainVars, cursor, statements, handed, restarts, db>>

-----------------------------------------------------------------------------
(* Processing.                                                             *)

next_event ==
    /\ pc = "processing" /\ statements = << >> /\ events # << >>
    /\ statements' = processEvent(chain[Head(events)].event, db)
    /\ handed' = handed \cup {Head(events)}
    /\ events' = Tail(events)
    /\ UNCHANGED <<chainVars, cursor, pc, fetchVars, restarts, faulty, db>>

statement ==
    /\ pc = "processing" /\ statements # << >>
    /\ ~throws(db, Head(statements))
    /\ db' = written(db, Head(statements))
    /\ statements' = Tail(statements)
    /\ UNCHANGED <<chainVars, cursor, pc, fetchVars, events, handed, restarts, faulty>>

\* A statement that throws ends the poll: the rest of its events is dropped.
statement_throws ==
    /\ pc = "processing" /\ statements # << >>
    /\ Faults \/ throws(db, Head(statements))
    /\ pc' = "sleeping" /\ events' = << >> /\ statements' = << >> /\ faulty' = TRUE
    /\ UNCHANGED <<chainVars, cursor, fetchVars, handed, restarts, db>>

sleep ==
    /\ pc = "processing" /\ statements = << >> /\ events = << >>
    /\ pc' = "sleeping"
    /\ UNCHANGED <<chainVars, cursor, fetchVars, events, statements, handed, restarts, faulty, db>>

\* The process ends anywhere and starts again.  INDEXER_RESYNC only sets the
\* cursor, which starts at genesis anyway: resyncFromGenesis loops while
\* running, and start() is called after it.
main ==
    /\ restarts < MaxRestarts /\ restarts' = restarts + 1
    /\ cursor' = Genesis /\ fetchLocals
    /\ pc' = "sleeping" /\ events' = << >> /\ statements' = << >> /\ handed' = {}
    /\ UNCHANGED <<chainVars, faulty, db>>

IndexerInit ==
    /\ chain = << >> /\ tip = 0 /\ future \in Scripts
    /\ cursor = Genesis /\ seen = Genesis /\ startLedger = 1
    /\ pageCount = 0 /\ sawEvents = FALSE
    /\ pc = "sleeping" /\ events = << >> /\ statements = << >> /\ handed = {}
    /\ restarts = 0 /\ faulty = FALSE
    /\ db = EmptyTables

\* The steps the poll loop takes as long as the process runs.
IndexerStep == poll \/ fetchEvents \/ next_event \/ statement \/ sleep

IndexerNext ==
    \/ close_ledger \/ api_bridge_record
    \/ poll \/ fetchEvents \/ fetch_error \/ fetch_throws
    \/ next_event \/ statement \/ statement_throws \/ sleep
    \/ main

\* The loop never ends by itself and every await of it returns or throws.
IndexerSpec == IndexerInit /\ [][IndexerNext]_indexerVars /\ WF_indexerVars(IndexerStep)

-----------------------------------------------------------------------------
(* Properties.                                                             *)

\* The events a working indexer has to apply.
Relevant(i) == chain[i].event.ok /\ chain[i].event.topic \in Topics

\* Rows keep the schema's columns and enums through every order of statements,
\* and the cursor stays within the chain (sync.ts, the processors).
IndexerTypeOK ==
    /\ DbTypeOK
    /\ pc \in {"sleeping", "fetching", "processing"}
    /\ cursor.ledgerSequence \in 1..MaxLedger + 1
    /\ pageCount < MAX_PAGES
    /\ handed \subseteq DOMAIN chain
    /\ pc # "processing" => statements = << >>

\* README of the indexer: "nothing is reprocessed or skipped".  Every event the
\* cursor has moved past was handed to its processor or waits in this poll,
\* over overlapping pages, resumes in mid-ledger and restarts, as long as no
\* answer and no statement failed.
NothingSkipped ==
    ~faulty =>
        \A i \in DOMAIN chain :
            Relevant(i) /\ ~after(i, cursor) => i \in handed \cup Range(events)

\* No event is taken twice between two starts, and each poll keeps the order of
\* the chain, also when pages overlap and when polls were cut short.
TakenOnceInOrder ==
    /\ \A j, k \in DOMAIN events : j < k => events[j] < events[k]
    /\ \A k \in DOMAIN events : \A i \in handed : i < events[k]

\* An offer counts every trade that is stored for it, at every statement, in
\* cut-off processors and after replays.
FilledCoversTrades ==
    \A o \in OfferIds : db.offer[o] # None =>
        SumFunctionOnSet([i \in DOMAIN db.trade |-> db.trade[i].amount],
                         {i \in DOMAIN db.trade : db.trade[i].offer = o}) <= db.offer[o].filled

\* What the chain says of a credit and of an offer.
StatusAfter(topic) ==
    CASE topic = "credit_submitted" -> "PENDING" [] topic = "credit_minted" -> "ACTIVE"
      [] topic = "credit_rejected" -> "REJECTED" [] OTHER -> "RETIRED"
StatusTopics == {"credit_submitted", "credit_minted", "credit_rejected", "credit_retired", "bridge_ot"}
OfCredit(c, T) == {i \in DOMAIN chain : chain[i].event.ok /\ chain[i].event.topic \in T /\ chain[i].event.credit = c}
OfOffer(o, T) == {i \in DOMAIN chain : chain[i].event.ok /\ chain[i].event.topic \in T /\ chain[i].event.offer = o}

CaughtUp == pc = "sleeping" /\ \A i \in DOMAIN chain : Relevant(i) => i \in handed

Mirror ==
    /\ \A c \in CreditIds :
         LET S == OfCredit(c, StatusTopics) IN
         /\ db.credit[c] = None <=> S = {}
         /\ S # {} => db.credit[c].status = StatusAfter(chain[Max(S)].event.topic)
         /\ Cardinality({k \in DOMAIN db.retirement : db.retirement[k].credit = c})
                = Cardinality(OfCredit(c, {"credit_retired"}))
    /\ \A o \in OfferIds : db.offer[o] # None =>
         LET fills == OfOffer(o, {"offer_filled"}) IN
         db.offer[o].filled = SumFunctionOnSet([i \in fills |-> chain[i].event.amount], fills)

\* architecture/overview.md: "PostgreSQL mirrors on-chain state".  Once the
\* indexer has caught up, on its first run and without failures, statuses,
\* retirements and filled amounts are what the chain's events add up to.
MirrorsChain == CaughtUp /\ ~faulty /\ restarts = 0 => Mirror

\* README of the indexer: "Processors are idempotent (upserts), so restarts are
\* safe": the same after a restart.
RestartSafe == CaughtUp /\ ~faulty => Mirror

\* The indexer reaches every event in the end and stays there.
CatchesUp == <>[](~faulty => \A i \in DOMAIN chain : Relevant(i) => i \in handed)

=============================================================================
