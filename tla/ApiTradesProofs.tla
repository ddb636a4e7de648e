--------------------------- MODULE ApiTradesProofs ---------------------------
(***************************************************************************)
(* What the rows of retirement, bridging and trading say of the contracts, *)
(* for any requests, any number of handlers side by side, a network that   *)
(* drops and delays transactions, restarts, and any replays of the         *)
(* indexer.                                                                *)
(***************************************************************************)
EXTENDS ApiTrades, OnChainProofs

TradesStep == [ApiTradesNext]_apiTradesVars

Asked == [op : {q.op : q \in Requests}, wallet : {q.wallet : q \in Requests},
          arg : {q.arg : q \in Requests}, key : Accounts, at : Stages, val : Nat]

RetirementRow == [credit : CreditIds, by : {q.wallet : q \in Requests},
                  beneficiary : Beneficiaries, hash : Nat \cup {None}]

\* Type invariant of the requests and of the rows the contracts' inputs come from.
TradesTypeOK ==
    /\ request \in [Slots -> Asked \cup {NoRequest}]
    /\ \A s \in Slots : ~idle(s) =>
          /\ fits(request[s])
          /\ request[s].op = "buyCredits" /\ request[s].at # "check" =>
                offerRow[request[s].arg] # None
    /\ adminKey \in Accounts
    /\ offerRow \in [OfferIds -> OfferRow \cup {None}]
    /\ DOMAIN creditRow = CreditIds
    /\ retirementRow \in Seq(RetirementRow)

-----------------------------------------------------------------------------
(* The contracts under the API. *)

\* Whatever handlers, sellers, strangers and the indexer do is one step of the
\* deployed contracts, or none.
LEMMA ContractsKept ==
    ASSUME TradesTypeOK, TradesStep
    PROVE  OnChainStep
  <1> USE ApiTradesAssumption
  <1>1. CASE UNCHANGED onChainVars
    BY <1>1 DEF OnChainStep
  <1>2. ASSUME NEW s \in Slots, transaction(s)
        PROVE  OnChainStep
    <2> DEFINE r == request[s]
    <2>1. r.key \in Accounts /\ fits(r) /\ r.at # "check"
          /\ (r.op = "buyCredits" => offerRow[r.arg] # None)
      BY <1>2 DEF transaction, in_flight, idle, TradesTypeOK, Asked
    <2> HIDE DEF r
    <2>2. CASE createOffer(r)
      BY <2>1, <2>2 DEF createOffer, fits, MarketNext, OnChainStep, OnChainNext
    <2>3. CASE buyCredits(r)
      <3>1. r.arg \in OfferIds /\ offerRow[r.arg].amount \in Amounts
        BY <2>1, <2>3 DEF buyCredits, fits, TradesTypeOK, OfferRow
      <3> QED
        BY <2>1, <2>3, <3>1 DEF buyCredits, MarketNext, OnChainStep, OnChainNext
    <2>4. CASE retireCredit(r)
      BY <2>1, <2>4 DEF retireCredit, fits, TrackerNext, OnChainStep, OnChainNext
    <2>5. CASE bridgeIn(r)
      <3>1. r.arg.at[1] \in Registries /\ r.arg.at[2] \in Serials /\ r.arg.proof \in Proofs
        BY <2>1, <2>5 DEF bridgeIn, fits
      <3> QED
        BY <2>1, <2>5, <3>1 DEF bridgeIn, BridgeNext, OnChainStep, OnChainNext
    <2>6. CASE bridgeOut(r)
      BY <2>1, <2>6 DEF bridgeOut, fits, BridgeNext, OnChainStep, OnChainNext
    <2> QED
      BY <1>2, <2>2, <2>3, <2>4, <2>5, <2>6 DEF transaction, r
  <1>3. CASE direct_call
    <2>1. CASE /\ \E a \in Direct, c \in CreditIds, to \in Recipients : transfer_credit(a, to, c)
               /\ UNCHANGED <<marketVars, trackerVars, bridgeVars>>
      BY <2>1 DEF RegistryNext, CreditNext, OnChainStep, OnChainNext
    <2> QED
      BY <1>3, <2>1 DEF direct_call, MarketNext, TrackerNext, OnChainStep, OnChainNext
  <1> QED
    BY <1>1, <1>2, <1>3
       DEF TradesStep, ApiTradesNext, apiTradesVars, asks, HandlerStep, checks, checksPurchase,
           settles, recordsPurchase, recordsOffer, recordsRetirement, recordsBridging,
           enqueueBatch, fails, restart, indexer_statement

-----------------------------------------------------------------------------
(* The requests under way. *)

\* The same request, further on.
SameAsk(t) ==
    /\ request'[t].op = request[t].op
    /\ request'[t].wallet = request[t].wallet
    /\ request'[t].arg = request[t].arg

\* A slot that goes on keeps what was asked, and the other slots stay.
LEMMA Going ==
    ASSUME TradesTypeOK, NEW s \in Slots, ~idle(s), NEW stage \in Stages, goes(s, stage)
    PROVE  /\ SameAsk(s) /\ request'[s].at = stage /\ request'[s].val = request[s].val
           /\ \A t \in Slots \ {s} : request'[t] = request[t]
           /\ request' \in [Slots -> Asked \cup {NoRequest}]
  <1>1. request[s] \in Asked /\ request \in [Slots -> Asked \cup {NoRequest}]
    BY DEF TradesTypeOK, idle
  <1> QED
    BY <1>1 DEF goes, Asked, SameAsk

\* The same, with a new value.
LEMMA GoingWith ==
    ASSUME TradesTypeOK, NEW s \in Slots, ~idle(s), NEW stage \in Stages, NEW v \in Nat,
           goes_with(s, stage, v)
    PROVE  /\ SameAsk(s) /\ request'[s].at = stage /\ request'[s].val = v
           /\ \A t \in Slots \ {s} : request'[t] = request[t]
           /\ request' \in [Slots -> Asked \cup {NoRequest}]
  <1>1. request[s] \in Asked /\ request \in [Slots -> Asked \cup {NoRequest}]
    BY DEF TradesTypeOK, idle
  <1> QED
    BY <1>1 DEF goes_with, Asked, SameAsk

\* A new request.
Fresh(t) == \E q \in Requests :
    request'[t].op = q.op /\ request'[t].arg = q.arg /\ request'[t].at = "check"

\* The value the handler keeps of the receipt.
returned(r) == IF r.op = "createOffer" THEN r.val ELSE counter'

\* How a step may leave a request that is still under way: untouched, new, or
\* further; a purchase has seen its offer's row before it goes anywhere.
Moves(t) ==
    \/ request'[t] = request[t]
    \/ Fresh(t)
    \/ /\ ~idle(t) /\ SameAsk(t)
       /\ request[t].op = "buyCredits" /\ request[t].at = "check" =>
             offerRow[request[t].arg] # None
       /\ \/ request[t].op = "enqueueBatch"
          \/ request'[t].at \in {"send", "pending", "orphan"}
          \/ request[t].op = "buyCredits" /\ request'[t].at = "update"
          \/ /\ transaction(t) /\ request[t].at = "pending" /\ request'[t].at = "applied"
             /\ request'[t].val = returned(request[t])
          \/ /\ request[t].at = "applied" /\ request'[t].at = "insert"
             /\ request'[t].val = request[t].val
          \/ /\ request[t].op = "retireCredit" /\ request[t].at = "insert"
             /\ request'[t].at = "update"

\* What the steps of handlers, network and restarts do to the requests.
LEMMA RequestMoves ==
    ASSUME TradesTypeOK, TradesStep, counter' \in Nat
    PROVE  /\ request' \in [Slots -> Asked \cup {NoRequest}]
           /\ \A t \in Slots : request'[t] # NoRequest => Moves(t)
  <1> DEFINE Fine == /\ request' \in [Slots -> Asked \cup {NoRequest}]
                     /\ \A t \in Slots : request'[t] # NoRequest => Moves(t)
  <1>0. request \in [Slots -> Asked \cup {NoRequest}]
    BY DEF TradesTypeOK
  <1>1. CASE UNCHANGED request
    BY <1>0, <1>1 DEF Moves
  <1>2. ASSUME NEW s \in Slots, ends(s)
        PROVE  Fine
    BY <1>0, <1>2 DEF ends, Moves
  <1>3. ASSUME NEW s \in Slots, asks(s)
        PROVE  Fine
    <2>1. PICK q \in Requests : begins(s, q, adminKey)
      BY <1>3 DEF asks
    <2> DEFINE new == [op |-> q.op, wallet |-> q.wallet, arg |-> q.arg,
                       key |-> adminKey, at |-> "check", val |-> 0]
    <2>2. new \in Asked /\ new.at = "check" /\ new.op = q.op /\ new.arg = q.arg
      BY DEF Asked, Stages, TradesTypeOK
    <2>3. request' = [request EXCEPT ![s] = new]
      BY <2>1 DEF begins
    <2> HIDE DEF new
    <2> QED
      BY <1>0, <2>2, <2>3 DEF Moves, Fresh
  <1>4. ASSUME NEW s \in Slots, checks(s)
        PROVE  Fine
    <2>1. CASE goes(s, "send")
      BY <1>4, <2>1, Going DEF checks, at, Stages, Moves
    <2>2. ASSUME NEW n \in 1..MaxOffers + 1, goes_with(s, "send", n)
          PROVE  Fine
      <3>1. n \in Nat
        BY MarketAssumption
      <3> QED
        BY <1>4, <2>2, <3>1, GoingWith DEF checks, at, Stages, Moves
    <2> QED
      BY <1>2, <1>4, <2>1, <2>2 DEF checks
  <1>5. ASSUME NEW s \in Slots, checksPurchase(s)
        PROVE  Fine
    <2>1. CASE may_buyCredits(request[s].wallet, request[s].arg) /\ goes(s, "send")
      BY <1>5, <2>1, Going DEF checksPurchase, at, Stages, Moves, may_buyCredits, active_offer
    <2>2. CASE may_buyCredits(request[s].wallet, request[s].arg) /\ goes(s, "update")
      BY <1>5, <2>2, Going DEF checksPurchase, at, Stages, Moves, may_buyCredits, active_offer
    <2> QED
      BY <1>2, <1>5, <2>1, <2>2 DEF checksPurchase
  <1>6. ASSUME NEW s \in Slots, settles(s)
        PROVE  Fine
    <2>1. CASE at(s, "send") /\ goes(s, "pending")
      BY <2>1, Going DEF at, Stages, Moves
    <2>2. CASE at(s, "applied") /\ goes(s, "insert")
      BY <2>2, Going DEF at, Stages, Moves
    <2>3. CASE at(s, "pending") /\ goes(s, "orphan")
      BY <2>3, Going DEF at, Stages, Moves
    <2> QED
      BY <1>2, <1>6, <2>1, <2>2, <2>3 DEF settles, invoke, wait_ends
  <1>7. ASSUME NEW s \in Slots, recordsRetirement(s)
        PROVE  Fine
    <2>1. CASE at(s, "insert") /\ goes(s, "update")
      BY <1>7, <2>1, Going DEF recordsRetirement, at, Stages, Moves
    <2> QED
      BY <1>2, <1>7, <2>1 DEF recordsRetirement
  <1>8. ASSUME NEW s \in Slots, enqueueBatch(s)
        PROVE  Fine
    <2>1. ~idle(s) /\ request[s].op = "enqueueBatch"
      BY <1>8 DEF enqueueBatch
    <2>2. ASSUME NEW i \in eligible(request[s].wallet, request[s].arg), goes_with(s, "tally", i)
          PROVE  Fine
      <3>1. i \in Nat
        BY <2>2 DEF eligible, TradesTypeOK
      <3> QED
        BY <2>1, <2>2, <3>1, GoingWith DEF Stages, Moves
    <2>3. ASSUME NEW stage \in {"insert", "update"}, goes(s, stage)
          PROVE  Fine
      BY <2>1, <2>3, Going DEF Stages, Moves
    <2> QED
      BY <1>2, <1>8, <2>2, <2>3 DEF enqueueBatch, issues
  <1>9. CASE restart
    <2>1. request' = [s \in Slots |->
              IF in_flight(s) THEN [request[s] EXCEPT !.at = "orphan"] ELSE NoRequest]
      BY <1>9 DEF restart, handlers_end
    <2>2. ASSUME NEW s \in Slots, in_flight(s)
          PROVE  request'[s] \in Asked /\ SameAsk(s) /\ request'[s].at = "orphan"
                 /\ ~idle(s) /\ request[s].at # "check"
      <3>1. request[s] \in Asked
        BY <1>0, <2>2 DEF in_flight, idle
      <3> QED
        BY <2>1, <2>2, <3>1 DEF in_flight, Asked, Stages, SameAsk
    <2> QED
      BY <2>1, <2>2 DEF Moves
  <1>10. ASSUME NEW s \in Slots, transaction(s)
        PROVE  Fine
    <2>1. ~idle(s) /\ request[s] \in Asked /\ request[s].at \in {"pending", "orphan"}
      BY <1>0, <1>10 DEF transaction, in_flight, idle
    <2> DEFINE v == returned(request[s])
               new == [request[s] EXCEPT !.at = "applied", !.val = v]
    <2>2. v \in Nat
      BY <2>1 DEF returned, Asked
    <2> HIDE DEF v
    <2>3. /\ new \in Asked /\ new.at = "applied" /\ new.val = v
          /\ new.op = request[s].op /\ new.wallet = request[s].wallet /\ new.arg = request[s].arg
      BY <2>1, <2>2 DEF Asked, Stages
    <2>4. request'[s] = IF at(s, "orphan") THEN NoRequest ELSE new
      BY <1>10 DEF transaction, enters_ledger, v, returned
    <2>5. \A t \in Slots \ {s} : request'[t] \in {request[t], NoRequest}
      BY <1>10 DEF transaction, enters_ledger
    <2>6. request' = [t \in Slots |-> request'[t]]
      BY <1>10 DEF transaction, enters_ledger
    <2> HIDE DEF new
    <2>7. request' \in [Slots -> Asked \cup {NoRequest}]
      BY <1>0, <2>3, <2>4, <2>5, <2>6
    <2>8. request'[s] # NoRequest => Moves(s)
      BY <1>10, <2>1, <2>3, <2>4 DEF Moves, SameAsk, at, v
    <2>9. \A t \in Slots \ {s} : request'[t] # NoRequest => Moves(t)
      BY <2>5 DEF Moves
    <2> QED
      BY <2>7, <2>8, <2>9
  <1> QED
    BY <1>1, <1>2, <1>3, <1>4, <1>5, <1>6, <1>7, <1>8, <1>9, <1>10
       DEF TradesStep, ApiTradesNext, apiTradesVars, HandlerStep, recordsPurchase, recordsOffer,
           recordsBridging, fails, transaction_lost, statement_fails, indexer_statement,
           direct_call

-----------------------------------------------------------------------------
(* The rows. *)

\* An offer's row is never removed.
LEMMA OfferRowMoves ==
    ASSUME TradesTypeOK, TradesStep
    PROVE  /\ offerRow' \in [OfferIds -> OfferRow \cup {None}]
           /\ \A o \in OfferIds : offerRow[o] # None => offerRow'[o] # None
  <1> DEFINE Fine == /\ offerRow' \in [OfferIds -> OfferRow \cup {None}]
                     /\ \A o \in OfferIds : offerRow[o] # None => offerRow'[o] # None
  <1>0. offerRow \in [OfferIds -> OfferRow \cup {None}] /\ None \notin OfferRow
    BY ApiTradesAssumption DEF TradesTypeOK
  <1>1. CASE UNCHANGED offerRow
    BY <1>0, <1>1
  <1>2. ASSUME NEW s \in Slots, recordsPurchase(s)
        PROVE  Fine
    <2>1. CASE at(s, "update") /\ offerRow' = [offerRow EXCEPT ![request[s].arg].status = "EXPIRED"]
      <3> DEFINE o == request[s].arg
                 new == [offerRow[o] EXCEPT !.status = "EXPIRED"]
      <3>1. o \in OfferIds /\ offerRow[o] \in OfferRow
        BY <1>0, <1>2, <2>1 DEF recordsPurchase, at, TradesTypeOK, fits
      <3>2. new \in OfferRow
        BY <3>1 DEF OfferRow
      <3>3. offerRow' = [offerRow EXCEPT ![o] = new]
        BY <2>1
      <3> HIDE DEF new
      <3> QED
        BY <1>0, <3>2, <3>3
    <2> QED
      BY <1>1, <1>2, <2>1 DEF recordsPurchase
  <1>3. ASSUME NEW s \in Slots, recordsOffer(s)
        PROVE  Fine
    <2> DEFINE r == request[s]
               new == [seller |-> r.wallet, credit |-> r.arg.credit, amount |-> r.arg.amount,
                       expiry |-> r.arg.expiry, status |-> "ACTIVE"]
    <2>1. r \in Asked /\ fits(r) /\ r.op = "createOffer"
      BY <1>3 DEF recordsOffer, at, idle, TradesTypeOK
    <2>2. new \in OfferRow
      BY <2>1 DEF OfferRow, Asked, fits
    <2>3. offerRow' \in {offerRow, [offerRow EXCEPT ![r.val] = new]}
      BY <1>3 DEF recordsOffer
    <2> HIDE DEF new
    <2> QED
      BY <1>0, <2>2, <2>3
  <1> QED
    BY <1>1, <1>2, <1>3
       DEF TradesStep, ApiTradesNext, apiTradesVars, rowVars, asks, HandlerStep, checks,
           checksPurchase, settles, recordsRetirement, recordsBridging, enqueueBatch,
           transaction, fails, restart, indexer_statement, direct_call

\* The retirement rows without the hashes of their certificates.
SameRetirements ==
    /\ DOMAIN retirementRow' = DOMAIN retirementRow
    /\ \A i \in DOMAIN retirementRow :
          /\ retirementRow'[i].credit = retirementRow[i].credit
          /\ retirementRow'[i].by = retirementRow[i].by
          /\ retirementRow'[i].beneficiary = retirementRow[i].beneficiary

row_of(r) == [credit |-> r.arg.credit_id, by |-> r.wallet,
              beneficiary |-> r.arg.beneficiary, hash |-> None]

\* Only the insert of a retirement adds a retirement row, its own.
LEMMA RetirementRowMoves ==
    ASSUME TradesTypeOK, TradesStep
    PROVE  /\ retirementRow' \in Seq(RetirementRow)
           /\ \/ SameRetirements
              \/ \E s \in Slots :
                    /\ at(s, "insert") /\ request[s].op = "retireCredit"
                    /\ goes(s, "update") \/ ends(s)
                    /\ retirementRow' = Append(retirementRow, row_of(request[s]))
  <1> DEFINE Fine ==
        /\ retirementRow' \in Seq(RetirementRow)
        /\ \/ SameRetirements
           \/ \E s \in Slots :
                 /\ at(s, "insert") /\ request[s].op = "retireCredit"
                 /\ goes(s, "update") \/ ends(s)
                 /\ retirementRow' = Append(retirementRow, row_of(request[s]))
  <1>0. retirementRow \in Seq(RetirementRow)
    BY DEF TradesTypeOK
  <1>1. CASE UNCHANGED retirementRow
    BY <1>0, <1>1 DEF SameRetirements
  <1>2. ASSUME NEW s \in Slots, recordsRetirement(s)
        PROVE  Fine
    <2>1. CASE at(s, "insert")
      <3> DEFINE r == request[s]
      <3>1. r \in Asked /\ fits(r) /\ r.op = "retireCredit"
        BY <1>2 DEF recordsRetirement, idle, TradesTypeOK
      <3>2. r.arg.credit_id \in CreditIds /\ retire_input(r.arg) \in RetireInputs
        BY <3>1 DEF fits
      <3>3. r.arg.beneficiary \in Beneficiaries
        <4>1. retire_input(r.arg).beneficiary \in Beneficiaries
          BY <3>2, TrackerAssumption
        <4> QED
          BY <4>1 DEF retire_input
      <3>4. row_of(r) \in RetirementRow
        BY <3>1, <3>2, <3>3 DEF row_of, RetirementRow, Asked
      <3>5. /\ retirementRow' = Append(retirementRow, row_of(r))
            /\ goes(s, "update") \/ ends(s)
        BY <1>2, <2>1 DEF recordsRetirement, row_of, at
      <3> QED
        BY <1>0, <2>1, <3>1, <3>4, <3>5
    <2>2. CASE ~at(s, "insert")
      BY <1>1, <1>2, <2>2 DEF recordsRetirement
    <2> QED
      BY <2>1, <2>2
  <1>3. ASSUME NEW s \in Slots, enqueueBatch(s)
        PROVE  Fine
    <2>1. CASE retirementRow' = [retirementRow EXCEPT ![request[s].val].hash = request[s].val]
      <3> DEFINE i == request[s].val
                 new == [retirementRow[i] EXCEPT !.hash = i]
      <3>1. i \in Nat
        BY <1>3 DEF enqueueBatch, idle, TradesTypeOK, Asked
      <3>2. retirementRow' = [retirementRow EXCEPT ![i] = new]
        BY <2>1
      <3>3. ASSUME i \in DOMAIN retirementRow
            PROVE  /\ new \in RetirementRow /\ new.credit = retirementRow[i].credit
                   /\ new.by = retirementRow[i].by
                   /\ new.beneficiary = retirementRow[i].beneficiary
        <4>1. retirementRow[i] \in RetirementRow
          BY <1>0, <3>3
        <4> QED
          BY <3>1, <4>1 DEF RetirementRow
      <3> HIDE DEF new
      <3>4. retirementRow' \in Seq(RetirementRow)
        <4>1. Len(retirementRow) \in Nat
              /\ retirementRow \in [1..Len(retirementRow) -> RetirementRow]
          BY <1>0
        <4>2. retirementRow' \in [1..Len(retirementRow) -> RetirementRow]
          BY <3>2, <3>3, <4>1
        <4> QED
          BY <4>1, <4>2
      <3> QED
        BY <1>0, <3>2, <3>3, <3>4 DEF SameRetirements
    <2> QED
      BY <1>1, <1>3, <2>1 DEF enqueueBatch, issues, stores_certificate, stores_hash
  <1> QED
    BY <1>1, <1>2, <1>3
       DEF TradesStep, ApiTradesNext, apiTradesVars, rowVars, asks, HandlerStep, checks,
           checksPurchase, settles, recordsPurchase, recordsOffer, recordsBridging,
           transaction, fails, restart, indexer_statement, direct_call

\* A row becomes RETIRED by a retirement that reached its last statement, or by
\* the indexer for a credit that was sent back.
LEMMA CreditRowMoves ==
    ASSUME TradesTypeOK, TradesStep
    PROVE  /\ DOMAIN creditRow' = CreditIds
           /\ \A c \in CreditIds :
                 creditRow'[c] # None /\ creditRow'[c].status = "RETIRED" =>
                    \/ creditRow[c] # None /\ creditRow[c].status = "RETIRED"
                    \/ \E s \in Slots : at(s, "update") /\ request[s].op = "retireCredit"
                                       /\ request[s].arg.credit_id = c
                    \/ c \in bridgedOut
  <1>0. DOMAIN creditRow = CreditIds
    BY DEF TradesTypeOK
  <1>1. CASE UNCHANGED creditRow
    BY <1>0, <1>1
  <1>2. ASSUME NEW s \in Slots, at(s, "update"), request[s].op = "retireCredit",
               creditRow' = [creditRow EXCEPT ![request[s].arg.credit_id].status = "RETIRED"]
        PROVE  /\ DOMAIN creditRow' = CreditIds
               /\ \A c \in CreditIds : creditRow'[c] = creditRow[c] \/ c = request[s].arg.credit_id
    BY <1>0, <1>2
  <1>3. ASSUME NEW d \in bridgedOut, creditRow' = [creditRow EXCEPT ![d].status = "RETIRED"]
        PROVE  /\ DOMAIN creditRow' = CreditIds
               /\ \A c \in CreditIds : creditRow'[c] = creditRow[c] \/ c = d
    BY <1>0, <1>3
  <1>4. CASE \E s \in Slots : recordsRetirement(s)
    BY <1>0, <1>1, <1>2, <1>4 DEF recordsRetirement
  <1>5. CASE indexer_statement
    BY <1>0, <1>1, <1>3, <1>5 DEF indexer_statement
  <1> QED
    BY <1>1, <1>4, <1>5
       DEF TradesStep, ApiTradesNext, apiTradesVars, rowVars, asks, HandlerStep, checks,
           checksPurchase, settles, recordsPurchase, recordsOffer, recordsBridging,
           enqueueBatch, transaction, fails, restart, direct_call

\* Requests and rows keep their types.
LEMMA TradesTypeStep == TradesTypeOK /\ counter' \in Nat /\ TradesStep => TradesTypeOK'
  <1> SUFFICES ASSUME TradesTypeOK, counter' \in Nat, TradesStep PROVE TradesTypeOK'
    OBVIOUS
  <1>1. adminKey' \in Accounts
    <2>1. CASE restart
      BY <2>1, ApiTradesAssumption DEF restart
    <2>2. CASE UNCHANGED adminKey
      BY <2>2 DEF TradesTypeOK
    <2> QED
      BY <2>1, <2>2
         DEF TradesStep, ApiTradesNext, apiTradesVars, asks, HandlerStep, checks,
             checksPurchase, settles, recordsPurchase, recordsOffer, recordsRetirement,
             recordsBridging, enqueueBatch, transaction, fails, indexer_statement, direct_call
  <1>2. ASSUME NEW t \in Slots, request'[t] # NoRequest
        PROVE  /\ fits(request'[t])
               /\ request'[t].op = "buyCredits" /\ request'[t].at # "check" =>
                     offerRow'[request'[t].arg] # None
    <2>1. Moves(t)
      BY <1>2, RequestMoves
    <2>2. \A o \in OfferIds : offerRow[o] # None => offerRow'[o] # None
      BY OfferRowMoves
    <2>3. CASE request'[t] = request[t]
      BY <1>2, <2>2, <2>3 DEF TradesTypeOK, idle, fits
    <2>4. CASE Fresh(t)
      <3>1. PICK q \in Requests :
               request'[t].op = q.op /\ request'[t].arg = q.arg /\ request'[t].at = "check"
        BY <2>4 DEF Fresh
      <3>2. fits(q)
        BY ApiTradesAssumption
      <3> QED
        BY <3>1, <3>2 DEF fits
    <2>5. CASE /\ ~idle(t) /\ SameAsk(t)
               /\ request[t].op = "buyCredits" /\ request[t].at = "check" =>
                     offerRow[request[t].arg] # None
      <3>1. fits(request[t]) /\ fits(request'[t])
        BY <2>5 DEF TradesTypeOK, SameAsk, fits
      <3>2. request[t].op = "buyCredits" =>
               request[t].arg \in OfferIds /\ offerRow[request[t].arg] # None
        BY <2>5, <3>1 DEF TradesTypeOK, fits
      <3> QED
        BY <2>2, <2>5, <3>1, <3>2 DEF SameAsk
    <2> QED
      BY <2>1, <2>3, <2>4, <2>5 DEF Moves
  <1> QED
    BY <1>1, <1>2, RequestMoves, OfferRowMoves, CreditRowMoves, RetirementRowMoves
       DEF TradesTypeOK, idle

-----------------------------------------------------------------------------
(* The contracts' records. *)

\* What the contracts keep of a retirement, an import and a departure stays.
LEMMA RecordsStay ==
    ASSUME Sound, SerialsInv, OnChainStep, NEW c \in CreditIds
    PROVE  /\ retirement[c] # None => retirement'[c] = retirement[c]
           /\ status[c] = "Retired" => status'[c] = "Retired"
           /\ origin[c] # None => origin'[c] = origin[c]
           /\ c \in bridgedOut => c \in bridgedOut'
  <1>1. status[c] = "Retired" => status'[c] = "Retired"
    <2>1. CASE Step
      BY <2>1, RetiredStays DEF Sound
    <2>2. CASE \E o \in Accounts : \E ids \in SUBSET CreditIds : Batch(o, ids)
      BY <2>2 DEF Batch
    <2> QED
      BY <2>1, <2>2, RegistrySees DEF Sound
  <1>2. retirement[c] # None => retirement'[c] = retirement[c]
    <2>1. CASE UNCHANGED trackerVars
      BY <2>1 DEF trackerVars
    <2>2. CASE TrackerNext
      <3>1. CASE tracker_init
        BY <3>1 DEF tracker_init
      <3>2. CASE \E o \in Accounts : \E ids \in SUBSET CreditIds : Batch(o, ids)
        BY <3>2 DEF Batch
      <3> QED
        BY <2>2, <3>1, <3>2, TrackerBatches DEF Sound
    <2> QED
      BY <2>1, <2>2 DEF OnChainStep, OnChainNext, onChainVars, trackerVars
  <1>3. /\ origin[c] # None => origin'[c] = origin[c]
        /\ c \in bridgedOut => c \in bridgedOut'
    <2>1. CASE UNCHANGED bridgeVars
      BY <2>1 DEF bridgeVars
    <2>2. ASSUME NEW b \in Accounts, NEW r \in Registries, NEW s \in Serials, NEW p \in Proofs,
                 NEW m \in Metadata, bridge_in(b, r, s, p, m)
          PROVE  /\ origin[c] # None => origin'[c] = origin[c]
                 /\ c \in bridgedOut => c \in bridgedOut'
      <3>1. /\ counter + 1 \in CreditIds /\ status[counter + 1] = "Absent"
            /\ origin' = [origin EXCEPT ![counter + 1] = <<r, s>>]
            /\ bridgedOut' = bridgedOut
        BY <2>2, NewId DEF bridge_in, mint_bridged, store_credit, Book, Sound
      <3>2. origin[c] # None => c # counter + 1
        BY <3>1 DEF SerialsInv
      <3> QED
        BY <3>1, <3>2 DEF SerialsInv
    <2>3. CASE BridgeNext
      BY <2>2, <2>3 DEF BridgeNext, bridge_init, update_registry_root, bridge_out
    <2> QED
      BY <2>1, <2>3 DEF OnChainStep, OnChainNext, onChainVars, bridgeVars
  <1> QED
    BY <1>1, <1>2, <1>3

\* What holds of the contracts and of the requests at every step.
TradesSound == TradesTypeOK /\ Sound /\ RetiredOnce /\ SerialsInv

\* An instance with credits already issued or imported is a sound one.
LEMMA TradesStart ==
    ASSUME ApiTradesInit
    PROVE  TradesSound
  <1>0. PICK adm \in Admins :
           /\ adminKey = adm
           /\ config = [admin |-> adm, verifier_threshold |-> 1, verifier_quorum |-> 1,
                        params |-> DefaultParams]
           /\ IssuedState(adm) \/ ImportedState(adm)
    BY DEF ApiTradesInit
  <1>1. 1 \in CreditIds /\ 2 \in CreditIds /\ adm \in Address /\ Voters \subseteq Address
    BY <1>0, RegistryAssumption, ApiTradesAssumption DEF CreditIds, Address
  <1>2. config \in Config /\ None \notin Address
    BY <1>0, RegistryAssumption, ApiTradesAssumption, DefaultParamsAssumption DEF Config, VoteCount
  <1>3. OffersTypeOK
    BY MarketAssumption DEF ApiTradesInit, OffersTypeOK, OfferIds
  <1>4. TradesTypeOK
    <2>1. DOMAIN creditRow = CreditIds
      BY <1>0 DEF IssuedState, ImportedState
    <2>2. retirementRow \in Seq(RetirementRow)
      BY DEF ApiTradesInit
    <2> QED
      BY <1>0, <2>1, <2>2, RegistryAssumption DEF ApiTradesInit, TradesTypeOK, idle
  <1>5. CASE IssuedState(adm)
    <2>0. PICK m \in Metadata, v \in Voters :
            /\ counter = 1
            /\ status = [c \in CreditIds |-> IF c = 1 THEN "Active" ELSE "Absent"]
            /\ token = [c \in CreditIds |-> IF c = 1 THEN 1 ELSE 0]
            /\ metadata = [c \in CreditIds |-> IF c = 1 THEN m ELSE None]
            /\ owner = [c \in CreditIds |-> IF c = 1 THEN adm ELSE None]
            /\ votes = [c \in CreditIds |->
                  IF c = 1 THEN <<[verifier |-> v, approved |-> TRUE]>> ELSE << >>]
            /\ issuerList = [a \in Address |-> IF a = adm THEN <<1>> ELSE << >>]
            /\ ownerList = [a \in Address |-> IF a = adm THEN {1} ELSE {}]
            /\ bridged = {} /\ origin = [c \in CreditIds |-> None]
            /\ creditRow = [c \in CreditIds |->
                  IF c = 1 THEN [status |-> "ACTIVE", owner |-> adm] ELSE None]
            /\ bridgeRow = [k \in Registries \X Serials |-> None]
      BY <1>5 DEF IssuedState
    <2>1. RegistryTypeOK
      <3> DEFINE new == [verifier |-> v, approved |-> TRUE]
      <3>1. new \in Vote
        BY <1>1 DEF Vote
      <3> HIDE DEF new
      <3>2. <<new>> \in Seq(Vote)
        BY <3>1
      <3>3. votes = [c \in CreditIds |-> IF c = 1 THEN <<new>> ELSE << >>]
        BY <2>0 DEF new
      <3>4. votes \in [CreditIds -> Seq(Vote)]
        BY <3>2, <3>3
      <3>5. /\ counter \in 0..MaxCredits
            /\ status \in [CreditIds -> Status \cup {"Absent"}]
            /\ token \in [CreditIds -> {0} \cup CreditIds]
        BY <1>1, <2>0, RegistryAssumption, ApiTradesAssumption DEF Status
      <3>6. /\ metadata \in [CreditIds -> Metadata \cup {None}]
            /\ owner \in [CreditIds -> Address \cup {None}]
            /\ issuerList \in [Address -> Seq(CreditIds)]
            /\ ownerList \in [Address -> SUBSET CreditIds]
        BY <1>1, <2>0
      <3>7. verifiers \in SUBSET Voters /\ bridges \in SUBSET BridgeContracts
            /\ retirers \in SUBSET RetirerContracts
        BY TrackerAssumption, BridgeAssumption DEF ApiTradesInit
      <3> QED
        BY <1>2, <3>4, <3>5, <3>6, <3>7 DEF RegistryTypeOK
    <2>2. Book
      <3>1. IdsUsedOnce
        BY <1>1, <2>0 DEF IdsUsedOnce, exists, CreditIds
      <3>2. OwnerFindsCredit /\ TokenIffMinted
        BY <1>1, <2>0 DEF OwnerFindsCredit, TokenIffMinted, exists
      <3>3. UnmintedStaysWithIssuer
        BY <1>1, <2>0 DEF UnmintedStaysWithIssuer, issued
      <3> QED
        BY <3>1, <3>2, <3>3 DEF Book
    <2>3. RetiredOnce
      BY <2>0 DEF ApiTradesInit, RetiredOnce, is_retired
    <2>4. SerialsInv
      BY <2>0 DEF SerialsInv, OneCreditPerSerial
    <2> QED
      BY <1>3, <1>4, <2>1, <2>2, <2>3, <2>4 DEF TradesSound, Sound
  <1>6. CASE ImportedState(adm)
    <2>0. PICK m \in Metadata, at0 \in Registries \X Serials :
            /\ counter = 2
            /\ status = [c \in CreditIds |->
                  CASE c = 1 -> "Active" [] c = 2 -> "Pending" [] OTHER -> "Absent"]
            /\ token = [c \in CreditIds |-> IF c = 1 THEN 1 ELSE 0]
            /\ metadata = [c \in CreditIds |-> IF c <= 2 THEN m ELSE None]
            /\ owner = [c \in CreditIds |-> IF c <= 2 THEN adm ELSE None]
            /\ votes = [c \in CreditIds |-> << >>]
            /\ issuerList = [a \in Address |-> IF a = adm THEN <<2>> ELSE << >>]
            /\ ownerList = [a \in Address |-> IF a = adm THEN {1, 2} ELSE {}]
            /\ bridged = {at0} /\ origin = [c \in CreditIds |-> IF c = 1 THEN at0 ELSE None]
      BY <1>6, Zenon DEF ImportedState
    <2>1. \A c \in CreditIds : c <= 2 <=> c = 1 \/ c = 2
      BY DEF CreditIds
    <2>2. RegistryTypeOK
      <3>1. /\ counter \in 0..MaxCredits
            /\ status \in [CreditIds -> Status \cup {"Absent"}]
            /\ token \in [CreditIds -> {0} \cup CreditIds]
        BY <1>1, <2>0, RegistryAssumption, ApiTradesAssumption DEF Status
      <3>2. /\ metadata \in [CreditIds -> Metadata \cup {None}]
            /\ owner \in [CreditIds -> Address \cup {None}]
            /\ votes \in [CreditIds -> Seq(Vote)]
            /\ issuerList \in [Address -> Seq(CreditIds)]
            /\ ownerList \in [Address -> SUBSET CreditIds]
        BY <1>1, <2>0
      <3>3. verifiers \in SUBSET Voters /\ bridges \in SUBSET BridgeContracts
            /\ retirers \in SUBSET RetirerContracts
        BY TrackerAssumption, BridgeAssumption DEF ApiTradesInit
      <3> QED
        BY <1>2, <3>1, <3>2, <3>3 DEF RegistryTypeOK
    <2>3. Book
      <3>1. IdsUsedOnce
        BY <1>1, <2>0, <2>1 DEF IdsUsedOnce, exists
      <3>2. OwnerFindsCredit /\ TokenIffMinted
        BY <1>1, <2>0, <2>1 DEF OwnerFindsCredit, TokenIffMinted, exists
      <3>3. UnmintedStaysWithIssuer
        BY <1>1, <2>0, <2>1 DEF UnmintedStaysWithIssuer, issued
      <3> QED
        BY <3>1, <3>2, <3>3 DEF Book
    <2>4. RetiredOnce
      BY <2>0 DEF ApiTradesInit, RetiredOnce, is_retired
    <2>5. SerialsInv
      BY <2>0 DEF SerialsInv, OneCreditPerSerial
    <2> QED
      BY <1>3, <1>4, <2>2, <2>3, <2>4, <2>5 DEF TradesSound, Sound
  <1> QED
    BY <1>0, <1>5, <1>6

\* The contracts' own invariants hold behind the API.
LEMMA TradesSoundStep == TradesSound /\ TradesStep => TradesSound'
  <1> SUFFICES ASSUME TradesSound, TradesStep PROVE TradesSound'
    OBVIOUS
  <1> USE DEF TradesSound
  <1>1. OnChainStep
    BY ContractsKept
  <1>2. Sound' /\ RetiredOnce' /\ SerialsInv'
    BY <1>1, SoundStep, RetiredOnceStep, SerialsStep
  <1>3. counter' \in Nat
    BY <1>2, RegistryAssumption DEF Sound, RegistryTypeOK
  <1> QED
    BY <1>2, <1>3, TradesTypeStep

-----------------------------------------------------------------------------
(* Retirement rows. *)

\* The tracker holds a record of the credit c, by w for b.
Recorded(c, w, b) ==
    is_retired(c) /\ retirement[c].retired_by = w /\ retirement[c].beneficiary = b

\* A retirement that was applied and has no row yet.
RowIsDue(s) == /\ ~idle(s) /\ request[s].op = "retireCredit"
               /\ request[s].at \in {"applied", "insert"}

\* Retirement rows are records of the tracker, one for each; a row that is due
\* is one too, is not there yet, and is due to one request; a status about to be
\* written follows a record.
RetireInv ==
    /\ \A i \in DOMAIN retirementRow :
          Recorded(retirementRow[i].credit, retirementRow[i].by, retirementRow[i].beneficiary)
    /\ \A i, j \in DOMAIN retirementRow : retirementRow[i].credit = retirementRow[j].credit => i = j
    /\ \A s \in Slots : RowIsDue(s) =>
          /\ Recorded(request[s].arg.credit_id, request[s].wallet, request[s].arg.beneficiary)
          /\ \A i \in DOMAIN retirementRow : retirementRow[i].credit # request[s].arg.credit_id
    /\ \A s, t \in Slots : RowIsDue(s) /\ RowIsDue(t)
             /\ request[s].arg.credit_id = request[t].arg.credit_id => s = t
    /\ \A s \in Slots : at(s, "update") /\ request[s].op = "retireCredit" =>
          is_retired(request[s].arg.credit_id)
    /\ \A c \in CreditIds :
          creditRow[c] # None /\ creditRow[c].status = "RETIRED" => status[c] = "Retired"

\* Retiring one credit leaves its record, where there was none.
LEMMA OneRetired ==
    ASSUME NEW o \in Accounts, NEW x \in RetireInputs, retire(o, x),
           NEW c \in CreditIds, c = x.credit_id
    PROVE  /\ ~is_retired(c)
           /\ retirement'[c] = [retired_by |-> o, beneficiary |-> x.beneficiary,
                                reason |-> x.reason, accounting_period |-> x.accounting_period]
  <1> DEFINE inputs == <<x>>
  <1>1. retire_each(o, inputs)
    BY DEF retire
  <1>2. inputs[1] = x /\ 1 \in 1..Len(inputs) /\ \A i \in 1..Len(inputs) : i = 1
    OBVIOUS
  <1> HIDE DEF inputs
  <1>3. may_retire(o, inputs[1])
    BY <1>1, <1>2 DEF retire_each
  <1>4. ~is_retired(c)
    BY <1>2, <1>3 DEF may_retire
  <1>5. (CHOOSE i \in 1..Len(inputs) : inputs[i].credit_id = c) = 1
    BY <1>2
  <1>6. c \in {inputs[i].credit_id : i \in 1..Len(inputs)}
    BY <1>2
  <1> QED
    BY <1>1, <1>2, <1>4, <1>5, <1>6 DEF retire_each

\* A retirement's transaction leaves the record its row is to say.
LEMMA RetirementArrives ==
    ASSUME TradesSound, NEW s \in Slots, transaction(s), request[s].op = "retireCredit",
           NEW c \in CreditIds, c = request[s].arg.credit_id
    PROVE  /\ ~is_retired(c)
           /\ retirement'[c].retired_by = request[s].wallet
           /\ retirement'[c].beneficiary = request[s].arg.beneficiary
           /\ retirement'[c] # None
  <1> DEFINE r == request[s]
             x == retire_input(r.arg)
  <1>1. x.credit_id = c /\ x.beneficiary = r.arg.beneficiary
    BY DEF retire_input
  <1>2. retire(r.wallet, x) /\ r.wallet = r.key
    BY DEF transaction, createOffer, buyCredits, retireCredit, bridgeIn, bridgeOut
  <1>3. r.key \in Accounts /\ fits(r)
    BY DEF transaction, in_flight, idle, TradesSound, TradesTypeOK, Asked
  <1>4. x \in RetireInputs
    BY <1>3 DEF fits
  <1> HIDE DEF x
  <1>5. /\ ~is_retired(c)
        /\ retirement'[c] = [retired_by |-> r.wallet, beneficiary |-> x.beneficiary,
                             reason |-> x.reason, accounting_period |-> x.accounting_period]
    BY <1>1, <1>2, <1>3, <1>4, OneRetired
  <1>6. retirement'[c] # None
    BY <1>2, <1>3, <1>4, <1>5, TrackerAssumption
  <1> QED
    BY <1>1, <1>5, <1>6

\* A row becomes due only in the transaction of its retirement.
LEMMA DueMoves ==
    ASSUME TradesSound, TradesStep, counter' \in Nat, NEW t \in Slots, RowIsDue(t)'
    PROVE  /\ SameAsk(t) /\ request[t].arg.credit_id \in CreditIds
           /\ RowIsDue(t) \/ (transaction(t) /\ request[t].op = "retireCredit")
  <1>1. /\ request'[t] # NoRequest /\ request'[t].op = "retireCredit"
        /\ request'[t].at \in {"applied", "insert"}
    BY DEF RowIsDue, idle
  <1>2. Moves(t)
    BY <1>1, RequestMoves DEF TradesSound
  <1>3. /\ ~idle(t) /\ SameAsk(t)
        /\ RowIsDue(t) \/ (transaction(t) /\ request[t].op = "retireCredit")
    BY <1>1, <1>2 DEF Moves, Fresh, SameAsk, RowIsDue, idle
  <1>4. request[t].arg.credit_id \in CreditIds
    BY <1>1, <1>3 DEF TradesSound, TradesTypeOK, SameAsk, fits
  <1> QED
    BY <1>3, <1>4

\* A slot whose request is due was moved by its own transaction or was due already.
LEMMA DueKnown ==
    ASSUME TradesSound, RetireInv, TradesStep, counter' \in Nat, OnChainStep,
           NEW t \in Slots, RowIsDue(t)', NEW c \in CreditIds, c = request[t].arg.credit_id
    PROVE  /\ retirement'[c] # None
           /\ retirement'[c].retired_by = request[t].wallet
           /\ retirement'[c].beneficiary = request[t].arg.beneficiary
           /\ \A i \in DOMAIN retirementRow : retirementRow[i].credit # c
           /\ RowIsDue(t) \/ (transaction(t) /\ ~is_retired(c))
  <1>1. CASE RowIsDue(t)
    <2>1. Recorded(c, request[t].wallet, request[t].arg.beneficiary)
          /\ \A i \in DOMAIN retirementRow : retirementRow[i].credit # c
      BY <1>1 DEF RetireInv
    <2>2. retirement'[c] = retirement[c]
      BY <2>1, RecordsStay DEF TradesSound, Recorded, is_retired
    <2> QED
      BY <1>1, <2>1, <2>2 DEF Recorded, is_retired
  <1>2. CASE transaction(t) /\ request[t].op = "retireCredit"
    <2>1. /\ ~is_retired(c) /\ retirement'[c] # None
          /\ retirement'[c].retired_by = request[t].wallet
          /\ retirement'[c].beneficiary = request[t].arg.beneficiary
      BY <1>2, RetirementArrives
    <2>2. \A i \in DOMAIN retirementRow : retirementRow[i].credit # c
      BY <2>1 DEF RetireInv, Recorded
    <2> QED
      BY <1>2, <2>1, <2>2
  <1> QED
    BY <1>1, <1>2, DueMoves

\* One transaction enters the ledger at a time.
LEMMA OneTransaction ==
    ASSUME NEW s \in Slots, transaction(s), NEW t \in Slots, transaction(t),
           request'[t] # NoRequest, request'[t].at \in {"applied", "insert"}
    PROVE  t = s
  <1>1. request[t].at \in {"pending", "orphan"}
    BY DEF transaction, in_flight
  <1>2. t # s => request'[t] \in {NoRequest, request[t]}
    BY DEF transaction, enters_ledger
  <1> QED
    BY <1>1, <1>2

\* No two requests are due to insert a row of one credit: the tracker took one
\* of their transactions, and the other one's would have panicked.
LEMMA DueOnce ==
    ASSUME TradesSound, RetireInv, TradesStep, counter' \in Nat, OnChainStep,
           NEW t \in Slots, NEW u \in Slots, RowIsDue(t)', RowIsDue(u)',
           request[t].arg.credit_id = request[u].arg.credit_id
    PROVE  t = u
  <1> DEFINE c == request[t].arg.credit_id
  <1>1. c \in CreditIds /\ c = request[u].arg.credit_id
    BY DueMoves
  <1> HIDE DEF c
  <1>2. /\ RowIsDue(t) \/ (transaction(t) /\ ~is_retired(c))
        /\ RowIsDue(u) \/ (transaction(u) /\ ~is_retired(c))
    BY <1>1, DueKnown DEF c
  <1>3. /\ RowIsDue(t) => is_retired(c)
        /\ RowIsDue(u) => is_retired(c)
    BY <1>1 DEF RetireInv, Recorded, c
  <1>4. CASE RowIsDue(t) /\ RowIsDue(u)
    BY <1>4 DEF RetireInv
  <1>5. CASE transaction(t) /\ transaction(u)
    BY <1>5, OneTransaction DEF RowIsDue, idle
  <1> QED
    BY <1>2, <1>3, <1>4, <1>5

\* What is about to be written as RETIRED is.
LEMMA UpdateFollowsRecord ==
    ASSUME TradesSound, RetireInv, TradesStep, counter' \in Nat, OnChainStep,
           NEW t \in Slots, request'[t] # NoRequest, request'[t].at = "update",
           request'[t].op = "retireCredit", NEW c, c = request'[t].arg.credit_id
    PROVE  c \in CreditIds /\ retirement'[c] # None
  <1>1. Moves(t)
    BY RequestMoves DEF TradesSound
  <1>2. ~idle(t) /\ SameAsk(t) /\ (request[t].at = "update" \/ request[t].at = "insert")
    BY <1>1 DEF Moves, Fresh, SameAsk, idle
  <1>3. c = request[t].arg.credit_id /\ request[t].op = "retireCredit" /\ c \in CreditIds
    BY <1>2 DEF SameAsk, TradesSound, TradesTypeOK, fits
  <1>4. is_retired(c)
    BY <1>2, <1>3 DEF RetireInv, RowIsDue, Recorded, at
  <1> QED
    BY <1>3, <1>4, RecordsStay DEF TradesSound, is_retired

\* The service's check may be stale when its transaction goes out; what keeps
\* the rows true is that the tracker retires a credit only once, for its owner.
LEMMA RetireInvStep == TradesSound /\ TradesSound' /\ RetireInv /\ TradesStep => RetireInv'
  <1> SUFFICES ASSUME TradesSound, TradesSound', RetireInv, TradesStep PROVE RetireInv'
    OBVIOUS
  <1> DEFINE Recorded2(c, w, b) == /\ retirement'[c] # None
                                   /\ retirement'[c].retired_by = w
                                   /\ retirement'[c].beneficiary = b
  <1> DEFINE Rows2 ==
        /\ \A i \in DOMAIN retirementRow' :
              Recorded2(retirementRow'[i].credit, retirementRow'[i].by,
                        retirementRow'[i].beneficiary)
        /\ \A i, j \in DOMAIN retirementRow' :
              retirementRow'[i].credit = retirementRow'[j].credit => i = j
        /\ \A t \in Slots : RowIsDue(t)' =>
              \A i \in DOMAIN retirementRow' :
                 retirementRow'[i].credit # request[t].arg.credit_id
  <1>1. OnChainStep /\ counter' \in Nat
    BY ContractsKept, RegistryAssumption DEF TradesSound, Sound, RegistryTypeOK
  <1>2. ASSUME NEW i \in DOMAIN retirementRow
        PROVE  /\ retirementRow[i].credit \in CreditIds
               /\ Recorded2(retirementRow[i].credit, retirementRow[i].by,
                            retirementRow[i].beneficiary)
    <2>1. retirementRow[i] \in RetirementRow
      BY DEF TradesSound, TradesTypeOK
    <2>2. retirementRow[i].credit \in CreditIds
      BY <2>1 DEF RetirementRow
    <2>3. retirement[retirementRow[i].credit] # None
          /\ retirement'[retirementRow[i].credit] = retirement[retirementRow[i].credit]
      BY <1>1, <2>2, RecordsStay DEF TradesSound, RetireInv, Recorded, is_retired
    <2> QED
      BY <2>2, <2>3 DEF RetireInv, Recorded
  <1>3. Rows2
    <2>1. CASE SameRetirements
      <3>1. \A t \in Slots : RowIsDue(t)' =>
               \A i \in DOMAIN retirementRow :
                  retirementRow[i].credit # request[t].arg.credit_id
        BY <1>1, DueKnown, DueMoves
      <3> QED
        BY <1>2, <2>1, <3>1 DEF SameRetirements, RetireInv
    <2>2. ASSUME NEW s \in Slots, at(s, "insert"), request[s].op = "retireCredit",
                 goes(s, "update") \/ ends(s),
                 retirementRow' = Append(retirementRow, row_of(request[s]))
          PROVE  Rows2
      <3> DEFINE n == Len(retirementRow)
                 new == row_of(request[s])
      <3>1. RowIsDue(s)
        BY <2>2 DEF RowIsDue, at
      <3>2. /\ new.credit = request[s].arg.credit_id /\ new.by = request[s].wallet
            /\ new.beneficiary = request[s].arg.beneficiary /\ new.credit \in CreditIds
        BY <3>1 DEF row_of, RowIsDue, TradesSound, TradesTypeOK, fits
      <3>3. Recorded2(new.credit, new.by, new.beneficiary)
        BY <1>1, <3>1, <3>2, RecordsStay DEF TradesSound, RetireInv, Recorded, is_retired
      <3>4. \A i \in DOMAIN retirementRow : retirementRow[i].credit # new.credit
        BY <3>1, <3>2 DEF RetireInv
      <3> HIDE DEF new
      <3>5. /\ n \in Nat /\ DOMAIN retirementRow = 1..n
            /\ DOMAIN retirementRow' = 1..(n + 1)
            /\ retirementRow'[n + 1] = new
            /\ \A i \in 1..n : retirementRow'[i] = retirementRow[i]
        BY <2>2 DEF TradesSound, TradesTypeOK, new
      <3>6. ASSUME NEW t \in Slots, RowIsDue(t)'
            PROVE  RowIsDue(t) /\ request[t].arg.credit_id # new.credit
        <4>1. request'[t] # NoRequest /\ request'[t].at \in {"applied", "insert"}
          BY <3>6 DEF RowIsDue, idle
        <4>2. t # s
          BY <2>2, <4>1, Going DEF at, Stages, ends, TradesSound, TradesTypeOK
        <4>3. request'[t] = request[t]
          BY <2>2, <4>2, Going DEF at, Stages, ends, TradesSound, TradesTypeOK
        <4>4. RowIsDue(t)
          BY <3>6, <4>3 DEF RowIsDue, idle
        <4> QED
          BY <3>1, <3>2, <4>2, <4>4 DEF RetireInv
      <3>7. \A i \in 1..n + 1 : i \in 1..n \/ i = n + 1
        BY <3>5
      <3> HIDE DEF n
      <3>8. \A i \in DOMAIN retirementRow' :
               Recorded2(retirementRow'[i].credit, retirementRow'[i].by,
                         retirementRow'[i].beneficiary)
        BY <1>2, <3>3, <3>5, <3>7
      <3>9. \A i, j \in DOMAIN retirementRow' :
               retirementRow'[i].credit = retirementRow'[j].credit => i = j
        BY <3>4, <3>5, <3>7 DEF RetireInv
      <3>10. \A t \in Slots : RowIsDue(t)' =>
               \A i \in DOMAIN retirementRow' :
                  retirementRow'[i].credit # request[t].arg.credit_id
        BY <3>5, <3>6, <3>7 DEF RetireInv
      <3> QED
        BY <3>8, <3>9, <3>10
    <2> QED
      BY <2>1, <2>2, RetirementRowMoves DEF TradesSound
  <1>4. \A t \in Slots : RowIsDue(t)' =>
           /\ SameAsk(t) /\ request[t].arg.credit_id \in CreditIds
           /\ Recorded2(request[t].arg.credit_id, request[t].wallet,
                        request[t].arg.beneficiary)
    BY <1>1, DueMoves, DueKnown
  <1>5. \A t, u \in Slots :
           RowIsDue(t)' /\ RowIsDue(u)'
             /\ request[t].arg.credit_id = request[u].arg.credit_id => t = u
    BY <1>1, DueOnce
  <1>6. \A t \in Slots : at(t, "update")' /\ request'[t].op = "retireCredit" =>
           retirement'[request'[t].arg.credit_id] # None
    BY <1>1, UpdateFollowsRecord DEF at, idle
  <1>7. ASSUME NEW c \in CreditIds, creditRow'[c] # None, creditRow'[c].status = "RETIRED"
        PROVE  status'[c] = "Retired"
    <2> SUFFICES status[c] = "Retired"
      BY <1>1, RecordsStay DEF TradesSound
    <2>1. CASE creditRow[c] # None /\ creditRow[c].status = "RETIRED"
      BY <2>1 DEF RetireInv
    <2>2. CASE \E s \in Slots : at(s, "update") /\ request[s].op = "retireCredit"
                             /\ request[s].arg.credit_id = c
      BY <2>2 DEF RetireInv, TradesSound, RetiredOnce
    <2>3. CASE c \in bridgedOut
      BY <2>3 DEF TradesSound, RetiredOnce
    <2> QED
      BY <1>7, <2>1, <2>2, <2>3, CreditRowMoves DEF TradesSound
  <1> QED
    BY <1>3, <1>4, <1>5, <1>6, <1>7 DEF RetireInv, Recorded, is_retired, SameAsk

\* The contracts and the requests, in every reachable state.
THEOREM TradesAreSound == ApiTradesSpec => []TradesSound
  BY TradesStart, TradesSoundStep, PTL DEF ApiTradesSpec, TradesStep

\* A retirement row is a record of the tracker, its wallet's and its
\* beneficiary's, and the only one of its credit; a row that reads RETIRED is of
\* a retired credit.
THEOREM RetirementRowsAreTrue == ApiTradesSpec => []RetirementRowsTrue
  <1>1. ApiTradesInit => RetireInv
    <2> SUFFICES ASSUME ApiTradesInit PROVE RetireInv
      OBVIOUS
    <2>1. DOMAIN retirementRow = {}
      BY DEF ApiTradesInit
    <2>2. \A s \in Slots : idle(s)
      BY DEF ApiTradesInit, idle
    <2>3. \A c \in CreditIds : creditRow[c] # None => creditRow[c].status # "RETIRED"
      BY DEF ApiTradesInit, IssuedState, ImportedState
    <2> QED
      BY <2>1, <2>2, <2>3 DEF RetireInv, RowIsDue, at
  <1>2. RetireInv => RetirementRowsTrue
    BY DEF RetireInv, RetirementRowsTrue, Recorded
  <1> QED
    BY <1>1, <1>2, TradesAreSound, RetireInvStep, PTL DEF ApiTradesSpec, TradesStep

-----------------------------------------------------------------------------
(* Certificates. *)

batching(s) == ~idle(s) /\ request[s].op = "enqueueBatch"

\* A certificate has its retirement row, a row that shows a hash has its
\* certificate, and a batch on its way knows one of the rows; when it comes to
\* write the hash, the certificate is there.
CertInv ==
    /\ certificates \subseteq DOMAIN retirementRow
    /\ \A i \in DOMAIN retirementRow : retirementRow[i].hash # None =>
          retirementRow[i].hash = i /\ i \in certificates
    /\ \A s \in Slots : batching(s) =>
          /\ request[s].at \in {"check", "tally", "insert", "update"}
          /\ request[s].at # "check" => request[s].val \in DOMAIN retirementRow
          /\ request[s].at = "update" => request[s].val \in certificates

\* Nobody but its own handler moves a batch on; a restart or a failing statement
\* may end it.
LEMMA BatchesAreOwn ==
    ASSUME TradesTypeOK, TradesStep, NEW t \in Slots, batching(t), ~enqueueBatch(t),
           request[t].at \in {"check", "tally", "insert", "update"}
    PROVE  request'[t] \in {request[t], NoRequest}
  <1>0. request \in [Slots -> Asked \cup {NoRequest}] /\ ~in_flight(t)
    BY DEF TradesTypeOK, in_flight
  <1>1. ASSUME NEW s \in Slots, ends(s)
        PROVE  request'[t] \in {request[t], NoRequest}
    BY <1>0, <1>1 DEF ends
  <1>2. ASSUME NEW s \in Slots, s # t, NEW stage \in Stages, goes(s, stage)
        PROVE  request'[t] = request[t]
    BY <1>0, <1>2 DEF goes
  <1>3. ASSUME NEW s \in Slots, s # t, NEW stage \in Stages, NEW v, goes_with(s, stage, v)
        PROVE  request'[t] = request[t]
    BY <1>0, <1>3 DEF goes_with
  <1>4. ASSUME NEW s \in Slots, asks(s)
        PROVE  request'[t] = request[t]
    BY <1>0, <1>4 DEF asks, begins, batching
  <1>5. ASSUME NEW s \in Slots, checks(s)
        PROVE  request'[t] \in {request[t], NoRequest}
    <2>1. s # t
      BY <1>5 DEF checks, batching
    <2> QED
      BY <1>1, <1>2, <1>3, <1>5, <2>1 DEF checks, Stages
  <1>6. ASSUME NEW s \in Slots, checksPurchase(s)
        PROVE  request'[t] \in {request[t], NoRequest}
    <2>1. s # t
      BY <1>6 DEF checksPurchase, batching
    <2> QED
      BY <1>1, <1>2, <1>6, <2>1 DEF checksPurchase, Stages
  <1>7. ASSUME NEW s \in Slots, settles(s)
        PROVE  request'[t] \in {request[t], NoRequest}
    <2>1. s # t
      BY <1>7 DEF settles, invoke, wait_ends, at
    <2> QED
      BY <1>1, <1>2, <1>7, <2>1 DEF settles, invoke, wait_ends, Stages
  <1>8. ASSUME NEW s \in Slots, recordsRetirement(s)
        PROVE  request'[t] \in {request[t], NoRequest}
    <2>1. s # t
      BY <1>8 DEF recordsRetirement, batching
    <2> QED
      BY <1>1, <1>2, <1>8, <2>1 DEF recordsRetirement, Stages
  <1>9. ASSUME NEW s \in Slots, enqueueBatch(s)
        PROVE  request'[t] \in {request[t], NoRequest}
    <2>1. s # t
      BY <1>9
    <2> QED
      BY <1>1, <1>2, <1>3, <1>9, <2>1 DEF enqueueBatch, issues, Stages
  <1>10. ASSUME NEW s \in Slots, transaction(s)
        PROVE  request'[t] \in {request[t], NoRequest}
    BY <1>0, <1>10 DEF transaction, enters_ledger
  <1>11. CASE restart
    BY <1>0, <1>11 DEF restart, handlers_end
  <1>12. CASE UNCHANGED request
    BY <1>12
  <1> QED
    BY <1>1, <1>4, <1>5, <1>6, <1>7, <1>8, <1>9, <1>10, <1>11, <1>12
       DEF TradesStep, ApiTradesNext, apiTradesVars, HandlerStep, recordsPurchase, recordsOffer,
           recordsBridging, fails, transaction_lost, statement_fails, indexer_statement,
           direct_call

\* A step that no batch takes leaves the certificates, and adds at most a row
\* without a hash.
LEMMA CertificatesStay ==
    ASSUME TradesTypeOK, TradesStep, ~ \E s \in Slots : enqueueBatch(s)
    PROVE  /\ certificates' = certificates
           /\ \/ retirementRow' = retirementRow
              \/ \E s \in Slots : retirementRow' = Append(retirementRow, row_of(request[s]))
  BY DEF TradesStep, ApiTradesNext, apiTradesVars, rowVars, asks, HandlerStep, checks,
         checksPurchase, settles, recordsPurchase, recordsOffer, recordsRetirement,
         recordsBridging, transaction, fails, restart, indexer_statement, direct_call, row_of

\* The rows that are there stay, with their hashes, when a row is added.
LEMMA RowAdded ==
    ASSUME TradesTypeOK, NEW s \in Slots,
           retirementRow' = Append(retirementRow, row_of(request[s]))
    PROVE  /\ DOMAIN retirementRow \subseteq DOMAIN retirementRow'
           /\ \A i \in DOMAIN retirementRow : retirementRow'[i] = retirementRow[i]
           /\ \A i \in DOMAIN retirementRow' \ DOMAIN retirementRow : retirementRow'[i].hash = None
  <1> DEFINE n == Len(retirementRow)
             new == row_of(request[s])
  <1>1. new.hash = None
    BY DEF row_of
  <1> HIDE DEF new
  <1>2. retirementRow \in Seq(RetirementRow) /\ n \in Nat /\ DOMAIN retirementRow = 1..n
    BY DEF TradesTypeOK
  <1>3. /\ DOMAIN retirementRow' = 1..(n + 1)
        /\ retirementRow'[n + 1] = new
        /\ \A i \in 1..n : retirementRow'[i] = retirementRow[i]
    BY <1>2 DEF new
  <1>4. \A i \in 1..(n + 1) : i \in 1..n \/ i = n + 1
    BY <1>2
  <1>5. 1..n \subseteq 1..(n + 1)
    BY <1>2
  <1> HIDE DEF n
  <1> QED
    BY <1>1, <1>2, <1>3, <1>4, <1>5

\* What a batch does with its request, its rows and the certificates.
LEMMA BatchStep ==
    ASSUME TradesTypeOK, CertInv, NEW s \in Slots, enqueueBatch(s)
    PROVE  /\ CertInv'
  <1> DEFINE r == request[s]
  <1>0. /\ ~idle(s) /\ r.op = "enqueueBatch" /\ batching(s)
        /\ request \in [Slots -> Asked \cup {NoRequest}]
    BY DEF enqueueBatch, batching, TradesTypeOK
  <1>1. ASSUME NEW t \in Slots, batching(t)', t # s, request'[t] = request[t]
        PROVE  batching(t)
    BY <1>1 DEF batching, idle
  <1>2. ASSUME ends(s), UNCHANGED <<retirementRow, certificates>>
        PROVE  CertInv'
    <2>1. request'[s] = NoRequest /\ \A t \in Slots \ {s} : request'[t] = request[t]
      BY <1>0, <1>2 DEF ends
    <2> QED
      BY <1>1, <1>2, <2>1 DEF CertInv, batching, idle
  <1>3. ASSUME NEW i \in eligible(r.wallet, r.arg), goes_with(s, "tally", i),
               UNCHANGED <<retirementRow, certificates>>
        PROVE  CertInv'
    <2>1. i \in DOMAIN retirementRow /\ i \in Nat
      BY <1>3 DEF eligible, TradesTypeOK
    <2>2. /\ request'[s].at = "tally" /\ request'[s].val = i
          /\ \A t \in Slots \ {s} : request'[t] = request[t]
      BY <1>0, <1>3, <2>1, GoingWith DEF Stages
    <2> QED
      BY <1>1, <1>3, <2>1, <2>2 DEF CertInv
  <1>4. ASSUME at(s, "tally"), goes(s, "insert"), UNCHANGED <<retirementRow, certificates>>
        PROVE  CertInv'
    <2>1. /\ request'[s].at = "insert" /\ request'[s].val = r.val
          /\ \A t \in Slots \ {s} : request'[t] = request[t]
      BY <1>0, <1>4, Going DEF Stages
    <2>2. r.val \in DOMAIN retirementRow
      BY <1>0, <1>4 DEF CertInv, at
    <2> QED
      BY <1>1, <1>4, <2>1, <2>2 DEF CertInv
  <1>5. ASSUME at(s, "insert"), stores_certificate(s), goes(s, "update")
        PROVE  CertInv'
    <2>1. /\ request'[s].at = "update" /\ request'[s].val = r.val
          /\ \A t \in Slots \ {s} : request'[t] = request[t]
      BY <1>0, <1>5, Going DEF Stages
    <2>2. r.val \in DOMAIN retirementRow
      BY <1>0, <1>5 DEF CertInv, at
    <2>3. certificates' = certificates \cup {r.val} /\ retirementRow' = retirementRow
      BY <1>5 DEF stores_certificate
    <2> QED
      BY <1>1, <2>1, <2>2, <2>3 DEF CertInv
  <1>6. ASSUME at(s, "update"), stores_hash(s), ends(s)
        PROVE  CertInv'
    <2>1. request'[s] = NoRequest /\ \A t \in Slots \ {s} : request'[t] = request[t]
      BY <1>0, <1>6 DEF ends
    <2> DEFINE k == r.val
               new == [retirementRow[k] EXCEPT !.hash = k]
    <2>2. k \in DOMAIN retirementRow /\ k \in certificates
      BY <1>0, <1>6 DEF CertInv, at
    <2>3. new.hash = k
      <3>1. retirementRow[k] \in RetirementRow
        BY <2>2 DEF TradesTypeOK
      <3> QED
        BY <3>1 DEF RetirementRow
    <2>4. retirementRow' = [retirementRow EXCEPT ![k] = new] /\ certificates' = certificates
      BY <1>6 DEF stores_hash
    <2> HIDE DEF new
    <2>5. /\ DOMAIN retirementRow' = DOMAIN retirementRow
          /\ retirementRow'[k] = new
          /\ \A i \in DOMAIN retirementRow \ {k} : retirementRow'[i] = retirementRow[i]
      BY <2>2, <2>4
    <2> HIDE DEF k
    <2>6. \A t \in Slots : batching(t)' => batching(t) /\ request'[t] = request[t]
      BY <1>1, <2>1 DEF batching, idle
    <2> QED
      BY <2>2, <2>3, <2>4, <2>5, <2>6 DEF CertInv
  <1> QED
    BY <1>2, <1>3, <1>4, <1>5, <1>6 DEF enqueueBatch, issues

\* Every step keeps what is known of the certificates.
LEMMA CertInvStep == TradesSound /\ TradesSound' /\ CertInv /\ TradesStep => CertInv'
  <1> SUFFICES ASSUME TradesSound, TradesSound', CertInv, TradesStep PROVE CertInv'
    OBVIOUS
  <1>0. TradesTypeOK /\ counter' \in Nat
    BY RegistryAssumption DEF TradesSound, Sound, RegistryTypeOK
  <1>1. CASE \E s \in Slots : enqueueBatch(s)
    BY <1>0, <1>1, BatchStep
  <1>2. CASE ~ \E s \in Slots : enqueueBatch(s)
    <2>1. ASSUME NEW t \in Slots, batching(t)'
          PROVE  (batching(t) /\ request'[t] = request[t]) \/ request'[t].at = "check"
      <3>1. Moves(t)
        BY <1>0, <2>1, RequestMoves DEF batching, idle
      <3>2. CASE ~idle(t) /\ SameAsk(t)
        <4>1. batching(t)
          BY <2>1, <3>2 DEF batching, SameAsk
        <4>2. request'[t] \in {request[t], NoRequest}
          BY <1>0, <1>2, <4>1, BatchesAreOwn DEF CertInv
        <4> QED
          BY <2>1, <4>1, <4>2 DEF batching, idle
      <3> QED
        BY <2>1, <3>1, <3>2 DEF Moves, Fresh, batching, idle
    <2>2. /\ certificates' = certificates
          /\ DOMAIN retirementRow \subseteq DOMAIN retirementRow'
          /\ \A i \in DOMAIN retirementRow : retirementRow'[i] = retirementRow[i]
          /\ \A i \in DOMAIN retirementRow' \ DOMAIN retirementRow : retirementRow'[i].hash = None
      BY <1>0, <1>2, CertificatesStay, RowAdded
    <2> QED
      BY <2>1, <2>2 DEF CertInv
  <1> QED
    BY <1>1, <1>2

\* Every certificate is of a retirement whose credit the registry holds Retired,
\* and every hash a retirement shows is its own certificate's, for any batches
\* side by side, failing statements and restarts.
THEOREM CertificatesAreTrue == ApiTradesSpec => []CertificatesTrue
  <1>1. ApiTradesInit => CertInv
    <2> SUFFICES ASSUME ApiTradesInit PROVE CertInv
      OBVIOUS
    <2>1. DOMAIN retirementRow = {} /\ certificates = {}
      BY DEF ApiTradesInit
    <2>2. \A s \in Slots : idle(s)
      BY DEF ApiTradesInit, idle
    <2> QED
      BY <2>1, <2>2 DEF CertInv, batching
  <1>2. TradesSound /\ RetirementRowsTrue /\ CertInv => CertificatesTrue
    <2> SUFFICES ASSUME TradesSound, RetirementRowsTrue, CertInv, NEW h \in certificates
                 PROVE  status[retirementRow[h].credit] = "Retired"
      BY DEF CertInv, CertificatesTrue
    <2>1. h \in DOMAIN retirementRow
      BY DEF CertInv
    <2>2. retirementRow[h].credit \in CreditIds
      <3>1. retirementRow[h] \in RetirementRow
        BY <2>1 DEF TradesSound, TradesTypeOK
      <3> QED
        BY <3>1 DEF RetirementRow
    <2> QED
      BY <2>1, <2>2 DEF RetirementRowsTrue, TradesSound, RetiredOnce
  <1> QED
    BY <1>1, <1>2, TradesAreSound, RetirementRowsAreTrue, CertInvStep, PTL
       DEF ApiTradesSpec, TradesStep

-----------------------------------------------------------------------------
(* Bridge records. *)

BridgeRow == [credit : CreditIds, status : {"INBOUND", "OUTBOUND"}]

\* Past its transaction and before its row.
past(s) == ~idle(s) /\ request[s].at \in {"applied", "insert"}

\* What an import's or a departure's row is about to say.
BridgeInv ==
    /\ bridgeRow \in [Registries \X Serials -> BridgeRow \cup {None}]
    /\ BridgeRowsTrue
    /\ \A s \in Slots : past(s) /\ request[s].op = "bridgeIn" =>
          request[s].val \in CreditIds /\ origin[request[s].val] = request[s].arg.at
    /\ \A s \in Slots : past(s) /\ request[s].op = "bridgeOut" => request[s].arg \in bridgedOut

\* Rows come from an import that brought back its credit's id, and change their
\* status only.
LEMMA BridgeRowMoves ==
    ASSUME TradesSound, BridgeInv, TradesStep
    PROVE  /\ bridgeRow' \in [Registries \X Serials -> BridgeRow \cup {None}]
           /\ \A k \in Registries \X Serials : bridgeRow'[k] # None =>
                 /\ bridgeRow'[k].credit \in CreditIds /\ origin[bridgeRow'[k].credit] = k
                 /\ bridgeRow'[k].status = "OUTBOUND" => bridgeRow'[k].credit \in bridgedOut
  <1> DEFINE Fine ==
        /\ bridgeRow' \in [Registries \X Serials -> BridgeRow \cup {None}]
        /\ \A k \in Registries \X Serials : bridgeRow'[k] # None =>
              /\ bridgeRow'[k].credit \in CreditIds /\ origin[bridgeRow'[k].credit] = k
              /\ bridgeRow'[k].status = "OUTBOUND" => bridgeRow'[k].credit \in bridgedOut
  <1>0. bridgeRow \in [Registries \X Serials -> BridgeRow \cup {None}]
    BY DEF BridgeInv
  <1>1. CASE UNCHANGED bridgeRow
    BY <1>0, <1>1 DEF BridgeInv, BridgeRowsTrue
  <1>2. ASSUME NEW k \in Registries \X Serials, NEW new \in BridgeRow,
               bridgeRow' = [bridgeRow EXCEPT ![k] = new],
               origin[new.credit] = k, new.status = "OUTBOUND" => new.credit \in bridgedOut
        PROVE  Fine
    <2>1. new.credit \in CreditIds
      BY DEF BridgeRow
    <2>2. \A j \in Registries \X Serials : bridgeRow'[j] = IF j = k THEN new ELSE bridgeRow[j]
      BY <1>0, <1>2
    <2>3. bridgeRow' \in [Registries \X Serials -> BridgeRow \cup {None}]
      BY <1>0, <1>2
    <2> QED
      BY <1>2, <2>1, <2>2, <2>3 DEF BridgeInv, BridgeRowsTrue
  <1>3. ASSUME NEW k \in Registries \X Serials, bridgeRow[k] # None,
               NEW st \in {"INBOUND", "OUTBOUND"},
               bridgeRow' = [bridgeRow EXCEPT ![k].status = st],
               st = "OUTBOUND" => bridgeRow[k].credit \in bridgedOut
        PROVE  Fine
    <2> DEFINE new == [bridgeRow[k] EXCEPT !.status = st]
    <2>1. bridgeRow[k] \in BridgeRow
      BY <1>0, <1>3
    <2>2. new \in BridgeRow /\ new.credit = bridgeRow[k].credit /\ new.status = st
      BY <2>1 DEF BridgeRow
    <2>3. bridgeRow' = [bridgeRow EXCEPT ![k] = new]
      BY <1>3
    <2>4. origin[new.credit] = k
      BY <1>3, <2>2 DEF BridgeInv, BridgeRowsTrue
    <2> HIDE DEF new
    <2> QED
      BY <1>2, <1>3, <2>2, <2>3, <2>4
  <1>4. ASSUME NEW s \in Slots, recordsBridging(s)
        PROVE  Fine
    <2>1. past(s) /\ fits(request[s])
      BY <1>4 DEF recordsBridging, at, past, TradesSound, TradesTypeOK
    <2>2. CASE /\ request[s].op = "bridgeIn"
               /\ bridgeRow' = [bridgeRow EXCEPT ![request[s].arg.at] =
                                   [credit |-> request[s].val, status |-> "INBOUND"]]
      <3> DEFINE new == [credit |-> request[s].val, status |-> "INBOUND"]
      <3>1. /\ request[s].arg.at \in Registries \X Serials
            /\ request[s].val \in CreditIds /\ origin[request[s].val] = request[s].arg.at
        BY <2>1, <2>2 DEF fits, BridgeInv
      <3>2. new \in BridgeRow /\ new.credit = request[s].val /\ new.status = "INBOUND"
        BY <3>1 DEF BridgeRow
      <3> HIDE DEF new
      <3>3. bridgeRow' = [bridgeRow EXCEPT ![request[s].arg.at] = new]
        BY <2>2 DEF new
      <3> QED
        BY <1>2, <3>1, <3>2, <3>3
    <2>3. CASE /\ request[s].op = "bridgeOut"
               /\ \E k \in records_of(request[s].arg) :
                     bridgeRow' = [bridgeRow EXCEPT ![k].status = "OUTBOUND"]
      <3>1. PICK k \in records_of(request[s].arg) :
                     bridgeRow' = [bridgeRow EXCEPT ![k].status = "OUTBOUND"]
        BY <2>3
      <3>2. request[s].arg \in bridgedOut
        BY <2>1, <2>3 DEF BridgeInv
      <3> QED
        BY <1>3, <3>1, <3>2 DEF records_of
    <2> QED
      BY <1>1, <1>4, <2>2, <2>3 DEF recordsBridging
  <1>5. CASE indexer_statement
    <2>1. ASSUME NEW c \in CreditIds, origin[c] # None, bridgeRow[origin[c]] # None,
                 bridgeRow' = [bridgeRow EXCEPT ![origin[c]].status = "INBOUND"]
          PROVE  Fine
      <3>1. origin[c] \in Registries \X Serials
        BY <2>1 DEF TradesSound, SerialsInv
      <3> QED
        BY <1>3, <2>1, <3>1
    <2>2. ASSUME NEW c \in bridgedOut, NEW k \in records_of(c),
                 bridgeRow' = [bridgeRow EXCEPT ![k].status = "OUTBOUND"]
          PROVE  Fine
      BY <1>3, <2>2 DEF records_of
    <2> QED
      BY <1>1, <1>5, <2>1, <2>2 DEF indexer_statement
  <1> QED
    BY <1>1, <1>4, <1>5
       DEF TradesStep, ApiTradesNext, apiTradesVars, rowVars, asks, HandlerStep, checks,
           checksPurchase, settles, recordsPurchase, recordsOffer, recordsRetirement,
           enqueueBatch, transaction, fails, restart, direct_call

\* The id that bridge_in returns is of the credit that stands for its serial.
LEMMA ImportArrives ==
    ASSUME TradesSound, NEW s \in Slots, transaction(s), request[s].op = "bridgeIn"
    PROVE  counter' \in CreditIds /\ origin'[counter'] = request[s].arg.at
  <1> DEFINE r == request[s]
  <1>1. fits(r) /\ r.op = "bridgeIn"
    BY DEF transaction, in_flight, idle, TradesSound, TradesTypeOK
  <1>2. r.arg.at \in Registries \X Serials
    BY <1>1 DEF fits
  <1>3. PICK m \in Metadata : bridge_in(r.wallet, r.arg.at[1], r.arg.at[2], r.arg.proof, m)
    BY DEF transaction, createOffer, buyCredits, retireCredit, bridgeIn, bridgeOut
  <1> HIDE DEF r
  <1>4. /\ counter + 1 \in CreditIds /\ counter' = counter + 1
        /\ origin' = [origin EXCEPT ![counter + 1] = <<r.arg.at[1], r.arg.at[2]>>]
    BY <1>3, NewId DEF bridge_in, mint_bridged, store_credit, Book, Sound, TradesSound
  <1>5. origin \in [CreditIds -> (Registries \X Serials) \cup {None}]
    BY DEF TradesSound, SerialsInv
  <1> QED
    BY <1>2, <1>4, <1>5 DEF r

\* A request past its transaction got there by it, with what the receipt said.
LEMMA PastMoves ==
    ASSUME TradesSound, TradesStep, counter' \in Nat, NEW t \in Slots, past(t)',
           request'[t].op \in {"bridgeIn", "bridgeOut"}
    PROVE  /\ SameAsk(t)
           /\ \/ past(t) /\ request'[t].val = request[t].val
              \/ transaction(t) /\ request'[t].val = counter'
  <1>1. request'[t] # NoRequest /\ request'[t].at \in {"applied", "insert"}
    BY DEF past, idle
  <1>2. Moves(t)
    BY <1>1, RequestMoves DEF TradesSound
  <1> QED
    BY <1>1, <1>2 DEF Moves, Fresh, SameAsk, past, idle, returned

\* What the bridge returned stays true until the row says it, and after.
LEMMA BridgeInvStep == TradesSound /\ TradesSound' /\ BridgeInv /\ TradesStep => BridgeInv'
  <1> SUFFICES ASSUME TradesSound, TradesSound', BridgeInv, TradesStep PROVE BridgeInv'
    OBVIOUS
  <1>1. OnChainStep /\ counter' \in Nat
    BY ContractsKept, RegistryAssumption DEF TradesSound, Sound, RegistryTypeOK
  <1>2. \A c \in CreditIds, k \in Registries \X Serials : origin[c] = k => origin'[c] = k
    BY <1>1, RecordsStay, ApiTradesAssumption DEF TradesSound
  <1>3. \A c \in CreditIds : c \in bridgedOut => c \in bridgedOut'
    BY <1>1, RecordsStay DEF TradesSound
  <1>4. BridgeRowsTrue'
    BY <1>2, <1>3, BridgeRowMoves DEF BridgeRowsTrue
  <1>5. ASSUME NEW t \in Slots, past(t)', request'[t].op = "bridgeIn"
        PROVE  request'[t].val \in CreditIds /\ origin'[request'[t].val] = request'[t].arg.at
    <2>1. SameAsk(t) /\ request[t].op = "bridgeIn" /\ request'[t].arg.at = request[t].arg.at
      BY <1>1, <1>5, PastMoves DEF SameAsk
    <2>2. CASE past(t) /\ request'[t].val = request[t].val
      <3>1. /\ request[t].arg.at \in Registries \X Serials
            /\ request[t].val \in CreditIds /\ origin[request[t].val] = request[t].arg.at
        BY <2>1, <2>2 DEF past, TradesSound, TradesTypeOK, fits, BridgeInv
      <3> QED
        BY <1>2, <2>1, <2>2, <3>1
    <2>3. CASE transaction(t) /\ request'[t].val = counter'
      BY <2>1, <2>3, ImportArrives
    <2> QED
      BY <1>1, <1>5, <2>2, <2>3, PastMoves
  <1>6. ASSUME NEW t \in Slots, past(t)', request'[t].op = "bridgeOut"
        PROVE  request'[t].arg \in bridgedOut'
    <2>1. SameAsk(t) /\ request[t].op = "bridgeOut" /\ request'[t].arg = request[t].arg
      BY <1>1, <1>6, PastMoves DEF SameAsk
    <2>2. CASE past(t)
      <3>1. request[t].arg \in CreditIds /\ request[t].arg \in bridgedOut
        BY <2>1, <2>2 DEF past, TradesSound, TradesTypeOK, fits, BridgeInv
      <3> QED
        BY <1>3, <2>1, <3>1
    <2>3. CASE transaction(t)
      <3>1. bridge_out(request[t].wallet, request[t].arg)
        BY <2>1, <2>3
           DEF transaction, createOffer, buyCredits, retireCredit, bridgeIn, bridgeOut
      <3> QED
        BY <2>1, <3>1 DEF bridge_out
    <2> QED
      BY <1>1, <1>6, <2>2, <2>3, PastMoves
  <1> QED
    BY <1>4, <1>5, <1>6, BridgeRowMoves DEF BridgeInv, past

\* A bridge record names the credit that stands for its serial, over restarts,
\* lost answers and any replays of the indexer, and reads OUTBOUND only when
\* that credit left.
THEOREM BridgeRowsAreTrue == ApiTradesSpec => []BridgeRowsTrue
  <1>1. ApiTradesInit => BridgeInv
    <2> SUFFICES ASSUME ApiTradesInit PROVE BridgeInv
      OBVIOUS
    <2>1. 1 \in CreditIds
      BY RegistryAssumption, ApiTradesAssumption DEF CreditIds
    <2>2. PICK adm \in Admins : IssuedState(adm) \/ ImportedState(adm)
      BY DEF ApiTradesInit
    <2>3. /\ bridgeRow \in [Registries \X Serials -> BridgeRow \cup {None}]
          /\ \A k \in Registries \X Serials : bridgeRow[k] # None =>
                bridgeRow[k].credit = 1 /\ bridgeRow[k].status = "INBOUND" /\ origin[1] = k
      <3>1. CASE IssuedState(adm)
        BY <3>1 DEF IssuedState
      <3>2. CASE ImportedState(adm)
        <4> DEFINE new == [credit |-> 1, status |-> "INBOUND"]
        <4>1. PICK at0 \in Registries \X Serials :
                 /\ origin = [c \in CreditIds |-> IF c = 1 THEN at0 ELSE None]
                 /\ bridgeRow = [k \in Registries \X Serials |-> IF k = at0 THEN new ELSE None]
          BY <3>2 DEF ImportedState
        <4>2. new \in BridgeRow /\ new.credit = 1 /\ new.status = "INBOUND"
          BY <2>1 DEF BridgeRow
        <4> HIDE DEF new
        <4> QED
          BY <2>1, <4>1, <4>2
      <3> QED
        BY <2>2, <3>1, <3>2
    <2>4. BridgeRowsTrue
      BY <2>1, <2>3 DEF BridgeRowsTrue
    <2> QED
      BY <2>3, <2>4 DEF ApiTradesInit, BridgeInv, past, idle
  <1>2. BridgeInv => BridgeRowsTrue
    BY DEF BridgeInv
  <1> QED
    BY <1>1, <1>2, TradesAreSound, BridgeInvStep, PTL DEF ApiTradesSpec, TradesStep

-----------------------------------------------------------------------------
(* Offer rows. *)

\* When a set injects into another one, a part of it does.
LEMMA InjectPart ==
    ASSUME NEW S, NEW T, ExistsInjection(S, T), NEW S2 \in SUBSET S, NEW T2, T \subseteq T2
    PROVE  ExistsInjection(S2, T2)
  <1>1. PICK f \in Injection(S, T) : TRUE
    BY DEF ExistsInjection
  <1> DEFINE g == [x \in S2 |-> f[x]]
  <1>2. g \in Injection(S2, T2)
    BY <1>1 DEF Injection, IsInjective
  <1> QED
    BY <1>2 DEF ExistsInjection

\* One more element has one more image.
LEMMA InjectMore ==
    ASSUME NEW S, NEW T, ExistsInjection(S, T), NEW x, NEW S2 \in SUBSET (S \cup {x}),
           NEW T2, T \subseteq T2, NEW y \in T2, y \notin T
    PROVE  ExistsInjection(S2, T2)
  <1>1. PICK f \in Injection(S, T) : TRUE
    BY DEF ExistsInjection
  <1> DEFINE g == [z \in S2 |-> IF z \in S THEN f[z] ELSE y]
  <1>2. g \in Injection(S2, T2)
    BY <1>1 DEF Injection, IsInjective
  <1> QED
    BY <1>2 DEF ExistsInjection

\* An element takes the place, and the image, of another.
LEMMA InjectInPlace ==
    ASSUME NEW S, NEW T, ExistsInjection(S, T), NEW x \in S, NEW z
    PROVE  ExistsInjection((S \ {x}) \cup {z}, T)
  <1>1. PICK f \in Injection(S, T) : TRUE
    BY DEF ExistsInjection
  <1> DEFINE g == [v \in (S \ {x}) \cup {z} |-> IF v \in S \ {x} THEN f[v] ELSE f[x]]
  <1>2. g \in Injection((S \ {x}) \cup {z}, T)
    BY <1>1 DEF Injection, IsInjective
  <1> QED
    BY <1>2 DEF ExistsInjection

\* A request for an offer of n units of c by w.
AsksOffer(r, w, c, n) ==
    r.op = "createOffer" /\ r.wallet = w /\ r.arg.credit = c /\ r.arg.amount = n

\* The rows of such offers, the requests whose offer was created and has no row
\* yet, and the offers on the chain.
RowsFor(w, c, n) ==
    {o \in OfferIds : /\ offerRow[o] # None /\ offerRow[o].seller = w
                      /\ offerRow[o].credit = c /\ offerRow[o].amount = n}
DueFor(w, c, n) ==
    {s \in Slots : ~idle(s) /\ AsksOffer(request[s], w, c, n)
                   /\ request[s].at \in {"applied", "insert"}}
MadeFor(w, c, n) ==
    {o \in OfferIds : /\ offers[o] # None /\ offers[o].seller = w
                      /\ offers[o].credit_id = c /\ offers[o].amount = n}

\* Rows and requests to come have offers of their own.
Claims(w, c, n) == ({"row"} \X RowsFor(w, c, n)) \cup ({"due"} \X DueFor(w, c, n))
OffersBacked ==
    \A w \in Accounts, c \in CreditIds, n \in Amounts :
        ExistsInjection(Claims(w, c, n), MadeFor(w, c, n))

\* No offer looks like the absence of one.
LEMMA NoneIsNoOffer == None \notin Offer
  BY MarketAssumption DEF Offer

\* An offer keeps its seller, its credit and its amount.
LEMMA OffersStay ==
    ASSUME Sound, OnChainStep, NEW o \in OfferIds, offers[o] # None
    PROVE  /\ offers'[o] # None /\ offers'[o].seller = offers[o].seller
           /\ offers'[o].credit_id = offers[o].credit_id /\ offers'[o].amount = offers[o].amount
  <1> DEFINE Fine == /\ offers'[o] # None /\ offers'[o].seller = offers[o].seller
                     /\ offers'[o].credit_id = offers[o].credit_id
                     /\ offers'[o].amount = offers[o].amount
  <1>0. /\ offers \in [OfferIds -> Offer \cup {None}] /\ offers[o] \in Offer
        /\ \A p \in OfferIds : p > offerCounter => offers[p] = None
        /\ offerCounter \in Nat /\ o \in Nat
    BY MarketAssumption DEF Sound, OffersTypeOK, OfferIds
  <1>1. CASE UNCHANGED offers
    BY <1>0, <1>1
  <1>2. ASSUME NEW s \in Accounts, NEW c \in CreditIds, NEW p \in Prices, NEW n \in Amounts,
               NEW e \in Expiries, create_offer(s, c, p, n, e)
        PROVE  Fine
    <2>1. o # offerCounter + 1
      BY <1>0
    <2> QED
      BY <1>0, <1>2, <2>1 DEF create_offer, next_offer_id
  <1>3. ASSUME NEW b \in Accounts, NEW p \in OfferIds, NEW n \in Amounts, buy_credits(b, p, n)
        PROVE  Fine
    <2>1. CASE p = o
      <3>1. offers'[o] = filled_by(offers[o], n)
        BY <1>0, <1>3, <2>1 DEF buy_credits
      <3>2. offers'[o].seller = offers[o].seller /\ offers'[o].amount = offers[o].amount
            /\ offers'[o].credit_id = offers[o].credit_id
        BY <1>0, <3>1 DEF filled_by, Offer
      <3>3. filled_by(offers[o], n) \in Offer
        <4>1. offers[o].filled + n \in Nat
          BY <1>0, MarketAssumption DEF Offer
        <4>2. [offers[o] EXCEPT !.filled = offers[o].filled + n] \in Offer
          BY <1>0, <4>1 DEF Offer
        <4> QED
          BY <1>0, <4>1, <4>2 DEF filled_by, Offer
      <3> QED
        BY <3>1, <3>2, <3>3, NoneIsNoOffer
    <2>2. CASE p # o
      BY <1>0, <1>3, <2>2 DEF buy_credits
    <2> QED
      BY <2>1, <2>2
  <1>4. ASSUME NEW a \in Accounts, NEW p \in OfferIds, cancel_offer(a, p)
        PROVE  Fine
    <2>1. CASE p = o
      <3>1. offers'[o] = [offers[o] EXCEPT !.status = "Cancelled"]
        BY <1>0, <1>4, <2>1 DEF cancel_offer
      <3>2. offers'[o].seller = offers[o].seller /\ offers'[o].amount = offers[o].amount
            /\ offers'[o].credit_id = offers[o].credit_id /\ offers'[o] \in Offer
        BY <1>0, <3>1 DEF Offer
      <3> QED
        BY <3>2, NoneIsNoOffer
    <2>2. CASE p # o
      BY <1>0, <1>4, <2>2 DEF cancel_offer
    <2> QED
      BY <2>1, <2>2
  <1>5. MarketNext \/ UNCHANGED offers
    BY DEF OnChainStep, OnChainNext, onChainVars, marketVars, offerVars
  <1> QED
    BY <1>1, <1>2, <1>3, <1>4, <1>5 DEF MarketNext, market_init, tick, offerVars

\* A transaction of createOffer puts its offer under an id of its own.
LEMMA OfferArrives ==
    ASSUME TradesSound, NEW s \in Slots, transaction(s), request[s].op = "createOffer",
           NEW w, NEW c, NEW n, AsksOffer(request[s], w, c, n)
    PROVE  \E o \in MadeFor(w, c, n)' : o \notin MadeFor(w, c, n)
  <1> DEFINE r == request[s]
             id == offerCounter + 1
             new == [seller |-> r.wallet, credit_id |-> r.arg.credit, price |-> 1,
                     amount |-> r.arg.amount, filled |-> 0,
                     expiry |-> in_millis(r.arg.expiry), status |-> "Active"]
  <1>1. r.key \in Accounts /\ fits(r) /\ r.wallet = r.key
        /\ create_offer(r.wallet, r.arg.credit, 1, r.arg.amount, in_millis(r.arg.expiry))
    BY DEF transaction, in_flight, idle, TradesSound, TradesTypeOK, Asked,
           createOffer, buyCredits, retireCredit, bridgeIn, bridgeOut
  <1>2. /\ id \in OfferIds /\ offers[id] = None
        /\ offers \in [OfferIds -> Offer \cup {None}]
    BY <1>1, MarketAssumption
       DEF create_offer, TradesSound, Sound, OffersTypeOK, OfferIds
  <1>3. offers' = [offers EXCEPT ![id] = new]
    BY <1>1 DEF create_offer, next_offer_id
  <1>4. new \in Offer
    BY <1>1, ApiTradesAssumption DEF fits, Offer
  <1> HIDE DEF id
  <1>5. offers'[id] = new /\ new # None
    BY <1>2, <1>3, <1>4, NoneIsNoOffer
  <1>6. id \in MadeFor(w, c, n)' /\ id \notin MadeFor(w, c, n)
    BY <1>2, <1>5 DEF MadeFor, AsksOffer
  <1> QED
    BY <1>6

\* Rows of such offers stay; only the insert after such an offer's call adds one.
LEMMA OfferRowAdds ==
    ASSUME TradesTypeOK, TradesStep, NEW w, NEW c, NEW n
    PROVE  \/ RowsFor(w, c, n)' \subseteq RowsFor(w, c, n)
           \/ \E s \in Slots : /\ at(s, "insert") /\ ends(s)
                              /\ AsksOffer(request[s], w, c, n)
                              /\ RowsFor(w, c, n)' \subseteq RowsFor(w, c, n) \cup {request[s].val}
  <1> DEFINE Fine ==
        \/ RowsFor(w, c, n)' \subseteq RowsFor(w, c, n)
        \/ \E s \in Slots : /\ at(s, "insert") /\ ends(s)
                           /\ AsksOffer(request[s], w, c, n)
                           /\ RowsFor(w, c, n)' \subseteq RowsFor(w, c, n) \cup {request[s].val}
  <1>0. offerRow \in [OfferIds -> OfferRow \cup {None}] /\ None \notin OfferRow
    BY ApiTradesAssumption DEF TradesTypeOK
  <1>1. CASE UNCHANGED offerRow
    BY <1>1 DEF RowsFor
  <1>2. ASSUME NEW s \in Slots, recordsPurchase(s)
        PROVE  Fine
    <2>1. CASE at(s, "update") /\ offerRow' = [offerRow EXCEPT ![request[s].arg].status = "EXPIRED"]
      <3> DEFINE o == request[s].arg
                 new == [offerRow[o] EXCEPT !.status = "EXPIRED"]
      <3>1. o \in OfferIds /\ offerRow[o] # None /\ offerRow[o] \in OfferRow
        BY <1>0, <1>2, <2>1 DEF recordsPurchase, at, TradesTypeOK, fits
      <3>2. /\ new.seller = offerRow[o].seller /\ new.credit = offerRow[o].credit
            /\ new.amount = offerRow[o].amount
        BY <3>1 DEF OfferRow
      <3>3. offerRow' = [offerRow EXCEPT ![o] = new]
        BY <2>1
      <3> HIDE DEF new, o
      <3>4. RowsFor(w, c, n)' \subseteq RowsFor(w, c, n)
        BY <1>0, <3>1, <3>2, <3>3 DEF RowsFor
      <3> QED
        BY <3>4
    <2> QED
      BY <1>1, <1>2, <2>1 DEF recordsPurchase
  <1>3. ASSUME NEW s \in Slots, recordsOffer(s)
        PROVE  Fine
    <2> DEFINE r == request[s]
               new == [seller |-> r.wallet, credit |-> r.arg.credit, amount |-> r.arg.amount,
                       expiry |-> r.arg.expiry, status |-> "ACTIVE"]
    <2>1. at(s, "insert") /\ ends(s) /\ r.op = "createOffer"
      BY <1>3 DEF recordsOffer
    <2>2. offerRow' \in {offerRow, [offerRow EXCEPT ![r.val] = new]}
      BY <1>3 DEF recordsOffer
    <2>3. new.seller = r.wallet /\ new.credit = r.arg.credit /\ new.amount = r.arg.amount
      OBVIOUS
    <2> HIDE DEF new
    <2>4. \A o \in RowsFor(w, c, n)' \ RowsFor(w, c, n) :
             o = r.val /\ AsksOffer(r, w, c, n)
      BY <1>0, <2>1, <2>2, <2>3 DEF RowsFor, AsksOffer
    <2> QED
      BY <2>1, <2>4
  <1> QED
    BY <1>1, <1>2, <1>3
       DEF TradesStep, ApiTradesNext, apiTradesVars, rowVars, asks, HandlerStep, checks,
           checksPurchase, settles, recordsRetirement, recordsBridging, enqueueBatch,
           transaction, fails, restart, indexer_statement, direct_call

\* The row of an offer becomes due only in the transaction that creates the offer.
LEMMA OfferDue ==
    ASSUME TradesSound, TradesStep, counter' \in Nat, NEW w, NEW c, NEW n,
           NEW t \in DueFor(w, c, n)'
    PROVE  AsksOffer(request[t], w, c, n) /\ (t \in DueFor(w, c, n) \/ transaction(t))
  <1>1. /\ t \in Slots /\ request'[t] # NoRequest /\ AsksOffer(request'[t], w, c, n)
        /\ request'[t].at \in {"applied", "insert"}
    BY DEF DueFor, idle
  <1>2. Moves(t)
    BY <1>1, RequestMoves DEF TradesSound
  <1> QED
    BY <1>1, <1>2 DEF Moves, Fresh, SameAsk, DueFor, AsksOffer, idle

\* The contract takes every offer under an id of its own, so that a row has an
\* offer behind it although the row's own id was read before the call.
LEMMA OffersBackedStep == TradesSound /\ TradesSound' /\ OffersBacked /\ TradesStep => OffersBacked'
  <1> SUFFICES ASSUME TradesSound, TradesSound', OffersBacked, TradesStep,
                      NEW w \in Accounts, NEW c \in CreditIds, NEW n \in Amounts
               PROVE  ExistsInjection(Claims(w, c, n)', MadeFor(w, c, n)')
    BY DEF OffersBacked
  <1> DEFINE C == Claims(w, c, n)
             M == MadeFor(w, c, n)
  <1>1. OnChainStep /\ counter' \in Nat
    BY ContractsKept, RegistryAssumption DEF TradesSound, Sound, RegistryTypeOK
  <1>2. ExistsInjection(C, M)
    BY DEF OffersBacked
  <1>3. M \subseteq M'
    BY <1>1, OffersStay DEF TradesSound, MadeFor
  <1>4. \A t \in DueFor(w, c, n)' :
           AsksOffer(request[t], w, c, n) /\ (t \in DueFor(w, c, n) \/ transaction(t))
    BY <1>1, OfferDue
  <1>5. ASSUME NEW s \in Slots, transaction(s), AsksOffer(request[s], w, c, n)
        PROVE  ExistsInjection(C', M')
    <2>1. RowsFor(w, c, n)' = RowsFor(w, c, n)
      BY <1>5 DEF transaction, rowVars, RowsFor
    <2>2. DueFor(w, c, n)' \subseteq DueFor(w, c, n) \cup {s}
      BY <1>4, <1>5, OneTransaction DEF DueFor, idle
    <2>3. C' \in SUBSET (C \cup {<<"due", s>>})
      BY <2>1, <2>2 DEF Claims
    <2>4. PICK o \in M' : o \notin M
      BY <1>5, OfferArrives DEF AsksOffer
    <2> HIDE DEF C, M
    <2> QED
      BY <1>2, <1>3, <2>3, <2>4, InjectMore
  <1>6. ASSUME NEW s \in Slots, at(s, "insert"), ends(s), AsksOffer(request[s], w, c, n),
               RowsFor(w, c, n)' \subseteq RowsFor(w, c, n) \cup {request[s].val}
        PROVE  ExistsInjection(C', M')
    <2> DEFINE due == <<"due", s>>
               row == <<"row", request[s].val>>
    <2>1. due \in C
      BY <1>6 DEF Claims, DueFor, at
    <2>2. \A t \in Slots \ {s} : request'[t] = request[t]
      BY <1>6 DEF ends, TradesSound, TradesTypeOK
    <2>3. request'[s] = NoRequest
      BY <1>6 DEF ends, TradesSound, TradesTypeOK
    <2>4. DueFor(w, c, n)' \subseteq DueFor(w, c, n) \ {s}
      BY <2>2, <2>3 DEF DueFor, idle
    <2> DEFINE D == (C \ {due}) \cup {row}
    <2>5. C' \in SUBSET D
      BY <1>6, <2>4 DEF Claims
    <2> HIDE DEF C, M, due, row
    <2>6. ExistsInjection(D, M)
      BY <1>2, <2>1, InjectInPlace
    <2> HIDE DEF D
    <2> QED
      BY <1>3, <2>5, <2>6, InjectPart
  <1>7. ASSUME RowsFor(w, c, n)' \subseteq RowsFor(w, c, n),
               ~ \E s \in Slots : transaction(s) /\ AsksOffer(request[s], w, c, n)
        PROVE  ExistsInjection(C', M')
    <2>1. DueFor(w, c, n)' \subseteq DueFor(w, c, n)
      BY <1>4, <1>7 DEF DueFor
    <2>2. C' \in SUBSET C
      BY <1>7, <2>1 DEF Claims
    <2> HIDE DEF C, M
    <2> QED
      BY <1>2, <1>3, <2>2, InjectPart
  <1> QED
    BY <1>5, <1>6, <1>7, OfferRowAdds DEF TradesSound

\* Rows that have offers of their own are no more than these.
LEMMA BackedRowsAreTrue == OffersBacked => OfferRowsTrue
  <1> SUFFICES ASSUME OffersBacked, NEW w \in Accounts, NEW c \in CreditIds, NEW n \in Amounts
               PROVE  Cardinality(RowsFor(w, c, n)) <= Cardinality(MadeFor(w, c, n))
    BY DEF OfferRowsTrue, RowsFor, MadeFor
  <1> DEFINE R == RowsFor(w, c, n)
             M == MadeFor(w, c, n)
  <1>1. PICK f \in Injection(Claims(w, c, n), M) : TRUE
    BY DEF OffersBacked, ExistsInjection
  <1> DEFINE g == [o \in R |-> f[<<"row", o>>]]
  <1>2. \A o \in R : <<"row", o>> \in Claims(w, c, n)
    BY DEF Claims
  <1>3. g \in [R -> M] /\ \A o, p \in R : g[o] = g[p] => o = p
    <2> HIDE DEF R
    <2> QED
      BY <1>1, <1>2 DEF Injection, IsInjective
  <1>4. IsFiniteSet(OfferIds)
    <2>1. 1 \in Int /\ MaxOffers \in Int
      BY MarketAssumption
    <2> QED
      BY <2>1, FS_Interval DEF OfferIds
  <1>5. R \in SUBSET OfferIds /\ M \in SUBSET OfferIds
    BY DEF RowsFor, MadeFor
  <1> HIDE DEF R, M, g
  <1>6. /\ IsFiniteSet(R) /\ Cardinality(R) \in Nat
        /\ IsFiniteSet(M) /\ Cardinality(M) \in Nat
    BY <1>4, <1>5, FS_Subset, FS_CardinalityType
  <1>7. ~(Cardinality(M) < Cardinality(R))
    BY <1>3, <1>6, FS_PigeonHole
  <1> QED
    BY <1>6, <1>7 DEF R, M

\* There are never more rows of a seller's offers of an amount of a credit than
\* such offers on the chain, over lost and late transactions, repeated requests,
\* restarts, and ids that two handlers read alike.
THEOREM OfferRowsAreTrue == ApiTradesSpec => []OfferRowsTrue
  <1>1. ApiTradesInit => OffersBacked
    <2> SUFFICES ASSUME ApiTradesInit, NEW w \in Accounts, NEW c \in CreditIds, NEW n \in Amounts
                 PROVE  ExistsInjection(Claims(w, c, n), MadeFor(w, c, n))
      BY DEF OffersBacked
    <2>1. Claims(w, c, n) = {}
      BY DEF ApiTradesInit, Claims, RowsFor, DueFor, idle
    <2> DEFINE g == [x \in {} |-> x]
    <2>2. g \in Injection({}, MadeFor(w, c, n))
      BY DEF Injection, IsInjective
    <2> QED
      BY <2>1, <2>2 DEF ExistsInjection
  <1> QED
    BY <1>1, OffersBackedStep, TradesAreSound, BackedRowsAreTrue, PTL DEF ApiTradesSpec, TradesStep

=============================================================================
