------------------------------ MODULE ApiTrades ------------------------------
(***************************************************************************)
(* Trading, retiring and bridging through the API: MarketplaceService,     *)
(* RetirementService, BridgeService and CertificatesService over the four  *)
(* contracts of OnChain.  A contract call is signed with the key the API   *)
(* was started with; a restart may bring another key, and ends every       *)
(* handler wherever it stands.                                             *)
(*                                                                         *)
(* Of the contracts' events the indexer takes those of the bridge, in any  *)
(* number of replays (see IndexerSync).                                    *)
(***************************************************************************)
EXTENDS OnChain, SorobanClient

CONSTANTS
    Keys,          \* the accounts whose key the API is started with
    Requests,      \* [op, wallet, arg]: the requests users make
    Direct,        \* the accounts that call the contracts themselves
    MaxRestarts    \* bound: restarts of the API

\* How an expiry reaches the contract.
in_millis(expiry) == IF expiry = None THEN None ELSE 1000 * expiry

\* What retireCredit passes to the tracker for the request x.
retire_input(x) == [credit_id |-> x.credit_id, reason |-> "offset",
                    beneficiary |-> x.beneficiary, accounting_period |-> "2024"]

OfferRow == [seller : {q.wallet : q \in Requests}, credit : CreditIds, amount : Amounts,
             expiry : Nat \cup {None}, status : {"ACTIVE", "EXPIRED"}]

\* A request that DTOs and conversions let through, within the bounds.
fits(q) ==
    /\ q.op = "createOffer" =>
          /\ q.arg.credit \in CreditIds /\ q.arg.amount \in Amounts
          /\ q.arg.expiry \in Nat \cup {None} /\ in_millis(q.arg.expiry) \in Expiries
    /\ q.op = "buyCredits" => q.arg \in OfferIds
    /\ q.op = "retireCredit" =>
          q.arg.credit_id \in CreditIds /\ retire_input(q.arg) \in RetireInputs
    /\ q.op = "bridgeIn" => q.arg.at \in Registries \X Serials /\ q.arg.proof \in Proofs
    /\ q.op = "bridgeOut" => q.arg \in CreditIds

\* The initial states hold up to two credits and one vote.
ASSUME ApiTradesAssumption ==
    /\ Keys \cup Direct \subseteq Accounts /\ Keys # {} /\ MaxRestarts \in Nat
    /\ MaxCredits >= 2 /\ MaxQuorum >= 1 /\ 1 \in Prices
    /\ \A q \in Requests : fits(q)
    /\ None \notin OfferRow /\ None \notin Registries \X Serials

VARIABLES
    adminKey,      \* the account of STELLAR_ADMIN_SECRET_KEY since the last start
    restarts,
    creditRow,     \* Credit by creditId: [status, owner]
    offerRow,      \* Offer by offerId: [seller, credit, amount, expiry, status]
    retirementRow, \* Retirement: [credit, by, beneficiary, hash], in creation order
    bridgeRow,     \* BridgeRecord by its unique (registry, serial): [credit, status]
    certificates   \* the hashes of the Certificate rows

rowVars == <<creditRow, offerRow, retirementRow, bridgeRow, certificates>>
apiTradesVars == <<onChainVars, request, adminKey, restarts, rowVars>>

-----------------------------------------------------------------------------
(* The checks before the call. *)

owns(wallet, c) == creditRow[c] # None /\ creditRow[c].owner = wallet

\* The API's own clock and the ledger's are the same here; an expiry is in
\* seconds on both.
row_expired(o) == offerRow[o].expiry # None /\ offerRow[o].expiry <= now

active_offer(o) == offerRow[o] # None /\ offerRow[o].status = "ACTIVE"

may_createOffer(w, x) ==
    /\ owns(w, x.credit) /\ creditRow[x.credit].status = "ACTIVE"
    /\ \A o \in OfferIds :
          ~(active_offer(o) /\ offerRow[o].credit = x.credit /\ offerRow[o].seller = w)
    /\ x.expiry # None => x.expiry > now

\* amountFilled is never written, so that the whole amount looks available.
may_buyCredits(w, o) == active_offer(o) /\ offerRow[o].seller # w

may_retireCredit(w, x) ==
    /\ owns(w, x.credit_id) /\ creditRow[x.credit_id].status = "ACTIVE"
    /\ ~is_retired(x.credit_id)

\* The proof is checked against the root the caller passes.
may_bridgeIn(x) == verify_proof(x.proof.leaf, x.proof.proof, x.root)

records_of(c) == {k \in Registries \X Serials : bridgeRow[k] # None /\ bridgeRow[k].credit = c}

may_bridgeOut(w, c) ==
    /\ owns(w, c)
    /\ \E k \in records_of(c) : bridgeRow[k].status # "OUTBOUND"

\* cancelOffer hands its user id to scAddress, which throws: it never sends.
passes(r) ==
    CASE r.op = "createOffer" -> may_createOffer(r.wallet, r.arg)
      [] r.op = "retireCredit" -> may_retireCredit(r.wallet, r.arg)
      [] r.op = "bridgeIn" -> may_bridgeIn(r.arg)
      [] r.op = "bridgeOut" -> may_bridgeOut(r.wallet, r.arg)
      [] OTHER -> FALSE

-----------------------------------------------------------------------------
(* StellarService: the transactions, each authorized by the signing key.    *)

createOffer(r) ==
    /\ r.op = "createOffer" /\ r.wallet = r.key
    /\ create_offer(r.wallet, r.arg.credit, 1, r.arg.amount, in_millis(r.arg.expiry))
    /\ UNCHANGED <<trackerVars, bridgeVars>>

buyCredits(r) ==
    /\ r.op = "buyCredits" /\ r.wallet = r.key
    /\ buy_credits(r.wallet, r.arg, offerRow[r.arg].amount)
    /\ UNCHANGED <<trackerVars, bridgeVars>>

retireCredit(r) ==
    /\ r.op = "retireCredit" /\ r.wallet = r.key
    /\ retire(r.wallet, retire_input(r.arg))
    /\ UNCHANGED <<marketVars, bridgeVars>>

bridgeIn(r) ==
    /\ r.op = "bridgeIn" /\ r.wallet = r.key
    /\ \E m \in Metadata : bridge_in(r.wallet, r.arg.at[1], r.arg.at[2], r.arg.proof, m)
    /\ UNCHANGED <<marketVars, trackerVars>>

bridgeOut(r) ==
    /\ r.op = "bridgeOut" /\ r.wallet = r.key
    /\ bridge_out(r.wallet, r.arg)
    /\ UNCHANGED <<marketVars, trackerVars>>

\* The id that bridge_in returns is kept, the one create_offer returns is not.
transaction(s) ==
    LET r == request[s] IN
    /\ in_flight(s)
    /\ createOffer(r) \/ buyCredits(r) \/ retireCredit(r) \/ bridgeIn(r) \/ bridgeOut(r)
    /\ enters_ledger(s, IF r.op = "createOffer" THEN r.val ELSE counter')
    /\ UNCHANGED <<adminKey, restarts, rowVars>>

-----------------------------------------------------------------------------
(* The handlers. *)

\* The latest retirement by this user of a credit whose row reads RETIRED.
eligible(wallet, c) ==
    IF creditRow[c] = None \/ creditRow[c].status # "RETIRED" THEN {}
    ELSE {i \in DOMAIN retirementRow :
            retirementRow[i].credit = c /\ retirementRow[i].by = wallet}

asks(s) ==
    /\ \E q \in Requests : begins(s, q, adminKey)
    /\ UNCHANGED <<onChainVars, adminKey, restarts, rowVars>>

\* One more than the highest offer id that has a row, read with the checks.
getNextOfferId(n) ==
    LET ids == {o \in OfferIds : offerRow[o] # None}
    IN  n - 1 \in {0} \cup ids /\ \A o \in ids : o < n

checks(s) ==
    LET r == request[s] IN
    /\ at(s, "check") /\ r.op \notin {"buyCredits", "enqueueBatch"}
    /\ \/ ~passes(r) /\ ends(s)
       \/ passes(r) /\ r.op # "createOffer" /\ goes(s, "send")
       \/ /\ passes(r) /\ r.op = "createOffer"
          /\ \E n \in 1..MaxOffers + 1 : getNextOfferId(n) /\ goes_with(s, "send", n)
    /\ UNCHANGED <<onChainVars, adminKey, restarts, rowVars>>

\* buyCredits: an offer whose time is up is marked before the handler throws.
checksPurchase(s) ==
    LET o == request[s].arg IN
    /\ at(s, "check") /\ request[s].op = "buyCredits"
    /\ IF ~may_buyCredits(request[s].wallet, o) THEN ends(s)
       ELSE IF row_expired(o) THEN goes(s, "update")
       ELSE goes(s, "send")
    /\ UNCHANGED <<onChainVars, adminKey, restarts, rowVars>>

settles(s) ==
    /\ invoke(s) \/ wait_ends(s, "insert")
    /\ UNCHANGED <<onChainVars, adminKey, restarts, rowVars>>

\* buyCredits: marks the expired offer; or, after the purchase, calls
\* transferCredit with the seller's row id, which scAddress refuses, and throws
\* before a row is written.
recordsPurchase(s) ==
    /\ ~idle(s) /\ request[s].op = "buyCredits"
    /\ \/ at(s, "update") /\ offerRow' = [offerRow EXCEPT ![request[s].arg].status = "EXPIRED"]
       \/ at(s, "insert") /\ UNCHANGED offerRow
    /\ ends(s)
    /\ UNCHANGED <<onChainVars, adminKey, restarts, creditRow, retirementRow, bridgeRow, certificates>>

\* createOffer after the call, under the id that was read before it; offerId is
\* unique.
recordsOffer(s) ==
    LET r == request[s] IN
    /\ at(s, "insert") /\ r.op = "createOffer"
    /\ offerRow' = IF offerRow[r.val] # None THEN offerRow
                   ELSE [offerRow EXCEPT ![r.val] =
                            [seller |-> r.wallet, credit |-> r.arg.credit,
                             amount |-> r.arg.amount, expiry |-> r.arg.expiry, status |-> "ACTIVE"]]
    /\ ends(s)
    /\ UNCHANGED <<onChainVars, adminKey, restarts, creditRow, retirementRow, bridgeRow, certificates>>

\* retireCredit after the call: the retirement row, and the status when the
\* caller asked for all the tonnes; the contract retires all in any case.
recordsRetirement(s) ==
    LET r == request[s] IN
    /\ ~idle(s) /\ r.op = "retireCredit"
    /\ \/ /\ at(s, "insert")
          /\ retirementRow' = Append(retirementRow,
                [credit |-> r.arg.credit_id, by |-> r.wallet,
                 beneficiary |-> r.arg.beneficiary, hash |-> None])
          /\ IF r.arg.all THEN goes(s, "update") ELSE ends(s)
          /\ UNCHANGED creditRow
       \/ /\ at(s, "update")
          /\ creditRow' = [creditRow EXCEPT ![r.arg.credit_id].status = "RETIRED"]
          /\ ends(s)
          /\ UNCHANGED retirementRow
    /\ UNCHANGED <<onChainVars, adminKey, restarts, offerRow, bridgeRow, certificates>>

\* bridgeIn and bridgeOut after the call; (registry, serial) is unique.
recordsBridging(s) ==
    LET r == request[s] IN
    /\ at(s, "insert")
    /\ \/ /\ r.op = "bridgeIn"
          /\ bridgeRow' = IF bridgeRow[r.arg.at] # None THEN bridgeRow
                ELSE [bridgeRow EXCEPT ![r.arg.at] = [credit |-> r.val, status |-> "INBOUND"]]
       \/ /\ r.op = "bridgeOut"
          /\ \E k \in records_of(r.arg) : bridgeRow' = [bridgeRow EXCEPT ![k].status = "OUTBOUND"]
    /\ ends(s)
    /\ UNCHANGED <<onChainVars, adminKey, restarts, creditRow, offerRow, retirementRow, certificates>>

\* The two statements that issue a certificate.
stores_certificate(s) ==
    certificates' = certificates \cup {request[s].val} /\ UNCHANGED retirementRow
stores_hash(s) ==
    /\ retirementRow' = [retirementRow EXCEPT ![request[s].val].hash = request[s].val]
    /\ UNCHANGED certificates

\* Mutant: the hash is in the retirement before there is a certificate.
issues_HashFirst(s) ==
    \/ at(s, "insert") /\ stores_hash(s) /\ goes(s, "update")
    \/ at(s, "update") /\ stores_certificate(s) /\ ends(s)
issues(s) ==
    \/ at(s, "insert") /\ stores_certificate(s) /\ goes(s, "update")
    \/ at(s, "update") /\ stores_hash(s) /\ ends(s)

\* One credit of enqueueBatch: its eligible retirement, whether a certificate
\* with its hash exists, the new certificate, the hash in the retirement.  The
\* hash of a retirement row stands for itself.
enqueueBatch(s) ==
    LET r == request[s] IN
    /\ ~idle(s) /\ r.op = "enqueueBatch"
    /\ \/ /\ at(s, "check")
          /\ IF eligible(r.wallet, r.arg) = {} THEN ends(s)
             ELSE \E i \in eligible(r.wallet, r.arg) :
                    /\ \A j \in eligible(r.wallet, r.arg) : j <= i
                    /\ goes_with(s, "tally", i)
          /\ UNCHANGED <<retirementRow, certificates>>
       \/ /\ at(s, "tally")
          /\ IF r.val \in certificates THEN ends(s) ELSE goes(s, "insert")
          /\ UNCHANGED <<retirementRow, certificates>>
       \/ issues(s)
    /\ UNCHANGED <<onChainVars, adminKey, restarts, creditRow, offerRow, bridgeRow>>

fails(s) ==
    /\ transaction_lost(s) \/ statement_fails(s)
    /\ UNCHANGED <<onChainVars, adminKey, restarts, rowVars>>

\* The API ends and starts again, with the key its environment then holds.
restart ==
    /\ restarts < MaxRestarts /\ restarts' = restarts + 1
    /\ adminKey' \in Keys
    /\ handlers_end
    /\ UNCHANGED <<onChainVars, rowVars>>

-----------------------------------------------------------------------------
(* The others that write: the indexer, and accounts without the API.        *)

\* processCreditBridged and the two statements of processCreditBridgedOut, for
\* any event published so far.
indexer_statement ==
    /\ \/ \E c \in CreditIds :
             /\ origin[c] # None /\ bridgeRow[origin[c]] # None
             /\ bridgeRow' = [bridgeRow EXCEPT ![origin[c]].status = "INBOUND"]
             /\ UNCHANGED creditRow
       \/ \E c \in bridgedOut :
             /\ creditRow[c] # None
             /\ creditRow' = [creditRow EXCEPT ![c].status = "RETIRED"]
             /\ UNCHANGED bridgeRow
       \/ \E c \in bridgedOut : \E k \in records_of(c) :
             /\ creditRow[c] # None /\ creditRow[c].status = "RETIRED"
             /\ bridgeRow' = [bridgeRow EXCEPT ![k].status = "OUTBOUND"]
             /\ UNCHANGED creditRow
    /\ UNCHANGED <<onChainVars, request, adminKey, restarts, offerRow, retirementRow, certificates>>

\* A seller whose key the API holds has to cancel without it.
direct_call ==
    /\ \/ /\ \E a \in Direct, c \in CreditIds, to \in Recipients : transfer_credit(a, to, c)
          /\ UNCHANGED <<marketVars, trackerVars, bridgeVars>>
       \/ /\ \E o \in OfferIds : \/ \E a \in Direct, n \in Amounts : buy_credits(a, o, n)
                               \/ \E a \in Direct \cup Keys : cancel_offer(a, o)
          /\ UNCHANGED <<trackerVars, bridgeVars>>
       \/ /\ \E a \in Direct, x \in RetireInputs : retire(a, x)
          /\ UNCHANGED <<marketVars, bridgeVars>>
       \/ tick /\ UNCHANGED <<trackerVars, bridgeVars>>
    /\ UNCHANGED <<request, adminKey, restarts, rowVars>>

-----------------------------------------------------------------------------
\* What ApiCredits and bridgeIn leave behind: either a credit that the first key's
\* account issued and a verifier minted; or one it imported, and one it issued
\* after that, whose row got the next free id, that of the import.
IssuedState(adm) ==
    \E m \in Metadata, v \in Voters :
        /\ counter = 1
        /\ status = [c \in CreditIds |-> IF c = 1 THEN "Active" ELSE "Absent"]
        /\ token = [c \in CreditIds |-> IF c = 1 THEN 1 ELSE 0]
        /\ metadata = [c \in CreditIds |-> IF c = 1 THEN m ELSE None]
        /\ owner = [c \in CreditIds |-> IF c = 1 THEN adm ELSE None]
        /\ votes = [c \in CreditIds |-> IF c = 1 THEN <<[verifier |-> v, approved |-> TRUE]>> ELSE << >>]
        /\ issuerList = [a \in Address |-> IF a = adm THEN <<1>> ELSE << >>]
        /\ ownerList = [a \in Address |-> IF a = adm THEN {1} ELSE {}]
        /\ bridged = {} /\ origin = [c \in CreditIds |-> None]
        /\ creditRow = [c \in CreditIds |-> IF c = 1 THEN [status |-> "ACTIVE", owner |-> adm] ELSE None]
        /\ bridgeRow = [k \in Registries \X Serials |-> None]

ImportedState(adm) ==
    \E m \in Metadata, at0 \in Registries \X Serials :
        /\ counter = 2
        /\ status = [c \in CreditIds |->
              CASE c = 1 -> "Active" [] c = 2 -> "Pending" [] OTHER -> "Absent"]
        /\ token = [c \in CreditIds |-> IF c = 1 THEN 1 ELSE 0]
        /\ metadata = [c \in CreditIds |-> IF c <= 2 THEN m ELSE None]
        /\ owner = [c \in CreditIds |-> IF c <= 2 THEN adm ELSE None]
        /\ votes = [c \in CreditIds |-> << >>]
        /\ issuerList = [a \in Address |-> IF a = adm THEN <<2>> ELSE << >>]
        /\ ownerList = [a \in Address |-> IF a = adm THEN {1, 2} ELSE {}]
        /\ bridged = {at0} /\ origin = [c \in CreditIds |-> IF c = 1 THEN at0 ELSE None]
        /\ creditRow = [c \in CreditIds |-> IF c = 1 THEN [status |-> "PENDING", owner |-> adm] ELSE None]
        /\ bridgeRow = [k \in Registries \X Serials |->
              IF k = at0 THEN [credit |-> 1, status |-> "INBOUND"] ELSE None]

ApiTradesInit ==
    /\ \E adm \in Admins :
         /\ adminKey = adm /\ bridgeAdmin = adm
         /\ config = [admin |-> adm, verifier_threshold |-> 1, verifier_quorum |-> 1,
                      params |-> DefaultParams]
         /\ IssuedState(adm) \/ ImportedState(adm)
    /\ verifiers = Voters /\ bridges = {BRIDGE} /\ retirers = {TRACKER, BRIDGE}
    /\ marketReady = TRUE /\ offerCounter = 0 /\ offers = [o \in OfferIds |-> None]
    /\ sellerList = [a \in Accounts |-> << >>] /\ allOffers = << >>
    /\ balance = [a \in Accounts |-> Funds] /\ now = 0
    /\ trackerReady = TRUE /\ retirement = [c \in CreditIds |-> None]
    /\ beneficiaryList = [b \in Beneficiaries |-> << >>]
    /\ root \in [Registries -> Roots] /\ bridgedOut = {}
    /\ request = [s \in Slots |-> NoRequest] /\ restarts = 0
    /\ offerRow = [o \in OfferIds |-> None]
    /\ retirementRow = << >> /\ certificates = {}

HandlerStep(s) ==
    \/ checks(s) \/ checksPurchase(s) \/ settles(s)
    \/ recordsPurchase(s) \/ recordsOffer(s) \/ recordsRetirement(s)
    \/ recordsBridging(s) \/ enqueueBatch(s)

ApiTradesNext ==
    \/ \E s \in Slots : asks(s) \/ HandlerStep(s) \/ transaction(s) \/ fails(s)
    \/ restart \/ indexer_statement \/ direct_call

ApiTradesSpec == ApiTradesInit /\ [][ApiTradesNext]_apiTradesVars

-----------------------------------------------------------------------------
(* Properties. *)

\* A retirement row stands for the tracker's record of that credit, no credit has
\* two, and a row reads RETIRED only when its credit is: over timeouts, repeated
\* requests, restarts between the call and the rows, and the indexer's replays.
RetirementRowsTrue ==
    /\ \A i \in DOMAIN retirementRow :
          LET r == retirementRow[i] IN
          /\ is_retired(r.credit)
          /\ retirement[r.credit].retired_by = r.by
          /\ retirement[r.credit].beneficiary = r.beneficiary
          /\ \A j \in DOMAIN retirementRow : retirementRow[j].credit = r.credit => i = j
    /\ \A c \in CreditIds :
          creditRow[c] # None /\ creditRow[c].status = "RETIRED" => status[c] = "Retired"

\* A certificate is one of a retirement the registry holds, and the hash that a
\* retirement shows is that of a certificate of its own: over statements that
\* fail between the two, restarts, and batches that overlap.
CertificatesTrue ==
    /\ \A h \in certificates :
          h \in DOMAIN retirementRow /\ status[retirementRow[h].credit] = "Retired"
    /\ \A i \in DOMAIN retirementRow : retirementRow[i].hash # None =>
          retirementRow[i].hash = i /\ i \in certificates

\* A bridge record names the credit that stands for its serial, and reads
\* OUTBOUND only when that credit was sent back.
BridgeRowsTrue ==
    \A k \in Registries \X Serials : bridgeRow[k] # None =>
        /\ bridgeRow[k].credit \in CreditIds /\ origin[bridgeRow[k].credit] = k
        /\ bridgeRow[k].status = "OUTBOUND" => bridgeRow[k].credit \in bridgedOut

\* Every offer row was created on the chain by its seller, for its credit and
\* amount: there are never more rows than such offers.
OfferRowsTrue ==
    \A w \in Accounts, c \in CreditIds, n \in Amounts :
        Cardinality({o \in OfferIds : offerRow[o] # None /\ offerRow[o].seller = w
                                       /\ offerRow[o].credit = c /\ offerRow[o].amount = n})
          <= Cardinality({o \in OfferIds : offers[o] # None /\ offers[o].seller = w
                                           /\ offers[o].credit_id = c /\ offers[o].amount = n})

=============================================================================
