--------------------------- MODULE OnChainProofs ---------------------------
(***************************************************************************)
(* Theorems about the four contracts deployed together, for any accounts,  *)
(* contracts, inputs and bounds.                                           *)
(***************************************************************************)
EXTENDS OnChain, CreditRegistryProofs

OnChainStep == [OnChainNext]_onChainVars

-----------------------------------------------------------------------------
(* The offers. *)

Offer == [seller : Accounts, credit_id : CreditIds, price : Prices, amount : Amounts,
          filled : Nat, expiry : Expiries, status : {"Active", "Filled", "Cancelled"}]

\* An offer has the next unused id and names an account and a credit.
OffersTypeOK ==
    /\ offerCounter \in 0..MaxOffers
    /\ offers \in [OfferIds -> Offer \cup {None}]
    /\ \A o \in OfferIds : o > offerCounter => offers[o] = None

-----------------------------------------------------------------------------
(* What the other contracts do to the registry. *)

\* A batch of retirements turns credits of one account from Active to Retired,
\* gives each a record it did not have, and leaves the rest of the registry.
Batch(o, ids) ==
    /\ status' = [c \in CreditIds |-> IF c \in ids THEN "Retired" ELSE status[c]]
    /\ \A c \in ids : /\ status[c] = "Active" /\ owner[c] = o
                      /\ retirement[c] = None /\ retirement'[c] # None
    /\ \A c \in CreditIds \ ids : retirement'[c] = retirement[c]
    /\ UNCHANGED <<counter, token, metadata, owner, votes, issuerList, ownerList, adminVars>>

\* retire_each runs the registry's mark_retired once for each id of the batch: what
\* the registry ends up with is a batch of retirements.
LEMMA RetireEach ==
    ASSUME RegistryTypeOK, NEW o \in Accounts, NEW n \in Nat, NEW inputs \in [1..n -> RetireInputs],
           retire_each(o, inputs)
    PROVE  \E ids \in SUBSET CreditIds : Batch(o, ids)
  <1> DEFINE ids == {inputs[i].credit_id : i \in 1..Len(inputs)}
             input(c) == inputs[CHOOSE i \in 1..Len(inputs) : inputs[i].credit_id = c]
  <1>0. Len(inputs) = n /\ \A i \in 1..n : inputs[i] \in RetireInputs
    OBVIOUS
  <1>1. ids \in SUBSET CreditIds
    BY <1>0, TrackerAssumption
  <1>2. \A c \in ids : input(c) \in RetireInputs
    BY <1>0
  <1>3. \A c \in ids : retirement'[c] # None
    <2> SUFFICES ASSUME NEW c \in ids PROVE retirement'[c] # None
      OBVIOUS
    <2>1. retirement'[c] = [retired_by |-> o, beneficiary |-> input(c).beneficiary,
                reason |-> input(c).reason, accounting_period |-> input(c).accounting_period]
      BY <1>1 DEF retire_each
    <2> QED
      BY <2>1, <1>2, TrackerAssumption
  <1>4. \A c \in ids : status[c] = "Active" /\ owner[c] = o /\ retirement[c] = None
    BY DEF retire_each, may_retire, is_retired
  <1>5. \A c \in CreditIds \ ids : retirement'[c] = retirement[c]
    BY DEF retire_each
  <1>6. /\ status' = [c \in CreditIds |-> IF c \in ids THEN "Retired" ELSE status[c]]
        /\ UNCHANGED <<counter, token, metadata, owner, votes, issuerList, ownerList, adminVars>>
    BY DEF retire_each
  <1> QED
    BY <1>1, <1>3, <1>4, <1>5, <1>6 DEF Batch

\* One retirement is a batch of one.
LEMMA TrackerBatches ==
    ASSUME RegistryTypeOK, TrackerNext
    PROVE  tracker_init \/ \E o \in Accounts : \E ids \in SUBSET CreditIds : Batch(o, ids)
  <1>1. ASSUME NEW o \in Accounts, NEW x \in RetireInputs, retire(o, x)
        PROVE  \E ids \in SUBSET CreditIds : Batch(o, ids)
    <2>1. <<x>> \in [1..1 -> RetireInputs]
      OBVIOUS
    <2> QED
      BY <2>1, <1>1, RetireEach DEF retire
  <1>2. ASSUME NEW o \in Accounts, NEW n \in 1..MaxBatch, NEW inputs \in [1..n -> RetireInputs],
               batch_retire(o, inputs)
        PROVE  \E ids \in SUBSET CreditIds : Batch(o, ids)
    <2>1. n \in Nat
      BY TrackerAssumption
    <2> QED
      BY <2>1, <1>2, RetireEach DEF batch_retire
  <1> QED
    BY <1>1, <1>2 DEF TrackerNext

\* A step of the deployment is, for the registry, a batch of retirements or one
\* of its own steps.
LEMMA RegistrySees ==
    ASSUME RegistryTypeOK, OffersTypeOK, OnChainStep
    PROVE  Step \/ \E o \in Accounts : \E ids \in SUBSET CreditIds : Batch(o, ids)
  <1>1. CASE UNCHANGED onChainVars
    BY <1>1 DEF Step, onChainVars
  <1>2. CASE RegistryNext(Accounts, Recipients)
    BY <1>2, RegistryAssumption, DeploymentAssumption
       DEF Step, RegistryNext, AdminNext, CreditNext, Address, require_admin, add_verifier,
           remove_verifier, add_bridge, remove_bridge, add_retirer, remove_retirer
  <1>3. CASE MarketNext
    <2>1. MARKET \in Address /\ Accounts \subseteq Address
      BY MarketAssumption DEF Address
    <2>2. ASSUME NEW s \in Address, NEW to \in Address, NEW c \in CreditIds, transfer_credit(s, to, c)
          PROVE  Step
      BY <2>2 DEF Step, RegistryNext, CreditNext
    <2>3. CASE market_init \/ tick
      BY <2>3 DEF market_init, tick, Step
    <2>4. CASE \E s \in Accounts, c \in CreditIds, p \in Prices, n \in Amounts, e \in Expiries :
                  create_offer(s, c, p, n, e)
      BY <2>4, <2>1, <2>2 DEF create_offer
    <2>5. CASE \E b \in Accounts, o \in OfferIds, n \in Amounts : buy_credits(b, o, n)
      BY <2>5, <2>1, <2>2 DEF buy_credits, may_buy, OffersTypeOK, Offer
    <2>6. CASE \E a \in Accounts, o \in OfferIds : cancel_offer(a, o)
      BY <2>6, <2>1, <2>2 DEF cancel_offer, OffersTypeOK, Offer
    <2> QED
      BY <1>3, <2>3, <2>4, <2>5, <2>6 DEF MarketNext
  <1>4. CASE TrackerNext
    BY <1>4, TrackerBatches DEF tracker_init, Step
  <1>5. CASE BridgeNext
    <2>1. BRIDGE \in Address /\ Accounts \subseteq Address
      BY BridgeAssumption, RegistryAssumption DEF Address
    <2>2. CASE \E a \in Admins : bridge_init(a)
      BY <2>2 DEF bridge_init, Step
    <2>3. CASE \E a \in Accounts, r \in Registries, h \in Roots : update_registry_root(a, r, h)
      BY <2>3 DEF update_registry_root, Step
    <2>4. CASE \E b \in Accounts, r \in Registries, s \in Serials, p \in Proofs, m \in Metadata :
                  bridge_in(b, r, s, p, m)
      BY <2>4, <2>1 DEF bridge_in, Step, RegistryNext, CreditNext
    <2>5. CASE \E o \in Accounts, c \in CreditIds : bridge_out(o, c)
      BY <2>5, <2>1 DEF bridge_out, Step, RegistryNext, CreditNext
    <2> QED
      BY <1>5, <2>2, <2>3, <2>4, <2>5 DEF BridgeNext
  <1> QED
    BY <1>1, <1>2, <1>3, <1>4, <1>5 DEF OnChainStep, OnChainNext

\* No call stores an offer that is not one, or under an id in use.
LEMMA OffersTypeStep ==
    ASSUME RegistryTypeOK, OffersTypeOK, OnChainStep
    PROVE  OffersTypeOK'
  <1>1. CASE UNCHANGED <<offerCounter, offers>>
    BY <1>1 DEF OffersTypeOK
  <1>2. ASSUME NEW s \in Accounts, NEW c \in CreditIds, NEW p \in Prices, NEW n \in Amounts,
               NEW e \in Expiries, create_offer(s, c, p, n, e)
        PROVE  OffersTypeOK'
    <2> DEFINE new == [seller |-> s, credit_id |-> c, price |-> p, amount |-> n,
                       filled |-> 0, expiry |-> e, status |-> "Active"]
    <2>1. new \in Offer
      BY DEF Offer
    <2>2. /\ offerCounter' = offerCounter + 1 /\ offerCounter + 1 \in OfferIds
          /\ offers' = [offers EXCEPT ![offerCounter + 1] = new]
      BY <1>2, MarketAssumption DEF create_offer, next_offer_id, OffersTypeOK, OfferIds
    <2> HIDE DEF new
    <2>3. offers' \in [OfferIds -> Offer \cup {None}]
      BY <2>1, <2>2 DEF OffersTypeOK
    <2>4. offerCounter' \in 0..MaxOffers
      BY <2>2, MarketAssumption DEF OffersTypeOK, OfferIds
    <2>5. \A o \in OfferIds : o > offerCounter' => offers'[o] = None
      BY <2>2, MarketAssumption DEF OffersTypeOK, OfferIds
    <2> QED
      BY <2>3, <2>4, <2>5 DEF OffersTypeOK
  <1>3. ASSUME NEW b \in Accounts, NEW o \in OfferIds, NEW n \in Amounts, buy_credits(b, o, n)
        PROVE  OffersTypeOK'
    <2>1. offers[o] \in Offer
      BY <1>3 DEF buy_credits, may_buy, OffersTypeOK
    <2>2. filled_by(offers[o], n) \in Offer
      <3>1. n \in Nat /\ offers[o].filled \in Nat /\ offers[o].filled + n \in Nat
        BY <2>1, MarketAssumption DEF Offer
      <3> QED
        BY <2>1, <3>1 DEF Offer, filled_by
    <2>3. offers' = [offers EXCEPT ![o] = filled_by(offers[o], n)] /\ offerCounter' = offerCounter
      BY <1>3 DEF buy_credits, OffersTypeOK
    <2>4. offers[o] # None
      BY <1>3 DEF buy_credits, may_buy
    <2> QED
      BY <2>2, <2>3, <2>4 DEF OffersTypeOK
  <1>4. ASSUME NEW a \in Accounts, NEW o \in OfferIds, cancel_offer(a, o)
        PROVE  OffersTypeOK'
    <2>1. offers[o] \in Offer /\ offers[o] # None
      BY <1>4 DEF cancel_offer, OffersTypeOK
    <2>2. [offers[o] EXCEPT !.status = "Cancelled"] \in Offer
      BY <2>1 DEF Offer
    <2>3. offers' = [offers EXCEPT ![o] = [offers[o] EXCEPT !.status = "Cancelled"]]
          /\ offerCounter' = offerCounter
      BY <1>4 DEF cancel_offer, OffersTypeOK
    <2> QED
      BY <2>1, <2>2, <2>3 DEF OffersTypeOK
  <1>5. CASE MarketNext
    BY <1>1, <1>2, <1>3, <1>4, <1>5 DEF MarketNext, market_init, tick, offerVars
  <1> QED
    BY <1>1, <1>5 DEF OnChainStep, OnChainNext, onChainVars, marketVars

\* A batch keeps the registry's types and its book.
LEMMA BatchBook ==
    ASSUME RegistryTypeOK, Book, NEW o \in Accounts, NEW ids \in SUBSET CreditIds, Batch(o, ids)
    PROVE  RegistryTypeOK' /\ Book'
  <1>1. RegistryTypeOK'
    BY DEF Batch, RegistryTypeOK, Status, adminVars
  <1>2. \A c \in CreditIds : \/ status'[c] = status[c]
                             \/ status[c] = "Active" /\ status'[c] = "Retired"
    BY DEF Batch
  <1>3. IdsUsedOnce' /\ OwnerFindsCredit'
    BY <1>2 DEF Batch, Book, IdsUsedOnce, OwnerFindsCredit, exists
  <1>4. TokenIffMinted'
    BY <1>2 DEF Batch, Book, TokenIffMinted
  <1>5. UnmintedStaysWithIssuer'
    BY <1>2 DEF Batch, Book, UnmintedStaysWithIssuer, issued
  <1> QED
    BY <1>1, <1>3, <1>4, <1>5 DEF Book

\* What every step of the deployment keeps, whoever calls which contract.
Sound == RegistryTypeOK /\ Book /\ OffersTypeOK

\* Every call of every contract keeps the three of them.
LEMMA SoundStep == Sound /\ OnChainStep => Sound'
  <1> SUFFICES ASSUME Sound, OnChainStep PROVE Sound'
    OBVIOUS
  <1> USE DEF Sound
  <1>1. CASE Step
    <2>1. RegistryTypeOK'
      BY <1>1, AdminType, CreditType DEF Step, RegistryNext, RegistryTypeOK, registryVars
    <2> QED
      BY <1>1, <2>1, BookStep, OffersTypeStep
  <1>2. CASE \E o \in Accounts : \E ids \in SUBSET CreditIds : Batch(o, ids)
    BY <1>2, BatchBook, OffersTypeStep
  <1> QED
    BY <1>1, <1>2, RegistrySees

\* The registry's book stays in order when the other contracts write it.
THEOREM DeploymentIsSound == OnChainSpec => []Sound
  <1>1. OnChainInit => Sound
    <2> SUFFICES ASSUME OnChainInit PROVE Sound
      OBVIOUS
    <2>1. RegistryTypeOK
      BY RegistryAssumption DEF OnChainInit, RegistryInit, RegistryTypeOK, CreditIds
    <2>2. Book
      BY DEF OnChainInit, RegistryInit, Book, IdsUsedOnce, OwnerFindsCredit, TokenIffMinted,
             UnmintedStaysWithIssuer, exists, issued, CreditIds
    <2>3. OffersTypeOK
      BY MarketAssumption DEF OnChainInit, MarketInit, OffersTypeOK, OfferIds
    <2> QED
      BY <2>1, <2>2, <2>3 DEF Sound
  <1> QED
    BY <1>1, SoundStep, PTL DEF OnChainSpec, OnChainStep

-----------------------------------------------------------------------------
(* Retirement. *)

\* No step of any contract changes a Retired credit.
THEOREM RetirementHoldsEverywhere == OnChainSpec => RetirementPermanent
  <1> DEFINE Kept == \A c \in CreditIds : status[c] = "Retired" =>
                 status'[c] = "Retired" /\ owner'[c] = owner[c] /\ token'[c] = token[c]
  <1>1. Sound /\ OnChainStep => [Kept]_registryVars
    <2> SUFFICES ASSUME Sound, OnChainStep, NEW c \in CreditIds, status[c] = "Retired"
                 PROVE  status'[c] = "Retired" /\ owner'[c] = owner[c] /\ token'[c] = token[c]
      OBVIOUS
    <2>1. CASE Step
      BY <2>1, RetiredStays DEF Sound
    <2>2. CASE \E o \in Accounts : \E ids \in SUBSET CreditIds : Batch(o, ids)
      BY <2>2 DEF Batch
    <2> QED
      BY <2>1, <2>2, RegistrySees DEF Sound
  <1> QED
    BY <1>1, DeploymentIsSound, PTL DEF OnChainSpec, OnChainStep, RetirementPermanent

\* An account that signs a direct call retires nothing and mints nothing: what
\* the registry authorizes are contracts.
LEMMA AccountsRetireNothing ==
    ASSUME RegistryTypeOK, Book, RegistryNext(Accounts, Recipients), NEW c \in CreditIds
    PROVE  status'[c] = "Retired" <=> status[c] = "Retired"
  <1>0. Accounts \subseteq Address /\ \A k \in Accounts : k \notin retirers /\ k \notin bridges
    BY RegistryAssumption, DeploymentAssumption DEF Address, RegistryTypeOK
  <1>1. CASE AdminNext(Accounts)
    BY <1>1 DEF AdminNext, init, update_config, add_verifier, remove_verifier, add_bridge,
                remove_bridge, add_retirer, remove_retirer, creditVars
  <1>2. ASSUME NEW a \in Accounts, NEW m \in Metadata, submit_credit(a, m)
        PROVE  status'[c] = "Retired" <=> status[c] = "Retired"
    <2>1. status' = [status EXCEPT ![counter + 1] = "Pending"] /\ status[counter + 1] = "Absent"
      BY <1>2, NewId DEF submit_credit, store_credit, Book
    <2> QED
      BY <2>1 DEF RegistryTypeOK
  <1>3. ASSUME NEW v \in Accounts, NEW d \in CreditIds, approve_and_mint(v, d) \/ reject_credit(v, d)
        PROVE  status'[c] = "Retired" <=> status[c] = "Retired"
    BY <1>3 DEF approve_and_mint, reject_credit, may_vote, RegistryTypeOK
  <1>4. ASSUME NEW from \in Accounts, NEW to \in Recipients, NEW d \in CreditIds,
               transfer_credit(from, to, d)
        PROVE  status'[c] = "Retired" <=> status[c] = "Retired"
    BY <1>4 DEF transfer_credit
  <1>5. ~ \E k \in Accounts, d \in CreditIds : mark_retired(k, d)
    BY <1>0 DEF mark_retired
  <1>6. ~ \E k \in Accounts, to \in Recipients, m \in Metadata : mint_bridged(k, to, m)
    BY <1>0 DEF mint_bridged
  <1> QED
    BY <1>1, <1>2, <1>3, <1>4, <1>5, <1>6 DEF RegistryNext, CreditNext

\* A credit is Retired exactly when the tracker or the bridge used it up: every
\* call that does the one does the other.
LEMMA RetiredOnceStep ==
    ASSUME Sound, RetiredOnce, OnChainStep
    PROVE  RetiredOnce'
  <1> USE DEF Sound
  <1>1. CASE UNCHANGED <<retirement, bridgedOut>> /\
             \A c \in CreditIds : status'[c] = "Retired" <=> status[c] = "Retired"
    BY <1>1 DEF RetiredOnce, is_retired
  <1>2. CASE UNCHANGED onChainVars
    BY <1>1, <1>2 DEF onChainVars, registryVars, trackerVars, bridgeVars
  <1>3. CASE RegistryNext(Accounts, Recipients) /\ UNCHANGED <<marketVars, trackerVars, bridgeVars>>
    BY <1>1, <1>3, AccountsRetireNothing DEF trackerVars, bridgeVars
  <1>4. CASE MarketNext /\ UNCHANGED <<trackerVars, bridgeVars>>
    <2>1. UNCHANGED status
      BY <1>4 DEF MarketNext, market_init, tick, create_offer, buy_credits, cancel_offer,
                  transfer_credit, registryVars
    <2> QED
      BY <1>1, <1>4, <2>1 DEF trackerVars, bridgeVars
  <1>5. CASE TrackerNext /\ UNCHANGED <<marketVars, bridgeVars>>
    <2>1. CASE tracker_init
      BY <1>1, <1>5, <2>1 DEF tracker_init, registryVars, bridgeVars
    <2>2. CASE \E o \in Accounts : \E ids \in SUBSET CreditIds : Batch(o, ids)
      BY <1>5, <2>2 DEF Batch, RetiredOnce, is_retired, bridgeVars
    <2> QED
      BY <1>5, <2>1, <2>2, TrackerBatches
  <1>6. CASE BridgeNext /\ UNCHANGED <<marketVars, trackerVars>>
    <2>1. CASE (\E a \in Admins : bridge_init(a))
               \/ (\E a \in Accounts, r \in Registries, h \in Roots : update_registry_root(a, r, h))
      BY <1>1, <1>6, <2>1 DEF bridge_init, update_registry_root, registryVars, trackerVars
    <2>2. ASSUME NEW b \in Accounts, NEW r \in Registries, NEW s \in Serials, NEW p \in Proofs,
                 NEW m \in Metadata, bridge_in(b, r, s, p, m)
          PROVE  RetiredOnce'
      <3>1. status' = [status EXCEPT ![counter + 1] = "Active"] /\ status[counter + 1] = "Absent"
        BY <2>2, NewId DEF bridge_in, mint_bridged, store_credit, Book
      <3>2. \A c \in CreditIds : status'[c] = "Retired" <=> status[c] = "Retired"
        BY <3>1 DEF RegistryTypeOK
      <3> QED
        BY <1>1, <1>6, <2>2, <3>2 DEF bridge_in, trackerVars
    <2>3. ASSUME NEW o \in Accounts, NEW d \in CreditIds, bridge_out(o, d)
          PROVE  RetiredOnce'
      <3>1. /\ status[d] = "Active"
            /\ status' = [status EXCEPT ![d] = "Retired"]
            /\ bridgedOut' = bridgedOut \cup {d}
            /\ retirement' = retirement
        BY <1>6, <2>3 DEF bridge_out, mark_retired, trackerVars
      <3> QED
        BY <3>1 DEF RetiredOnce, is_retired, RegistryTypeOK
    <2> QED
      BY <1>6, <2>1, <2>2, <2>3 DEF BridgeNext
  <1> QED
    BY <1>2, <1>3, <1>4, <1>5, <1>6 DEF OnChainStep, OnChainNext

\* Nothing is counted twice: the tracker and the bridge never both used up a
\* credit, and no other way to retire one is open to accounts.
THEOREM NothingCountedTwice == OnChainSpec => []RetiredOnce
  <1>1. OnChainInit => RetiredOnce
    BY DEF OnChainInit, RegistryInit, TrackerInit, BridgeInit, RetiredOnce, is_retired
  <1> QED
    BY <1>1, DeploymentIsSound, RetiredOnceStep, PTL DEF OnChainSpec, OnChainStep

-----------------------------------------------------------------------------
(* Bridging. *)

\* A credit that is Active or Retired stays so and keeps its votes; one that is
\* not there yet had no vote taken from it.
LEMMA VotesEndWithMint ==
    ASSUME Sound, OnChainStep, NEW c \in CreditIds
    PROVE  /\ status[c] \in {"Active", "Retired"} =>
                status'[c] \in {"Active", "Retired"} /\ votes'[c] = votes[c]
           /\ status'[c] = "Absent" => status[c] = "Absent" /\ votes'[c] = votes[c]
  <1> USE DEF Sound
  <1> DEFINE Goal == /\ status[c] \in {"Active", "Retired"} =>
                          status'[c] \in {"Active", "Retired"} /\ votes'[c] = votes[c]
                     /\ status'[c] = "Absent" => status[c] = "Absent" /\ votes'[c] = votes[c]
  <1>1. CASE UNCHANGED creditVars
    BY <1>1 DEF creditVars
  <1>2. ASSUME NEW a \in Address, NEW m \in Metadata, submit_credit(a, m)
        PROVE  Goal
    <2>1. status' = [status EXCEPT ![counter + 1] = "Pending"] /\ status[counter + 1] = "Absent"
      BY <1>2, NewId DEF submit_credit, store_credit, Book
    <2> QED
      BY <1>2, <2>1 DEF submit_credit, RegistryTypeOK
  <1>3. ASSUME NEW v \in Address, NEW d \in CreditIds, approve_and_mint(v, d) \/ reject_credit(v, d)
        PROVE  Goal
    BY <1>3 DEF approve_and_mint, reject_credit, may_vote, write_approval, RegistryTypeOK
  <1>4. ASSUME NEW from \in Address, NEW to \in Address, NEW d \in CreditIds,
               transfer_credit(from, to, d)
        PROVE  Goal
    BY <1>4 DEF transfer_credit
  <1>5. ASSUME NEW k \in Address, NEW d \in CreditIds, mark_retired(k, d)
        PROVE  Goal
    BY <1>5 DEF mark_retired, RegistryTypeOK
  <1>6. ASSUME NEW k \in Address, NEW to \in Address, NEW m \in Metadata, mint_bridged(k, to, m)
        PROVE  Goal
    <2>1. status' = [status EXCEPT ![counter + 1] = "Active"] /\ status[counter + 1] = "Absent"
      BY <1>6, NewId DEF mint_bridged, store_credit, Book
    <2> QED
      BY <1>6, <2>1 DEF mint_bridged, RegistryTypeOK
  <1>7. CASE Step
    BY <1>1, <1>2, <1>3, <1>4, <1>5, <1>6, <1>7, AdminFrame
       DEF Step, RegistryNext, CreditNext, registryVars, creditVars
  <1>8. CASE \E o \in Accounts : \E ids \in SUBSET CreditIds : Batch(o, ids)
    BY <1>8 DEF Batch
  <1> QED
    BY <1>7, <1>8, RegistrySees

\* What makes OneCreditPerSerial inductive: votes and serials are for different
\* credits, and a credit has its serial from the step that minted it.
SerialsInv ==
    /\ origin \in [CreditIds -> (Registries \X Serials) \cup {None}]
    /\ \A c \in CreditIds : status[c] = "Absent" => votes[c] = << >>
    /\ \A c \in CreditIds : origin[c] # None => status[c] \in {"Active", "Retired"}
    /\ OneCreditPerSerial

\* bridge_in mints a serial only once, and no other call gives a credit an origin.
LEMMA SerialsStep ==
    ASSUME Sound, SerialsInv, OnChainStep
    PROVE  SerialsInv'
  <1> USE DEF Sound
  <1>1. CASE UNCHANGED <<origin, bridged>>
    BY <1>1, VotesEndWithMint DEF SerialsInv, OneCreditPerSerial
  <1>2. ASSUME NEW b \in Accounts, NEW r \in Registries, NEW s \in Serials, NEW p \in Proofs,
               NEW m \in Metadata, bridge_in(b, r, s, p, m)
        PROVE  SerialsInv'
    <2> DEFINE id == counter + 1
    <2>1. /\ id \in CreditIds /\ status[id] = "Absent"
          /\ status' = [status EXCEPT ![id] = "Active"] /\ votes' = votes
          /\ <<r, s>> \notin bridged /\ bridged' = bridged \cup {<<r, s>>}
          /\ origin' = [origin EXCEPT ![id] = <<r, s>>]
      BY <1>2, NewId DEF bridge_in, not_bridged, mint_bridged, store_credit, Book
    <2> HIDE DEF id
    <2>2. <<r, s>> \in Registries \X Serials
      OBVIOUS
    <2>3. origin' \in [CreditIds -> (Registries \X Serials) \cup {None}]
      BY <2>1, <2>2 DEF SerialsInv
    <2>4. \A c \in CreditIds : status'[c] = "Absent" => votes'[c] = << >>
      BY <2>1 DEF SerialsInv, RegistryTypeOK
    <2>5. \A c \in CreditIds : origin'[c] # None => status'[c] \in {"Active", "Retired"}
      BY <2>1 DEF SerialsInv, RegistryTypeOK
    <2>6. ASSUME NEW c \in CreditIds, origin'[c] # None
          PROVE  /\ origin'[c] \in bridged'
                 /\ votes'[c] = << >>
                 /\ \A d \in CreditIds : origin'[d] = origin'[c] => d = c
      BY <2>1, <2>6 DEF SerialsInv, OneCreditPerSerial
    <2> QED
      BY <2>3, <2>4, <2>5, <2>6 DEF SerialsInv, OneCreditPerSerial
  <1>3. CASE BridgeNext
    BY <1>1, <1>2, <1>3 DEF BridgeNext, bridge_init, update_registry_root, bridge_out
  <1> QED
    BY <1>1, <1>3 DEF OnChainStep, OnChainNext, onChainVars, bridgeVars

\* is_bridged prevents double minting, over any roots, proofs and departures.
THEOREM SerialsMintOnce == OnChainSpec => []OneCreditPerSerial
  <1>1. OnChainInit => SerialsInv
    BY DEF OnChainInit, RegistryInit, BridgeInit, SerialsInv, OneCreditPerSerial
  <1>2. SerialsInv => OneCreditPerSerial
    BY DEF SerialsInv
  <1> QED
    BY <1>1, <1>2, DeploymentIsSound, SerialsStep, PTL DEF OnChainSpec, OnChainStep

-----------------------------------------------------------------------------
(* Escrow. *)

\* An offer that is open on a credit, and that a step leaves as it is, is open
\* on it afterwards.
LEMMA StillOpen ==
    ASSUME NEW c \in CreditIds, NEW o \in ActiveOffers(c), offers'[o] = offers[o]
    PROVE  ActiveOffers(c)' # {}
  BY DEF ActiveOffers

\* Accounts that call the registry themselves neither move a credit into escrow,
\* nor out of it, nor end its being Active.
LEMMA DirectCallsLeaveEscrow ==
    ASSUME Sound, MARKET \notin Recipients, RegistryNext(Accounts, Recipients),
           NEW c \in CreditIds, owner'[c] = MARKET
    PROVE  owner[c] = MARKET /\ (status[c] = "Active" => status'[c] = "Active")
  <1> USE DEF Sound
  <1>0. MARKET \notin Accounts /\ Accounts \subseteq Address
        /\ \A k \in Accounts : k \notin retirers /\ k \notin bridges
    BY RegistryAssumption, MarketAssumption, DeploymentAssumption DEF Address, RegistryTypeOK
  <1>1. CASE AdminNext(Accounts)
    BY <1>1 DEF AdminNext, init, update_config, add_verifier, remove_verifier, add_bridge,
                remove_bridge, add_retirer, remove_retirer, creditVars
  <1>2. ASSUME NEW a \in Accounts, NEW m \in Metadata, submit_credit(a, m)
        PROVE  owner[c] = MARKET /\ status'[c] = status[c]
    <2>1. /\ status' = [status EXCEPT ![counter + 1] = "Pending"]
          /\ owner' = [owner EXCEPT ![counter + 1] = a]
      BY <1>2 DEF submit_credit, store_credit
    <2> QED
      BY <1>0, <2>1 DEF RegistryTypeOK
  <1>3. ASSUME NEW v \in Accounts, NEW d \in CreditIds, approve_and_mint(v, d) \/ reject_credit(v, d)
        PROVE  owner[c] = MARKET /\ (status[c] = "Active" => status'[c] = "Active")
    BY <1>3 DEF approve_and_mint, reject_credit, may_vote, RegistryTypeOK
  <1>4. ASSUME NEW from \in Accounts, NEW to \in Recipients, NEW d \in CreditIds,
               transfer_credit(from, to, d)
        PROVE  owner[c] = MARKET /\ status'[c] = status[c]
    BY <1>4 DEF transfer_credit, RegistryTypeOK
  <1>5. ~ \E k \in Accounts, d \in CreditIds : mark_retired(k, d)
    BY <1>0 DEF mark_retired
  <1>6. ~ \E k \in Accounts, to \in Recipients, m \in Metadata : mint_bridged(k, to, m)
    BY <1>0 DEF mint_bridged
  <1> QED
    BY <1>1, <1>2, <1>3, <1>4, <1>5, <1>6 DEF RegistryNext, CreditNext

\* A credit of the marketplace is Active and on offer after every call: only a sale
\* or a cancellation closes the offer, and it moves the credit out.
LEMMA EscrowStep ==
    ASSUME Sound, EscrowReleasable, MARKET \notin Recipients, OnChainStep
    PROVE  EscrowReleasable'
  <1> USE DEF Sound
  <1> SUFFICES ASSUME NEW c \in CreditIds, owner'[c] = MARKET
               PROVE  status'[c] = "Active" /\ ActiveOffers(c)' # {}
    BY DEF EscrowReleasable, Escrowed
  <1>0. MARKET \notin Accounts
    BY MarketAssumption, DeploymentAssumption
  <1>1. CASE owner[c] = MARKET /\ status'[c] = status[c] /\ UNCHANGED offers
    BY <1>1, StillOpen DEF EscrowReleasable, Escrowed
  <1>2. CASE UNCHANGED onChainVars
    BY <1>1, <1>2 DEF onChainVars, registryVars, marketVars
  <1>3. CASE RegistryNext(Accounts, Recipients) /\ UNCHANGED <<marketVars, trackerVars, bridgeVars>>
    <2>1. owner[c] = MARKET /\ (status[c] = "Active" => status'[c] = "Active")
      BY <1>3, DirectCallsLeaveEscrow
    <2> QED
      BY <1>1, <1>3, <2>1 DEF marketVars, EscrowReleasable, Escrowed
  <1>4. ASSUME NEW s \in Accounts, NEW d \in CreditIds, NEW p \in Prices, NEW n \in Amounts,
               NEW e \in Expiries, create_offer(s, d, p, n, e)
        PROVE  status'[c] = "Active" /\ ActiveOffers(c)' # {}
    <2> DEFINE new == [seller |-> s, credit_id |-> d, price |-> p, amount |-> n,
                       filled |-> 0, expiry |-> e, status |-> "Active"]
               id == offerCounter + 1
    <2>1. /\ status[d] = "Active" /\ status' = status
          /\ owner' = [owner EXCEPT ![d] = MARKET]
          /\ id \in OfferIds /\ offers[id] = None /\ offers' = [offers EXCEPT ![id] = new]
      BY <1>4, MarketAssumption
         DEF create_offer, next_offer_id, transfer_credit, may_transfer, OffersTypeOK, OfferIds
    <2>2. new # None /\ new.credit_id = d /\ new.status = "Active"
      BY MarketAssumption
    <2> HIDE DEF new, id
    <2>3. CASE c = d
      <3>1. offers'[id] = new
        BY <2>1 DEF OffersTypeOK
      <3> QED
        BY <2>1, <2>2, <2>3, <3>1 DEF ActiveOffers
    <2>4. CASE c # d
      <3>1. owner[c] = MARKET
        BY <2>1, <2>4 DEF RegistryTypeOK
      <3>2. PICK o \in ActiveOffers(c) : TRUE
        BY <3>1 DEF EscrowReleasable, Escrowed
      <3>3. offers'[o] = offers[o]
        BY <2>1, <3>2 DEF ActiveOffers, OffersTypeOK
      <3> QED
        BY <2>1, <3>1, <3>3, StillOpen DEF EscrowReleasable, Escrowed
    <2> QED
      BY <2>3, <2>4
  <1>5. ASSUME NEW o \in OfferIds, NEW to \in Accounts, NEW new,
               transfer_credit(MARKET, to, offers[o].credit_id), offers[o] # None,
               offers' = [offers EXCEPT ![o] = new]
        PROVE  status'[c] = "Active" /\ ActiveOffers(c)' # {}
    <2>1. offers[o] \in Offer
      BY <1>5 DEF OffersTypeOK
    <2>2. /\ offers[o].credit_id \in CreditIds
          /\ owner' = [owner EXCEPT ![offers[o].credit_id] = to] /\ status' = status
      BY <1>5, <2>1 DEF transfer_credit, Offer
    <2>3. c # offers[o].credit_id /\ owner[c] = MARKET
      BY <1>0, <2>2 DEF RegistryTypeOK
    <2>4. PICK q \in ActiveOffers(c) : TRUE
      BY <2>3 DEF EscrowReleasable, Escrowed
    <2>5. offers'[q] = offers[q]
      BY <1>5, <2>3, <2>4 DEF ActiveOffers, OffersTypeOK
    <2> QED
      BY <2>2, <2>3, <2>5, StillOpen DEF EscrowReleasable, Escrowed
  <1>6. ASSUME NEW b \in Accounts, NEW o \in OfferIds, NEW n \in Amounts, buy_credits(b, o, n)
        PROVE  status'[c] = "Active" /\ ActiveOffers(c)' # {}
    <2>1. /\ transfer_credit(MARKET, b, offers[o].credit_id)
          /\ offers[o] # None
          /\ offers' = [offers EXCEPT ![o] = filled_by(offers[o], n)]
      BY <1>6 DEF buy_credits, may_buy, OffersTypeOK
    <2> QED
      BY <1>5, <2>1
  <1>7. ASSUME NEW a \in Accounts, NEW o \in OfferIds, cancel_offer(a, o)
        PROVE  status'[c] = "Active" /\ ActiveOffers(c)' # {}
    <2>1. /\ transfer_credit(MARKET, offers[o].seller, offers[o].credit_id)
          /\ offers[o] # None
          /\ offers' = [offers EXCEPT ![o] = [offers[o] EXCEPT !.status = "Cancelled"]]
      BY <1>7 DEF cancel_offer, OffersTypeOK
    <2>2. offers[o].seller \in Accounts
      BY <2>1 DEF OffersTypeOK, Offer
    <2> QED
      BY <1>5, <2>1, <2>2
  <1>8. CASE MarketNext
    BY <1>1, <1>4, <1>6, <1>7, <1>8 DEF MarketNext, market_init, tick, offerVars, registryVars
  <1>9. ASSUME NEW o \in Accounts, NEW ids \in SUBSET CreditIds, Batch(o, ids), UNCHANGED offers
        PROVE  status'[c] = "Active" /\ ActiveOffers(c)' # {}
    BY <1>0, <1>1, <1>9 DEF Batch
  <1>10. CASE TrackerNext /\ UNCHANGED <<marketVars, bridgeVars>>
    <2>1. CASE tracker_init
      BY <1>1, <1>10, <2>1 DEF tracker_init, registryVars, marketVars
    <2> QED
      BY <1>9, <1>10, <2>1, TrackerBatches DEF marketVars
  <1>11. CASE BridgeNext /\ UNCHANGED <<marketVars, trackerVars>>
    <2>1. CASE (\E a \in Admins : bridge_init(a))
               \/ (\E a \in Accounts, r \in Registries, h \in Roots : update_registry_root(a, r, h))
      BY <1>1, <1>11, <2>1 DEF bridge_init, update_registry_root, registryVars, marketVars
    <2>2. ASSUME NEW b \in Accounts, NEW r \in Registries, NEW s \in Serials, NEW p \in Proofs,
                 NEW m \in Metadata, bridge_in(b, r, s, p, m)
          PROVE  owner[c] = MARKET /\ status'[c] = status[c]
      <3>1. /\ status' = [status EXCEPT ![counter + 1] = "Active"]
            /\ owner' = [owner EXCEPT ![counter + 1] = b]
        BY <2>2 DEF bridge_in, mint_bridged, store_credit
      <3> QED
        BY <1>0, <3>1 DEF RegistryTypeOK
    <2>3. ASSUME NEW o \in Accounts, NEW d \in CreditIds, bridge_out(o, d)
          PROVE  owner[c] = MARKET /\ status'[c] = status[c]
      BY <1>0, <2>3 DEF bridge_out, mark_retired, RegistryTypeOK
    <2> QED
      BY <1>1, <1>11, <2>1, <2>2, <2>3 DEF BridgeNext, marketVars
  <1> QED
    BY <1>2, <1>3, <1>8, <1>10, <1>11 DEF OnChainStep, OnChainNext

\* A credit that create_offer took into escrow can always be moved out of it,
\* however purchases, cancellations, votes, retirements and bridging interleave.
\* The one exception is a direct transfer to the marketplace's address, which no
\* offer stands for.
THEOREM EscrowNeverTraps ==
    ASSUME MARKET \notin Recipients
    PROVE  OnChainSpec => []EscrowReleasable
  <1>1. OnChainInit => EscrowReleasable
    BY MarketAssumption, RegistryAssumption
       DEF OnChainInit, RegistryInit, EscrowReleasable, Escrowed, Address
  <1>2. Sound /\ EscrowReleasable /\ OnChainStep => EscrowReleasable'
    BY EscrowStep
  <1> QED
    BY <1>1, <1>2, DeploymentIsSound, PTL DEF OnChainSpec, OnChainStep

-----------------------------------------------------------------------------
(* Sales. *)

\* Money is counted, and an id that was not handed out has no owner.
SalesInv ==
    /\ balance \in [Accounts -> Int]
    /\ \A c \in CreditIds : status[c] = "Absent" => owner[c] = None

\* Only a sale moves money; whoever gives a credit an owner also gives it a status.
LEMMA SalesStep ==
    ASSUME Sound, SalesInv, OnChainStep
    PROVE  SalesInv'
  <1> USE DEF Sound
  <1>1. balance' \in [Accounts -> Int]
    <2>1. CASE UNCHANGED balance
      BY <2>1 DEF SalesInv
    <2>2. ASSUME NEW b \in Accounts, NEW o \in OfferIds, NEW n \in Amounts, buy_credits(b, o, n)
          PROVE  balance' \in [Accounts -> Int]
      <3>1. offers[o] \in Offer
        BY <2>2 DEF buy_credits, may_buy, OffersTypeOK
      <3>2. n \in Nat /\ offers[o].price \in Nat
        BY <3>1, MarketAssumption DEF Offer
      <3>3. payment(offers[o].price, n) \in Int
        BY <3>2 DEF payment
      <3> QED
        BY <2>2, <3>3 DEF buy_credits, token_transfer, SalesInv
    <2> QED
      BY <2>1, <2>2
         DEF OnChainStep, OnChainNext, onChainVars, marketVars, MarketNext, market_init, tick,
             create_offer, cancel_offer, offerVars
  <1>2. \A c \in CreditIds : status'[c] = "Absent" => owner'[c] = None
    <2> USE DEF RegistryTypeOK, SalesInv
    <2>1. CASE UNCHANGED <<status, owner>>
      BY <2>1
    <2>2. CASE AdminNext(Address)
      BY <2>1, <2>2, AdminFrame DEF creditVars
    <2>3. ASSUME NEW s \in {"Pending", "Active"}, NEW tok, NEW m, NEW to, store_credit(s, tok, m, to)
          PROVE  \A c \in CreditIds : status'[c] = "Absent" => owner'[c] = None
      BY <2>3 DEF store_credit
    <2>4. ASSUME NEW v \in Address, NEW d \in CreditIds, approve_and_mint(v, d) \/ reject_credit(v, d)
          PROVE  \A c \in CreditIds : status'[c] = "Absent" => owner'[c] = None
      BY <2>4 DEF approve_and_mint, reject_credit, may_vote
    <2>5. ASSUME NEW from \in Address, NEW to \in Address, NEW d \in CreditIds,
                 transfer_credit(from, to, d)
          PROVE  \A c \in CreditIds : status'[c] = "Absent" => owner'[c] = None
      BY <2>5 DEF transfer_credit, may_transfer
    <2>6. ASSUME NEW k \in Address, NEW d \in CreditIds, mark_retired(k, d)
          PROVE  \A c \in CreditIds : status'[c] = "Absent" => owner'[c] = None
      BY <2>6 DEF mark_retired
    <2>7. CASE Step
      BY <2>1, <2>2, <2>3, <2>4, <2>5, <2>6, <2>7
         DEF Step, RegistryNext, CreditNext, submit_credit, mint_bridged, registryVars, creditVars
    <2>8. ASSUME NEW o \in Accounts, NEW ids \in SUBSET CreditIds, Batch(o, ids)
          PROVE  \A c \in CreditIds : status'[c] = "Absent" => owner'[c] = None
      BY <2>8 DEF Batch
    <2> QED
      BY <2>7, <2>8, RegistrySees
  <1> QED
    BY <1>1, <1>2 DEF SalesInv

\* A credit leaves the marketplace only by a purchase or a cancellation of an open
\* offer on it: nobody else signs with the marketplace's address.
LEMMA EscrowLeavers ==
    ASSUME Sound, SalesInv, OnChainStep, NEW c \in CreditIds, owner[c] = MARKET, owner'[c] # MARKET
    PROVE  \E o \in ActiveOffers(c) :
              \/ \E b \in Accounts, n \in Amounts : buy_credits(b, o, n)
              \/ \E a \in Accounts : cancel_offer(a, o)
  <1> USE DEF Sound
  <1>0. MARKET \notin Accounts /\ MARKET # None
    BY RegistryAssumption, MarketAssumption, DeploymentAssumption DEF Address
  <1>1. owner' # owner
    OBVIOUS
  <1>2. ~ \E s, tok, m, to : store_credit(s, tok, m, to)
    <2> SUFFICES ASSUME NEW s, NEW tok, NEW m, NEW to, store_credit(s, tok, m, to) PROVE FALSE
      OBVIOUS
    <2>1. owner[counter + 1] = None
      BY NewId DEF store_credit, SalesInv, Book
    <2>2. owner' = [owner EXCEPT ![counter + 1] = to]
      BY DEF store_credit
    <2> QED
      BY <1>0, <2>1, <2>2 DEF RegistryTypeOK
  <1>3. ~ \E from \in Accounts, to \in Address, d \in CreditIds : transfer_credit(from, to, d)
    BY <1>0 DEF transfer_credit, may_transfer, RegistryTypeOK
  <1>4. ~RegistryNext(Accounts, Recipients)
    BY <1>1, <1>2, <1>3, DeploymentAssumption
       DEF RegistryNext, AdminNext, CreditNext, init, update_config, add_verifier, remove_verifier,
           add_bridge, remove_bridge, add_retirer, remove_retirer, creditVars, submit_credit,
           approve_and_mint, reject_credit, mark_retired, mint_bridged
  <1>5. ~TrackerNext
    BY <1>1, TrackerBatches DEF tracker_init, registryVars, creditVars, Batch
  <1>6. ~BridgeNext
    BY <1>1, <1>2 DEF BridgeNext, bridge_init, bridge_in, bridge_out, update_registry_root,
                      mint_bridged, mark_retired, registryVars, creditVars
  <1>7. MarketNext
    BY <1>1, <1>4, <1>5, <1>6 DEF OnChainStep, OnChainNext, onChainVars, registryVars, creditVars
  <1>8. ASSUME NEW s \in Accounts, NEW d \in CreditIds, NEW p \in Prices, NEW n \in Amounts,
               NEW e \in Expiries, create_offer(s, d, p, n, e)
        PROVE  FALSE
    BY <1>8 DEF create_offer, transfer_credit, RegistryTypeOK
  <1>9. ASSUME NEW o \in OfferIds, NEW to, transfer_credit(MARKET, to, offers[o].credit_id),
               offers[o] # None, offers[o].status = "Active"
        PROVE  o \in ActiveOffers(c)
    <2>1. offers[o].credit_id \in CreditIds
      BY <1>9 DEF OffersTypeOK, Offer
    <2>2. offers[o].credit_id = c
      BY <1>9, <2>1 DEF transfer_credit, RegistryTypeOK
    <2> QED
      BY <1>9, <2>2 DEF ActiveOffers
  <1> QED
    BY <1>1, <1>7, <1>8, <1>9
       DEF MarketNext, market_init, tick, buy_credits, may_buy, cancel_offer, registryVars, creditVars

\* What the property says of one credit.
Exit(c) ==
    \E o \in ActiveOffers(c) :
        LET bought == offers'[o].filled - offers[o].filled
            paid == (bought * offers[o].price) \div 1000
        IN  \/ /\ owner'[c] = offers[o].seller
               /\ offers'[o].status = "Cancelled"
               /\ balance' = balance
            \/ /\ bought > 0
               /\ owner'[c] # offers[o].seller =>
                    /\ balance'[offers[o].seller] = balance[offers[o].seller] + paid
                    /\ balance'[owner'[c]] = balance[owner'[c]] - paid

\* A purchase pays the seller, a cancellation returns the credit to the seller.
LEMMA ExitStep ==
    ASSUME Sound, SalesInv, OnChainStep, NEW c \in CreditIds, owner[c] = MARKET, owner'[c] # MARKET
    PROVE  Exit(c)
  <1> USE DEF Sound
  <1>1. PICK o \in ActiveOffers(c) : \/ \E b \in Accounts, n \in Amounts : buy_credits(b, o, n)
                                     \/ \E a \in Accounts : cancel_offer(a, o)
    BY EscrowLeavers
  <1>2. o \in OfferIds /\ offers[o] # None /\ offers[o].credit_id = c
    BY DEF ActiveOffers
  <1>3. offers[o] \in Offer
    BY <1>2 DEF OffersTypeOK
  <1>4. ASSUME NEW a \in Accounts, cancel_offer(a, o)
        PROVE  Exit(c)
    <2>1. owner'[c] = offers[o].seller /\ balance' = balance
      BY <1>2, <1>4 DEF cancel_offer, transfer_credit, RegistryTypeOK
    <2>2. offers'[o] = [offers[o] EXCEPT !.status = "Cancelled"]
      BY <1>2, <1>4 DEF cancel_offer, OffersTypeOK
    <2>3. offers'[o].status = "Cancelled"
      BY <1>3, <2>2 DEF Offer
    <2> QED
      BY <2>1, <2>3 DEF Exit
  <1>5. ASSUME NEW b \in Accounts, NEW n \in Amounts, buy_credits(b, o, n)
        PROVE  Exit(c)
    <2> DEFINE seller == offers[o].seller
               paid == payment(offers[o].price, n)
    <2>1. owner'[c] = b
      BY <1>2, <1>5 DEF buy_credits, transfer_credit, RegistryTypeOK
    <2>2. n \in Nat /\ n > 0 /\ offers[o].price \in Nat /\ offers[o].filled \in Nat /\ seller \in Accounts
      BY <1>3, <1>5, MarketAssumption DEF buy_credits, may_buy, Offer
    <2>3. offers'[o].filled = offers[o].filled + n
      <3>1. offers'[o] = filled_by(offers[o], n)
        BY <1>2, <1>5 DEF buy_credits, OffersTypeOK
      <3> QED
        BY <1>3, <3>1 DEF filled_by, Offer
    <2>4. offers'[o].filled - offers[o].filled = n
      BY <2>2, <2>3
    <2>5. paid \in Int
      BY <2>2 DEF payment
    <2>6. balance' = [a \in Accounts |->
             balance[a] + (IF a = seller THEN paid ELSE 0) - (IF a = b THEN paid ELSE 0)]
      BY <1>5 DEF buy_credits, token_transfer
    <2> HIDE DEF paid, seller
    <2>7. b # seller => /\ balance'[seller] = balance[seller] + paid
                        /\ balance'[b] = balance[b] - paid
      <3> SUFFICES ASSUME b # seller PROVE /\ balance'[seller] = balance[seller] + paid
                                           /\ balance'[b] = balance[b] - paid
        OBVIOUS
      <3>1. balance[seller] \in Int /\ balance[b] \in Int
        BY <2>2 DEF SalesInv
      <3>2. /\ balance'[seller] = balance[seller] + paid - 0
            /\ balance'[b] = balance[b] + 0 - paid
        BY <2>2, <2>6
      <3> QED
        BY <2>5, <3>1, <3>2
    <2>8. paid = (n * offers[o].price) \div 1000
      BY DEF paid, payment
    <2> QED
      BY <2>1, <2>2, <2>4, <2>7, <2>8 DEF Exit, seller
  <1> QED
    BY <1>1, <1>4, <1>5

\* No credit of the marketplace is given away: it goes to a buyer who pays the
\* seller for what the offer grew by, or back to the seller under a cancellation,
\* however offers, partial fills and resales of one credit pile up.
THEOREM EscrowIsSoldOrReturned == OnChainSpec => EscrowExitIsSaleOrReturn
  <1>1. OnChainInit => SalesInv
    BY MarketAssumption DEF OnChainInit, RegistryInit, MarketInit, SalesInv
  <1>2. Sound /\ SalesInv /\ OnChainStep =>
          \A c \in CreditIds : Escrowed(c) /\ owner'[c] # MARKET => Exit(c)
    BY ExitStep DEF Escrowed
  <1>3. Sound /\ SalesInv /\ OnChainStep =>
          [\A c \in CreditIds : Escrowed(c) /\ owner'[c] # MARKET => Exit(c)]_onChainVars
    BY <1>2
  <1> QED
    BY <1>1, <1>3, DeploymentIsSound, SalesStep, PTL
       DEF OnChainSpec, OnChainStep, EscrowExitIsSaleOrReturn, Exit

-----------------------------------------------------------------------------
(* Offers and escrow, when every purchase takes the whole offer. *)

\* Sellers and buyers pass one amount, besides zeros, which the contract refuses.
OneAmount == \A m, n \in Amounts : m > 0 /\ n > 0 => m = n

\* An open offer is untouched, its credit is in escrow, and it is the only one.
SoleOffer ==
    \A c \in CreditIds : \A o \in ActiveOffers(c) :
        /\ owner[c] = MARKET
        /\ offers[o].filled = 0 /\ offers[o].amount > 0
        /\ \A p \in ActiveOffers(c) : p = o

\* A purchase or a cancellation changes its offer.
LEMMA SaleChangesOffers ==
    ASSUME Sound, NEW o \in OfferIds,
           \/ \E b \in Accounts, n \in Amounts : buy_credits(b, o, n)
           \/ \E a \in Accounts : cancel_offer(a, o)
    PROVE  offers' # offers
  <1> USE DEF Sound
  <1>1. ASSUME NEW b \in Accounts, NEW n \in Amounts, buy_credits(b, o, n)
        PROVE  offers' # offers
    <2>1. offers[o] \in Offer /\ n \in Nat /\ n > 0
      BY <1>1, MarketAssumption DEF buy_credits, may_buy, OffersTypeOK
    <2>2. offers'[o] = filled_by(offers[o], n)
      BY <1>1 DEF buy_credits, OffersTypeOK
    <2>3. offers'[o].filled = offers[o].filled + n
      BY <2>1, <2>2 DEF filled_by, Offer
    <2> QED
      BY <2>1, <2>3 DEF Offer
  <1>2. ASSUME NEW a \in Accounts, cancel_offer(a, o)
        PROVE  offers' # offers
    <2>1. offers[o] \in Offer /\ offers[o].status = "Active"
      BY <1>2 DEF cancel_offer, OffersTypeOK
    <2>2. offers'[o] = [offers[o] EXCEPT !.status = "Cancelled"]
      BY <1>2 DEF cancel_offer, OffersTypeOK
    <2>3. offers'[o].status = "Cancelled"
      BY <2>1, <2>2 DEF Offer
    <2> QED
      BY <2>1, <2>3
  <1> QED
    BY <1>1, <1>2

\* An offer that a sale or a cancellation closes takes the credit's only offer away,
\* and the other credits keep theirs.
LEMMA ClosedOffer ==
    ASSUME Sound, SoleOffer, NEW o \in OfferIds, NEW to \in Accounts, NEW new \in Offer,
           new.status # "Active", transfer_credit(MARKET, to, offers[o].credit_id),
           offers[o] # None, offers[o].status = "Active",
           offers' = [offers EXCEPT ![o] = new]
    PROVE  SoleOffer'
  <1> USE DEF Sound
  <1>1. offers[o].credit_id \in CreditIds
    BY DEF OffersTypeOK, Offer
  <1>2. owner' = [owner EXCEPT ![offers[o].credit_id] = to]
    BY DEF transfer_credit
  <1>3. o \in ActiveOffers(offers[o].credit_id)
    BY DEF ActiveOffers
  <1>4. ASSUME NEW c \in CreditIds
        PROVE  ActiveOffers(c)' = ActiveOffers(c) \ {o}
    BY DEF ActiveOffers, OffersTypeOK
  <1>5. ASSUME NEW c \in CreditIds, NEW p \in ActiveOffers(c)'
        PROVE  /\ owner'[c] = MARKET
               /\ offers'[p].filled = 0 /\ offers'[p].amount > 0
               /\ \A q \in ActiveOffers(c)' : q = p
    <2>1. p \in ActiveOffers(c) /\ p # o
      BY <1>4, <1>5
    <2>2. c # offers[o].credit_id
      BY <1>1, <1>3, <2>1 DEF SoleOffer
    <2>3. owner'[c] = owner[c] /\ offers'[p] = offers[p]
      BY <1>2, <2>1, <2>2 DEF RegistryTypeOK, OffersTypeOK, ActiveOffers
    <2> QED
      BY <1>4, <2>1, <2>3 DEF SoleOffer
  <1> QED
    BY <1>5 DEF SoleOffer

\* Every step leaves each open offer whole, and alone on a credit in escrow.
LEMMA SoleOfferStep ==
    ASSUME OneAmount, Sound, SalesInv, SoleOffer, OnChainStep
    PROVE  SoleOffer'
  <1> USE DEF Sound
  <1>1. CASE UNCHANGED offers
    <2>1. ASSUME NEW c \in CreditIds, owner[c] = MARKET
          PROVE  owner'[c] = MARKET
      BY <1>1, <2>1, EscrowLeavers, SaleChangesOffers DEF ActiveOffers
    <2>2. ASSUME NEW c \in CreditIds PROVE ActiveOffers(c)' = ActiveOffers(c)
      BY <1>1 DEF ActiveOffers
    <2> QED
      BY <1>1, <2>1, <2>2 DEF SoleOffer
  <1>2. ASSUME NEW s \in Accounts, NEW d \in CreditIds, NEW p \in Prices, NEW n \in Amounts,
               NEW e \in Expiries, create_offer(s, d, p, n, e)
        PROVE  SoleOffer'
    <2> DEFINE new == [seller |-> s, credit_id |-> d, price |-> p, amount |-> n,
                       filled |-> 0, expiry |-> e, status |-> "Active"]
               id == offerCounter + 1
    <2>1. /\ owner[d] = s /\ n > 0
          /\ owner' = [owner EXCEPT ![d] = MARKET]
          /\ id \in OfferIds /\ offers[id] = None /\ offers' = [offers EXCEPT ![id] = new]
      BY <1>2, MarketAssumption
         DEF create_offer, next_offer_id, transfer_credit, may_transfer, OffersTypeOK, OfferIds
    <2>2. /\ new # None /\ new.credit_id = d /\ new.status = "Active"
          /\ new.filled = 0 /\ new.amount = n
      BY MarketAssumption
    <2>3. s # MARKET
      BY MarketAssumption, DeploymentAssumption
    <2> HIDE DEF new, id
    <2>4. ActiveOffers(d) = {}
      BY <2>1, <2>3 DEF SoleOffer
    <2>5. offers'[id] = new /\ \A o \in OfferIds : o # id => offers'[o] = offers[o]
      BY <2>1 DEF OffersTypeOK
    <2>6. ActiveOffers(d)' = {id}
      BY <2>1, <2>2, <2>4, <2>5 DEF ActiveOffers
    <2>7. ASSUME NEW c \in CreditIds, c # d PROVE ActiveOffers(c)' = ActiveOffers(c)
      BY <2>1, <2>2, <2>5, <2>7 DEF ActiveOffers
    <2>8. ASSUME NEW c \in CreditIds, NEW o \in ActiveOffers(c)'
          PROVE  /\ owner'[c] = MARKET
                 /\ offers'[o].filled = 0 /\ offers'[o].amount > 0
                 /\ \A q \in ActiveOffers(c)' : q = o
      <3>1. CASE c = d
        BY <2>1, <2>2, <2>5, <2>6, <2>8, <3>1 DEF RegistryTypeOK
      <3>2. CASE c # d
        <4>1. o \in ActiveOffers(c) /\ o \in OfferIds /\ o # id
          BY <2>1, <2>7, <2>8, <3>2 DEF ActiveOffers
        <4>2. offers'[o] = offers[o] /\ owner'[c] = owner[c]
          BY <2>1, <2>5, <3>2, <4>1 DEF RegistryTypeOK
        <4> QED
          BY <2>7, <3>2, <4>1, <4>2 DEF SoleOffer
      <3> QED
        BY <3>1, <3>2
    <2> QED
      BY <2>8 DEF SoleOffer
  <1>3. ASSUME NEW b \in Accounts, NEW o \in OfferIds, NEW n \in Amounts, buy_credits(b, o, n)
        PROVE  SoleOffer'
    <2>1. /\ offers[o] \in Offer /\ offers[o] # None /\ offers[o].status = "Active"
          /\ n > 0 /\ n \in Nat
          /\ transfer_credit(MARKET, b, offers[o].credit_id)
          /\ offers' = [offers EXCEPT ![o] = filled_by(offers[o], n)]
      BY <1>3, MarketAssumption DEF buy_credits, may_buy, OffersTypeOK
    <2>2. offers[o].filled = 0 /\ offers[o].amount > 0
      <3>1. o \in ActiveOffers(offers[o].credit_id) /\ offers[o].credit_id \in CreditIds
        BY <2>1 DEF ActiveOffers, Offer
      <3> QED
        BY <3>1 DEF SoleOffer
    <2>3. offers[o].amount = n
      BY <2>1, <2>2 DEF OneAmount, Offer
    <2>4. filled_by(offers[o], n) \in Offer /\ filled_by(offers[o], n).status = "Filled"
      <3>1. offers[o].filled + n = n /\ n >= offers[o].amount
        BY <2>1, <2>2, <2>3
      <3>2. filled_by(offers[o], n) = [[offers[o] EXCEPT !.filled = n] EXCEPT !.status = "Filled"]
        BY <3>1 DEF filled_by
      <3> QED
        BY <2>1, <3>2 DEF Offer
    <2> QED
      BY <2>1, <2>4, ClosedOffer
  <1>4. ASSUME NEW a \in Accounts, NEW o \in OfferIds, cancel_offer(a, o)
        PROVE  SoleOffer'
    <2> DEFINE new == [offers[o] EXCEPT !.status = "Cancelled"]
    <2>1. /\ offers[o] \in Offer /\ offers[o] # None /\ offers[o].status = "Active"
          /\ transfer_credit(MARKET, offers[o].seller, offers[o].credit_id)
          /\ offers' = [offers EXCEPT ![o] = new]
      BY <1>4 DEF cancel_offer, OffersTypeOK
    <2>2. offers[o].seller \in Accounts /\ new \in Offer /\ new.status # "Active"
      BY <2>1 DEF Offer
    <2> HIDE DEF new
    <2> QED
      BY <2>1, <2>2, ClosedOffer
  <1>5. CASE MarketNext
    BY <1>1, <1>2, <1>3, <1>4, <1>5 DEF MarketNext, market_init, tick, offerVars
  <1> QED
    BY <1>1, <1>5 DEF OnChainStep, OnChainNext, onChainVars, marketVars

\* When every purchase takes the whole offer, a credit in escrow is on exactly one
\* open offer and every other credit on none, over any number of offers, resales,
\* votes, retirements and departures.  With partial purchases this is false: the
\* offers pile up that onchain_double_sell sells twice.
THEOREM OpenOffersAreBacked ==
    ASSUME OneAmount, MARKET \notin Recipients
    PROVE  OnChainSpec => []OpenOfferIsBacked
  <1>1. OnChainInit => SalesInv /\ EscrowReleasable /\ SoleOffer
    BY MarketAssumption, RegistryAssumption
       DEF OnChainInit, RegistryInit, MarketInit, SalesInv, EscrowReleasable, Escrowed, Address,
           SoleOffer, ActiveOffers
  <1>2. ASSUME EscrowReleasable, SoleOffer
        PROVE  OpenOfferIsBacked
    <2> SUFFICES ASSUME NEW c \in CreditIds
                 PROVE  Cardinality(ActiveOffers(c)) = IF Escrowed(c) THEN 1 ELSE 0
      BY DEF OpenOfferIsBacked
    <2>1. CASE Escrowed(c)
      <3>1. PICK o \in ActiveOffers(c) : TRUE
        BY <1>2, <2>1 DEF EscrowReleasable
      <3>2. ActiveOffers(c) = {o}
        BY <1>2, <3>1 DEF SoleOffer
      <3> QED
        BY <2>1, <3>2, FS_Singleton
    <2>2. CASE ~Escrowed(c)
      <3>1. ActiveOffers(c) = {}
        BY <1>2, <2>2 DEF SoleOffer, Escrowed
      <3> QED
        BY <2>2, <3>1, FS_EmptySet
    <2> QED
      BY <2>1, <2>2
  <1>3. SalesInv /\ Sound /\ OnChainStep => SalesInv'
    BY SalesStep
  <1>4. Sound /\ EscrowReleasable /\ OnChainStep => EscrowReleasable'
    BY EscrowStep
  <1>5. Sound /\ SalesInv /\ SoleOffer /\ OnChainStep => SoleOffer'
    BY SoleOfferStep
  <1> QED
    BY <1>1, <1>2, <1>3, <1>4, <1>5, DeploymentIsSound, PTL DEF OnChainSpec, OnChainStep

-----------------------------------------------------------------------------
(* The registry's promises, with the other contracts writing it. *)

\* Only the registry writes approvals: nobody votes twice in the deployment either.
LEMMA OneVoteStep == Sound /\ OneVotePerVerifier /\ OnChainStep => OneVotePerVerifier'
  <1> SUFFICES ASSUME Sound, OneVotePerVerifier, OnChainStep PROVE OneVotePerVerifier'
    OBVIOUS
  <1>1. CASE Step
    BY <1>1, VoteOnceStep DEF Sound
  <1>2. CASE \E o \in Accounts : \E ids \in SUBSET CreditIds : Batch(o, ids)
    BY <1>2 DEF Batch, OneVotePerVerifier
  <1> QED
    BY <1>1, <1>2, RegistrySees DEF Sound

\* No verifier votes twice on a credit, whatever marketplace, tracker and bridge
\* do to the registry meanwhile.
THEOREM DeploymentVotesOnce == OnChainSpec => []OneVotePerVerifier
  <1>1. OnChainInit => OneVotePerVerifier
    BY DEF OnChainInit, RegistryInit, OneVotePerVerifier
  <1> QED
    BY <1>1, DeploymentIsSound, OneVoteStep, PTL DEF OnChainSpec, OnChainStep

\* No call of the other contracts makes a Pending credit Active: in the deployment
\* too a mint has as many different approvers as the threshold asks for.
THEOREM DeploymentMintsApproved == OnChainSpec => MintNeedsApprovers
  <1> DEFINE Minted == \A c \in CreditIds : status[c] = "Pending" /\ status'[c] = "Active" =>
                 Cardinality(Approvers(votes'[c])) >= config.verifier_threshold
  <1>1. Sound /\ Sound' /\ OneVotePerVerifier' /\ OnChainStep => [Minted]_registryVars
    <2> SUFFICES ASSUME Sound, Sound', OneVotePerVerifier', OnChainStep,
                        NEW c \in CreditIds, status[c] = "Pending", status'[c] = "Active"
                 PROVE  Cardinality(Approvers(votes'[c])) >= config.verifier_threshold
      OBVIOUS
    <2>1. CASE Step
      BY <2>1, MintStep DEF Sound
    <2>2. CASE \E o \in Accounts : \E ids \in SUBSET CreditIds : Batch(o, ids)
      BY <2>2 DEF Batch
    <2> QED
      BY <2>1, <2>2, RegistrySees DEF Sound
  <1> QED
    BY <1>1, DeploymentIsSound, DeploymentVotesOnce, PTL
       DEF OnChainSpec, OnChainStep, MintNeedsApprovers

\* The owner finds its credit in get_credits_by_owner after sales, returns to the
\* seller, imports and retirements too.
COROLLARY CreditsAreFound == OnChainSpec => []OwnerFindsCredit
  BY DeploymentIsSound, PTL DEF Sound, Book

\* The token id marks the minted credits on every path of the four contracts.
COROLLARY TokensMarkMintedEverywhere == OnChainSpec => []TokenIffMinted
  BY DeploymentIsSound, PTL DEF Sound, Book

\* A batch of the tracker is one step of the ledger, which retires all its
\* credits at once; an empty one leaves the ledger alone.
LEMMA BatchIsRetire ==
    ASSUME RegistryTypeOK, NEW o \in Accounts, NEW ids \in SUBSET CreditIds, Batch(o, ids)
    PROVE  Ledger!LedgerNext \/ UNCHANGED Ledger!ledgerVars
  <1>1. CASE ids = {}
    <2>1. status' = status
      BY <1>1 DEF Batch, RegistryTypeOK
    <2> QED
      BY <2>1 DEF Batch, adminVars, Ledger!ledgerVars
  <1>2. CASE ids # {}
    <2>1. Ledger!Retire(ids)
      BY <1>2 DEF Batch, adminVars, Ledger!Retire
    <2> QED
      BY <2>1 DEF Ledger!LedgerNext
  <1> QED
    BY <1>1, <1>2

\* The four contracts together implement the credit ledger: trades, batches of
\* retirements, imports and departures are moves, retirements and creations that
\* the ledger allows, and none of them decides a credit.
THEOREM DeploymentImplementsLedger == OnChainSpec => ImplementsLedger
  <1>1. OnChainInit => Ledger!LedgerInit
    BY DEF OnChainInit, RegistryInit, Ledger!LedgerInit, Approvers, Rejecters
  <1>2. Sound /\ Sound' /\ OneVotePerVerifier' /\ OnChainStep
           => [Ledger!LedgerNext]_(Ledger!ledgerVars)
    <2> SUFFICES ASSUME Sound, Sound', OneVotePerVerifier', OnChainStep
                 PROVE  Ledger!LedgerNext \/ UNCHANGED Ledger!ledgerVars
      OBVIOUS
    <2>1. CASE Step
      BY <2>1, LedgerStep DEF Sound
    <2>2. CASE \E o \in Accounts : \E ids \in SUBSET CreditIds : Batch(o, ids)
      BY <2>2, BatchIsRetire DEF Sound
    <2> QED
      BY <2>1, <2>2, RegistrySees DEF Sound
  <1> QED
    BY <1>1, <1>2, DeploymentIsSound, DeploymentVotesOnce, PTL
       DEF OnChainSpec, OnChainStep, ImplementsLedger, Ledger!LedgerSpec

=============================================================================
