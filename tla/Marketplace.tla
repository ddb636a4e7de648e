---------------------------- MODULE Marketplace ----------------------------
(***************************************************************************)
(* contracts/marketplace: sell offers on credits held in escrow by the     *)
(* marketplace's own address, filled in full or in part, or cancelled.     *)
(* The settlement token and the ledger clock are external.                 *)
(***************************************************************************)
EXTENDS CreditRegistry

CONSTANTS
    MARKET,        \* the marketplace's address
    Prices,        \* the prices sellers pass, in stroops per millitonne
    Amounts,       \* the amounts sellers and buyers pass
    Expiries,      \* the expiries sellers pass; None for Option::None
    MaxOffers,     \* bound on the offer counter (a u64 in the code)
    MaxTime,       \* bound on the ledger clock
    Funds          \* the tokens every account starts with

OfferIds == 1..MaxOffers

ASSUME MarketAssumption ==
    /\ MARKET \in Contracts
    /\ MARKET \notin BridgeContracts \cup RetirerContracts
    /\ Prices \cup Amounts \subseteq Nat
    /\ Expiries \subseteq Nat \cup {None}
    /\ None \notin Nat
    /\ MaxOffers \in Nat /\ MaxTime \in Nat /\ Funds \in Nat
    /\ None \notin [seller : Accounts, credit_id : CreditIds, price : Prices, amount : Amounts,
                   filled : Nat, expiry : Expiries, status : {"Active", "Filled", "Cancelled"}]

VARIABLES
    marketReady,   \* init has stored the registry's address
    offerCounter,
    offers,        \* ("o", id), None when there is no such offer
    sellerList,    \* ("s", seller)
    allOffers,     \* "all"
    balance,       \* the settlement token's balances
    now            \* env.ledger().timestamp()

offerVars == <<offerCounter, offers, sellerList, allOffers>>
marketVars == <<marketReady, offerCounter, offers, sellerList, allOffers, balance, now>>

-----------------------------------------------------------------------------
expired(o) == offers[o].expiry # None /\ now > offers[o].expiry

payment(price, amount) == (amount * price) \div 1000

\* token_client.transfer: moves the tokens or panics when there are too few.
token_transfer(from, to, n) ==
    /\ balance[from] >= n
    /\ balance' = [a \in Accounts |->
          balance[a] + (IF a = to THEN n ELSE 0) - (IF a = from THEN n ELSE 0)]

\* Any caller may run init, again too: it stores the registry's address.
market_init == marketReady' = TRUE /\ UNCHANGED <<offerVars, balance, now, registryVars>>

next_offer_id == offerCounter + 1

create_offer(seller, c, price, amount, expiry) ==
    LET id == next_offer_id
    IN  /\ amount > 0
        /\ price > 0
        /\ expiry # None => expiry > now
        /\ marketReady
        /\ transfer_credit(seller, MARKET, c)
        /\ offerCounter < MaxOffers
        /\ offerCounter' = id
        /\ offers' = [offers EXCEPT ![id] =
              [seller |-> seller, credit_id |-> c, price |-> price, amount |-> amount,
               filled |-> 0, expiry |-> expiry, status |-> "Active"]]
        /\ sellerList' = [sellerList EXCEPT ![seller] = Append(@, id)]
        /\ allOffers' = Append(allOffers, id)
        /\ UNCHANGED <<marketReady, balance, now>>

\* The offer after a purchase of amount from it.
filled_by(o, amount) ==
    LET filled == o.filled + amount
    IN  [o EXCEPT !.filled = filled, !.status = IF filled >= o.amount THEN "Filled" ELSE @]

may_buy(o, amount) ==
    /\ offers[o] # None
    /\ offers[o].status = "Active"
    /\ ~expired(o)
    /\ amount > 0
    /\ amount <= offers[o].amount - offers[o].filled

\* Whatever the amount, the whole credit leaves the escrow.
buy_credits(buyer, o, amount) ==
    /\ may_buy(o, amount)
    /\ token_transfer(buyer, offers[o].seller, payment(offers[o].price, amount))
    /\ marketReady
    /\ transfer_credit(MARKET, buyer, offers[o].credit_id)
    /\ offers' = [offers EXCEPT ![o] = filled_by(@, amount)]
    /\ UNCHANGED <<marketReady, offerCounter, sellerList, allOffers, now>>

\* Mutants: the credit goes to whoever cancels; the offer stays open.
cancel_offer_ToCaller(caller, o) ==
    /\ offers[o] # None
    /\ offers[o].seller # caller => expired(o)
    /\ offers[o].status = "Active"
    /\ marketReady
    /\ transfer_credit(MARKET, caller, offers[o].credit_id)
    /\ offers' = [offers EXCEPT ![o].status = "Cancelled"]
    /\ UNCHANGED <<marketReady, offerCounter, sellerList, allOffers, balance, now>>
cancel_offer_StaysOpen(caller, o) ==
    /\ offers[o] # None
    /\ offers[o].seller # caller => expired(o)
    /\ offers[o].status = "Active"
    /\ marketReady
    /\ transfer_credit(MARKET, offers[o].seller, offers[o].credit_id)
    /\ UNCHANGED marketVars

cancel_offer(caller, o) ==
    /\ offers[o] # None
    /\ offers[o].seller # caller => expired(o)
    /\ offers[o].status = "Active"
    /\ marketReady
    /\ transfer_credit(MARKET, offers[o].seller, offers[o].credit_id)
    /\ offers' = [offers EXCEPT ![o].status = "Cancelled"]
    /\ UNCHANGED <<marketReady, offerCounter, sellerList, allOffers, balance, now>>

\* The ledger closes and its clock moves on.
tick == now < MaxTime /\ now' = now + 1 /\ UNCHANGED <<marketReady, offerVars, balance, registryVars>>

MarketInit ==
    /\ marketReady = FALSE
    /\ offerCounter = 0
    /\ offers = [o \in OfferIds |-> None]
    /\ sellerList = [a \in Accounts |-> << >>]
    /\ allOffers = << >>
    /\ balance = [a \in Accounts |-> Funds]
    /\ now = 0

MarketNext ==
    \/ market_init
    \/ \E s \in Accounts, c \in CreditIds, p \in Prices, n \in Amounts, e \in Expiries :
          create_offer(s, c, p, n, e)
    \/ \E b \in Accounts, o \in OfferIds, n \in Amounts : buy_credits(b, o, n)
    \/ \E a \in Accounts, o \in OfferIds : cancel_offer(a, o)
    \/ tick

=============================================================================
