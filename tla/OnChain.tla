------------------------------ MODULE OnChain ------------------------------
(***************************************************************************)
(* The four contracts that share the credits, deployed together: the       *)
(* registry, and the marketplace, the retirement tracker and the Merkle    *)
(* bridge that call it.  Accounts sign direct calls of every contract; the *)
(* contracts' addresses sign only inside the calls of their own code.      *)
(***************************************************************************)
EXTENDS Marketplace, RetirementTracker, MerkleBridge

CONSTANT Recipients  \* whom accounts send credits to with transfer_credit

\* Accounts are keys and contracts are code: no address is both.
ASSUME DeploymentAssumption ==
    /\ Recipients \subseteq Address
    /\ Accounts \cap Contracts = {}

onChainVars == <<registryVars, marketVars, trackerVars, bridgeVars>>

OnChainInit == RegistryInit /\ MarketInit /\ TrackerInit /\ BridgeInit

OnChainNext ==
    \/ RegistryNext(Accounts, Recipients) /\ UNCHANGED <<marketVars, trackerVars, bridgeVars>>
    \/ MarketNext /\ UNCHANGED <<trackerVars, bridgeVars>>
    \/ TrackerNext /\ UNCHANGED <<marketVars, bridgeVars>>
    \/ BridgeNext /\ UNCHANGED <<marketVars, trackerVars>>

OnChainSpec == OnChainInit /\ [][OnChainNext]_onChainVars

-----------------------------------------------------------------------------
(* Retirement. *)

\* No double counting: a credit is Retired exactly when the tracker holds its
\* record or the bridge announced that it left, and never for both reasons.
RetiredOnce ==
    \A c \in CreditIds :
        /\ status[c] = "Retired" <=> (is_retired(c) \/ c \in bridgedOut)
        /\ ~(is_retired(c) /\ c \in bridgedOut)

-----------------------------------------------------------------------------
(* Bridging. *)

\* is_bridged prevents double minting: two credits never stand for the same
\* serial of a registry, also when the first was sent back or the root changed,
\* and no credit that was put to the vote stands for one.
OneCreditPerSerial ==
    \A c \in CreditIds : origin[c] # None =>
        /\ origin[c] \in bridged
        /\ votes[c] = << >>
        /\ \A d \in CreditIds : origin[d] = origin[c] => d = c

-----------------------------------------------------------------------------
(* Trading. *)

Escrowed(c) == owner[c] = MARKET
ActiveOffers(c) ==
    {o \in OfferIds : offers[o] # None /\ offers[o].credit_id = c /\ offers[o].status = "Active"}

\* Escrow never traps a credit: one held by the marketplace is still Active, so
\* it can be moved, and some open offer lets its seller take it back.
EscrowReleasable ==
    \A c \in CreditIds : Escrowed(c) => status[c] = "Active" /\ ActiveOffers(c) # {}

\* When every purchase takes the whole offer, an offer is open exactly as long
\* as its credit is in escrow, and no credit is offered twice.
OpenOfferIsBacked ==
    \A c \in CreditIds : Cardinality(ActiveOffers(c)) = IF Escrowed(c) THEN 1 ELSE 0

\* A credit leaves the escrow only to the seller of an offer that this step
\* cancels, or to a buyer, and then the offer grew by what the seller was paid
\* for, rounded down to a whole stroop.
EscrowExitIsSaleOrReturn ==
    [][\A c \in CreditIds : Escrowed(c) /\ owner'[c] # MARKET =>
          \E o \in ActiveOffers(c) :
              LET bought == offers'[o].filled - offers[o].filled
                  paid == (bought * offers[o].price) \div 1000
              IN  \/ /\ owner'[c] = offers[o].seller
                     /\ offers'[o].status = "Cancelled"
                     /\ balance' = balance
                  \/ /\ bought > 0
                     /\ owner'[c] # offers[o].seller =>
                          /\ balance'[offers[o].seller] = balance[offers[o].seller] + paid
                          /\ balance'[owner'[c]] = balance[owner'[c]] - paid]_onChainVars

-----------------------------------------------------------------------------
(* A claim of the documentation, which the code does not keep. *)

\* overview.md: escrow on offer creation, "preventing double-sell".  A credit
\* leaves the escrow under the newest offer on it, the one that put it there,
\* never under an earlier one that was already paid for in part.
NoDoubleSell ==
    [][\A c \in CreditIds : Escrowed(c) /\ owner'[c] # MARKET =>
          \E o \in ActiveOffers(c) :
              /\ offers'[o] # offers[o]
              /\ \A p \in ActiveOffers(c) : p <= o]_onChainVars

=============================================================================
