---------------------------- MODULE MerkleBridge ----------------------------
(***************************************************************************)
(* contracts/merkle-bridge: imports credits of legacy registries against a *)
(* Merkle proof and sends credits back by retiring them here.              *)
(*                                                                         *)
(* A hash is a term: sha256 of the sorted concatenation of two hashes is   *)
(* the unordered pair of the two, so hashes are equal only when they are   *)
(* hashes of the same things.                                              *)
(***************************************************************************)
EXTENDS CreditRegistry

LOCAL INSTANCE SequencesExt

CONSTANTS
    BRIDGE,        \* the bridge's address
    Registries,    \* names of the legacy registries
    Serials,       \* serial numbers in them
    Roots,         \* the roots an admin publishes
    Proofs         \* the [leaf, proof] callers pass

ASSUME BridgeAssumption ==
    /\ BRIDGE \in BridgeContracts
    /\ BRIDGE \in RetirerContracts
    /\ None \notin Roots

VARIABLES
    bridgeAdmin,   \* DataKey::Admin, None before init
    root,          \* DataKey::RegistryRoot(registry), None when not published
    bridged,       \* the (registry, serial) with DataKey::BridgedStatus
    origin,        \* from the bridged events: the (registry, serial) of a credit
    bridgedOut     \* from the bridge_ot events: the credits sent back

bridgeVars == <<bridgeAdmin, root, bridged, origin, bridgedOut>>

-----------------------------------------------------------------------------
\* Fold the siblings into the leaf, from the bottom up.
verify_proof(leaf, proof, r) ==
    FoldLeft(LAMBDA computed, sibling : {computed, sibling}, leaf, proof) = r

\* Refused once an admin is stored.
bridge_init(admin) ==
    /\ bridgeAdmin = None
    /\ bridgeAdmin' = admin
    /\ UNCHANGED <<root, bridged, origin, bridgedOut, registryVars>>

\* Mutant: nobody looks whether the serial came in before.
not_bridged_Unchecked(r, s) == TRUE

not_bridged(r, s) == <<r, s>> \notin bridged

\* The proof shows a leaf under the root; it is not compared with the serial.
bridge_in(bridger, r, s, p, m) ==
    /\ root[r] # None
    /\ verify_proof(p.leaf, p.proof, root[r])
    /\ not_bridged(r, s)
    /\ bridgeAdmin # None
    /\ mint_bridged(BRIDGE, bridger, m)
    /\ bridged' = bridged \cup {<<r, s>>}
    /\ origin' = [origin EXCEPT ![counter + 1] = <<r, s>>]
    /\ UNCHANGED <<bridgeAdmin, root, bridgedOut>>

\* Mutant: the credit is announced to the other registry and stays tradable.
bridge_out_NoRetire(o, c) ==
    /\ bridgeAdmin # None
    /\ owner[c] = o
    /\ BRIDGE \in retirers /\ status[c] = "Active"
    /\ bridgedOut' = bridgedOut \cup {c}
    /\ UNCHANGED <<bridgeAdmin, root, bridged, origin, registryVars>>

bridge_out(o, c) ==
    /\ bridgeAdmin # None
    /\ owner[c] = o
    /\ mark_retired(BRIDGE, c)
    /\ bridgedOut' = bridgedOut \cup {c}
    /\ UNCHANGED <<bridgeAdmin, root, bridged, origin>>

update_registry_root(admin, r, newRoot) ==
    /\ bridgeAdmin # None
    /\ admin = bridgeAdmin
    /\ root' = [root EXCEPT ![r] = newRoot]
    /\ UNCHANGED <<bridgeAdmin, bridged, origin, bridgedOut, registryVars>>

BridgeInit ==
    /\ bridgeAdmin = None
    /\ root = [r \in Registries |-> None]
    /\ bridged = {}
    /\ origin = [c \in CreditIds |-> None]
    /\ bridgedOut = {}

BridgeNext ==
    \/ \E a \in Admins : bridge_init(a)
    \/ \E b \in Accounts, r \in Registries, s \in Serials, p \in Proofs, m \in Metadata :
          bridge_in(b, r, s, p, m)
    \/ \E o \in Accounts, c \in CreditIds : bridge_out(o, c)
    \/ \E a \in Accounts, r \in Registries, h \in Roots : update_registry_root(a, r, h)

=============================================================================
