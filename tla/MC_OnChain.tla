----------------------------- MODULE MC_OnChain -----------------------------
(* Small instances of OnChain for TLC. *)
EXTENDS OnChain

GoodMetadata ==
    [project_id |-> 4, methodology |-> 6, vintage_start |-> 2023, vintage_end |-> 2024,
     tonnes |-> 10, geography |-> 2, sdg_flags |-> 0, permanence_rating |-> 80,
     buffer_contribution_pct |-> 10, additionality_type |-> 1]

MCMetadata == {GoodMetadata}
MCParams == {DefaultParams}

Input(c, r, b) == [credit_id |-> c, reason |-> r, beneficiary |-> b, accounting_period |-> "2024"]

\* Every credit for either beneficiary, and one input with an empty reason.
MCRetireInputs ==
    {Input(c, "offset", b) : c \in CreditIds, b \in Beneficiaries} \cup
    {Input(1, "", b) : b \in Beneficiaries}

CONSTANTS leaf1, leaf2, leaf3

\* A tree of three leaves, and the same tree after a fourth entry was added.
OldRoot == {{leaf1, leaf2}, leaf3}
NewRoot == {{leaf1, leaf2}, {leaf3}}
MCRoots == {OldRoot, NewRoot}

\* A proof under the old root, one under the new root, one under neither.
MCProofs ==
    {[leaf |-> leaf1, proof |-> <<leaf2, leaf3>>],
     [leaf |-> leaf3, proof |-> <<leaf3, {leaf1, leaf2}>>],
     [leaf |-> leaf2, proof |-> <<leaf3>>]}

=============================================================================
