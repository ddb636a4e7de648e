---------------------------- MODULE MC_ApiTrades ----------------------------
(* Small instances of ApiTrades for TLC. *)
EXTENDS ApiTrades, TLC

CONSTANTS adm, ver, u, m, t, b, leaf1, leaf2, s1, s2

MCMetadata ==
    {[project_id |-> 4, methodology |-> 6, vintage_start |-> 2023, vintage_end |-> 2024,
      tonnes |-> 10, geography |-> 2, sdg_flags |-> 0, permanence_rating |-> 50,
      buffer_contribution_pct |-> 10, additionality_type |-> 0]}
MCParams == {DefaultParams}

MCRoots == {{leaf1, leaf2}}
MCProofs == {[leaf |-> leaf1, proof |-> <<leaf2>>], [leaf |-> leaf1, proof |-> << >>]}
MCRetireInputs ==
    {[credit_id |-> 1, reason |-> "offset", beneficiary |-> "acme", accounting_period |-> "2024"]}

Ask(op, w, x) == [op |-> op, wallet |-> w, arg |-> x]

\* Requests of the first key's account and of the account of the second key.
MCRequests ==
    {Ask("createOffer", adm, [credit |-> 1, amount |-> 1, expiry |-> e]) : e \in {None, 1}} \cup
    {Ask("buyCredits", u, 1), Ask("cancelOffer", adm, 1), Ask("enqueueBatch", adm, 1)} \cup
    {Ask("retireCredit", adm, [credit_id |-> 1, beneficiary |-> "acme", all |-> full]) : full \in BOOLEAN} \cup
    {Ask("bridgeIn", adm, [at |-> <<"verra", "n1">>, proof |-> p, root |-> {leaf1, leaf2}]) : p \in MCProofs} \cup
    {Ask("bridgeOut", adm, 1)}

SlotSymmetry == Permutations(Slots)

=============================================================================
