--------------------------- MODULE MC_ApiCredits ---------------------------
(* Small instances of ApiCredits for TLC. *)
EXTENDS ApiCredits

CONSTANTS adm, ver, out, s1, s2

Project(p) ==
    [project_id |-> p, methodology |-> 6, vintage_start |-> 2023, vintage_end |-> 2024,
     tonnes |-> 10, geography |-> 2, sdg_flags |-> 0, permanence_rating |-> 50,
     buffer_contribution_pct |-> 10, additionality_type |-> 0]

OneProject == {Project(4)}
TwoProjects == {Project(4), Project(5)}
MCParams == {DefaultParams}

Ask(op, w, x, k) == [op |-> op, wallet |-> w, arg |-> x, key |-> k]

\* Issuing (once by a wallet that is not the key's), voting and registering.
MCRequests ==
    {Ask("issue", w, m, adm) : w \in {adm, ver}, m \in Metadata} \cup
    {Ask(op, ver, 1, ver) : op \in {"approve", "reject"}} \cup
    {Ask("register", ver, 0, ver)}

MCThresholds == {[threshold |-> t, quorum |-> MaxQuorum] : t \in 1..MaxQuorum}

=============================================================================
