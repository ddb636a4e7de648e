-------------------------- MODULE MC_CreditRegistry --------------------------
(* Small instances of SettledRegistry for TLC. *)
EXTENDS SettledRegistry, TLC

\* One acceptable metadata record and one at the wrong side of a bound.
GoodMetadata ==
    [project_id |-> 4, methodology |-> 6, vintage_start |-> 2023, vintage_end |-> 2024,
     tonnes |-> 10, geography |-> 2, sdg_flags |-> 16383, permanence_rating |-> 100,
     buffer_contribution_pct |-> 20, additionality_type |-> 2]
BadMetadata == [GoodMetadata EXCEPT !.tonnes = MAX_TONNES + 1]

MCMetadata == {GoodMetadata, BadMetadata}
MCParams == {DefaultParams, [DefaultParams EXCEPT !.buffer_pool_pct = 51]}

VoterSymmetry == Permutations(Voters)

=============================================================================
