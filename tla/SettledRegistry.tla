--------------------------- MODULE SettledRegistry ---------------------------
(***************************************************************************)
(* The registry with one more fact about each of its histories: whether    *)
(* the voting rule that the first init stored stays.  Votes are counted    *)
(* under the rule of the moment, so it is where the rule stays that the    *)
(* votes on a credit and its status can be compared.                       *)
(***************************************************************************)
EXTENDS CreditRegistry

VARIABLE settled  \* whether no init and no update_config changes the first rule

settledVars == <<registryVars, settled>>

SettledInit == RegistryInit /\ settled \in BOOLEAN

SettledNext ==
    /\ RegistryNext(Address, Address) /\ UNCHANGED settled
    /\ settled /\ config # None => UNCHANGED config

SettledSpec == SettledInit /\ [][SettledNext]_settledVars

\* Where the rule never changes, the votes of a submitted credit and its status
\* agree exactly (approve_and_mint, reject_credit).
SettledVerdicts == settled => VerdictMatchesTally

=============================================================================
