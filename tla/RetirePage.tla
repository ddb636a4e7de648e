----------------------------- MODULE RetirePage -----------------------------
(***************************************************************************)
(* The retire page: choosing credits, the dialog, the loop that retires    *)
(* them one request at a time, and what the page then claims. The API and  *)
(* the chain behind retireCredit are external: a request is refused, or it *)
(* retires the credit, also after the browser gave up waiting for it.      *)
(***************************************************************************)
EXTENDS Naturals, Sequences, SequencesExt

CONSTANTS Owned,    \* the active credits that were loaded
          NoCredit

VARIABLES selectedIds,   \* in the order they were chosen, as a Set keeps them
          showConfirm, retiring, error,
          retired,       \* the credit the page says is retired
          certificate,   \* the credit whose certificate it shows
          certAsks,      \* certificate requests under way
          batch,         \* what handleRetire still goes through, the first under way
          given_up,      \* requests the browser stopped waiting for
          chainRetired,  \* credits that are retired
          confirmed,     \* history: credits confirmed in the dialog
          cleared        \* history: the credits of the last run that met no error

retireVars ==
    <<selectedIds, showConfirm, retiring, error, retired, certificate, certAsks,
      batch, given_up, chainRetired, confirmed, cleared>>

chosen(s) == {s[i] : i \in 1 .. Len(s)}

RetirePageInit ==
    /\ selectedIds = <<>> /\ showConfirm = FALSE /\ retiring = FALSE /\ error = FALSE
    /\ retired = NoCredit /\ certificate = NoCredit /\ certAsks = {}
    /\ batch = <<>> /\ given_up = {} /\ chainRetired = {} /\ confirmed = {} /\ cleared = {}

\* The table, the form and the dialog are there while no success is shown.
form_shown == retired = NoCredit

-----------------------------------------------------------------------------
\* The selection without a credit of it; a Set holds none twice.
deselected(c) == RemoveAt(selectedIds, CHOOSE i \in 1 .. Len(selectedIds) : selectedIds[i] = c)

\* A click on a row behind no dialog; the list is not loaded again, so that a
\* credit stays in it after it is retired.
toggleCredit(c) ==
    /\ form_shown /\ ~showConfirm
    /\ selectedIds' = IF c \in chosen(selectedIds)
                      THEN deselected(c)
                      ELSE Append(selectedIds, c)
    /\ UNCHANGED <<showConfirm, retiring, error, retired, certificate, certAsks,
                   batch, given_up, chainRetired, confirmed, cleared>>

\* The beneficiary is filled in.
openConfirm ==
    /\ form_shown /\ ~showConfirm /\ selectedIds # <<>>
    /\ showConfirm' = TRUE
    /\ UNCHANGED <<selectedIds, retiring, error, retired, certificate, certAsks,
                   batch, given_up, chainRetired, confirmed, cleared>>

\* Cancel, or a click beside the dialog, also while the loop runs.
close_dialog ==
    /\ form_shown /\ showConfirm
    /\ showConfirm' = FALSE
    /\ UNCHANGED <<selectedIds, retiring, error, retired, certificate, certAsks,
                   batch, given_up, chainRetired, confirmed, cleared>>

\* What the loop goes through: Array.from of the selection at the click.
loop_over(selection) == selection

handleRetire_ClaimsFirst ==
    /\ form_shown /\ showConfirm /\ ~retiring /\ selectedIds # <<>>
    /\ retiring' = TRUE /\ error' = FALSE
    /\ batch' = loop_over(selectedIds)
    /\ confirmed' = confirmed \cup chosen(selectedIds)
    /\ cleared' = chosen(selectedIds)
    /\ retired' = Head(selectedIds)
    /\ UNCHANGED <<selectedIds, showConfirm, certificate, certAsks, given_up, chainRetired>>

\* The button in the dialog; it is disabled while a loop runs.
handleRetire ==
    /\ form_shown /\ showConfirm /\ ~retiring /\ selectedIds # <<>>
    /\ retiring' = TRUE /\ error' = FALSE
    /\ batch' = loop_over(selectedIds)
    /\ confirmed' = confirmed \cup chosen(selectedIds)
    /\ cleared' = chosen(selectedIds)
    /\ UNCHANGED <<selectedIds, showConfirm, retired, certificate, certAsks,
                   given_up, chainRetired>>

\* The effect on `retired`: every new success asks for its certificate, and none
\* is taken back.
certificate_effect(c) ==
    IF c = NoCredit
    THEN certificate' = NoCredit /\ UNCHANGED certAsks
    ELSE certAsks' = certAsks \cup {c} /\ UNCHANGED certificate

\* The request of the loop is answered: the credit is retired and shown, and the
\* loop goes on or closes the dialog and clears whatever is selected by now.
retire_answers ==
    /\ retiring
    /\ LET c == Head(batch) IN
       /\ c \notin chainRetired
       /\ chainRetired' = chainRetired \cup {c}
       /\ retired' = c
       /\ certificate_effect(c)
    /\ batch' = Tail(batch)
    /\ IF Len(batch) = 1
       THEN retiring' = FALSE /\ showConfirm' = FALSE /\ selectedIds' = <<>>
       ELSE UNCHANGED <<retiring, showConfirm, selectedIds>>
    /\ UNCHANGED <<error, given_up, confirmed, cleared>>

retire_throws_GoesOn ==
    /\ retiring
    /\ given_up' \in {given_up, given_up \cup {Head(batch)}}
    /\ error' = TRUE /\ batch' = Tail(batch) /\ retiring' = (Len(batch) > 1)
    /\ UNCHANGED <<selectedIds, showConfirm, retired, certificate, certAsks,
                   chainRetired, confirmed, cleared>>

\* The catch branch: the API refuses, a retired credit always, or the browser
\* gives up after 15 seconds while the API goes on. The rest of the loop is
\* dropped; dialog and selection stay, and so does a success on the screen.
retire_throws ==
    /\ retiring
    /\ given_up' \in {given_up, given_up \cup {Head(batch)}}
    /\ retiring' = FALSE /\ error' = TRUE /\ batch' = <<>> /\ cleared' = {}
    /\ UNCHANGED <<selectedIds, showConfirm, retired, certificate, certAsks,
                   chainRetired, confirmed>>

\* A request nobody waits for any more takes effect.
retired_late(c) ==
    /\ c \in given_up
    /\ given_up' = given_up \ {c}
    /\ chainRetired' = chainRetired \cup {c}
    /\ UNCHANGED <<selectedIds, showConfirm, retiring, error, retired, certificate,
                   certAsks, batch, confirmed, cleared>>

\* GET /credits/:id/certificate, answered or not, whatever is shown by now.
certificate_answers(c) ==
    /\ c \in certAsks
    /\ certAsks' = certAsks \ {c}
    /\ certificate' \in {c, NoCredit}
    /\ UNCHANGED <<selectedIds, showConfirm, retiring, error, retired, batch,
                   given_up, chainRetired, confirmed, cleared>>

\* "Retire More", also while the loop runs.
retire_more ==
    /\ ~form_shown
    /\ retired' = NoCredit
    /\ certificate_effect(NoCredit)
    /\ UNCHANGED <<selectedIds, showConfirm, retiring, error, batch, given_up,
                   chainRetired, confirmed, cleared>>

RetirePageNext ==
    \/ \E c \in Owned : toggleCredit(c) \/ retired_late(c) \/ certificate_answers(c)
    \/ openConfirm \/ close_dialog \/ handleRetire
    \/ retire_answers \/ retire_throws \/ retire_more

RetirePageSpec == RetirePageInit /\ [][RetirePageNext]_retireVars

-----------------------------------------------------------------------------
\* "Credit #n has been permanently retired": whatever the page claims is so, and
\* a certificate is shown for a retired credit only (setRetired after the await).
ClaimsAreTrue ==
    /\ retired # NoCredit => retired \in chainRetired
    /\ certificate # NoCredit => certificate \in chainRetired

\* Retirement is irreversible: no credit is retired that was not confirmed in
\* the dialog, although the selection changes under a running loop, and a run
\* that ended without an error left none of its credits out (handleRetire).
OnlyConfirmed ==
    /\ chainRetired \cup chosen(batch) \subseteq confirmed
    /\ ~retiring => cleared \subseteq chainRetired

=============================================================================
