------------------------------ MODULE Webhooks ------------------------------
(***************************************************************************)
(* Webhooks of the API (src/api/src/webhooks): a handler emits an event    *)
(* and waits until it was delivered to every webhook that subscribed, each *)
(* with retries and one row of the outcome.  The receivers and the         *)
(* database are external: an answer may be any class of status or none     *)
(* within the timeout, although the receiver took the event.               *)
(***************************************************************************)
EXTENDS Integers, FiniteSets, FiniteSetsExt

CONSTANTS
    Hooks,          \* the ids that webhook rows get
    HookUsers,
    EventTypes,
    Emitters,       \* the handlers that can be waiting for an emit at one time
    MAX_ATTEMPTS,   \* WEBHOOK_MAX_ATTEMPTS, at most 5
    MaxEmits,       \* bound: events emitted
    NoHook, NoEmit

ASSUME WebhooksAssumption ==
    /\ MAX_ATTEMPTS \in 1..5 /\ MaxEmits \in Nat /\ IsFiniteSet(Emitters)
    /\ NoEmit \notin [event : EventTypes,
                      job : [Hooks -> [at : {"post", "sleep", "record", "done"},
                                       attempt : 0..MAX_ATTEMPTS,
                                       answer : {"ok", "refused", "unavailable"}]]]

VARIABLES
    hook,         \* Webhook rows: [user, events], NoHook
    hooksUsed,    \* the ids that rows have had
    emission,     \* per emitter NoEmit or [event, job]: a job per webhook
    emits,
    deliveries,   \* WebhookDelivery: how many rows [hook, event, success, attempts]
    posted,       \* history: requests sent to each webhook for each event
    taken         \* history: how many of them it answered with a 2xx status

hookRows == <<hook, hooksUsed>>
webhookVars == <<hookRows, emission, emits, deliveries, posted, taken>>

\* The classes of status the code tells apart: 2xx; below 500; and the rest, with
\* the status 0 of an error or a timeout.
Answers == {"ok", "refused", "unavailable"}

NoJob == [at |-> "done", attempt |-> 0, answer |-> "ok"]

Row == [hook : Hooks, event : EventTypes, success : BOOLEAN, attempts : 1..MAX_ATTEMPTS]

emitting(e) == emission[e] # NoEmit
job(e, h) == emission[e].job[h]
job_goes(e, h, j) == emission' = [emission EXCEPT ![e].job[h] = j]

-----------------------------------------------------------------------------
(* The requests of a webhook's owner.  An id is never given twice.          *)

register_webhook(u, h, events) ==
    /\ h \notin hooksUsed /\ hooksUsed' = hooksUsed \cup {h}
    /\ hook' = [hook EXCEPT ![h] = [user |-> u, events |-> events]]
    /\ UNCHANGED <<emission, emits, deliveries, posted, taken>>

\* Deliveries refer to their webhook: the database refuses to delete one that
\* has any.  Between the owner check and the delete nothing changes the owner.
remove_webhook(u, h) ==
    /\ hook[h] # NoHook /\ hook[h].user = u
    /\ \A r \in Row : r.hook = h => deliveries[r] = 0
    /\ hook' = [hook EXCEPT ![h] = NoHook]
    /\ UNCHANGED <<hooksUsed, emission, emits, deliveries, posted, taken>>

-----------------------------------------------------------------------------
(* EventEmitterService.emit, awaited by a handler.                          *)

\* The webhooks that dispatchEvent reads; nothing ever clears active.
subscribed(event) == {h \in Hooks : hook[h] # NoHook /\ event \in hook[h].events}

\* When the query fails there is nothing to deliver and emit returns.
emit(e, event) ==
    /\ ~emitting(e) /\ emits < MaxEmits /\ emits' = emits + 1
    /\ \E hs \in {subscribed(event), {}} :
          emission' = [emission EXCEPT ![e] =
              [event |-> event,
               job |-> [h \in Hooks |->
                   IF h \in hs THEN [NoJob EXCEPT !.at = "post", !.attempt = 1] ELSE NoJob]]]
    /\ UNCHANGED <<hookRows, deliveries, posted, taken>>

\* Promise.allSettled: all jobs are done.
emit_returns(e) ==
    /\ emitting(e) /\ \A h \in Hooks : job(e, h).at = "done"
    /\ emission' = [emission EXCEPT ![e] = NoEmit]
    /\ UNCHANGED <<hookRows, emits, deliveries, posted, taken>>

-----------------------------------------------------------------------------
(* deliverWithRetry of event e to webhook h.                                *)

\* Mutant: whatever is not a server's error counts as delivered.
success_Not5xx(answer) == answer \in {"ok", "refused"}

success(answer) == answer = "ok"

retryable(answer) == answer = "unavailable"

\* dispatch: the POST and its answer, or the timeout.
dispatch(e, h) ==
    LET j == job(e, h)
        of == <<h, emission[e].event>>
    IN  /\ emitting(e) /\ j.at = "post"
        /\ \E a \in Answers :
              /\ job_goes(e, h, [j EXCEPT !.answer = a, !.at =
                    IF success(a) \/ ~retryable(a) \/ j.attempt = MAX_ATTEMPTS
                    THEN "record" ELSE "sleep"])
              /\ taken' = [taken EXCEPT ![of] = IF a = "ok" THEN @ + 1 ELSE @]
        /\ posted' = [posted EXCEPT ![of] = @ + 1]
        /\ UNCHANGED <<hookRows, emits, deliveries>>

\* The back-off ends.
wakes(e, h) ==
    LET j == job(e, h) IN
    /\ emitting(e) /\ j.at = "sleep"
    /\ job_goes(e, h, [j EXCEPT !.at = "post", !.attempt = @ + 1])
    /\ UNCHANGED <<hookRows, emits, deliveries, posted, taken>>

\* Mutant: the job waits until its row is in.
recordDelivery_Insists(e, h) ==
    LET j == job(e, h)
        r == [hook |-> h, event |-> emission[e].event,
              success |-> success(j.answer), attempts |-> j.attempt]
    IN  /\ emitting(e) /\ j.at = "record"
        /\ hook[h] # NoHook /\ deliveries' = [deliveries EXCEPT ![r] = @ + 1]
        /\ job_goes(e, h, NoJob)
        /\ UNCHANGED <<hookRows, emits, posted, taken>>

\* The row, unless the insert fails, as it does when the webhook is gone.
recordDelivery(e, h) ==
    LET j == job(e, h)
        r == [hook |-> h, event |-> emission[e].event,
              success |-> success(j.answer), attempts |-> j.attempt]
    IN  /\ emitting(e) /\ j.at = "record"
        /\ \/ hook[h] # NoHook /\ deliveries' = [deliveries EXCEPT ![r] = @ + 1]
           \/ UNCHANGED deliveries
        /\ job_goes(e, h, NoJob)
        /\ UNCHANGED <<hookRows, emits, posted, taken>>

\* The API ends; its waiting handlers and their jobs are gone.
api_restarts ==
    /\ emission' = [e \in Emitters |-> NoEmit]
    /\ UNCHANGED <<hookRows, emits, deliveries, posted, taken>>

-----------------------------------------------------------------------------
WebhooksInit ==
    /\ hook = [h \in Hooks |-> NoHook] /\ hooksUsed = {}
    /\ emission = [e \in Emitters |-> NoEmit] /\ emits = 0
    /\ deliveries = [r \in Row |-> 0]
    /\ posted = [k \in Hooks \X EventTypes |-> 0]
    /\ taken = [k \in Hooks \X EventTypes |-> 0]

EmitStep(e) ==
    \/ emit_returns(e)
    \/ \E h \in Hooks : dispatch(e, h) \/ wakes(e, h) \/ recordDelivery(e, h)

WebhooksNext ==
    \/ \E u \in HookUsers, h \in Hooks :
          \/ \E es \in (SUBSET EventTypes) \ {{}} : register_webhook(u, h, es)
          \/ remove_webhook(u, h)
    \/ \E e \in Emitters : (\E event \in EventTypes : emit(e, event)) \/ EmitStep(e)
    \/ api_restarts

\* A POST is answered or times out after ten seconds, a timer fires, and a
\* statement of the database returns or throws.
WebhooksSpec ==
    /\ WebhooksInit /\ [][WebhooksNext]_webhookVars
    /\ \A e \in Emitters : WF_webhookVars(EmitStep(e))

-----------------------------------------------------------------------------
(* Properties. *)

\* The rows of one webhook and event; the successes they claim, and the attempts.
logged(h, event) == {r \in Row : r.hook = h /\ r.event = event}
successes == [r \in Row |-> IF r.success THEN deliveries[r] ELSE 0]
attempts_made == [r \in Row |-> r.attempts * deliveries[r]]

\* The log claims no success that the receiver did not grant and no attempt that
\* was not made, over emits that overlap, failed inserts, removals and restarts.
DeliveryRowsTrue ==
    \A h \in Hooks, event \in EventTypes :
        /\ SumFunctionOnSet(successes, logged(h, event)) <= taken[<<h, event>>]
        /\ SumFunctionOnSet(attempts_made, logged(h, event)) <= posted[<<h, event>>]

\* The handler that emits an event goes on, whatever the receivers answer.
EmitsEnd == \A e \in Emitters : emitting(e) ~> ~emitting(e)

=============================================================================
