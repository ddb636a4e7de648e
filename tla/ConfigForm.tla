---------------------------- MODULE ConfigForm ----------------------------
(***************************************************************************)
(* The protocol configuration form of the admin panel: it loads the        *)
(* configuration of the chain once and saves all of its inputs, while      *)
(* other administrators change it too. The API is external.                *)
(***************************************************************************)
EXTENDS Naturals

CONSTANTS Fields,         \* fields of the protocol configuration
          FieldValues,
          DefaultValue,   \* what the form holds before anything is loaded
          MaxOthers,      \* bound on the changes by other administrators
          NoPayload

VARIABLES chainConfig,    \* the configuration on the chain
          form,           \* the five inputs
          loadedConfig,   \* not yet / loaded / failed
          edited,         \* fields edited since the page was opened
          moved,          \* history: another administrator changed the configuration since then
          payload,        \* the update under way
          others          \* changes by other administrators, bounded by MaxOthers

formVars == <<chainConfig, form, loadedConfig, edited, moved, payload, others>>

\* useState's values. The chain has any configuration.
ConfigFormInit ==
    /\ chainConfig \in [Fields -> FieldValues]
    /\ form = [f \in Fields |-> DefaultValue]
    /\ loadedConfig = "waiting" /\ edited = {} /\ moved = FALSE
    /\ payload = NoPayload /\ others = 0

-----------------------------------------------------------------------------
loaded_form_LessOne(config) ==
    [f \in Fields |-> IF f = CHOOSE g \in Fields : TRUE THEN DefaultValue ELSE config[f]]

\* What a loaded configuration puts into the inputs.
loaded_form(config) == [f \in Fields |-> config[f]]

\* Promise.allSettled of the effect: a failed answer leaves the inputs as they
\* are. The inputs appear only now.
config_answers ==
    /\ loadedConfig = "waiting"
    /\ \/ loadedConfig' = "loaded" /\ form' = loaded_form(chainConfig)
       \/ loadedConfig' = "failed" /\ UNCHANGED form
    /\ UNCHANGED <<chainConfig, edited, moved, payload, others>>

edit_field(f, v) ==
    /\ loadedConfig # "waiting" /\ v # form[f]
    /\ form' = [form EXCEPT ![f] = v]
    /\ edited' = edited \cup {f}
    /\ UNCHANGED <<chainConfig, loadedConfig, moved, payload, others>>

\* All five inputs are sent, edited or not.
handleSaveConfig ==
    /\ loadedConfig # "waiting" /\ payload = NoPayload
    /\ payload' = form
    /\ UNCHANGED <<chainConfig, form, loadedConfig, edited, moved, others>>

\* The API's transaction takes effect, or the update fails; the page shows an
\* error then and loads nothing again in either case.
save_ends ==
    /\ payload # NoPayload
    /\ chainConfig' \in {payload, chainConfig}
    /\ payload' = NoPayload
    /\ UNCHANGED <<form, loadedConfig, edited, moved, others>>

other_admin(f, v) ==
    /\ others < MaxOthers /\ v # chainConfig[f]
    /\ chainConfig' = [chainConfig EXCEPT ![f] = v]
    /\ others' = others + 1
    /\ moved' = TRUE
    /\ UNCHANGED <<form, loadedConfig, edited, payload>>

ConfigFormNext ==
    \/ config_answers \/ handleSaveConfig \/ save_ends
    \/ \E f \in Fields, v \in FieldValues : edit_field(f, v) \/ other_admin(f, v)

ConfigFormSpec == ConfigFormInit /\ [][ConfigFormNext]_formVars

-----------------------------------------------------------------------------
\* Saving changes no field the administrator left alone, where the form was
\* loaded and nobody else changed the configuration since the page was opened
\* (handleSaveConfig sends all five inputs). Without the condition it does: a
\* failed load leaves the defaults in the form, and a save puts them on the chain.
SavesKeepTheRest ==
    [][chainConfig' # chainConfig /\ payload # NoPayload /\ payload' = NoPayload
       /\ loadedConfig = "loaded" /\ ~moved =>
       \A f \in Fields \ edited : chainConfig'[f] = chainConfig[f]]_formVars

=============================================================================
