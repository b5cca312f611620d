------------------------------ MODULE UserSettings ------------------------------
(***************************************************************************)
(* What a user chooses in /settings and its commands: a model per task     *)
(* slot or for all of them, and the row of user_settings.  Every button    *)
(* stays on the screen and may be pressed at any later time, so no action  *)
(* asks for the menu it belongs to.  The rate limiter has profiles of its  *)
(* own, and no answer reads the row's language.                            *)
(***************************************************************************)
EXTENDS LanguageDetection, Sequences, SequencesExt

CONSTANTS
    SettingsUsers,
    Slots,            \* the task slots
    Inputs,           \* what is typed or tapped for a model
    resolve_alias,    \* [input -> the model it stands for, None if unknown]
    Family,           \* [model -> its provider family], the registry
    ActiveProvider,   \* the family users may choose from
    SlotDefault,      \* [slot -> model, None if the slot has no default]
    DEFAULT_MODEL,    \* the system's model
    StoredModels,     \* models rows may hold, of earlier registries too
    DebateActive,     \* debate providers that can be switched
    DebateDefault,    \* DEFAULT_DEBATE_PROVIDERS
    Profiles4,        \* names of rate limit profiles
    Flags,            \* personality flags
    FlagsOn,          \* the flags that are on by default
    Zones             \* timezones

VALID_MODEL_IDS == DOMAIN Family

\* Slots and the global override, which is no slot.
Global == "global"
Keys == Slots \cup {Global}

ASSUME SlotsAssumption == Global \notin Slots

\* An input stands for a registered model, and a slot's default is one that
\* can be chosen.
ASSUME ModelsAssumption ==
    /\ resolve_alias \in [Inputs -> VALID_MODEL_IDS \cup {None}]
    /\ SlotDefault \in [Slots -> StoredModels \cup {None}]
    /\ VALID_MODEL_IDS \subseteq StoredModels
    /\ None \notin StoredModels

\* What the default row holds can be chosen.
ASSUME DefaultsAssumption == FlagsOn \subseteq Flags /\ "normal" \in Profiles4

VARIABLES
    overrides,   \* user_slot_models: [user -> [key -> model]]
    settings     \* user_settings: [user -> row]

settingsVars == <<overrides, settings>>

\* The row an upsert creates, and what is read when there is none.
DefaultRow == [exists |-> FALSE, language |-> None, debate |-> <<>>, profile |-> "normal",
               flags |-> FlagsOn, timezone |-> "UTC"]

SettingsInit ==
    /\ overrides \in [SettingsUsers -> [Keys -> StoredModels \cup {None}]]
    /\ settings = [u \in SettingsUsers |-> DefaultRow]

SettingsTypeOK ==
    /\ overrides \in [SettingsUsers -> [Keys -> StoredModels \cup {None}]]
    /\ \A u \in SettingsUsers :
         /\ settings[u].language \in Supported \cup {None}
         /\ settings[u].flags \subseteq Flags
         /\ settings[u].profile \in Profiles4
         /\ settings[u].timezone \in Zones \cup {"UTC"}
         /\ ToSet(settings[u].debate) \subseteq DebateActive
         /\ IsInjective(settings[u].debate)

-----------------------------------------------------------------------------
(* model_service.py, task_router.py *)

Usable(m) == m \in VALID_MODEL_IDS /\ Family[m] = ActiveProvider

\* Reading a model deletes a row that is no longer usable.
Cleaned(models, keys) == [k \in Keys |-> IF k \in keys /\ ~Usable(models[k]) THEN None
                                         ELSE models[k]]

get_user_model(u, k) == Cleaned(overrides[u], {k})[k]

\* The keys a request reads: the global override only without a usable one.
ReadFor(u, slot) == IF get_user_model(u, slot) # None THEN {slot} ELSE {slot, Global}

resolve_model(u, slot) ==
    IF get_user_model(u, slot) # None THEN get_user_model(u, slot)
    ELSE IF get_user_model(u, Global) # None THEN get_user_model(u, Global)
    ELSE SlotDefault[slot]

get_default_for_slot(slot) == IF SlotDefault[slot] # None THEN SlotDefault[slot] ELSE DEFAULT_MODEL

\* What the menu and /models show: the rows as they are.
ShownModel(u, slot) ==
    IF overrides[u][slot] # None THEN overrides[u][slot]
    ELSE IF overrides[u][Global] # None THEN overrides[u][Global]
    ELSE get_default_for_slot(slot)

Accepted(input) == /\ resolve_alias[input] # None
                   /\ Family[resolve_alias[input]] = ActiveProvider

\* A bug for TLC to find: the global override is not asked for.
ImplicitReset_Blind(u, k, m) == k \in Slots /\ SlotDefault[k] = m

\* Choosing a slot's default is no override unless a global one is stored.
ImplicitReset(u, k, m) == /\ k \in Slots
                          /\ SlotDefault[k] = m
                          /\ overrides[u][Global] = None

set_user_model(u, k, input) ==
    LET m == resolve_alias[input]
    IN  /\ Accepted(input)
        /\ overrides' = [overrides EXCEPT ![u][k] = IF ImplicitReset(u, k, m) THEN None ELSE m]
        /\ UNCHANGED settings

reset_user_model(u, k) ==
    /\ overrides' = [overrides EXCEPT ![u][k] = None]
    /\ UNCHANGED settings

reset_all_slots(u) ==
    /\ overrides' = [overrides EXCEPT ![u] = [k \in Keys |-> None]]
    /\ UNCHANGED settings

\* A slot's menu reads both keys.
OpenSlotMenu(u, slot) ==
    /\ overrides' = [overrides EXCEPT ![u] = Cleaned(@, {slot, Global})]
    /\ UNCHANGED settings

\* The model menu's headline reads the global override, after its rows.
OpenModelMenu(u) ==
    /\ overrides' = [overrides EXCEPT ![u] = Cleaned(@, {Global})]
    /\ UNCHANGED settings

\* A message of that slot.
ResolveForMessage(u, slot) ==
    /\ overrides' = [overrides EXCEPT ![u] = Cleaned(@, ReadFor(u, slot))]
    /\ UNCHANGED settings

-----------------------------------------------------------------------------
(* settings_service.py with its storage *)

\* The providers a debate menu shows as chosen when it is opened.
DebateProviders(u) == IF settings[u].debate = <<>> THEN DebateDefault
                      ELSE ToSet(settings[u].debate)

Upsert(u, row) == /\ settings' = [settings EXCEPT ![u] = [row EXCEPT !.exists = TRUE]]
                  /\ UNCHANGED overrides

\* The stored list is toggled, not the default shown in its place.
Toggled(list, p) == IF p \in ToSet(list) THEN RemoveFirst(list, p)
                    ELSE Append(list, p)

toggle_debate_provider(u, p) ==
    /\ p \in DebateActive
    /\ Upsert(u, [settings[u] EXCEPT !.debate = Toggled(@, p)])

\* The profile is stored here, where the limiter does not look.
set_rate_limit(u, profile) == Upsert(u, [settings[u] EXCEPT !.profile = profile])

toggle_personality(u, flag) ==
    Upsert(u, [settings[u] EXCEPT !.flags = IF flag \in @ THEN @ \ {flag} ELSE @ \cup {flag}])

\* Answers follow the chat's language instead, which the button sets as well
\* (UserLanguage's LangCommand).
set_settings_language(u, l) == Upsert(u, [settings[u] EXCEPT !.language = l])

set_timezone(u, zone) == Upsert(u, [settings[u] EXCEPT !.timezone = zone])

-----------------------------------------------------------------------------
(* The commands and the menu of the models; a button may be pressed at any *)
(* later time.                                                             *)

\* /setmodel [slot] model, /setmodel reset [slot]
handle_setmodel_command(u) ==
    \/ \E k \in Keys, input \in Inputs : set_user_model(u, k, input)
    \/ \E slot \in Slots : reset_user_model(u, slot)
    \/ reset_all_slots(u)

handle_resetmodel_command(u) == reset_user_model(u, Global)

handle_settings_callback(u) ==
    \/ \E slot \in Slots : \/ OpenSlotMenu(u, slot)
                          \/ \E input \in Inputs : set_user_model(u, slot, input)
                          \/ reset_user_model(u, slot)
    \/ reset_user_model(u, Global)
    \/ reset_all_slots(u)

SettingsNext == \E u \in SettingsUsers :
    \/ handle_setmodel_command(u)
    \/ handle_resetmodel_command(u)
    \/ handle_settings_callback(u)
    \/ OpenModelMenu(u)
    \/ \E slot \in Slots : ResolveForMessage(u, slot)
    \/ \E p \in DebateActive : toggle_debate_provider(u, p)
    \/ \E profile \in Profiles4 : set_rate_limit(u, profile)
    \/ \E flag \in Flags : toggle_personality(u, flag)
    \/ \E l \in Supported : set_settings_language(u, l)
    \/ \E zone \in Zones : set_timezone(u, zone)

SettingsSpec == SettingsInit /\ [][SettingsNext]_settingsVars
=============================================================================
