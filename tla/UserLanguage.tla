----------------------------- MODULE UserLanguage -----------------------------
(***************************************************************************)
(* The language of a chat: detected from messages, chosen with /lang or in *)
(* the setup wizard, kept in memory and best-effort in SQLite; and the     *)
(* wizard with its rows in user_onboarding.  Every user has one private    *)
(* chat.  The fault is a write to SQLite that fails.                       *)
(***************************************************************************)
EXTENDS LanguageDetection

CONSTANTS
    Speakers,    \* users, each in a chat of their own
    Messages,    \* the texts they send, records as LanguageDetection reads them
    HintAt       \* the message without finished wizard that brings the hint

ASSUME MessagesAssumption == HintAt \in Nat /\ \A text \in Messages : Readable(text)

VARIABLES
    languages,   \* _languages: the sticky language of each chat
    stored,      \* the rows of user_language
    spoken,      \* the language the last request of each chat is answered in
    wizard,      \* the rows of user_onboarding
    shown        \* the wizard keyboards that were sent

languageVars == <<languages, stored, spoken, wizard, shown>>

NoRow == [exists |-> FALSE, onboarded |-> FALSE, lang |-> None, skips |-> 0, hint |-> FALSE]

LanguageInit ==
    /\ languages = [u \in Speakers |-> None]
    /\ stored = [u \in Speakers |-> None]
    /\ spoken = [u \in Speakers |-> None]
    /\ wizard = [u \in Speakers |-> NoRow]
    /\ shown = [u \in Speakers |-> {}]

LanguageTypeOK ==
    /\ languages \in [Speakers -> Languages \cup {None}]
    /\ stored \in [Speakers -> Languages \cup {None}]
    /\ spoken \in [Speakers -> Languages \cup {None}]
    /\ wizard \in [Speakers -> [exists : BOOLEAN, onboarded : BOOLEAN,
                                lang : Supported \cup {"auto", None},
                                skips : 0 .. HintAt + 1, hint : BOOLEAN]]
    /\ shown \in [Speakers -> SUBSET {"step1", "step2"}]

-----------------------------------------------------------------------------
(* resolver.py *)

FirstTime(d) == IF d.conf > 0 THEN d.lang ELSE DEFAULT_LANGUAGE

SmartSwitch(d, sticky) == /\ d.conf > 70
                          /\ d.lang # sticky
                          /\ d.met
                          /\ d.lang \in Supported

\* What is stored; the language itself when nothing is written.
Kept(d, sticky) == IF sticky = None THEN FirstTime(d)
                   ELSE IF SmartSwitch(d, sticky) THEN d.lang ELSE sticky

\* The code of the context the request is answered with.
resolve(d, sticky) == IF sticky = None THEN d.lang ELSE Kept(d, sticky)

resolve_readonly(d, sticky) == Kept(d, sticky)

\* conversation_storage.set_language: a failed write is only logged.
set_language(u, l) ==
    /\ languages' = [languages EXCEPT ![u] = l]
    /\ \E row \in {l, stored[u]} : stored' = [stored EXCEPT ![u] = row]

-----------------------------------------------------------------------------
(* A message: the onboarding hint, then the rate limiter, then the answer. *)

Counted(row) == IF row.onboarded \/ row.hint THEN row
                ELSE [row EXCEPT !.exists = TRUE, !.skips = @ + 1]

HintDue(row) == Counted(row) # row /\ Counted(row).skips = HintAt

\* Past the hint's message the count goes on; it is cut off above it.
Capped(row) == IF row.skips > HintAt THEN [row EXCEPT !.skips = HintAt + 1] ELSE row

Message(u, text) ==
    LET d == detect(text)
        row == Capped(Counted(wizard[u]))
    IN  /\ UNCHANGED shown
        /\ \E sent \in BOOLEAN, allowed \in BOOLEAN :
            /\ wizard' = [wizard EXCEPT ![u] =
                            IF HintDue(wizard[u]) /\ sent THEN [row EXCEPT !.hint = TRUE] ELSE row]
            /\ IF (HintDue(wizard[u]) /\ ~sent) \/ ~allowed
               THEN UNCHANGED <<languages, stored, spoken>>
               ELSE /\ spoken' = [spoken EXCEPT ![u] = resolve(d, languages[u])]
                    /\ IF Kept(d, languages[u]) = languages[u]
                       THEN UNCHANGED <<languages, stored>>
                       ELSE set_language(u, Kept(d, languages[u]))

\* /lang, or its button: the code must be a supported one.
LangCommand(u, l) ==
    /\ set_language(u, l)
    /\ UNCHANGED <<spoken, wizard, shown>>

-----------------------------------------------------------------------------
(* The wizard.  A button may be pressed any time after it was shown.       *)

\* /start before the wizard is finished, or /onboarding.
StartWizard(u) ==
    /\ shown' = [shown EXCEPT ![u] = @ \cup {"step1"}]
    /\ UNCHANGED <<languages, stored, spoken, wizard>>

set_wizard_lang(u, l) == wizard' = [wizard EXCEPT ![u].exists = TRUE, ![u].lang = l]

WizardLanguage(u, l) ==
    /\ "step1" \in shown[u]
    /\ set_wizard_lang(u, l)
    /\ set_language(u, l)
    /\ shown' = [shown EXCEPT ![u] = @ \cup {"step2"}]
    /\ UNCHANGED spoken

WizardAuto(u) ==
    /\ "step1" \in shown[u]
    /\ set_wizard_lang(u, "auto")
    /\ shown' = [shown EXCEPT ![u] = @ \cup {"step2"}]
    /\ UNCHANGED <<languages, stored, spoken>>

\* COALESCE keeps the language of the row when none is given.
set_onboarded(u) == wizard' = [wizard EXCEPT ![u].exists = TRUE, ![u].onboarded = TRUE]

\* Skipping finishes the wizard only when a language was chosen before.
WizardSkip(u) ==
    /\ "step1" \in shown[u]
    /\ IF wizard[u].lang # None THEN set_onboarded(u) ELSE UNCHANGED wizard
    /\ UNCHANGED <<languages, stored, spoken, shown>>

WizardDone(u) ==
    /\ "step2" \in shown[u]
    /\ set_onboarded(u)
    /\ UNCHANGED <<languages, stored, spoken, shown>>

\* Languages are loaded from SQLite; users that only other tables know are
\* taken for users from before the wizard.
RestartLanguage ==
    /\ languages' = stored
    /\ spoken' = [u \in Speakers |-> None]
    /\ \E known \in SUBSET {u \in Speakers : ~wizard[u].exists} :
         wizard' = [u \in Speakers |->
                     IF u \in known THEN [NoRow EXCEPT !.exists = TRUE, !.onboarded = TRUE]
                     ELSE wizard[u]]
    /\ UNCHANGED <<stored, shown>>

LanguageNext ==
    \/ \E u \in Speakers : \/ \E text \in Messages : Message(u, text)
                           \/ \E l \in Supported : LangCommand(u, l)
                           \/ StartWizard(u)
                           \/ \E l \in Supported : WizardLanguage(u, l)
                           \/ WizardAuto(u)
                           \/ WizardSkip(u)
                           \/ WizardDone(u)
    \/ RestartLanguage

LanguageSpec == LanguageInit /\ [][LanguageNext]_languageVars
=============================================================================
