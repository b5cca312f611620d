----------------------------- MODULE LanguageGuard -----------------------------
(***************************************************************************)
(* Answers in the wrong language: the guard that looks once at a running   *)
(* stream and may abort it, its self-calibration per chat, the verifier of *)
(* complete answers and the repair that asks the model to rewrite one.     *)
(*                                                                         *)
(* A text is what langdetect says of it: the distribution of every window  *)
(* long enough to count, and its words and characters once code and        *)
(* technical terms are stripped.  Probabilities are whole percents.        *)
(***************************************************************************)
EXTENDS LanguageDetection, Sequences, SequencesExt

CONSTANTS
    GuardChats,      \* chats with a stream each
    Expected,        \* [chat -> the language it is answered in]
    Partials,        \* distributions of a partial text
    Answers,         \* complete texts: [windows, words, chars]
    Profiles,        \* [model family -> [verify, repair, guard]]
    Models,          \* models a stream can run on, None for the default
    Families,        \* [model -> the families whose name it begins with]
    NameLength,      \* [family -> length of its name]
    RepairAttempts,  \* max_attempts of the repair service
    MaxEntries,      \* entries of the statistics store
    MaxStreams       \* streams that are followed

\* Probabilities of two languages never exceed the whole.
Distribution(d) == /\ \A l \in DOMAIN d : d[l] \in 0 .. 100
                   /\ \A l, m \in DOMAIN d : l # m => d[l] + d[m] <= 100

\* Every family a name can begin with has a profile.
ASSUME ProfilesAssumption ==
    /\ None \in Models
    /\ IsFiniteSet(DOMAIN Profiles) /\ "default" \in DOMAIN Profiles
    /\ \A f \in DOMAIN Profiles : Profiles[f].guard \in BOOLEAN /\ NameLength[f] \in Nat
    /\ \A m \in Models \ ({None} \cup DOMAIN Profiles) : Families[m] \subseteq DOMAIN Profiles

ASSUME BoundsAssumption == MaxEntries \in Nat \ {0} /\ MaxStreams \in Nat

ASSUME PartialsAssumption == \A d \in Partials : Distribution(d)

VARIABLES
    streams,     \* the stream of each chat
    entries,     \* keys of the statistics store, the least recently used first
    stats,       \* the statistics of each key
    ended,       \* the answer each chat's last stream ended with
    started      \* streams started

guardVars == <<streams, entries, stats, ended, started>>

Closed == [phase |-> "closed", model |-> None, guarded |-> FALSE, enabled |-> FALSE,
           checked |-> FALSE]

NewStats == [checks |-> 0, aborts |-> 0, confirmed |-> 0, fps |-> 0, unknown |-> 0,
             consecutive |-> 0, disabled |-> 0]

GuardInit ==
    /\ streams = [c \in GuardChats |-> Closed]
    /\ entries = <<>>
    /\ stats = [c \in GuardChats |-> NewStats]
    /\ ended = [c \in GuardChats |-> None]
    /\ started = 0

GuardTypeOK ==
    /\ streams \in [GuardChats -> [phase : {"closed", "open", "aborted"}, model : Models,
                                   guarded : BOOLEAN, enabled : BOOLEAN, checked : BOOLEAN]]
    /\ stats \in [GuardChats -> [DOMAIN NewStats -> 0 .. MaxStreams]]
    /\ entries \in Seq(GuardChats) /\ Len(entries) <= MaxEntries
    /\ started \in 0 .. MaxStreams

-----------------------------------------------------------------------------
(* model_profiles.py: an exact name, else the longest family it begins with *)

get_profile(model) ==
    IF model = None THEN Profiles["default"]
    ELSE IF model \in DOMAIN Profiles THEN Profiles[model]
    ELSE LET known == Families[model] \ {"default"}
         IN  IF known = {} THEN Profiles["default"]
             ELSE Profiles[CHOOSE f \in known : \A g \in known : NameLength[g] <= NameLength[f]]

-----------------------------------------------------------------------------
(* verifier.py *)

Share(d, l) == IF l \in DOMAIN d THEN d[l] ELSE 0

\* The most probable language with its probability.
Top(d) == IF DOMAIN d = {} THEN [lang |-> None, conf |-> 0]
          ELSE LET l == CHOOSE l \in DOMAIN d : \A m \in DOMAIN d : d[m] <= d[l]
               IN  [lang |-> l, conf |-> d[l]]

Reading(lang, conf, ratio) == [lang |-> lang, conf |-> conf, ratio |-> ratio]

ShortReading(d, expected) == Reading(Top(d).lang, Top(d).conf, Share(d, expected))

\* The language most windows are in, their mean confidence, and the share of
\* windows that are not surely foreign.
WindowReading(windows, expected) ==
    LET n == Len(windows)
        top == [i \in 1 .. n |-> Top(windows[i])]
        In(l) == Cardinality({i \in 1 .. n : top[i].lang = l})
        langs == {top[i].lang : i \in 1 .. n}
        foreign == {i \in 1 .. n : top[i].lang # expected /\ top[i].conf >= 70}
    IN  IF n = 0 THEN Reading(expected, 0, 100)
        ELSE Reading(CHOOSE l \in langs : \A m \in langs : In(m) <= In(l),
                     MapThenSumSet(LAMBDA i : top[i].conf, 1 .. n) \div n,
                     100 - (100 * Cardinality(foreign)) \div n)

determine_status(r, expected) ==
    IF r.conf < 50 \/ r.ratio > 80 THEN "pass"
    ELSE IF r.ratio >= 60 THEN "warn" ELSE "fail"

verify(text, expected) ==
    IF text.words < 20 THEN "pass"
    ELSE determine_status(IF text.words <= 100 THEN ShortReading(text.windows[1], expected)
                          ELSE WindowReading(text.windows, expected), expected)

Passed(text, expected) == verify(text, expected) \in {"pass", "warn"}

-----------------------------------------------------------------------------
(* repair_service.py and enforcement.py: the texts a complete answer can   *)
(* become.  A re-query answers, or fails, times out or raises, which is    *)
(* the same to the loop.                                                   *)

Tries == Min({RepairAttempts, 2})

\* The first rewriting in the right language, or the original.
FirstGood(rewritings, original, expected) ==
    LET good == {i \in DOMAIN rewritings :
                    rewritings[i] # None /\ Passed(rewritings[i], expected)}
    IN  IF good = {} THEN original ELSE rewritings[Min(good)]

repair(original, expected) ==
    IF original.chars > 5000 THEN {original}
    ELSE {FirstGood(r, original, expected) : r \in [1 .. Tries -> Answers \cup {None}]}

enforce(output, model, expected) ==
    LET profile == get_profile(model)
    IN  IF \/ ~profile.verify
           \/ Passed(output, expected)
           \/ ~profile.repair
        THEN {output} ELSE repair(output, expected)

-----------------------------------------------------------------------------
(* stream_guard.py: the statistics *)

should_disable(s) == \/ s.consecutive >= 3
                     \/ s.aborts >= 5 /\ 100 * s.fps > 5 * s.aborts

\* A bug for TLC to find: nothing is pushed out.
Touched_Unbounded(c) == Append(RemoveFirst(entries, c), c)

\* get: a known key moves to the end, a new one may push out the oldest.
Touched(c) == IF c \in Range(entries) THEN Append(RemoveFirst(entries, c), c)
              ELSE Append(IF Len(entries) >= MaxEntries THEN Tail(entries) ELSE entries, c)

\* The statistics an access finds: none of a key that was pushed out.
Found(c) == IF c \in Range(entries) THEN stats[c] ELSE NewStats

\* Once a guard finds its statistics beyond the limits it counts as disabled.
Calibrated(s) == IF should_disable(s) THEN [s EXCEPT !.disabled = @ + 1] ELSE s

apply_outcome(s, outcome) ==
    Calibrated([s EXCEPT !.checks = @ + 1, !.aborts = @ + 1,
        !.confirmed = @ + (IF outcome = "confirmed" THEN 1 ELSE 0),
        !.fps = @ + (IF outcome = "false_positive" THEN 1 ELSE 0),
        !.unknown = @ + (IF outcome = "unknown" THEN 1 ELSE 0),
        !.consecutive = IF outcome = "confirmed" THEN 0
                        ELSE @ + (IF outcome = "false_positive" THEN 1 ELSE 0)])

-----------------------------------------------------------------------------
(* stream_guard.py: the check and its classification *)

\* A bug for TLC to find: the threshold of a final verdict.
Aborts_Early(d, expected) == Top(d).lang # expected /\ Top(d).conf >= 50

Aborts(d, expected) == Top(d).lang # expected /\ Top(d).conf >= 85

\* The partial text is read once more.
classify_abort(d, expected) ==
    IF Share(d, expected) >= 30 THEN "false_positive"
    ELSE IF Share(d, expected) < 10 /\ Top(d).conf >= 85 THEN "confirmed" ELSE "unknown"

StartStream(c, model) ==
    /\ streams[c].phase = "closed" /\ started < MaxStreams
    /\ LET guarded == get_profile(model).guard
       IN  /\ streams' = [streams EXCEPT ![c] =
                [phase |-> "open", model |-> model, guarded |-> guarded,
                 enabled |-> guarded /\ ~should_disable(Found(c)), checked |-> FALSE]]
           /\ entries' = IF guarded THEN Touched(c) ELSE entries
           /\ stats' = IF guarded THEN [stats EXCEPT ![c] = Found(c)] ELSE stats
    /\ ended' = [ended EXCEPT ![c] = None]
    /\ started' = started + 1

\* The stream reaches 200 characters: the one check of its guard.
check_early(c, d) ==
    LET s == streams[c]
    IN  /\ s.phase = "open" /\ s.enabled /\ ~s.checked
        /\ IF Aborts(d, Expected[c])
           THEN /\ streams' = [streams EXCEPT ![c].checked = TRUE, ![c].phase = "aborted"]
                /\ stats' = [stats EXCEPT ![c] =
                                apply_outcome(Found(c), classify_abort(d, Expected[c]))]
                /\ entries' = Touched(c)
           ELSE /\ streams' = [streams EXCEPT ![c].checked = TRUE]
                /\ UNCHANGED <<entries, stats>>
        /\ UNCHANGED <<ended, started>>

\* report_final_outcome of a guard that did not abort.
Reported(s, checked) == IF checked THEN Calibrated([s EXCEPT !.checks = @ + 1]) ELSE s

\* The stream ends: its text is enforced, saved and shown.
EndStream(c, text) ==
    LET s == streams[c]
    IN  /\ s.phase = "open"
        /\ \E final \in enforce(text, s.model, Expected[c]) :
             ended' = [ended EXCEPT ![c] = [original |-> text, final |-> final, model |-> s.model]]
        /\ entries' = IF s.guarded THEN Touched(c) ELSE entries
        /\ stats' = IF s.guarded THEN [stats EXCEPT ![c] = Reported(Found(c), s.checked)] ELSE stats
        /\ streams' = [streams EXCEPT ![c] = Closed]
        /\ UNCHANGED started

\* An aborted stream's message is answered anew, without streaming; the new
\* answer is enforced on its own, or fails and an error is shown.
AnswerAnew(c) ==
    LET s == streams[c]
    IN  /\ s.phase = "aborted"
        /\ \/ \E text \in Answers : \E final \in enforce(text, s.model, Expected[c]) :
                ended' = [ended EXCEPT ![c] = [original |-> text, final |-> final, model |-> s.model]]
           \/ UNCHANGED ended
        /\ streams' = [streams EXCEPT ![c] = Closed]
        /\ UNCHANGED <<entries, stats, started>>

GuardNext == \E c \in GuardChats :
    \/ \E m \in Models : StartStream(c, m)
    \/ \E d \in Partials : check_early(c, d)
    \/ \E text \in Answers : EndStream(c, text)
    \/ AnswerAnew(c)

GuardSpec == GuardInit /\ [][GuardNext]_guardVars
=============================================================================
