-------------------------- MODULE LanguageDetection --------------------------
(***************************************************************************)
(* How the bot decides which language a text is in: the in-house heuristic *)
(* of domain/language.py, the langdetect library, and the orchestrator     *)
(* that asks one or both and weighs the answers.  Pure definitions.        *)
(*                                                                         *)
(* A text is what the detectors read of it: a record with its words, the   *)
(* tokens among them made of letters, its characters, the script that      *)
(* dominates it (or None), per language the marker words and the exclusive *)
(* and shared diacritics found, and the distribution langdetect returns.   *)
(* Confidences are whole percents.                                         *)
(***************************************************************************)
EXTENDS Integers, FiniteSets, FiniteSetsExt

CONSTANTS
    None,        \* no value
    Languages,   \* every code a detector can return
    Supported,   \* the codes of the registry
    Canonical,   \* [backend code -> the registry's code for it]
    MinChars     \* [code -> characters below which a detection is weak]

DEFAULT_LANGUAGE == "de"

ASSUME SupportedAssumption == Supported \subseteq Languages

\* The registry is a finite table, with the default's row and English.
ASSUME LanguagesAssumption ==
    /\ IsFiniteSet(Languages)
    /\ {DEFAULT_LANGUAGE, "en"} \subseteq Languages

-----------------------------------------------------------------------------
(* domain/language.py.  A score is counted in hundredths of one marker     *)
(* word, times the number of words, so that it stays an integer.           *)

Carriers(count) == {l \in DOMAIN count : count[l] > 0}

At(count, l) == IF l \in DOMAIN count THEN count[l] ELSE 0

\* The one of the set with the most; ties go to the detectors' fixed order.
Best(S, Worth(_)) == CHOOSE l \in S : \A m \in S : Worth(m) <= Worth(l)

\* Shared diacritics count for the language with the most marker words, and
\* at a reduced weight for every language when none has any.
SharedAward(text, l) ==
    LET sharing == Carriers(text.shared)
        Hits(m) == At(text.markers, m)
    IN  IF l \notin sharing THEN 0
        ELSE IF \A m \in sharing : Hits(m) = 0 THEN 10 * text.shared[l]
        ELSE IF l = Best(sharing, Hits) THEN 15 * text.shared[l] ELSE 0

Score(text, l) == 100 * At(text.markers, l)
                    + text.tokens * (15 * At(text.exclusive, l) + SharedAward(text, l))

Answer(l, conf) == [lang |-> l, conf |-> conf]

Nothing == Answer("en", 0)

detect_language_core(text) ==
    LET scored == {l \in Languages : Score(text, l) > 0}
        Worth(l) == Score(text, l)
        best == Best(scored, Worth)
    IN  IF text.script # None THEN Answer(text.script, 100)
        ELSE IF text.tokens = 0 \/ scored = {} THEN Nothing
        ELSE IF Worth(best) < 5 * text.tokens THEN Nothing
        ELSE Answer(best, Min({100, (10 * Worth(best)) \div (3 * text.tokens)}))

-----------------------------------------------------------------------------
(* The backends, and the orchestrator's candidates.                        *)

Canon(c) == IF c \in DOMAIN Canonical THEN Canonical[c] ELSE c

\* Of several codes for one language the last, least probable one is kept.
LangdetectBackend(raw) ==
    [l \in {Canon(c) : c \in DOMAIN raw} |->
        Min({raw[c] : c \in {d \in DOMAIN raw : Canon(d) = l}})]

\* An error or an empty distribution is no candidate.
Primary(text) ==
    LET dist == LangdetectBackend(text.langdetect)
        Worth(l) == dist[l]
        best == Best(DOMAIN dist, Worth)
    IN  IF DOMAIN text.langdetect = {} THEN None ELSE Answer(best, dist[best])

Heuristic(text) == detect_language_core(text)

classify_text_length(words) == IF words <= 10 THEN "micro"
                               ELSE IF words <= 30 THEN "short"
                               ELSE IF words <= 100 THEN "medium" ELSE "long"

\* What the detectors count and estimate of a text, and what they name.
Readable(text) ==
    /\ text.script \in Languages \cup {None}
    /\ text.tokens \in Nat
    /\ \A l \in Languages : {At(text.markers, l), At(text.exclusive, l), At(text.shared, l)} \subseteq Nat
    /\ \A c \in DOMAIN text.langdetect : /\ Canon(c) \in Languages
                                         /\ text.langdetect[c] \in 0 .. 100

-----------------------------------------------------------------------------
(* The orchestrator's answer: a language, a confidence, whether the text   *)
(* was long enough for it and whether the backends disagreed.              *)

Detection(l, conf, met, dissent) ==
    [lang |-> l, conf |-> conf, met |-> met, dissent |-> dissent]

make_default_result == Detection(DEFAULT_LANGUAGE, 0, TRUE, FALSE)

\* The confidence shrinks in proportion to the characters that are missing.
Dampened(text, a) == IF a.lang \in Supported /\ text.chars < MinChars[a.lang]
                     THEN (a.conf * text.chars) \div MinChars[a.lang]
                     ELSE a.conf

LongEnough(text, a) == a.lang \in Supported => text.chars >= MinChars[a.lang]

build_result(text, winner, dissent) ==
    Detection(winner.lang, Dampened(text, winner), LongEnough(text, winner), dissent)

\* Of two answers the surer wins, the first one on a tie.
aggregate(text, first, second) ==
    IF first = None /\ second = None THEN make_default_result
    ELSE IF second = None THEN build_result(text, first, FALSE)
    ELSE IF first = None THEN build_result(text, second, FALSE)
    ELSE build_result(text, IF first.conf >= second.conf THEN first ELSE second,
                      first.lang # second.lang)

detect_short_text(text) ==
    LET h == Heuristic(text)
    IN  IF h.conf >= 70 THEN build_result(text, h, FALSE)
        ELSE aggregate(text, h, Primary(text))

\* The heuristic is not asked about a long text.
detect_long_text(text) ==
    LET p == Primary(text)
        sure == IF p = None THEN FALSE ELSE p.conf >= 60
        asked == ~sure /\ classify_text_length(text.words) # "long"
    IN  IF sure THEN build_result(text, p, FALSE)
        ELSE aggregate(text, p, IF asked THEN Heuristic(text) ELSE None)

detect(text) ==
    IF text.words = 0 THEN make_default_result
    ELSE IF classify_text_length(text.words) \in {"micro", "short"}
         THEN detect_short_text(text)
         ELSE detect_long_text(text)
=============================================================================
