------------------------------ MODULE MCServices ------------------------------
(***************************************************************************)
(* The services checked side by side: part, chosen at the start, says      *)
(* which of them takes steps, so the state spaces add up instead of        *)
(* multiplying.                                                            *)
(***************************************************************************)
EXTENDS ServicesProps, TLC

CONSTANTS u1, u2

-----------------------------------------------------------------------------
(* Languages.  "xx" is a code langdetect returns that is not registered.   *)

NoCount == [l \in {} |-> 0]

Text(words, chars, markers, langdetect) ==
    [words |-> words, tokens |-> words, chars |-> chars, script |-> None,
     markers |-> markers, exclusive |-> NoCount, shared |-> NoCount, langdetect |-> langdetect]

\* Nothing to read, a short and a long German text, one in English, and one
\* only langdetect knows.
MCMessages == {Text(1, 4, NoCount, NoCount),
               Text(4, 20, "de" :> 3, "de" :> 90),
               Text(40, 200, "de" :> 3, "de" :> 90 @@ "en" :> 10),
               Text(40, 200, "de" :> 1, "en" :> 80 @@ "de" :> 20),
               Text(4, 20, NoCount, "xx" :> 99)}

MCCanonical == [c \in {"en-us"} |-> "en"]

MCMinChars == [l \in {"de", "en"} |-> 30]

-----------------------------------------------------------------------------
(* The guard of the streams: the partial texts reach its thresholds.       *)

MCExpected == [c \in GuardChats |-> "de"]

MCPartials == {"en" :> 85 @@ "de" :> 15, "en" :> 84 @@ "de" :> 16, "en" :> 95 @@ "de" :> 5,
               "en" :> 60 @@ "de" :> 30, NoCount}

Read(words, windows) == [words |-> words, chars |-> 10 * words, windows |-> windows]

MCAnswers == {Read(10, <<"en" :> 99>>),
              Read(50, <<"de" :> 90 @@ "en" :> 10>>),
              Read(50, <<"en" :> 90 @@ "de" :> 10>>),
              Read(600, <<"en" :> 90, "en" :> 90>>),
              Read(150, <<"de" :> 90, "en" :> 80, "de" :> 80>>)}

MCProfiles == [default |-> [verify |-> TRUE, repair |-> TRUE, guard |-> TRUE],
               plain |-> [verify |-> FALSE, repair |-> FALSE, guard |-> FALSE]]

MCFamilies == [m \in {"plain-2"} |-> {"default", "plain"}]

MCNameLength == [f \in {"default", "plain"} |-> IF f = "plain" THEN 5 ELSE 7]

-----------------------------------------------------------------------------
(* Settings and answers                                                    *)

MCAliases == [i \in {"a", "b", "f", "?"} |->
    CASE i = "a" -> "m1" [] i = "b" -> "m2" [] i = "f" -> "other" [] i = "?" -> None]

MCFamily == [m \in {"m1", "m2", "other"} |-> IF m = "other" THEN "foreign" ELSE "own"]

MCSlotDefault == [s \in {"chat", "code"} |-> IF s = "code" THEN "m2" ELSE None]

Question(words, fenced, patterns, keywords) ==
    [words |-> words, marker |-> None, fenced |-> fenced,
     patterns |-> [s \in {"chat", "code"} |-> IF s = "code" THEN patterns ELSE 0],
     keywords |-> [s \in {"chat", "code"} |-> IF s = "code" THEN keywords ELSE 0]]

MCPriority == <<"code", "chat">>

MCQuestions == {Question(9, {"code"}, 0, 0), Question(9, {}, 0, 1)}

MCWordRange == [s \in {"chat", "code"} |-> 1 .. 50]

MCMinKeywords == [s \in {"chat", "code"} |-> 2]

\* The second chain names a provider that is not registered.
MCChains == [s \in {"chat", "code"} |-> IF s = "chat" THEN <<"p1", "p2">> ELSE <<"p2", "gone">>]

\* A global choice of today and a slot's of an earlier registry.
MCRows == [k \in Keys |-> IF k = Global THEN "m1" ELSE IF k = "code" THEN "old" ELSE None]

MCProviderFamily == [p \in {"p1", "p2"} |-> IF p = "p1" THEN "own" ELSE None]

\* An evening, the next morning, late that night, a Sunday after days, and
\* the hour after.
MCDates == <<20, 31, 47, 153, 155>>

-----------------------------------------------------------------------------
(* Debates                                                                 *)

MCRouter == <<"c1", "c2", "o1">>

MCNone == <<>>

MCGroups == [p \in {"c1", "c2"} |-> "c"]

MCJudges == <<"o1", "c1">>

-----------------------------------------------------------------------------
(* What users keep                                                         *)

NoteOf(s) == CASE s = "episodic" -> {"ep1", "ep2"} [] s = "semantic" -> {"se1"}
               [] s = "procedural" -> {"pr1"}

MCNoteIds == [s \in {"episodic", "semantic", "procedural"} |-> NoteOf(s)]

MCNoteText == [id \in {"ep1", "ep2", "se1", "pr1"} |->
    CASE id = "ep1" -> "red" [] id = "ep2" -> "blue" [] id = "se1" -> "called"
      [] id = "pr1" -> "secret"]

\* Before the first start: a bookmark, a note, a line nobody owns and one
\* that cannot be parsed; an empty file; no file.
MCLegacyFiles == [s \in {"bookmarks", "episodic", "semantic", "procedural"} |->
    CASE s = "bookmarks" -> <<Entry(u1, "b1"), Entry(u1, None), Entry(None, "b1")>>
      [] s = "semantic" -> <<Entry(u1, "se1")>>
      [] s = "procedural" -> <<>>
      [] s = "episodic" -> None]

MCKeywordsOf == [m \in {"hi", "car?", "cars?"} |->
    CASE m = "hi" -> {} [] m = "car?" -> {"car"} [] m = "cars?" -> {"cars", "auto", "car"}]

MCKeywordLength == [w \in {"car", "cars", "auto"} |->
    IF w = "car" THEN 3 ELSE 4]

AllTexts == {"red", "blue", "called", "secret"}

MCTokens == [x \in AllTexts |-> IF x = "red" THEN {"car"} ELSE {}]

MCParts == [x \in AllTexts |-> IF x \in {"red", "blue", "called"} THEN {"car"} ELSE {}]

Fact(kind, value) == [subject |-> "car", kind |-> kind, value |-> value]

MCFacts == [x \in AllTexts |->
    CASE x \in {"red", "blue"} -> <<Fact("property", x), Fact("property", "other")>>
      [] x = "called" -> <<Fact("name", x)>> [] OTHER -> <<>>]

MCMentions == [x \in {"hi", "car?", "cars?", "s1"} |-> IF x = "car?" THEN {"car"} ELSE {}]

MCLanguageOf == [x \in AllTexts |-> IF x = "blue" THEN "en" ELSE "de"]

MCRecent == [s \in {"episodic", "semantic"} |-> 1]

MCRecall == [s \in {"episodic", "semantic", "procedural"} |-> 2]

-----------------------------------------------------------------------------

(* Learned patterns                                                        *)

MCBlocking == [c \in {"tidy", "pushy"} |-> IF c = "pushy" THEN {"nudge", "secret"} ELSE {}]

MCScopes == {[client |-> TRUE, project |-> FALSE, tags |-> 0]}

Signal(positive, weight, episodes) ==
    [positive |-> positive, weight |-> weight, episodes |-> episodes]

MCSignals == {Signal(TRUE, 10, {"e1"}), Signal(TRUE, 5, {"e2"}), Signal(FALSE, 10, {"e1"})}

MCDifficulty == [c \in {"tidy", "pushy"} |-> 1600]

\* Two regular reviews later a year and a half without any.
MCJudgeDays == <<0, 100, 200, 700>>

-----------------------------------------------------------------------------

VARIABLE part

servicesVars == <<part, languageVars, guardVars, answerVars, debateVars, itemVars, recallVars,
                  lifeVars, databaseVars>>

NotSettings == <<clock, activity, delivered, turns, requests>>

Init == /\ LanguageInit
        /\ GuardInit
        /\ AnswerInit
        /\ DebateInit
        /\ ItemsInit
        /\ RecallInit
        /\ LifeInit
        /\ DatabaseInit
        /\ part \in {"language", "guard", "settings", "answer", "debate", "items", "recall", "files",
                    "evidence", "reviews", "database"}
        \* Only the database starts on every kind of machine.
        /\ part # "database" => machine = [library |-> FALSE, production |-> FALSE]
        \* Only the settings start with rows of every kind.
        /\ part # "settings" => overrides = [u \in SettingsUsers |-> MCRows]

Next ==
    /\ UNCHANGED part
    /\ \/ /\ part = "language" /\ LanguageNext
          /\ UNCHANGED <<guardVars, answerVars, debateVars, itemVars, recallVars, lifeVars, databaseVars>>
       \/ /\ part = "guard" /\ GuardNext
          /\ UNCHANGED <<languageVars, answerVars, debateVars, itemVars, recallVars, lifeVars, databaseVars>>
       \/ /\ part = "settings" /\ SettingsNext
          /\ UNCHANGED <<languageVars, guardVars, NotSettings, debateVars, itemVars, recallVars, lifeVars, databaseVars>>
       \/ /\ part = "answer" /\ AnswerNext
          /\ UNCHANGED <<languageVars, guardVars, debateVars, itemVars, recallVars, lifeVars, databaseVars>>
       \/ /\ part = "debate" /\ DebateNext
          /\ UNCHANGED <<languageVars, guardVars, answerVars, itemVars, recallVars, lifeVars, databaseVars>>
       \* One note in every layer is enough to be lost.
       \/ /\ part = "items" /\ ItemsNext
          /\ <<"episodic", "ep2">> \notin {<<i[1], i[2].key>> : i \in wanted'}
          /\ UNCHANGED <<languageVars, guardVars, answerVars, debateVars, recallVars, lifeVars, databaseVars>>
       \* A memory in SQLite, or one in files; no switch between them.
       \/ /\ RecallNext
          /\ \/ part = "recall" /\ backend' = "sqlite"
             \/ part = "files" /\ backend' = "jsonl"
          /\ UNCHANGED <<languageVars, guardVars, answerVars, debateVars, lifeVars, databaseVars>>
       \* The estimates of a pattern are independent of each other: one
       \* part collects evidence, the other reviews.
       \/ /\ LifeNext
          /\ \/ part = "evidence" /\ UNCHANGED <<decay, judgeDay>>
             \/ /\ part = "reviews" /\ UNCHANGED <<ledger, audit, archive>>
                /\ \A h \in hyps' : h.elo = INITIAL_RATING
          /\ UNCHANGED <<languageVars, guardVars, answerVars, debateVars, itemVars, recallVars, databaseVars>>
       \/ /\ part = "database" /\ DatabaseNext
          /\ UNCHANGED <<languageVars, guardVars, answerVars, debateVars, itemVars, recallVars, lifeVars>>

Spec == Init /\ [][Next]_servicesVars
=============================================================================
