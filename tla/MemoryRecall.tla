----------------------------- MODULE MemoryRecall -----------------------------
(***************************************************************************)
(* What becomes of the entries of the memory (SavedItems): those that fit  *)
(* a message go into its prompt, with the contradictions among them, and   *)
(* /memory lists the latest or the found ones, translated for the display. *)
(* Translations are kept in a cache of the process; the fault is a batch   *)
(* whose translation fails.                                                *)
(***************************************************************************)
EXTENDS SavedItems

CONSTANTS
    KeywordsOf,     \* [message -> its keywords]
    KeywordLength,  \* [keyword -> its length]
    Tokens,         \* [text -> the keywords that are words of it]
    Parts,          \* [text -> the keywords that occur in it]
    Facts,          \* [text -> its subjects, kinds and values, in pattern order]
    Mentions,       \* [message or skill -> the subjects that occur in it]
    SkillTexts,     \* skills that may apply to a message
    LanguageOf,     \* [text -> what detect_language finds]
    RecentLimit,    \* [layer -> entries of a message without keywords]
    RecallLimit,    \* [layer -> entries a keyword brings]
    ListLimit,      \* entries /memory shows
    BatchSize,      \* BATCH_SIZE
    MaxCache        \* _MAX_CACHE_SIZE

Noted == UNION {NoteIds[s] : s \in Layers}

\* The lines of a layer's file have ids of the memory, and limits are numbers.
ASSUME RecallAssumption ==
    /\ \A s \in Layers : LegacyFiles[s] # None =>
         \A i \in DOMAIN LegacyFiles[s] : LegacyFiles[s][i].key \in Noted \cup {None}
    /\ MaxCache \in Nat /\ ListLimit \in Nat
    /\ \A s \in Layers : RecallLimit[s] \in Nat
    /\ \A s \in {"episodic", "semantic"} : RecentLimit[s] \in Nat

VARIABLES
    cache,    \* _translation_cache, the oldest first
    recalled  \* the entries that went into the last prompt, with their
              \* contradictions, or that were listed last, with their languages

recallVars == <<cache, recalled>>

Recalled(ids, conflicts, langs) == [ids |-> ids, conflicts |-> conflicts, langs |-> langs]

RecallInit ==
    /\ cache = <<>>
    /\ recalled = Recalled(<<>>, {}, <<>>)

RecallTypeOK ==
    /\ Len(cache) <= MaxCache
    /\ \A i \in DOMAIN cache : cache[i].key \in Keepers \X Noted \X Supported
    /\ \A i, j \in DOMAIN cache : cache[i].key = cache[j].key => i = j
    /\ ToSet(recalled.ids) \subseteq Noted
    /\ recalled.langs # <<>> => Len(recalled.langs) = Len(recalled.ids)

-----------------------------------------------------------------------------
(* Searching: whole words with SQLite's index, and parts of words only when *)
(* the index finds nothing; parts of words in a file.                       *)

First(seq, n) == SubSeq(seq, 1, Min({n, Len(seq)}))

IdsOf(entries) == [i \in DOMAIN entries |-> entries[i].key]

Hits(u, s, word, words) ==
    Only(IdsOf(list_entries(u, s)), {id \in Noted : word \in words[NoteText[id]]})

search(u, s, word, limit) ==
    LET whole == Hits(u, s, word, Tokens)
        within == Hits(u, s, word, Parts)
    IN  First(IF backend = "sqlite" /\ whole # <<>> THEN whole ELSE within, limit)

-----------------------------------------------------------------------------
(* The context of a message                                                *)

recall(u, word) ==
    LET Found(s) == search(u, s, word, RecallLimit[s])
    IN  Found("episodic") \o Found("semantic") \o Found("procedural")

recent(u) ==
    LET Latest(s) == First(IdsOf(list_entries(u, s)), RecentLimit[s])
    IN  Latest("episodic") \o Latest("semantic")

Longest(words) == {w \in words : \A v \in words : KeywordLength[v] <= KeywordLength[w]}

\* The longest keyword, else the next one.  The order among keywords of one
\* length is that of a hash set.
memory_ids(u, words) ==
    IF words = {} THEN {recent(u)}
    ELSE UNION {IF recall(u, w) # <<>> \/ words = {w} THEN {recall(u, w)}
                ELSE {recall(u, v) : v \in Longest(words \ {w})} : w \in Longest(words)}

\* Of several patterns of a kind the first one that matches an entry counts.
FactsOf(text) ==
    {Facts[text][i] : i \in {j \in DOMAIN Facts[text] :
        \A k \in 1 .. j - 1 : Facts[text][k].kind # Facts[text][j].kind}}

detect_conflicts(ids) ==
    LET facts == UNION {FactsOf(NoteText[ids[i]]) : i \in DOMAIN ids}
    IN  {[subject |-> f.subject, kind |-> f.kind] : f \in
            {f \in facts : \E g \in facts : /\ g.subject = f.subject /\ g.kind = f.kind
                                            /\ g.value # f.value}}

\* A skill has priority over what has nothing to do with it.
is_conflict_relevant(c, skill, message) ==
    skill = None \/ c.subject \in Mentions[skill] \cup Mentions[message]

build_memory_context(u, message, skill) ==
    /\ boot = Running
    /\ \E ids \in memory_ids(u, KeywordsOf[message]) :
         recalled' = Recalled(ids, {c \in detect_conflicts(ids) :
                                      is_conflict_relevant(c, skill, message)}, <<>>)
    /\ UNCHANGED <<itemVars, cache>>

-----------------------------------------------------------------------------
(* memory_translation_service.py *)

Cached(u, id, l) == {i \in DOMAIN cache : cache[i].key = <<u, id, l>>}

\* The language a text is displayed in: that of a cached translation, which
\* may be the original's.
Known(u, id, l) == IF Cached(u, id, l) = {} THEN LanguageOf[NoteText[id]]
                   ELSE cache[CHOOSE i \in Cached(u, id, l) : TRUE].lang

Missing(u, ids, l) ==
    Only(ids, {id \in Noted : Cached(u, id, l) = {} /\ LanguageOf[NoteText[id]] # l})

Batch(i) == (i - 1) \div BatchSize

\* The language a note of a batch is in then; its own when the batch failed.
batch_translate(id, done, l) == IF done THEN l ELSE LanguageOf[NoteText[id]]

\* Some batches come back translated, the others as they were; all are kept.
translate_entries(u, ids, l) ==
    LET todo == Missing(u, ids, l)
    IN  \E done \in SUBSET {Batch(i) : i \in DOMAIN todo} :
          LET fresh == [i \in DOMAIN todo |->
                  [key |-> <<u, todo[i], l>>,
                   lang |-> batch_translate(todo[i], Batch(i) \in done, l)]]
              all == cache \o fresh
              Shown(id) == IF \E i \in DOMAIN todo : todo[i] = id
                           THEN fresh[CHOOSE i \in DOMAIN todo : todo[i] = id].lang
                           ELSE Known(u, id, l)
          IN  /\ cache' = SubSeq(all, Max({1, Len(all) - MaxCache + 1}), Len(all))
              /\ recalled' = Recalled(ids, {}, [i \in DOMAIN ids |-> Shown(ids[i])])

\* /memory, and /memory search with a word.
handle_memory_command(u, l, word) ==
    /\ boot = Running
    /\ translate_entries(u, IF word = None THEN First(IdsOf(list_entries(u, "episodic")), ListLimit)
                            ELSE search(u, "episodic", word, ListLimit), l)
    /\ UNCHANGED itemVars

\* The cache ends with the process.
RestartRecall ==
    /\ StopBot
    /\ cache' = <<>>
    /\ recalled' = Recalled(<<>>, {}, <<>>)

\* What changes the memory, not the bookmarks.
MemoryChanges ==
    \/ \E mode \in {"sqlite", "jsonl"} : StartBot(mode)
    \/ ImportStore
    \/ RenameStore
    \/ \E u \in Keepers, id \in NoteIds["episodic"] : handle_remember_command(u, id)
    \/ \E u \in Keepers, word \in DOMAIN NoteText : handle_forget_command(u, word)

RecallNext ==
    \/ MemoryChanges /\ UNCHANGED recallVars
    \/ RestartRecall
    \/ \E u \in Keepers, message \in DOMAIN KeywordsOf, skill \in SkillTexts \cup {None} :
         build_memory_context(u, message, skill)
    \/ \E u \in Keepers, l \in Supported, word \in DOMAIN KeywordLength \cup {None} :
         handle_memory_command(u, l, word)

RecallSpec == RecallInit /\ [][RecallNext]_recallVars
=============================================================================
