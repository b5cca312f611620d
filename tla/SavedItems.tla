------------------------------ MODULE SavedItems ------------------------------
(***************************************************************************)
(* What users keep: bookmarked answers and the entries of the memory's     *)
(* layers.  Each of these stores is a table of SQLite, or a JSONL file     *)
(* when the bot was started without SQLite; a start with SQLite imports    *)
(* the files, store after store.  The fault is a crash, also between the   *)
(* steps of a start.                                                       *)
(*                                                                         *)
(* A line of a file is an entry, or has no owner (a user id that is no     *)
(* number), or has no key (it cannot be parsed).                           *)
(***************************************************************************)
EXTENDS LanguageDetection, Sequences, SequencesExt

CONSTANTS
    Keepers,      \* users
    BotMessages,  \* messages that can be bookmarked
    NoteIds,      \* [layer -> ids its entries can have], by their prefix
    NoteText,     \* [id -> the text remembered under it]
    Refused,      \* texts with a secret or an injection pattern
    LegacyFiles   \* [store -> the lines its file has at first, or None]

VARIABLES
    backend,   \* what the bot was started with: "sqlite" or "jsonl"
    boot,      \* where the start is, or "running" or "down"
    table,     \* [store -> rows, the oldest first]
    file,      \* [store -> lines, or None if there is no file]
    backup,    \* [store -> the file renamed to .bak, or None]
    wanted     \* <<store, entry>>: what users have saved and not removed

itemVars == <<backend, boot, table, file, backup, wanted>>

\* migrate_jsonl_to_sqlite takes them in this order.
StoreOrder == <<"bookmarks", "episodic", "semantic", "procedural">>
Stores == ToSet(StoreOrder)
Layers == Stores \ {"bookmarks"}

Entry(u, k) == [owner |-> u, key |-> k]

Keys0 == BotMessages \cup UNION {NoteIds[l] : l \in Layers}

Lines == [owner : Keepers \cup {None}, key : Keys0 \cup {None}]

Parsable == {line \in Lines : line.key # None}
Sound == {line \in Parsable : line.owner # None}

\* Of the lines those of the set kept, in their order.
Only(lines, kept) ==
    LET F[i \in 0 .. Len(lines)] ==
          IF i = 0 THEN <<>>
          ELSE IF lines[i] \in kept THEN Append(F[i - 1], lines[i]) ELSE F[i - 1]
    IN  F[Len(lines)]

\* The stores keep an entry once: so do the files they have written.
ASSUME ItemsAssumption ==
    /\ None \notin Keepers \cup Keys0
    /\ LegacyFiles \in [Stores -> Seq(Lines) \cup {None}]
    /\ None \notin Seq(Lines)
    /\ \A s \in Stores : LegacyFiles[s] # None =>
         \A i, j \in DOMAIN LegacyFiles[s] :
           LegacyFiles[s][i] = LegacyFiles[s][j] /\ LegacyFiles[s][i] \in Sound => i = j

Down == [at |-> "down", store |-> 0]
Running == [at |-> "running", store |-> 0]
Importing(i) == IF i > Len(StoreOrder) THEN Running ELSE [at |-> "import", store |-> i]

\* The lines of a file, none of a file that does not exist.
LinesOf(s) == IF file[s] = None THEN <<>> ELSE file[s]

ItemsInit ==
    /\ backend = "sqlite"
    /\ boot = Down
    /\ table = [s \in Stores |-> <<>>]
    /\ file = LegacyFiles
    /\ backup = [s \in Stores |-> None]
    /\ wanted = {item \in Stores \X Lines :
                    /\ LegacyFiles[item[1]] # None
                    /\ item[2] \in ToSet(LegacyFiles[item[1]]) \cap Sound}

IsLines(x) == x # None => x \in Seq(Lines)

ItemsTypeOK ==
    /\ backend \in {"sqlite", "jsonl"}
    /\ boot.at \in {"down", "running", "import", "rename"}
    /\ \A s \in Stores : /\ table[s] \in Seq(Sound)
                         /\ IsInjective(table[s])
                         /\ IsLines(file[s]) /\ IsLines(backup[s])
    /\ wanted \subseteq Stores \X Lines

-----------------------------------------------------------------------------
(* main.py and migrate_jsonl_to_sqlite *)

\* migrate_legacy_chat_id rewrites the bookmarks' file in either mode,
\* without the lines that cannot be parsed.
StartBot(mode) ==
    /\ boot = Down
    /\ backend' = mode
    /\ file' = IF file["bookmarks"] = None THEN file
               ELSE [file EXCEPT !["bookmarks"] = Only(@, Parsable)]
    /\ boot' = IF mode = "sqlite" THEN Importing(1) ELSE Running
    /\ UNCHANGED <<table, backup, wanted>>

\* A file is taken over when the store has no row yet.
MustImport(s) == file[s] # None /\ table[s] = <<>>

\* A bug for TLC to find: a file nothing was taken from is put away as well.
ImportStore_Always ==
    LET s == StoreOrder[boot.store]
        rows == Only(LinesOf(s), Sound)
    IN  /\ boot.at = "import"
        /\ table' = IF MustImport(s) THEN [table EXCEPT ![s] = rows] ELSE table
        /\ boot' = IF file[s] # None THEN [boot EXCEPT !.at = "rename"]
                   ELSE Importing(boot.store + 1)
        /\ UNCHANGED <<backend, file, backup, wanted>>

\* One transaction for the lines of a file that can be taken over.
ImportStore ==
    LET s == StoreOrder[boot.store]
        rows == Only(LinesOf(s), Sound)
    IN  /\ boot.at = "import"
        /\ IF MustImport(s) /\ rows # <<>>
           THEN /\ table' = [table EXCEPT ![s] = rows]
                /\ boot' = [boot EXCEPT !.at = "rename"]
           ELSE /\ boot' = Importing(boot.store + 1)
                /\ UNCHANGED table
        /\ UNCHANGED <<backend, file, backup, wanted>>

\* The file becomes the backup, in the place of an earlier one.
RenameStore ==
    LET s == StoreOrder[boot.store]
    IN  /\ boot.at = "rename"
        /\ backup' = [backup EXCEPT ![s] = file[s]]
        /\ file' = [file EXCEPT ![s] = None]
        /\ boot' = Importing(boot.store + 1)
        /\ UNCHANGED <<backend, table, wanted>>

\* The process ends, at whatever step.
StopBot ==
    /\ boot # Down
    /\ boot' = Down
    /\ UNCHANGED <<backend, table, file, backup, wanted>>

-----------------------------------------------------------------------------
(* The stores: SqliteBookmarkStorage and SqliteMemoryStorage, or their JSONL *)
(* counterparts.                                                             *)

\* What a user sees of a store, the newest first.
list_entries(u, s) ==
    Reverse(Only(IF backend = "sqlite" THEN table[s] ELSE LinesOf(s),
                 {Entry(u, k) : k \in Keys0}))

Exists(u, s, k) == Entry(u, k) \in ToSet(list_entries(u, s))

append_entry(u, s, k) ==
    /\ IF backend = "sqlite"
       THEN table' = [table EXCEPT ![s] = Append(@, Entry(u, k))] /\ UNCHANGED file
       ELSE file' = [file EXCEPT ![s] = Append(LinesOf(s), Entry(u, k))] /\ UNCHANGED table
    /\ wanted' = wanted \cup {<<s, Entry(u, k)>>}
    /\ UNCHANGED <<backend, boot, backup>>

delete_entry(u, s, k) ==
    LET Others(lines) == Only(lines, Lines \ {Entry(u, k)})
    IN  /\ IF backend = "sqlite"
           THEN table' = [table EXCEPT ![s] = Others(@)] /\ UNCHANGED file
           ELSE /\ file' = IF file[s] = None THEN file ELSE [file EXCEPT ![s] = Others(@)]
                /\ UNCHANGED table
        /\ wanted' = IF Exists(u, s, k) THEN wanted \ {<<s, Entry(u, k)>>} ELSE wanted
        /\ UNCHANGED <<backend, boot, backup>>

save_or_toggle_bookmark(u, m) ==
    /\ boot = Running
    /\ IF Exists(u, "bookmarks", m) THEN delete_entry(u, "bookmarks", m)
       ELSE append_entry(u, "bookmarks", m)

\* /save as the reply to a message: the second time takes the bookmark away.
handle_save_command(u, reply) ==
    /\ reply # None
    /\ save_or_toggle_bookmark(u, reply)

\* The button below a list of bookmarks, which may be an old one.
RemoveBookmark(u, m) ==
    /\ boot = Running
    /\ delete_entry(u, "bookmarks", m)

\* The entry gets an id no entry had before.
remember_episodic(u, id) ==
    /\ boot = Running
    /\ NoteText[id] \notin Refused
    /\ \A s \in Layers : \A lines \in {table[s], LinesOf(s)} :
         \A i \in DOMAIN lines : lines[i].key # id
    /\ append_entry(u, "episodic", id)

\* /remember: the handler looks for an injection before the service does.
\* The text is the command's, or that of the message it answers.
handle_remember_command(u, id) ==
    /\ NoteText[id] \notin Refused
    /\ remember_episodic(u, id)

\* The prefix of an id names its layer; another word has none.
layer_from_id(id) ==
    IF \E l \in Layers : id \in NoteIds[l]
    THEN CHOOSE l \in Layers : id \in NoteIds[l] ELSE None

forget(u, id) ==
    /\ boot = Running
    /\ layer_from_id(id) # None
    /\ delete_entry(u, layer_from_id(id), id)

\* /forget with a word, or with none.
handle_forget_command(u, word) ==
    /\ word # None
    /\ forget(u, word)

ItemsNext ==
    \/ \E mode \in {"sqlite", "jsonl"} : StartBot(mode)
    \/ ImportStore
    \/ RenameStore
    \/ StopBot
    \/ \E u \in Keepers, m \in BotMessages : \/ handle_save_command(u, m)
                                            \/ RemoveBookmark(u, m)
    \/ \E u \in Keepers, id \in NoteIds["episodic"] : handle_remember_command(u, id)
    \/ \E u \in Keepers, word \in DOMAIN NoteText : handle_forget_command(u, word)

ItemsSpec == ItemsInit /\ [][ItemsNext]_itemVars
=============================================================================
