-------------------------- MODULE ConversationImport --------------------------
(***************************************************************************)
(* /import: a dry run over a folder, a confirmation button, the import in  *)
(* one transaction, and an undo button that deletes what it brought.       *)
(* Every recognised pattern becomes a hypothesis that is only suggested,   *)
(* unless the user already has one with its fingerprint, whatever its      *)
(* status.                                                                 *)
(*                                                                         *)
(* The folder's files are read when the import runs, not when it was       *)
(* previewed.  A file is abstracted to the patterns stored before its      *)
(* parser gives up or it ends: an error of one file keeps those and goes   *)
(* on with the next file, an error elsewhere rolls everything back.        *)
(***************************************************************************)
EXTENDS SkillUse

CONSTANTS
    Folders,         \* folder -> the set of its files, each a set of patterns
    HypId,           \* <<import, pattern>> -> identifier of a new hypothesis
    MaxImports       \* bound of the instance

\* Every pattern an import can find has an identifier.
ASSUME ImportAssumption ==
    /\ MaxImports \in Nat
    /\ \A i \in 1 .. MaxImports, folder \in DOMAIN Folders :
         \A p \in UNION Folders[folder] : <<i, p>> \in DOMAIN HypId

VARIABLES
    pendingImport,   \* user -> the folder last previewed, or None
    sources,         \* the imports: [id, owner, created]
    imap,            \* rows <<import, hypothesis>>
    undo,            \* undo buttons on the screens: import identifiers
    imports          \* imports tried so far

importVars == <<pendingImport, sources, imap, undo, imports>>

ImportInit == /\ pendingImport = [u \in Users |-> None]
              /\ sources = {}
              /\ imap = {}
              /\ undo = {}
              /\ imports = 0

\* The dry run writes nothing; a preview takes the place of the one before,
\* whose button then imports the newer folder.
PreviewImport(u, folder) ==
    /\ imports < MaxImports
    /\ Folders[folder] # {}
    /\ pendingImport' = [pendingImport EXCEPT ![u] = folder]
    /\ UNCHANGED <<sources, imap, undo, imports, hyps, tombs>>

CancelImport(u) ==
    /\ pendingImport[u] # None
    /\ pendingImport' = [pendingImport EXCEPT ![u] = None]
    /\ UNCHANGED <<sources, imap, undo, imports, hyps, tombs>>

\* A fingerprint the user has in any status only gains support.
KnownPatterns_InUse(u) == {h.pattern : h \in {g \in hyps : g.owner = u /\ g.status # "retired"}}
KnownPatterns(u) == {h.pattern : h \in {g \in hyps : g.owner = u}}

NewPatterns(u, folder) == (UNION Folders[folder]) \ KnownPatterns(u)

Suggested(u, i, p) == [id |-> HypId[<<i, p>>], owner |-> u, status |-> "suggested",
                       pattern |-> p]

\* The confirmation button: the folder is taken first, so a second press
\* finds nothing, and a failed import has to be previewed again.
RunImport(u) ==
    LET folder == pendingImport[u]
        i == imports + 1
        found == NewPatterns(u, folder)
    IN  /\ imports < MaxImports
        /\ folder # None
        /\ imports' = i
        /\ pendingImport' = [pendingImport EXCEPT ![u] = None]
        /\ \/ /\ hyps' = hyps \cup {Suggested(u, i, p) : p \in found}
              /\ imap' = imap \cup {<<i, HypId[<<i, p>>]>> : p \in found}
              /\ sources' = sources \cup {[id |-> i, owner |-> u, created |-> Cardinality(found)]}
              /\ undo' = undo \cup {i}
           \/ UNCHANGED <<hyps, imap, sources, undo>>
        /\ UNCHANGED tombs

\* The undo button: one transaction deletes the import's hypotheses with all
\* that refers to them, and its own rows.
ImportedBy(i) == {r[2] : r \in {x \in imap : x[1] = i}}

delete_from_source(i) ==
    /\ RowsDeleted(ImportedBy(i))
    /\ imap' = {r \in imap : r[1] # i /\ r[2] \notin ImportedBy(i)}
    /\ sources' = {s \in sources : s.id # i}

UndoImport(i) ==
    /\ i \in undo
    /\ delete_from_source(i)
    /\ UNCHANGED <<pendingImport, undo, imports, tombs>>

\* user_data lives in memory.
RestartImport == /\ pendingImport' = [u \in Users |-> None]
                 /\ UNCHANGED <<sources, imap, undo, imports, hyps, tombs>>

ImportNext ==
    \/ \E u \in Users, folder \in DOMAIN Folders : PreviewImport(u, folder)
    \/ \E u \in Users : CancelImport(u) \/ RunImport(u)
    \/ \E i \in undo : UndoImport(i)

SkillInit == UseInit /\ ImportInit

\* Everything between two awaits is one step, and a restart hits both.
SkillNext == \/ UseNext /\ UNCHANGED importVars
             \/ ImportNext /\ UNCHANGED <<contracts, useVars>>
             \/ RestartUse /\ RestartImport

skillVars == <<contracts, hyps, tombs, useVars, importVars>>

SkillSpec == SkillInit /\ [][SkillNext]_skillVars
=============================================================================
