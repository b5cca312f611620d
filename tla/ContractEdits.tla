---------------------------- MODULE ContractEdits ----------------------------
(***************************************************************************)
(* Several editors of one user's contracts: each reads a contract, changes *)
(* it and writes it back, either with the version it read (the optimistic  *)
(* lock of update) or without one.  The store offers this protocol; of the *)
(* callers in the program only creation is wired so far.                   *)
(***************************************************************************)
EXTENDS ContractStore

CONSTANTS
    Editors,
    Grants,          \* sets of tools an editor may grant
    MaxVersions, MaxRows      \* bounds of the instance

ASSUME EditsAssumption == MaxVersions \in Nat /\ MaxRows \in Nat

VARIABLES
    held,       \* editor -> the row it read, or None
    rows,       \* contracts made so far
    lastSave    \* the last write: [checked, basis, error], or None

editVars == <<held, rows, lastSave>>

EditInit == /\ held = [e \in Editors |-> None]
            /\ rows = 0
            /\ lastSave = None

CreateContract(u, text) ==
    /\ rows < MaxRows
    /\ rows' = rows + 1
    /\ ~NeedsInput(text)
    /\ IsSafe(build(rows', text))
    /\ persist(u, Confirmed(build(rows', text)))
    /\ UNCHANGED <<held, lastSave>>

LoadContract(e, r) ==
    /\ r \in contracts
    /\ Intact(r)
    /\ held' = [held EXCEPT ![e] = r]
    /\ UNCHANGED <<rows, lastSave, contracts>>

\* A tool needs allowTools (rule V6); a refused write leaves the editor with
\* what it read.  The safety gate is the caller's, before the store.
Changed(c, tools, instruction) ==
    [c EXCEPT !.permissions.tools = tools, !.instruction = instruction]

SaveContract(e, tools, instruction, allow, checked) ==
    LET r == held[e]
        c == [Changed(r.contract, tools, instruction) EXCEPT !.allowTools = allow]
        expected == IF checked THEN r.contract.version ELSE None
    IN  /\ r # None
        /\ r.contract.version < MaxVersions
        /\ \A s \in contracts : s.contract.version < MaxVersions
        /\ IsSafe(c)
        /\ update(r.owner, c, expected)
        /\ lastSave' = [checked |-> checked, basis |-> r,
                        error |-> update_error(r.owner, c, expected)]
        /\ held' = IF lastSave'.error = "none" THEN [held EXCEPT ![e] = None] ELSE held
        /\ UNCHANGED rows

DeleteContract(r) ==
    /\ r \in contracts
    /\ delete(r.owner, r.contract.id)
    /\ UNCHANGED <<held, rows, lastSave>>

EditNext ==
    \/ \E u \in Users, text \in Learnable : CreateContract(u, text)
    \/ \E e \in Editors, r \in contracts : LoadContract(e, r)
    \/ \E e \in Editors, tools \in Grants, text \in Learnable, allow, checked \in BOOLEAN :
          SaveContract(e, tools, text.instruction, allow, checked)
    \/ \E r \in contracts : DeleteContract(r)

EditSpec == contracts = {} /\ EditInit /\ [][EditNext]_<<contracts, editVars>>

-----------------------------------------------------------------------------
\* A write that names the version it was based on replaces the very contract
\* its editor read, whatever the other editors did in between.
NothingOverwrittenUnseen ==
    [][lastSave' # lastSave /\ lastSave'.checked /\ contracts' # contracts =>
         lastSave'.basis \in contracts \ contracts']_<<contracts, editVars>>
=============================================================================
