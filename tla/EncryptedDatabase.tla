--------------------------- MODULE EncryptedDatabase ---------------------------
(***************************************************************************)
(* The encrypted database: its key in the vault of the operating system,   *)
(* the connection with its fall-back to plain SQLite, and the one-shot     *)
(* migration of a plain database, which may be cut off between any two of  *)
(* its steps.  The migration runs before a connection is opened.           *)
(*                                                                         *)
(* A file is the key it is encrypted with (Absent when plain), whether its *)
(* tables exist, and its rows.                                             *)
(***************************************************************************)
EXTENDS FiniteSets, Naturals

CONSTANTS
    Absent,
    DatabaseKeys,    \* keys that may be generated
    Rows             \* rows that may be stored

VARIABLES
    vault,        \* the key in the vault, or Absent
    disk,         \* [axolent.db, .enc.tmp, .plaintext.bak -> file or Absent]
    connection,   \* CryptoConnection: its cached key, whether it is open and with which key
    migration,    \* the migration under way: its next step, the dump and the key
    machine,      \* is a SQLCipher library installed, is AXOLENT_PRODUCTION set
    committed,    \* rows that were stored
    torn          \* a migration ended between its two renamings

databaseVars == <<vault, disk, connection, migration, machine, committed, torn>>

Names == {"main", "temp", "backup"}

Files == [key : DatabaseKeys \cup {Absent}, tables : BOOLEAN, rows : SUBSET Rows]

ASSUME AbsentAssumption == Absent \notin Files

File(key, tables, rows) == [key |-> key, tables |-> tables, rows |-> rows]

NoConnection == [held |-> Absent, open |-> FALSE, key |-> Absent]

NoMigration == [step |-> "none", dump |-> File(Absent, FALSE, {}), key |-> Absent]

Machines == [library : BOOLEAN, production : BOOLEAN]

DatabaseInit ==
    /\ vault = Absent
    /\ disk = [n \in Names |-> Absent]
    /\ connection = NoConnection
    /\ migration = NoMigration
    /\ machine \in Machines
    /\ committed = {}
    /\ torn = FALSE

DatabaseTypeOK ==
    /\ vault \in DatabaseKeys \cup {Absent}
    /\ disk \in [Names -> Files \cup {Absent}]
    /\ connection \in [held : DatabaseKeys \cup {Absent}, open : BOOLEAN,
                       key : DatabaseKeys \cup {Absent}]
    /\ migration.step \in {"none", "dumped", "opened", "verified", "aside"}
    /\ machine \in Machines
    /\ committed \subseteq Rows

-----------------------------------------------------------------------------

\* The key with the vault it leaves; an access to the vault may raise.
get_or_create_key ==
    IF vault # Absent THEN {vault} ELSE DatabaseKeys

\* A missing file is created empty; another one must have been made with key.
open_sqlcipher(name, key) == disk[name] # Absent => disk[name].key = key

Opened(name, key) == IF disk[name] = Absent THEN File(key, FALSE, {}) ELSE disk[name]

\* Without the library, or when the file was not made with the key, a plain
\* connection takes its place, except in production.  It stays even when the
\* file turns out to be unreadable for it.
OpenPlain(held) ==
    /\ ~machine.production
    /\ disk' = [disk EXCEPT !["main"] = Opened("main", Absent)]
    /\ connection' = [held |-> held, open |-> TRUE, key |-> Absent]

Ready == migration.step = "none" /\ ~connection.open

ensure_connection ==
    /\ Ready
    /\ IF machine.library
       THEN \E key \in IF connection.held # Absent THEN {connection.held} ELSE get_or_create_key :
              /\ vault' = IF connection.held # Absent THEN vault ELSE key
              /\ IF open_sqlcipher("main", key)
                 THEN /\ disk' = [disk EXCEPT !["main"] = Opened("main", key)]
                      /\ connection' = [held |-> key, open |-> TRUE, key |-> key]
                 ELSE \/ OpenPlain(key)
                      \/ /\ machine.production /\ UNCHANGED disk
                         /\ connection' = [connection EXCEPT !.held = key]
       ELSE OpenPlain(connection.held) /\ UNCHANGED vault
    /\ UNCHANGED <<migration, machine, committed, torn>>

\* Autocommit: a statement that succeeds is stored.
execute(row) ==
    /\ connection.open
    /\ disk["main"].key = connection.key
    /\ disk' = [disk EXCEPT !["main"].tables = TRUE, !["main"].rows = @ \cup {row}]
    /\ committed' = committed \cup {row}
    /\ UNCHANGED <<vault, connection, migration, machine, torn>>

close ==
    /\ connection.open
    /\ connection' = [connection EXCEPT !.open = FALSE, !.key = Absent]
    /\ UNCHANGED <<vault, disk, migration, machine, committed, torn>>

\* The rows of a file.
Stored(name) == IF disk[name] = Absent THEN {} ELSE disk[name].rows

-----------------------------------------------------------------------------
(* migrate_plaintext_to_encrypted, with the key of the vault               *)

\* A database that is missing or not plain needs no migration.
NeedsMigration == /\ machine.library
                  /\ disk["main"] # Absent
                  /\ disk["main"].key = Absent

DumpPlain ==
    /\ Ready /\ NeedsMigration
    /\ \E key \in get_or_create_key :
         /\ vault' = key
         /\ migration' = [step |-> "dumped", dump |-> disk["main"], key |-> key]
    /\ UNCHANGED <<disk, connection, machine, committed, torn>>

MigrationStep(from, to) ==
    /\ migration.step = from
    /\ migration' = IF to = "none" THEN NoMigration ELSE [migration EXCEPT !.step = to]
    /\ UNCHANGED <<vault, connection, machine, committed>>

\* A temporary file of an earlier attempt is opened, not replaced.
OpenTemporary ==
    /\ MigrationStep("dumped", "opened")
    /\ open_sqlcipher("temp", migration.key)
    /\ disk' = [disk EXCEPT !["temp"] = Opened("temp", migration.key)]
    /\ UNCHANGED torn

\* Mutant: the dump only creates the tables that are missing, and leaves
\* the others as they are.
FillTemporary_IfMissing ==
    /\ MigrationStep("opened", "verified")
    /\ disk' = IF disk["temp"].tables THEN disk
               ELSE [disk EXCEPT !["temp"].tables = migration.dump.tables,
                                 !["temp"].rows = migration.dump.rows]
    /\ UNCHANGED torn

\* The dump creates its tables, and fails where they exist.
FillTemporary ==
    /\ MigrationStep("opened", "verified")
    /\ ~(disk["temp"].tables /\ migration.dump.tables)
    /\ disk' = [disk EXCEPT !["temp"].tables = @ \/ migration.dump.tables,
                            !["temp"].rows = @ \cup migration.dump.rows]
    /\ UNCHANGED torn

\* Any error before the swap removes the temporary file.
MigrationFails ==
    /\ \E from \in {"dumped", "opened"} : MigrationStep(from, "none")
    /\ disk' = [disk EXCEPT !["temp"] = Absent]
    /\ UNCHANGED torn

MoveAside ==
    /\ MigrationStep("verified", "aside")
    /\ disk' = [disk EXCEPT !["backup"] = disk["main"], !["main"] = Absent]
    /\ UNCHANGED torn

MoveIntoPlace ==
    /\ MigrationStep("aside", "none")
    /\ disk' = [disk EXCEPT !["main"] = disk["temp"], !["temp"] = Absent]
    /\ UNCHANGED torn

\* A renaming that fails is not undone.
SwapFails ==
    /\ \E from \in {"verified", "aside"} :
         MigrationStep(from, "none") /\ torn' = (torn \/ from = "aside")
    /\ UNCHANGED disk

\* The end of the process; until the next start a library may be installed
\* or removed, and production declared or not.
RestartDatabase ==
    /\ connection' = NoConnection
    /\ migration' = NoMigration
    /\ machine' \in Machines
    /\ torn' = (torn \/ migration.step = "aside")
    /\ UNCHANGED <<vault, disk, committed>>

DatabaseNext ==
    \/ ensure_connection
    \/ \E row \in Rows : execute(row)
    \/ close
    \/ DumpPlain
    \/ OpenTemporary
    \/ FillTemporary
    \/ MigrationFails
    \/ MoveAside
    \/ MoveIntoPlace
    \/ SwapFails
    \/ RestartDatabase

DatabaseSpec == DatabaseInit /\ [][DatabaseNext]_databaseVars
=============================================================================
