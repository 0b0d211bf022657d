------------------------------ MODULE StoreOpen ------------------------------
(***************************************************************************)
(* StateStore.__init__ of ai_router/state.py: processes of this release    *)
(* that open the database at the same time, create it or migrate it from   *)
(* schema 1, and may be killed on the way.  SQLite commits every statement *)
(* of executescript and ALTER TABLE by itself.                             *)
(***************************************************************************)
EXTENDS Naturals

CONSTANT Openers       \* processes that construct a StateStore

SchemaVersion == 2     \* SCHEMA_VERSION

VARIABLES
  db,      \* the database: file and tables there, jobs.worker_version, version row
  opc      \* control point of an opener

openVars == <<db, opc>>

Absent == [file |-> FALSE, tables |-> FALSE, column |-> FALSE, version |-> 0]

OpenInit ==
  /\ \/ db = Absent
     \/ db = [file |-> TRUE, tables |-> TRUE, column |-> FALSE, version |-> 1]
     \/ \E v \in {SchemaVersion, SchemaVersion + 1} :
          db = [file |-> TRUE, tables |-> TRUE, column |-> TRUE, version |-> v]
  /\ opc = [o \in Openers |-> "idle"]

-----------------------------------------------------------------------------

OpenerAt(o, here, there) ==
  /\ opc[o] = here
  /\ opc' = [opc EXCEPT ![o] = there]

\* database.exists()
LookForFile(o) ==
  /\ OpenerAt(o, "idle", IF db.file THEN "connect" ELSE "create")
  /\ UNCHANGED db

\* O_CREAT | O_EXCL: the second of two creators fails
CreateFile(o) ==
  /\ OpenerAt(o, "create", IF db.file THEN "failed" ELSE "connect")
  /\ db' = [db EXCEPT !.file = TRUE]

\* CREATE TABLE IF NOT EXISTS: existing tables keep their columns
CreateTables(o) ==
  /\ OpenerAt(o, "connect", "select")
  /\ db' = IF db.tables THEN db ELSE [db EXCEPT !.tables = TRUE, !.column = TRUE]

\* SELECT version
ReadVersion(o) ==
  /\ OpenerAt(o, "select",
              CASE db.version = 0 -> "insert"
                [] db.version = 1 -> "alter"
                [] db.version = SchemaVersion -> "open"
                [] OTHER -> "failed")
  /\ UNCHANGED db

\* INSERT INTO schema_info, a second row when two openers get here
InsertVersion(o) ==
  /\ OpenerAt(o, "insert", "open")
  /\ db' = [db EXCEPT !.version = SchemaVersion]

\* Seeded fault: the version is written first
SetVersionFirst(o) ==
  /\ OpenerAt(o, "alter", "update")
  /\ db' = [db EXCEPT !.version = SchemaVersion]

\* ALTER TABLE raises when the column is there already
AddColumn(o) ==
  /\ OpenerAt(o, "alter", IF db.column THEN "failed" ELSE "update")
  /\ db' = [db EXCEPT !.column = TRUE]

\* UPDATE schema_info
UpdateVersion(o) ==
  /\ OpenerAt(o, "update", "open")
  /\ db' = [db EXCEPT !.version = SchemaVersion]

\* the process is killed
KillOpener(o) ==
  /\ opc[o] \in {"create", "connect", "select", "insert", "alter", "update"}
  /\ opc' = [opc EXCEPT ![o] = "killed"]
  /\ UNCHANGED db

OpenNext ==
  \E o \in Openers :
    \/ LookForFile(o) \/ CreateFile(o) \/ CreateTables(o) \/ ReadVersion(o)
    \/ InsertVersion(o) \/ AddColumn(o) \/ UpdateVersion(o) \/ KillOpener(o)

OpenSpec == OpenInit /\ [][OpenNext]_openVars

-----------------------------------------------------------------------------

\* Whoever gets a StateStore has all columns and version 2, although others may
\* have been killed in the middle of the migration: the order ALTER, then
\* UPDATE, never leaves a database that claims more than it has.
OpenedMeansMigrated ==
  \A o \in Openers : opc[o] = "open" =>
    db.tables /\ db.column /\ db.version = SchemaVersion

=============================================================================
