-------------------------- MODULE SchemaMigration --------------------------
(***************************************************************************)
(* Migrate of internal/sqliteutil, run by every process that opens the     *)
(* database: the API and the daemon beside it share one file and are       *)
(* started together.  A migration is a sequence of autocommit statements   *)
(* that makes `browser_sessions` anew when access_link_id is NOT NULL and  *)
(* adds the columns that are missing; a process whose migration fails      *)
(* exits and is started again.                                             *)
(*                                                                         *)
(* A row is its id.  The other tables are created where they are missing   *)
(* and never changed.                                                      *)
(***************************************************************************)
EXTENDS Naturals

CONSTANTS
  Process,      \* processes that open the database
  Server,       \* those that insert sessions once they are up
  Column,       \* the columns Migrate adds
  NoColumn,
  OldRow,       \* sessions of the database before the upgrade
  NewRow,       \* sessions created after it
  MaxCrashes    \* bound of the model: processes ever killed

ASSUME MigrationAssumption ==
  /\ Server \subseteq Process
  /\ OldRow \cap NewRow = {}
  /\ NoColumn \notin Column
  /\ MaxCrashes \in Nat

VARIABLES
  main,       \* table browser_sessions
  spare,      \* table browser_sessions_new
  pc,         \* the statement each process executes next
  rebuilt,    \* the processes that rebuilt the table in this run
  todo,       \* the columns each process has yet to look at
  adding,     \* the column each process is about to add
  committed,  \* history: sessions whose insertion was committed
  crashes

vars == <<main, spare, pc, rebuilt, todo, adding, committed, crashes>>

-----------------------------------------------------------------------------
NoTable == [exists |-> FALSE, required |-> FALSE, columns |-> {}, rows |-> {}]

\* CREATE TABLE IF NOT EXISTS, in today's schema.
Created(table) ==
  IF table.exists THEN table
  ELSE [exists |-> TRUE, required |-> FALSE, columns |-> Column, rows |-> {}]

\* Every schema a release has left behind: none, the first with its NOT NULL,
\* or one in which some columns are still missing.
FoundTables ==
  {NoTable,
   [exists |-> TRUE, required |-> TRUE, columns |-> {}, rows |-> OldRow]}
  \cup [exists : {TRUE}, required : {FALSE}, columns : SUBSET Column, rows : {OldRow}]

Init ==
  /\ main \in FoundTables
  /\ spare = NoTable
  /\ pc = [p \in Process |-> "init"]
  /\ rebuilt = {}
  /\ todo = [p \in Process |-> {}]
  /\ adding = [p \in Process |-> NoColumn]
  /\ committed = main.rows
  /\ crashes = 0

GoTo(p, label) == pc' = [pc EXCEPT ![p] = label]

\* Migrate returns the error of a statement, and the process exits.
Fail(p) == GoTo(p, "failed") /\ UNCHANGED <<main, spare, rebuilt, todo, adding>>

History == UNCHANGED <<committed, crashes>>

-----------------------------------------------------------------------------
(* Migrate.                                                                *)

\* The CREATE TABLE statements of 001_init.sql...
InitTables(p) ==
  /\ pc[p] = "init"
  /\ main' = Created(main)
  /\ GoTo(p, "indexes")
  /\ UNCHANGED <<spare, rebuilt, todo, adding>> /\ History

\* ...and its CREATE INDEX statements.
InitIndexes(p) ==
  /\ pc[p] = "indexes"
  /\ \/ /\ main.exists
        /\ GoTo(p, IF p \in rebuilt THEN "columns" ELSE "check")
        /\ todo' = [todo EXCEPT ![p] = Column]
        /\ UNCHANGED <<main, spare, rebuilt, adding>>
     \/ ~main.exists /\ Fail(p)
  /\ History

\* Mutant: a table that needs no rebuild is taken to be complete.
CheckOnly(p) ==
  /\ pc[p] = "check"
  /\ GoTo(p, IF main.exists /\ main.required THEN "create" ELSE "finish")
  /\ UNCHANGED <<main, spare, rebuilt, todo, adding>> /\ History

\* columnNotNull: a table that is not there has no such column.
CheckRequired(p) ==
  /\ pc[p] = "check"
  /\ GoTo(p, IF main.exists /\ main.required THEN "create" ELSE "columns")
  /\ UNCHANGED <<main, spare, rebuilt, todo, adding>> /\ History

CreateSpare(p) ==
  /\ pc[p] = "create"
  /\ spare' = Created(spare)
  /\ GoTo(p, "copy")
  /\ UNCHANGED <<main, rebuilt, todo, adding>> /\ History

\* INSERT INTO ... SELECT, refused where an id is there already.
CopyAccepted == main.exists /\ spare.exists /\ main.rows \cap spare.rows = {}

\* Mutant: a copy that fails is taken for one that was made before.
CopyOrGoOn(p) ==
  /\ pc[p] = "copy"
  /\ spare' = IF CopyAccepted THEN [spare EXCEPT !.rows = @ \cup main.rows] ELSE spare
  /\ GoTo(p, "drop")
  /\ UNCHANGED <<main, rebuilt, todo, adding>> /\ History

CopyRows(p) ==
  /\ pc[p] = "copy"
  /\ \/ /\ CopyAccepted
        /\ spare' = [spare EXCEPT !.rows = @ \cup main.rows]
        /\ GoTo(p, "drop")
        /\ UNCHANGED <<main, rebuilt, todo, adding>>
     \/ ~CopyAccepted /\ Fail(p)
  /\ History

\* Mutant: the table loses its schema and keeps its rows.
DropSchema(p) ==
  /\ pc[p] = "drop" /\ main.exists
  /\ main' = [main EXCEPT !.exists = FALSE]
  /\ GoTo(p, "rename")
  /\ UNCHANGED <<spare, rebuilt, todo, adding>> /\ History

DropMain(p) ==
  /\ pc[p] = "drop"
  /\ \/ /\ main.exists
        /\ main' = NoTable
        /\ GoTo(p, "rename")
        /\ UNCHANGED <<spare, rebuilt, todo, adding>>
     \/ ~main.exists /\ Fail(p)
  /\ History

\* ALTER TABLE ... RENAME TO, then the whole of 001_init.sql again.
RenameSpare(p) ==
  /\ pc[p] = "rename"
  /\ \/ /\ spare.exists /\ ~main.exists
        /\ main' = spare /\ spare' = NoTable
        /\ rebuilt' = rebuilt \cup {p}
        /\ GoTo(p, "init")
        /\ UNCHANGED <<todo, adding>>
     \/ ~(spare.exists /\ ~main.exists) /\ Fail(p)
  /\ History

\* Mutant: a column is added without a look whether it is there.
AddUnseen(p) ==
  /\ pc[p] = "columns"
  /\ \/ todo[p] = {} /\ GoTo(p, "finish") /\ UNCHANGED <<todo, adding>>
     \/ \E column \in todo[p] :
          /\ todo' = [todo EXCEPT ![p] = @ \ {column}]
          /\ adding' = [adding EXCEPT ![p] = column]
          /\ GoTo(p, "alter")
  /\ UNCHANGED <<main, spare, rebuilt>> /\ History

\* columnExists, in the order of a map: any.
CheckColumn(p) ==
  /\ pc[p] = "columns"
  /\ \/ todo[p] = {} /\ GoTo(p, "finish") /\ UNCHANGED <<todo, adding>>
     \/ \E column \in todo[p] :
          /\ todo' = [todo EXCEPT ![p] = @ \ {column}]
          /\ IF column \in main.columns THEN UNCHANGED <<pc, adding>>
             ELSE GoTo(p, "alter") /\ adding' = [adding EXCEPT ![p] = column]
  /\ UNCHANGED <<main, spare, rebuilt>> /\ History

\* ALTER TABLE ... ADD COLUMN, refused where another process added it.
AddColumn(p) ==
  /\ pc[p] = "alter"
  /\ \/ /\ main.exists /\ adding[p] \notin main.columns
        /\ main' = [main EXCEPT !.columns = @ \cup {adding[p]}]
        /\ GoTo(p, "columns")
        /\ UNCHANGED <<spare, rebuilt, todo, adding>>
     \/ ~(main.exists /\ adding[p] \notin main.columns) /\ Fail(p)
  /\ History

\* The index on refresh_token_hash; without the table there is nothing to index.
Finish(p) ==
  /\ pc[p] = "finish"
  /\ \/ main.exists /\ GoTo(p, "done") /\ UNCHANGED <<main, spare, rebuilt, todo, adding>>
     \/ ~main.exists /\ Fail(p)
  /\ History

-----------------------------------------------------------------------------
(* Around the migration.                                                   *)

\* createBrowserSession of a process that is up.
InsertSession(p) ==
  /\ pc[p] = "done" /\ p \in Server /\ main.exists
  /\ \E row \in NewRow \ committed :
       /\ main' = [main EXCEPT !.rows = @ \cup {row}]
       /\ committed' = committed \cup {row}
  /\ UNCHANGED <<spare, pc, rebuilt, todo, adding, crashes>>

\* The container is killed, in its migration or while it is up, or a statement
\* fails for want of a lock or a disk.
Crash(p) ==
  /\ pc[p] # "failed"
  /\ crashes < MaxCrashes
  /\ crashes' = crashes + 1
  /\ GoTo(p, "failed")
  /\ UNCHANGED <<main, spare, rebuilt, todo, adding, committed>>

\* restart: unless-stopped.
Restart(p) ==
  /\ pc[p] = "failed"
  /\ GoTo(p, "init")
  /\ rebuilt' = rebuilt \ {p}
  /\ todo' = [todo EXCEPT ![p] = {}]
  /\ adding' = [adding EXCEPT ![p] = NoColumn]
  /\ UNCHANGED <<main, spare>> /\ History

Migrate(p) ==
  \/ InitTables(p)
  \/ InitIndexes(p)
  \/ CheckRequired(p)
  \/ CreateSpare(p)
  \/ CopyRows(p)
  \/ DropMain(p)
  \/ RenameSpare(p)
  \/ CheckColumn(p)
  \/ AddColumn(p)
  \/ Finish(p)

Next == \E p \in Process : Migrate(p) \/ Restart(p) \/ InsertSession(p) \/ Crash(p)

Spec == Init /\ [][Next]_vars

\* A process that can go on does, and one that failed is started again.
FairSpec == Spec /\ \A p \in Process : WF_vars(Migrate(p)) /\ WF_vars(Restart(p))

-----------------------------------------------------------------------------
Table ==
  [exists : BOOLEAN, required : BOOLEAN, columns : SUBSET Column,
   rows : SUBSET (OldRow \cup NewRow)]

Label ==
  {"init", "indexes", "check", "create", "copy", "drop", "rename", "columns", "alter",
   "finish", "done", "failed"}

\* A table has columns and rows of the schema, and none when it is not there.
TypeOK ==
  /\ main \in Table /\ (~main.exists => main = NoTable)
  /\ spare \in Table /\ (~spare.exists => spare = NoTable)
  /\ pc \in [Process -> Label]
  /\ rebuilt \subseteq Process
  /\ todo \in [Process -> SUBSET Column]
  /\ adding \in [Process -> Column \cup {NoColumn}]
  /\ committed \subseteq OldRow \cup NewRow
  /\ crashes \in 0..MaxCrashes

\* Two processes that upgrade one database, killed and restarted anywhere, never
\* drop the only copy of a session it held.
OldRowsKept == committed \cap OldRow \subseteq main.rows \cup spare.rows

\* A process that is up never meets a session table in an old schema: the table
\* is complete, or another process is just rebuilding it.
ServesCurrentSchema ==
  (\E p \in Process : pc[p] = "done") /\ main.exists =>
    ~main.required /\ main.columns = Column

\* Processes that fail each other's migration all come up in the end, unless
\* one was killed.
AllComeUp == (\A p \in Process : <>(pc[p] = "done")) \/ <>(crashes > 0)

-----------------------------------------------------------------------------
(* What the documentation says and the code does not do.                   *)

\* README.md: "SQLite persistence".  A process that starts between the other's
\* DROP and RENAME creates an empty table, and the rows stay in the spare one.
SessionsPersist == (\A p \in Process : pc[p] = "done") => committed \subseteq main.rows
=============================================================================
