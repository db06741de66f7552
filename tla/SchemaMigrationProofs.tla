----------------------- MODULE SchemaMigrationProofs -----------------------
(***************************************************************************)
(* Theorems about SchemaMigration, however many processes open one         *)
(* database and however often they are killed: the types, and that nobody  *)
(* serves an old schema.  Two processes keep every row of before, and one  *)
(* that is alone and never killed keeps every session in the table.        *)
(***************************************************************************)
EXTENDS SchemaMigration, TLAPS

\* A table somebody made anew: it is complete from the start.
Current(table) == table.exists => ~table.required /\ table.columns = Column

\* What a process that stands at a label has found out about the table: nobody
\* makes access_link_id required again and nobody takes a column away.
Looked(table, label, left, next, again) ==
  /\ (again \/ label \in {"columns", "alter", "finish", "done"}) =>
       (table.exists => ~table.required)
  /\ label = "check" => left = Column
  /\ label = "columns" => (table.exists => Column \ left \subseteq table.columns)
  /\ label = "alter" =>
       (table.exists => Column \ (left \cup {next}) \subseteq table.columns)
  /\ label = "alter" => next \in Column
  /\ label \in {"finish", "done"} => (table.exists => Column \subseteq table.columns)

LookedInv == \A p \in Process : Looked(main, pc[p], todo[p], adding[p], p \in rebuilt)

MigrationInv == TypeOK /\ Current(spare) /\ LookedInv

\* What a step may do to the table: it grows, vanishes or is replaced by a
\* complete one.
Improves(before, after) ==
  \/ Current(after)
  \/ /\ before.exists /\ after.required = before.required
     /\ before.columns \subseteq after.columns

LEMMA NoTableFits ==
  NoTable \in Table /\ ~NoTable.exists /\ Current(NoTable)
BY DEF NoTable, Table, Current

LEMMA CreatedFits ==
  ASSUME NEW table \in Table
  PROVE  /\ Created(table) \in Table /\ Created(table).exists
         /\ Current(table) => Current(Created(table))
         /\ Improves(table, Created(table))
BY DEF Created, Table, Current, Improves

\* One process moves on with what it found out, the others know what they knew.
LEMMA StepKeeps ==
  ASSUME MigrationInv, NEW p \in Process, NEW label \in Label,
         NEW left \in SUBSET Column, NEW next \in Column \cup {NoColumn},
         GoTo(p, label), todo' = [todo EXCEPT ![p] = left],
         adding' = [adding EXCEPT ![p] = next],
         rebuilt' \in {rebuilt, rebuilt \cup {p}, rebuilt \ {p}},
         main' \in Table, ~main'.exists => main' = NoTable, Improves(main, main'),
         spare' \in Table, ~spare'.exists => spare' = NoTable, Current(spare'),
         Looked(main', label, left, next, p \in rebuilt'),
         committed' \subseteq OldRow \cup NewRow, crashes' \in 0..MaxCrashes
  PROVE  MigrationInv'
<1>1. /\ pc \in [Process -> Label] /\ todo \in [Process -> SUBSET Column]
      /\ adding \in [Process -> Column \cup {NoColumn}] /\ rebuilt \subseteq Process
      /\ main \in Table
  BY DEF MigrationInv, TypeOK
<1>2. /\ pc'[p] = label /\ todo'[p] = left /\ adding'[p] = next
      /\ \A q \in Process \ {p} :
           /\ pc'[q] = pc[q] /\ todo'[q] = todo[q] /\ adding'[q] = adding[q]
           /\ q \in rebuilt' <=> q \in rebuilt
  BY <1>1 DEF GoTo
<1>3. TypeOK'
  BY <1>1 DEF TypeOK, GoTo
<1>4. ASSUME NEW q \in Process
      PROVE  Looked(main', pc'[q], todo'[q], adding'[q], q \in rebuilt')
  <2>1. CASE q = p
    BY <1>2, <2>1
  <2>2. CASE q # p
    <3>1. Looked(main, pc[q], todo[q], adding[q], q \in rebuilt)
      BY DEF MigrationInv, LookedInv
    <3>2. Looked(main', pc[q], todo[q], adding[q], q \in rebuilt)
      BY <1>1, <3>1 DEF Improves, Current, Looked, Table
    <3> QED
      BY <1>2, <2>2, <3>2 DEF Looked
  <2> QED
    BY <2>1, <2>2
<1> QED
  BY <1>3, <1>4 DEF MigrationInv, LookedInv

LEMMA InitMigration == Init => MigrationInv
<1> SUFFICES ASSUME Init PROVE MigrationInv
  OBVIOUS
<1>1. main \in Table /\ (~main.exists => main = NoTable) /\ main.rows \subseteq OldRow
  <2>1. CASE main = NoTable
    BY <2>1, NoTableFits DEF NoTable
  <2>2. CASE main = [exists |-> TRUE, required |-> TRUE, columns |-> {}, rows |-> OldRow]
    BY <2>2 DEF Table
  <2>3. CASE main \in [exists : {TRUE}, required : {FALSE}, columns : SUBSET Column,
                       rows : {OldRow}]
    BY <2>3 DEF Table
  <2> QED
    BY <2>1, <2>2, <2>3 DEF Init, FoundTables
<1>2. TypeOK
  BY <1>1, NoTableFits, MigrationAssumption DEF Init, TypeOK, Label
<1>3. LookedInv
  BY DEF Init, LookedInv, Looked
<1> QED
  BY <1>2, <1>3, NoTableFits DEF Init, MigrationInv

-----------------------------------------------------------------------------
(* The steps.                                                              *)

LEMMA Types ==
  ASSUME MigrationInv, NEW p \in Process
  PROVE  /\ main \in Table /\ (~main.exists => main = NoTable)
         /\ spare \in Table /\ (~spare.exists => spare = NoTable) /\ Current(spare)
         /\ pc[p] \in Label /\ todo[p] \in SUBSET Column
         /\ adding[p] \in Column \cup {NoColumn}
         /\ todo = [todo EXCEPT ![p] = todo[p]] /\ adding = [adding EXCEPT ![p] = adding[p]]
         /\ committed \subseteq OldRow \cup NewRow /\ crashes \in 0..MaxCrashes
         /\ Looked(main, pc[p], todo[p], adding[p], p \in rebuilt)
         /\ Improves(main, main)
BY NoTableFits DEF MigrationInv, LookedInv, TypeOK, Improves

\* A step that leaves the tables, the history and what is left to do alone.
LEMMA MoveKeeps ==
  ASSUME MigrationInv, NEW p \in Process, NEW label \in Label, GoTo(p, label),
         UNCHANGED <<main, spare, rebuilt, todo, adding, committed>>,
         crashes' \in 0..MaxCrashes,
         Looked(main, label, todo[p], adding[p], p \in rebuilt)
  PROVE  MigrationInv'
<1>1. /\ todo' = [todo EXCEPT ![p] = todo[p]] /\ adding' = [adding EXCEPT ![p] = adding[p]]
      /\ main' \in Table /\ (~main'.exists => main' = NoTable) /\ Improves(main, main')
      /\ spare' \in Table /\ (~spare'.exists => spare' = NoTable) /\ Current(spare')
      /\ committed' \subseteq OldRow \cup NewRow
      /\ todo[p] \in SUBSET Column /\ adding[p] \in Column \cup {NoColumn}
  BY Types DEF Current
<1>2. Looked(main', label, todo[p], adding[p], p \in rebuilt')
  BY DEF Looked
<1> QED
  BY <1>1, <1>2, StepKeeps

LEMMA FailKeeps ==
  ASSUME MigrationInv, NEW p \in Process, Fail(p), History
  PROVE  MigrationInv'
<1>1. "failed" \in Label /\ Looked(main, "failed", todo[p], adding[p], p \in rebuilt)
  BY Types DEF Looked, Label
<1> QED
  BY <1>1, Types, MoveKeeps DEF Fail, History

\* A step that writes one of the tables.
LEMMA TableStepKeeps ==
  ASSUME MigrationInv, NEW p \in Process, NEW label \in Label, GoTo(p, label),
         UNCHANGED <<todo, adding, crashes>>,
         rebuilt' \in {rebuilt, rebuilt \cup {p}},
         committed' \subseteq OldRow \cup NewRow,
         main' \in Table, ~main'.exists => main' = NoTable, Improves(main, main'),
         spare' \in Table, ~spare'.exists => spare' = NoTable, Current(spare'),
         Looked(main', label, todo[p], adding[p], p \in rebuilt')
  PROVE  MigrationInv'
<1>1. /\ todo' = [todo EXCEPT ![p] = todo[p]] /\ adding' = [adding EXCEPT ![p] = adding[p]]
      /\ todo[p] \in SUBSET Column /\ adding[p] \in Column \cup {NoColumn}
      /\ crashes' \in 0..MaxCrashes
  BY Types
<1> QED
  BY <1>1, StepKeeps

LEMMA InitSteps ==
  ASSUME MigrationInv, NEW p \in Process, InitTables(p) \/ InitIndexes(p)
  PROVE  MigrationInv'
<1>1. CASE InitTables(p)
  <2>1. /\ main' \in Table /\ main'.exists /\ Improves(main, main')
        /\ Looked(main, pc[p], todo[p], adding[p], p \in rebuilt) /\ main \in Table
    BY <1>1, Types, CreatedFits DEF InitTables
  <2>2. Looked(main', "indexes", todo[p], adding[p], p \in rebuilt')
    BY <1>1, <2>1 DEF InitTables, Looked, Improves, Current
  <2>3. spare' \in Table /\ (~spare'.exists => spare' = NoTable) /\ Current(spare')
    BY <1>1, Types DEF InitTables, Current
  <2>4. committed' \subseteq OldRow \cup NewRow
    BY <1>1, Types DEF InitTables, History
  <2> QED
    BY <1>1, <2>1, <2>2, <2>3, <2>4, TableStepKeeps DEF InitTables, History, Label
<1>2. CASE InitIndexes(p) /\ ~main.exists
  BY <1>2, FailKeeps DEF InitIndexes
<1>3. CASE InitIndexes(p) /\ main.exists
  <2>1. PICK label \in {"columns", "check"} :
          /\ GoTo(p, label) /\ (label = "columns" => p \in rebuilt)
          /\ todo' = [todo EXCEPT ![p] = Column]
    BY <1>3 DEF InitIndexes, Fail
  <2>2. UNCHANGED <<main, spare, rebuilt, adding>> /\ History
    BY <1>3 DEF InitIndexes, Fail
  <2>3. Looked(main, label, Column, adding[p], p \in rebuilt)
    BY <2>1, Types DEF Looked
  <2>4. Looked(main', label, Column, adding[p], p \in rebuilt')
    BY <2>2, <2>3 DEF Looked
  <2>5. /\ main' \in Table /\ (~main'.exists => main' = NoTable) /\ Improves(main, main')
        /\ spare' \in Table /\ (~spare'.exists => spare' = NoTable) /\ Current(spare')
        /\ adding' = [adding EXCEPT ![p] = adding[p]]
        /\ adding[p] \in Column \cup {NoColumn}
        /\ committed' \subseteq OldRow \cup NewRow /\ crashes' \in 0..MaxCrashes
    BY <2>2, Types DEF History, Current
  <2>6. label \in Label /\ Column \in SUBSET Column /\ rebuilt' = rebuilt
    BY <2>2 DEF Label
  <2> HIDE DEF Label
  <2> QED
    BY <2>1, <2>2, <2>4, <2>5, <2>6, StepKeeps
<1> QED
  BY <1>1, <1>2, <1>3

\* The rebuild: what replaces the table was made with every column.
LEMMA RebuildSteps ==
  ASSUME MigrationInv, NEW p \in Process,
         \/ CheckRequired(p) \/ CreateSpare(p) \/ CopyRows(p) \/ DropMain(p)
         \/ RenameSpare(p)
  PROVE  MigrationInv'
<1>l. "create" \in Label /\ "columns" \in Label /\ "copy" \in Label /\ "drop" \in Label
      /\ "rename" \in Label /\ "init" \in Label
  BY DEF Label
<1>t. /\ main \in Table /\ (~main.exists => main = NoTable) /\ Improves(main, main)
      /\ spare \in Table /\ (~spare.exists => spare = NoTable) /\ Current(spare)
      /\ Looked(main, pc[p], todo[p], adding[p], p \in rebuilt)
      /\ todo[p] \subseteq Column
      /\ committed \subseteq OldRow \cup NewRow /\ crashes \in 0..MaxCrashes
  BY Types
<1>f. Fail(p) /\ History => MigrationInv'
  BY FailKeeps
<1>1. CASE CheckRequired(p)
  <2>1. CASE main.exists /\ main.required
    <3>1. Looked(main, "create", todo[p], adding[p], p \in rebuilt)
      BY <1>t, <2>1 DEF Looked
    <3> QED
      BY <1>1, <1>l, <1>t, <2>1, <3>1, MoveKeeps DEF CheckRequired, History
  <2>2. CASE ~(main.exists /\ main.required)
    <3>1. todo[p] = Column => Looked(main, "columns", todo[p], adding[p], p \in rebuilt)
      BY <1>t, <2>2 DEF Looked
    <3>2. todo[p] = Column
      BY <1>1, <1>t DEF CheckRequired, Looked
    <3> QED
      BY <1>1, <1>l, <1>t, <2>2, <3>1, <3>2, MoveKeeps DEF CheckRequired, History
  <2> QED
    BY <2>1, <2>2
<1>2. CASE CreateSpare(p)
  <2>1. spare' \in Table /\ spare'.exists /\ Current(spare')
    BY <1>2, <1>t, CreatedFits DEF CreateSpare
  <2>2. Looked(main', "copy", todo[p], adding[p], p \in rebuilt')
    BY <1>2, <1>t DEF CreateSpare, Looked
  <2>3. /\ main' \in Table /\ (~main'.exists => main' = NoTable) /\ Improves(main, main')
        /\ committed' \subseteq OldRow \cup NewRow
    BY <1>2, <1>t DEF CreateSpare, History
  <2> QED
    BY <1>2, <1>l, <2>1, <2>2, <2>3, TableStepKeeps DEF CreateSpare, History
<1>3. CASE CopyRows(p)
  <2>1. CASE CopyAccepted
    <3>1. /\ spare' = [spare EXCEPT !.rows = @ \cup main.rows] /\ GoTo(p, "drop")
          /\ UNCHANGED <<main, rebuilt, todo, adding>> /\ History
      BY <1>3, <2>1 DEF CopyRows
    <3>2. spare' \in Table /\ spare'.exists /\ Current(spare')
      BY <1>t, <2>1, <3>1 DEF CopyAccepted, Table, Current
    <3>3. Looked(main', "drop", todo[p], adding[p], p \in rebuilt')
      BY <1>3, <1>t, <3>1 DEF CopyRows, Looked
    <3>4. /\ main' \in Table /\ (~main'.exists => main' = NoTable) /\ Improves(main, main')
          /\ committed' \subseteq OldRow \cup NewRow
      BY <1>t, <3>1 DEF History
    <3> QED
      BY <1>l, <3>1, <3>2, <3>3, <3>4, TableStepKeeps DEF History
  <2>2. CASE ~CopyAccepted
    BY <1>3, <1>f, <2>2 DEF CopyRows
  <2> QED
    BY <2>1, <2>2
<1>4. CASE DropMain(p)
  <2>1. CASE main.exists
    <3>1. /\ main' = NoTable /\ GoTo(p, "rename")
          /\ UNCHANGED <<spare, rebuilt, todo, adding>> /\ History
      BY <1>4, <2>1 DEF DropMain, Fail
    <3>2. main' \in Table /\ (~main'.exists => main' = NoTable) /\ Improves(main, main')
      BY <3>1, NoTableFits DEF Improves
    <3>3. Looked(main', "rename", todo[p], adding[p], p \in rebuilt')
      BY <3>1, NoTableFits DEF Looked
    <3>4. /\ spare' \in Table /\ (~spare'.exists => spare' = NoTable) /\ Current(spare')
          /\ committed' \subseteq OldRow \cup NewRow
      BY <1>t, <3>1 DEF History, Current
    <3> QED
      BY <1>l, <3>1, <3>2, <3>3, <3>4, TableStepKeeps DEF History
  <2>2. CASE ~main.exists
    BY <1>4, <1>f, <2>2 DEF DropMain
  <2> QED
    BY <2>1, <2>2
<1>5. CASE RenameSpare(p)
  <2>1. CASE spare.exists /\ ~main.exists
    <3>1. /\ main' = spare /\ spare' = NoTable /\ rebuilt' = rebuilt \cup {p}
          /\ GoTo(p, "init") /\ UNCHANGED <<todo, adding>> /\ History
      BY <1>5, <2>1 DEF RenameSpare, Fail
    <3>2. /\ main' \in Table /\ (~main'.exists => main' = NoTable) /\ Improves(main, main')
          /\ main'.exists /\ ~main'.required
      BY <1>t, <2>1, <3>1 DEF Improves, Current
    <3>3. Looked(main', "init", todo[p], adding[p], p \in rebuilt')
      BY <3>2 DEF Looked
    <3>4. /\ spare' \in Table /\ (~spare'.exists => spare' = NoTable) /\ Current(spare')
          /\ committed' \subseteq OldRow \cup NewRow
      BY <1>t, <3>1, NoTableFits DEF History
    <3> QED
      BY <1>l, <3>1, <3>2, <3>3, <3>4, TableStepKeeps DEF History
  <2>2. CASE ~(spare.exists /\ ~main.exists)
    BY <1>5, <1>f, <2>2 DEF RenameSpare
  <2> QED
    BY <2>1, <2>2
<1> QED
  BY <1>1, <1>2, <1>3, <1>4, <1>5

\* The columns: what is found missing is added by this process or was by another.
LEMMA ColumnSteps ==
  ASSUME MigrationInv, NEW p \in Process,
         CheckColumn(p) \/ AddColumn(p) \/ Finish(p)
  PROVE  MigrationInv'
<1>l. "columns" \in Label /\ "alter" \in Label /\ "finish" \in Label /\ "done" \in Label
  BY DEF Label
<1>t. /\ main \in Table /\ (~main.exists => main = NoTable) /\ Improves(main, main)
      /\ spare \in Table /\ (~spare.exists => spare = NoTable) /\ Current(spare)
      /\ Looked(main, pc[p], todo[p], adding[p], p \in rebuilt)
      /\ todo[p] \subseteq Column /\ adding[p] \in Column \cup {NoColumn}
      /\ adding = [adding EXCEPT ![p] = adding[p]]
      /\ committed \subseteq OldRow \cup NewRow /\ crashes \in 0..MaxCrashes
  BY Types
<1>f. Fail(p) /\ History => MigrationInv'
  BY FailKeeps
<1>1. CASE CheckColumn(p)
  <2>1. UNCHANGED <<main, spare, rebuilt, committed, crashes>> /\ pc[p] = "columns"
    BY <1>1 DEF CheckColumn, History
  <2>2. CASE todo[p] = {} /\ GoTo(p, "finish") /\ UNCHANGED <<todo, adding>>
    <3>1. Looked(main, "finish", todo[p], adding[p], p \in rebuilt)
      BY <1>t, <2>1, <2>2 DEF Looked
    <3> QED
      BY <1>l, <1>t, <2>1, <2>2, <3>1, MoveKeeps
  <2>3. ASSUME NEW column \in todo[p], todo' = [todo EXCEPT ![p] = @ \ {column}],
               IF column \in main.columns THEN UNCHANGED <<pc, adding>>
               ELSE GoTo(p, "alter") /\ adding' = [adding EXCEPT ![p] = column]
        PROVE  MigrationInv'
    <3>0. todo' = [todo EXCEPT ![p] = todo[p] \ {column}]
      BY <2>3
    <3>1. /\ main' \in Table /\ (~main'.exists => main' = NoTable) /\ Improves(main, main')
          /\ spare' \in Table /\ (~spare'.exists => spare' = NoTable) /\ Current(spare')
          /\ committed' \subseteq OldRow \cup NewRow /\ crashes' \in 0..MaxCrashes
          /\ rebuilt' = rebuilt /\ todo[p] \ {column} \in SUBSET Column
      BY <1>t, <2>1 DEF Current
    <3>2. CASE column \in main.columns
      <4>1. GoTo(p, "columns") /\ adding' = [adding EXCEPT ![p] = adding[p]]
        BY <1>t, <2>1, <2>3, <3>2 DEF GoTo, MigrationInv, TypeOK
      <4>2. Looked(main', "columns", todo[p] \ {column}, adding[p], p \in rebuilt')
        BY <1>t, <2>1, <3>2 DEF Looked
      <4> QED
        BY <1>l, <1>t, <3>0, <3>1, <4>1, <4>2, StepKeeps
    <3>3. CASE column \notin main.columns
      <4>1. GoTo(p, "alter") /\ adding' = [adding EXCEPT ![p] = column]
        BY <2>3, <3>3
      <4>2. Looked(main', "alter", todo[p] \ {column}, column, p \in rebuilt')
        BY <1>t, <2>1 DEF Looked
      <4>3. column \in Column \cup {NoColumn}
        BY <1>t
      <4> QED
        BY <1>l, <3>0, <3>1, <4>1, <4>2, <4>3, StepKeeps
    <3> QED
      BY <3>2, <3>3
  <2> QED
    BY <1>1, <2>2, <2>3 DEF CheckColumn
<1>2. CASE AddColumn(p)
  <2>1. CASE main.exists /\ adding[p] \notin main.columns
    <3>1. /\ main' = [main EXCEPT !.columns = @ \cup {adding[p]}] /\ GoTo(p, "columns")
          /\ UNCHANGED <<spare, rebuilt, todo, adding>> /\ History
      BY <1>2, <2>1 DEF AddColumn, Fail
    <3>2. /\ adding[p] \in Column /\ pc[p] = "alter"
          /\ Column \ (todo[p] \cup {adding[p]}) \subseteq main.columns
          /\ ~main.required
      BY <1>2, <1>t, <2>1 DEF AddColumn, Looked
    <3>3. /\ main' \in Table /\ main'.exists /\ ~main'.required
          /\ main'.columns = main.columns \cup {adding[p]} /\ Improves(main, main')
      BY <1>t, <2>1, <3>1, <3>2 DEF Table, Improves
    <3>4. Looked(main', "columns", todo[p], adding[p], p \in rebuilt')
      BY <3>2, <3>3 DEF Looked
    <3>5. /\ spare' \in Table /\ (~spare'.exists => spare' = NoTable) /\ Current(spare')
          /\ committed' \subseteq OldRow \cup NewRow
      BY <1>t, <3>1 DEF History, Current
    <3> QED
      BY <1>l, <3>1, <3>3, <3>4, <3>5, TableStepKeeps DEF History
  <2>2. CASE ~(main.exists /\ adding[p] \notin main.columns)
    BY <1>2, <1>f, <2>2 DEF AddColumn
  <2> QED
    BY <2>1, <2>2
<1>3. CASE Finish(p)
  <2>1. CASE main.exists
    <3>1. /\ GoTo(p, "done") /\ UNCHANGED <<main, spare, rebuilt, todo, adding>> /\ History
          /\ pc[p] = "finish"
      BY <1>3, <2>1 DEF Finish, Fail
    <3>2. Looked(main, "done", todo[p], adding[p], p \in rebuilt)
      BY <1>t, <3>1 DEF Looked
    <3> QED
      BY <1>l, <1>t, <3>1, <3>2, MoveKeeps DEF History
  <2>2. CASE ~main.exists
    BY <1>3, <1>f, <2>2 DEF Finish
  <2> QED
    BY <2>1, <2>2
<1> QED
  BY <1>1, <1>2, <1>3

\* Around the migration: a session is inserted, a process dies or is started again.
LEMMA OtherSteps ==
  ASSUME MigrationInv, NEW p \in Process,
         InsertSession(p) \/ Crash(p) \/ Restart(p)
  PROVE  MigrationInv'
<1>l. "failed" \in Label /\ "init" \in Label
  BY DEF Label
<1>t. /\ main \in Table /\ (~main.exists => main = NoTable) /\ Improves(main, main)
      /\ spare \in Table /\ (~spare.exists => spare = NoTable) /\ Current(spare)
      /\ Looked(main, pc[p], todo[p], adding[p], p \in rebuilt)
      /\ pc[p] \in Label /\ todo[p] \in SUBSET Column /\ adding[p] \in Column \cup {NoColumn}
      /\ todo = [todo EXCEPT ![p] = todo[p]] /\ adding = [adding EXCEPT ![p] = adding[p]]
      /\ committed \subseteq OldRow \cup NewRow /\ crashes \in 0..MaxCrashes
  BY Types
<1>1. CASE InsertSession(p)
  <2>1. PICK row \in NewRow :
          /\ main' = [main EXCEPT !.rows = @ \cup {row}]
          /\ committed' = committed \cup {row}
    BY <1>1 DEF InsertSession
  <2>2. main.exists /\ UNCHANGED <<spare, pc, rebuilt, todo, adding, crashes>>
    BY <1>1 DEF InsertSession
  <2>3. /\ main' \in Table /\ main'.exists /\ Improves(main, main')
        /\ main'.required = main.required /\ main'.columns = main.columns
        /\ committed' \subseteq OldRow \cup NewRow
    BY <1>t, <2>1, <2>2 DEF Table, Improves
  <2>4. GoTo(p, pc[p])
    BY <2>2 DEF GoTo, MigrationInv, TypeOK
  <2>5. Looked(main', pc[p], todo[p], adding[p], p \in rebuilt')
    BY <1>t, <2>2, <2>3 DEF Looked
  <2>6. spare' \in Table /\ (~spare'.exists => spare' = NoTable) /\ Current(spare')
    BY <1>t, <2>2 DEF Current
  <2> QED
    BY <1>t, <2>2, <2>3, <2>4, <2>5, <2>6, TableStepKeeps
<1>2. CASE Crash(p)
  <2>1. /\ crashes' = crashes + 1 /\ crashes < MaxCrashes /\ GoTo(p, "failed")
        /\ UNCHANGED <<main, spare, rebuilt, todo, adding, committed>>
    BY <1>2 DEF Crash
  <2>2. crashes' \in 0..MaxCrashes
    BY <1>t, <2>1, MigrationAssumption
  <2>3. Looked(main, "failed", todo[p], adding[p], p \in rebuilt)
    BY <1>t DEF Looked
  <2> QED
    BY <1>l, <2>1, <2>2, <2>3, MoveKeeps
<1>3. CASE Restart(p)
  <2>1. /\ GoTo(p, "init") /\ rebuilt' = rebuilt \ {p}
        /\ todo' = [todo EXCEPT ![p] = {}] /\ adding' = [adding EXCEPT ![p] = NoColumn]
        /\ UNCHANGED <<main, spare, committed, crashes>>
    BY <1>3 DEF Restart, History
  <2>2. Looked(main', "init", {}, NoColumn, p \in rebuilt')
    BY <2>1 DEF Looked, MigrationInv, TypeOK
  <2>3. /\ main' \in Table /\ (~main'.exists => main' = NoTable) /\ Improves(main, main')
        /\ spare' \in Table /\ (~spare'.exists => spare' = NoTable) /\ Current(spare')
        /\ committed' \subseteq OldRow \cup NewRow /\ crashes' \in 0..MaxCrashes
        /\ {} \in SUBSET Column /\ NoColumn \in Column \cup {NoColumn}
    BY <1>t, <2>1 DEF Current
  <2> QED
    BY <1>l, <2>1, <2>2, <2>3, StepKeeps
<1> QED
  BY <1>1, <1>2, <1>3

-----------------------------------------------------------------------------
(* The theorems.                                                           *)

LEMMA NextMigration == MigrationInv /\ [Next]_vars => MigrationInv'
<1> SUFFICES ASSUME MigrationInv, [Next]_vars PROVE MigrationInv'
  OBVIOUS
<1>1. CASE Next
  <2>1. PICK p \in Process : Migrate(p) \/ Restart(p) \/ InsertSession(p) \/ Crash(p)
    BY <1>1 DEF Next
  <2> QED
    BY <2>1, InitSteps, RebuildSteps, ColumnSteps, OtherSteps DEF Migrate
<1>2. CASE UNCHANGED vars
  BY <1>2 DEF vars, MigrationInv, TypeOK, Current, LookedInv, Looked
<1> QED
  BY <1>1, <1>2

LEMMA MigrationHolds == Spec => []MigrationInv
BY InitMigration, NextMigration, PTL DEF Spec

\* A statement of the migration leaves tables of the schema behind, whatever the
\* other processes are doing: a table that is not there has no columns and no rows.
THEOREM MigrationTypes == Spec => []TypeOK
<1>1. MigrationInv => TypeOK
  BY DEF MigrationInv
<1> QED
  BY <1>1, MigrationHolds, PTL

\* A process that is up finds the table in today's schema or not at all, however
\* many processes migrate beside it and wherever they are killed.
THEOREM CurrentSchemaServed == Spec => []ServesCurrentSchema
<1>1. MigrationInv => ServesCurrentSchema
  <2> SUFFICES ASSUME MigrationInv, NEW p \in Process, pc[p] = "done", main.exists
               PROVE  ~main.required /\ main.columns = Column
    BY DEF ServesCurrentSchema
  <2> QED
    BY Types DEF Looked, Table
<1> QED
  BY <1>1, MigrationHolds, PTL

-----------------------------------------------------------------------------
(* Two processes keep the rows of before the upgrade.                      *)

\* The installer starts two processes that migrate: the API and the daemon.
TwoProcesses == \A p, q, r \in Process : p = q \/ q = r \/ p = r

Old == committed \cap OldRow

Rebuilding == {"create", "copy", "drop", "rename"}

\* The old rows lie together in one of the tables, and in the spare one when a
\* process is about to drop the other.
OldTogether ==
  /\ Old \subseteq main.rows \/ Old \subseteq spare.rows
  /\ \A p \in Process : pc[p] = "drop" => Old \subseteq spare.rows

\* No process takes the spare table away from one that is about to drop.
DropsAlone ==
  \A p, q \in Process : p # q /\ pc[p] = "drop" => pc[q] \notin {"drop", "rename"}

\* A table that appeared after a drop is not required to be rebuilt, and the
\* process that made it, or renamed it, is not rebuilding.
ReplacedAlone ==
  \A p, q \in Process : p # q /\ pc[q] = "rename" /\ main.exists =>
    ~main.required /\ pc[p] \notin {"create", "copy"}

RecreatedAlone ==
  main.exists /\ ~(Old \subseteq main.rows) =>
    /\ ~main.required
    /\ \A p, q \in Process : p # q => pc[p] \notin Rebuilding \/ pc[q] \notin Rebuilding

RowsInv ==
  Old # {} => OldTogether /\ DropsAlone /\ ReplacedAlone /\ RecreatedAlone

\* What a step of one process leaves of the labels.
LEMMA LabelMoves ==
  ASSUME MigrationInv, NEW p \in Process, NEW label, GoTo(p, label)
  PROVE  pc'[p] = label /\ \A q \in Process \ {p} : pc'[q] = pc[q]
BY DEF MigrationInv, TypeOK, GoTo

\* A step that takes nothing away and does not lead into the rebuild.
LEMMA OutsideKeeps ==
  ASSUME MigrationInv, RowsInv, NEW p \in Process, NEW label, label \notin Rebuilding,
         GoTo(p, label), Old' = Old, UNCHANGED spare, main'.exists = main.exists,
         main'.required = main.required, main.rows \subseteq main'.rows
  PROVE  RowsInv'
<1> SUFFICES ASSUME Old # {}
             PROVE  OldTogether' /\ DropsAlone' /\ ReplacedAlone' /\ RecreatedAlone'
  BY DEF RowsInv
<1>1. pc'[p] = label /\ \A q \in Process \ {p} : pc'[q] = pc[q]
  BY LabelMoves
<1>2. OldTogether /\ DropsAlone /\ ReplacedAlone /\ RecreatedAlone
  BY DEF RowsInv
<1>3. \A q \in Process : pc'[q] \in Rebuilding => pc'[q] = pc[q]
  BY <1>1
<1>4. OldTogether'
  BY <1>2, <1>3 DEF OldTogether, Rebuilding
<1>5. DropsAlone'
  BY <1>2, <1>3 DEF DropsAlone, Rebuilding
<1>6. ReplacedAlone'
  BY <1>2, <1>3 DEF ReplacedAlone, Rebuilding
<1>7. RecreatedAlone'
  BY <1>2, <1>3 DEF RecreatedAlone
<1> QED
  BY <1>4, <1>5, <1>6, <1>7

\* Statements outside the rebuild, and every failure.
LEMMA OutsideSteps ==
  ASSUME TwoProcesses, MigrationInv, RowsInv, NEW p \in Process,
         \/ InitTables(p) \/ InitIndexes(p) \/ CheckColumn(p) \/ AddColumn(p)
         \/ Finish(p) \/ InsertSession(p) \/ Crash(p) \/ Restart(p)
         \/ Fail(p) /\ History
  PROVE  RowsInv'
<1>t. main \in Table /\ (~main.exists => main = NoTable) /\ pc \in [Process -> Label]
  BY DEF MigrationInv, TypeOK
<1>f. ASSUME Fail(p), History PROVE RowsInv'
  <2>1. GoTo(p, "failed") /\ UNCHANGED <<main, spare, committed>> /\ Old' = Old
    BY <1>f DEF Fail, History, Old
  <2> QED
    BY <2>1, OutsideKeeps DEF Rebuilding
<1>1. CASE InitTables(p) /\ main.exists
  <2>1. GoTo(p, "indexes") /\ UNCHANGED <<main, spare, committed>> /\ Old' = Old
    BY <1>1 DEF InitTables, Created, History, Old
  <2> QED
    BY <2>1, OutsideKeeps DEF Rebuilding
<1>2. CASE InitTables(p) /\ ~main.exists
  <2> SUFFICES ASSUME Old # {}, Old' = Old
               PROVE  OldTogether' /\ DropsAlone' /\ ReplacedAlone' /\ RecreatedAlone'
    BY <1>2 DEF RowsInv, InitTables, History, Old
  <2>1. /\ main'.exists /\ ~main'.required /\ spare' = spare
        /\ pc'[p] = "indexes" /\ \A q \in Process \ {p} : pc'[q] = pc[q]
    BY <1>2, LabelMoves DEF InitTables, Created
  <2>2. OldTogether /\ DropsAlone
    BY DEF RowsInv
  <2>3. Old \subseteq spare.rows
    BY <1>t, <1>2, <2>2 DEF OldTogether, NoTable
  <2>4. OldTogether'
    BY <2>1, <2>3 DEF OldTogether
  <2>5. DropsAlone'
    BY <2>1, <2>2 DEF DropsAlone
  <2>6. ReplacedAlone'
    BY <2>1 DEF ReplacedAlone, TwoProcesses
  <2>7. RecreatedAlone'
    BY <2>1 DEF RecreatedAlone, TwoProcesses, Rebuilding
  <2> QED
    BY <2>4, <2>5, <2>6, <2>7
<1>3. CASE InitIndexes(p)
  <2>1. CASE main.exists
    <3>1. PICK label \in {"columns", "check"} : GoTo(p, label)
      BY <1>3, <2>1 DEF InitIndexes
    <3>2. UNCHANGED <<main, spare, committed>> /\ Old' = Old /\ label \notin Rebuilding
      BY <1>3, <2>1 DEF InitIndexes, History, Old, Rebuilding
    <3> QED
      BY <3>1, <3>2, OutsideKeeps
  <2> QED
    BY <1>3, <1>f, <2>1 DEF InitIndexes
<1>4. CASE CheckColumn(p)
  <2>1. PICK label \in {"finish", "columns", "alter"} : GoTo(p, label)
    BY <1>4, <1>t DEF CheckColumn, GoTo
  <2>2. UNCHANGED <<main, spare, committed>> /\ Old' = Old /\ label \notin Rebuilding
    BY <1>4 DEF CheckColumn, History, Old, Rebuilding
  <2> QED
    BY <2>1, <2>2, OutsideKeeps
<1>5. CASE AddColumn(p)
  <2>1. CASE main.exists /\ adding[p] \notin main.columns
    <3>1. /\ GoTo(p, "columns") /\ UNCHANGED <<spare, committed>> /\ Old' = Old
          /\ main' = [main EXCEPT !.columns = main.columns \cup {adding[p]}]
      BY <1>5, <2>1 DEF AddColumn, History, Old
    <3>2. main'.exists = main.exists /\ main'.required = main.required /\ main'.rows = main.rows
      BY <1>t, <3>1 DEF Table
    <3> QED
      BY <3>1, <3>2, OutsideKeeps DEF Rebuilding
  <2> QED
    BY <1>5, <1>f, <2>1 DEF AddColumn
<1>6. CASE Finish(p)
  <2>1. CASE main.exists
    <3>1. GoTo(p, "done") /\ UNCHANGED <<main, spare, committed>> /\ Old' = Old
      BY <1>6, <2>1 DEF Finish, History, Old
    <3> QED
      BY <3>1, OutsideKeeps DEF Rebuilding
  <2> QED
    BY <1>6, <1>f, <2>1 DEF Finish
<1>7. CASE InsertSession(p)
  <2>1. PICK row \in NewRow : /\ main' = [main EXCEPT !.rows = main.rows \cup {row}]
                              /\ committed' = committed \cup {row}
    BY <1>7 DEF InsertSession
  <2>2. Old' = Old
    BY <2>1, MigrationAssumption DEF Old
  <2>3. /\ main'.exists = main.exists /\ main'.required = main.required
        /\ main.rows \subseteq main'.rows
    BY <1>t, <2>1 DEF Table
  <2>4. GoTo(p, "done") /\ UNCHANGED spare
    BY <1>7, <1>t DEF InsertSession, GoTo
  <2> QED
    BY <2>2, <2>3, <2>4, OutsideKeeps DEF Rebuilding
<1>8. CASE Crash(p)
  <2>1. GoTo(p, "failed") /\ UNCHANGED <<main, spare, committed>> /\ Old' = Old
    BY <1>8 DEF Crash, Old
  <2> QED
    BY <2>1, OutsideKeeps DEF Rebuilding
<1>9. CASE Restart(p)
  <2>1. GoTo(p, "init") /\ UNCHANGED <<main, spare, committed>> /\ Old' = Old
    BY <1>9 DEF Restart, History, Old
  <2> QED
    BY <2>1, OutsideKeeps DEF Rebuilding
<1> QED
  BY <1>f, <1>1, <1>2, <1>3, <1>4, <1>5, <1>6, <1>7, <1>8, <1>9

\* The rebuild.
LEMMA RebuildKeepsRows ==
  ASSUME TwoProcesses, MigrationInv, RowsInv, NEW p \in Process,
         \/ CheckRequired(p) \/ CreateSpare(p) \/ CopyRows(p) \/ DropMain(p)
         \/ RenameSpare(p)
  PROVE  RowsInv'
<1>t. /\ main \in Table /\ (~main.exists => main = NoTable) /\ pc \in [Process -> Label]
      /\ spare \in Table /\ (~spare.exists => spare = NoTable) /\ Current(spare)
  BY DEF MigrationInv, TypeOK
<1>f. ASSUME Fail(p), History PROVE RowsInv'
  BY <1>f, OutsideSteps
<1>o. Old' = Old
  BY DEF CheckRequired, CreateSpare, CopyRows, DropMain, RenameSpare, History, Old
<1> SUFFICES ASSUME Old # {}, ~(Fail(p) /\ History) PROVE RowsInv'
  BY <1>f, <1>o DEF RowsInv
<1>i. OldTogether /\ DropsAlone /\ ReplacedAlone /\ RecreatedAlone
  BY DEF RowsInv
<1>1. CASE CheckRequired(p)
  <2>1. CASE main.exists /\ main.required
    <3>1. GoTo(p, "create") /\ UNCHANGED <<main, spare>>
      BY <1>1, <2>1 DEF CheckRequired
    <3>2. pc'[p] = "create" /\ \A q \in Process \ {p} : pc'[q] = pc[q]
      BY <3>1, LabelMoves
    <3>3. OldTogether'
      BY <1>o, <1>i, <3>1, <3>2 DEF OldTogether
    <3>4. DropsAlone'
      BY <1>i, <3>2 DEF DropsAlone
    <3>5. ReplacedAlone'
      BY <1>i, <2>1, <3>1, <3>2 DEF ReplacedAlone
    <3>6. RecreatedAlone'
      BY <1>o, <1>i, <2>1, <3>1 DEF RecreatedAlone
    <3> QED
      BY <3>3, <3>4, <3>5, <3>6 DEF RowsInv
  <2>2. CASE ~(main.exists /\ main.required)
    <3>1. GoTo(p, "columns") /\ UNCHANGED <<main, spare>>
      BY <1>1, <2>2 DEF CheckRequired
    <3> QED
      BY <1>o, <3>1, OutsideKeeps DEF Rebuilding
  <2> QED
    BY <2>1, <2>2
<1>2. CASE CreateSpare(p)
  <2>1. GoTo(p, "copy") /\ UNCHANGED main /\ spare' = Created(spare) /\ pc[p] = "create"
    BY <1>2 DEF CreateSpare
  <2>2. pc'[p] = "copy" /\ \A q \in Process \ {p} : pc'[q] = pc[q]
    BY <2>1, LabelMoves
  <2>3. spare.rows \subseteq spare'.rows
    BY <1>t, <2>1 DEF Created, NoTable
  <2>4. OldTogether'
    BY <1>o, <1>i, <2>1, <2>2, <2>3 DEF OldTogether
  <2>5. DropsAlone'
    BY <1>i, <2>2 DEF DropsAlone
  <2>6. ReplacedAlone'
    BY <1>i, <2>1, <2>2 DEF ReplacedAlone
  <2>7. RecreatedAlone'
    BY <1>o, <1>i, <2>1, <2>2 DEF RecreatedAlone, Rebuilding
  <2> QED
    BY <2>4, <2>5, <2>6, <2>7 DEF RowsInv
<1>3. CASE CopyRows(p)
  <2>1. /\ CopyAccepted /\ GoTo(p, "drop") /\ UNCHANGED main /\ pc[p] = "copy"
        /\ spare' = [spare EXCEPT !.rows = spare.rows \cup main.rows]
    BY <1>3 DEF CopyRows
  <2>2. pc'[p] = "drop" /\ \A q \in Process \ {p} : pc'[q] = pc[q]
    BY <2>1, LabelMoves
  <2>3. spare'.rows = spare.rows \cup main.rows
    BY <1>t, <2>1 DEF Table
  <2>4. OldTogether'
    BY <1>o, <1>i, <2>3 DEF OldTogether
  <2>5. ASSUME NEW q \in Process \ {p} PROVE pc[q] \notin {"drop", "rename"}
    <3>1. pc[q] # "rename"
      BY <1>i, <2>1 DEF ReplacedAlone, CopyAccepted
    <3>2. ASSUME pc[q] = "drop" PROVE FALSE
      <4>1. Old \subseteq spare.rows
        BY <1>i, <3>2 DEF OldTogether
      <4>2. ~(Old \subseteq main.rows)
        BY <2>1, <4>1 DEF CopyAccepted
      <4> QED
        BY <1>i, <2>1, <3>2, <4>2 DEF RecreatedAlone, CopyAccepted, Rebuilding
    <3> QED
      BY <3>1, <3>2
  <2>6. DropsAlone'
    BY <2>2, <2>5 DEF DropsAlone
  <2>7. ReplacedAlone'
    BY <1>i, <2>1, <2>2 DEF ReplacedAlone
  <2>8. RecreatedAlone'
    BY <1>o, <1>i, <2>1, <2>2 DEF RecreatedAlone, Rebuilding
  <2> QED
    BY <2>4, <2>6, <2>7, <2>8 DEF RowsInv
<1>4. CASE DropMain(p)
  <2>1. main' = NoTable /\ GoTo(p, "rename") /\ UNCHANGED spare /\ pc[p] = "drop"
    BY <1>4 DEF DropMain
  <2>2. pc'[p] = "rename" /\ \A q \in Process \ {p} : pc'[q] = pc[q]
    BY <2>1, LabelMoves
  <2>3. Old \subseteq spare.rows /\ ~main'.exists
    BY <1>i, <2>1 DEF OldTogether, NoTable
  <2>4. OldTogether'
    BY <1>o, <2>1, <2>3 DEF OldTogether
  <2>5. DropsAlone'
    BY <1>i, <2>1, <2>2 DEF DropsAlone
  <2>6. ReplacedAlone' /\ RecreatedAlone'
    BY <2>3 DEF ReplacedAlone, RecreatedAlone
  <2> QED
    BY <2>4, <2>5, <2>6 DEF RowsInv
<1>5. CASE RenameSpare(p)
  <2>1. /\ ~main.exists /\ spare.exists /\ main' = spare /\ spare' = NoTable
        /\ GoTo(p, "init") /\ pc[p] = "rename"
    BY <1>5 DEF RenameSpare
  <2>2. pc'[p] = "init" /\ \A q \in Process \ {p} : pc'[q] = pc[q]
    BY <2>1, LabelMoves
  <2>3. Old \subseteq main'.rows /\ ~main'.required
    BY <1>t, <1>i, <2>1 DEF OldTogether, NoTable, Current
  <2>4. OldTogether'
    BY <1>o, <1>i, <2>1, <2>2, <2>3 DEF OldTogether, DropsAlone
  <2>5. DropsAlone'
    BY <1>i, <2>2 DEF DropsAlone
  <2>6. ReplacedAlone'
    BY <2>2, <2>3 DEF ReplacedAlone, TwoProcesses
  <2>7. RecreatedAlone'
    BY <1>o, <2>3 DEF RecreatedAlone
  <2> QED
    BY <2>4, <2>5, <2>6, <2>7 DEF RowsInv
<1> QED
  BY <1>1, <1>2, <1>3, <1>4, <1>5

\* Two processes that migrate one database, whichever of them is killed where
\* and however often, never drop the only copy of a session of before.
THEOREM OldRowsStay ==
  ASSUME TwoProcesses
  PROVE  Spec => []OldRowsKept
<1>1. Init => RowsInv
  <2> SUFFICES ASSUME Init, Old # {}
               PROVE  OldTogether /\ DropsAlone /\ ReplacedAlone /\ RecreatedAlone
    BY DEF RowsInv
  <2>1. committed = main.rows /\ \A p \in Process : pc[p] = "init"
    BY DEF Init
  <2> QED
    BY <2>1 DEF OldTogether, DropsAlone, ReplacedAlone, RecreatedAlone, Old
<1>2. MigrationInv /\ RowsInv /\ [Next]_vars => RowsInv'
  <2> SUFFICES ASSUME MigrationInv, RowsInv, [Next]_vars PROVE RowsInv'
    OBVIOUS
  <2>1. CASE Next
    <3>1. PICK p \in Process : Migrate(p) \/ Restart(p) \/ InsertSession(p) \/ Crash(p)
      BY <2>1 DEF Next
    <3> QED
      BY <3>1, OutsideSteps, RebuildKeepsRows DEF Migrate
  <2>2. CASE UNCHANGED vars
    BY <2>2 DEF vars, RowsInv, OldTogether, DropsAlone, ReplacedAlone, RecreatedAlone, Old
  <2> QED
    BY <2>1, <2>2
<1>3. RowsInv => OldRowsKept
  BY DEF RowsInv, OldTogether, OldRowsKept, Old
<1> QED
  BY <1>1, <1>2, <1>3, MigrationHolds, PTL DEF Spec

-----------------------------------------------------------------------------
(* A process that migrates alone loses nothing.                            *)

OneProcess == \E p \in Process : Process = {p}

\* What a statement of a lone process that was never killed finds: the rows are
\* in the table, or in the spare one between the DROP and the RENAME; a spare
\* table is there for the rebuild alone, and the copy starts from an empty one.
Undisturbed(label, next) ==
  /\ label # "failed"
  /\ label = "rename" => ~main.exists /\ spare.exists /\ committed \subseteq spare.rows
  /\ label # "rename" => committed \subseteq main.rows
  /\ label \notin {"init", "rename"} => main.exists
  /\ label = "copy" => spare.exists /\ spare.rows = {}
  /\ label = "drop" => spare.exists /\ main.rows \subseteq spare.rows
  /\ label \notin {"copy", "drop", "rename"} => spare = NoTable
  /\ label = "alter" => next \notin main.columns

LoneInv == crashes = 0 => \A p \in Process : Undisturbed(pc[p], adding[p])

\* It is enough to look at the process that moves.
LEMMA LoneMoves ==
  ASSUME OneProcess, MigrationInv, NEW p \in Process, NEW label, NEW next,
         GoTo(p, label), adding' = [adding EXCEPT ![p] = next],
         Undisturbed(label, next)'
  PROVE  LoneInv'
<1>1. pc'[p] = label /\ adding'[p] = next
  BY DEF MigrationInv, TypeOK, GoTo
<1> QED
  BY <1>1 DEF OneProcess, LoneInv, Undisturbed

LEMMA LoneSteps ==
  ASSUME OneProcess, MigrationInv, NEW p \in Process, crashes = 0,
         Undisturbed(pc[p], adding[p]),
         Migrate(p) \/ InsertSession(p) \/ Restart(p)
  PROVE  LoneInv'
<1>t. /\ main \in Table /\ (~main.exists => main = NoTable) /\ pc \in [Process -> Label]
      /\ spare \in Table /\ (~spare.exists => spare = NoTable)
      /\ adding = [adding EXCEPT ![p] = adding[p]]
  BY DEF MigrationInv, TypeOK
<1>n. NoTable.rows = {} /\ ~NoTable.exists
  BY DEF NoTable
<1>1. CASE InitTables(p)
  <2>1. /\ GoTo(p, "indexes") /\ adding' = [adding EXCEPT ![p] = adding[p]]
        /\ UNCHANGED <<spare, committed>> /\ main'.exists /\ main'.rows = main.rows
    BY <1>1, <1>t, <1>n DEF InitTables, Created, History
  <2> QED
    BY <1>1, <2>1, LoneMoves DEF InitTables, Undisturbed
<1>2. CASE InitIndexes(p)
  <2>1. PICK label \in {"columns", "check"} : GoTo(p, label)
    BY <1>2 DEF InitIndexes, Undisturbed
  <2>2. /\ adding' = [adding EXCEPT ![p] = adding[p]]
        /\ UNCHANGED <<main, spare, committed>> /\ pc[p] = "indexes"
    BY <1>2, <1>t DEF InitIndexes, Undisturbed, History
  <2>3. Undisturbed(label, adding[p])'
    BY <2>2 DEF Undisturbed
  <2> QED
    BY <2>1, <2>2, <2>3, LoneMoves
<1>3. CASE CheckRequired(p)
  <2>1. PICK label \in {"create", "columns"} : GoTo(p, label)
    BY <1>3 DEF CheckRequired
  <2>2. /\ adding' = [adding EXCEPT ![p] = adding[p]]
        /\ UNCHANGED <<main, spare, committed>> /\ pc[p] = "check"
    BY <1>3, <1>t DEF CheckRequired, History
  <2>3. Undisturbed(label, adding[p])'
    BY <2>2 DEF Undisturbed
  <2> QED
    BY <2>1, <2>2, <2>3, LoneMoves
<1>4. CASE CreateSpare(p)
  <2>1. /\ GoTo(p, "copy") /\ adding' = [adding EXCEPT ![p] = adding[p]]
        /\ UNCHANGED <<main, committed>> /\ spare'.exists /\ spare'.rows = {}
    BY <1>4, <1>t, <1>n DEF CreateSpare, Created, History, Undisturbed
  <2> QED
    BY <1>4, <2>1, LoneMoves DEF CreateSpare, Undisturbed
<1>5. CASE CopyRows(p)
  <2>1. CopyAccepted
    BY <1>5 DEF CopyRows, CopyAccepted, Undisturbed
  <2>2. /\ GoTo(p, "drop") /\ adding' = [adding EXCEPT ![p] = adding[p]]
        /\ UNCHANGED <<main, committed>> /\ spare'.exists /\ main.rows \subseteq spare'.rows
    BY <1>5, <1>t, <2>1 DEF CopyRows, CopyAccepted, Table, History
  <2> QED
    BY <1>5, <2>2, LoneMoves DEF CopyRows, Undisturbed
<1>6. CASE DropMain(p)
  <2>1. /\ GoTo(p, "rename") /\ adding' = [adding EXCEPT ![p] = adding[p]]
        /\ UNCHANGED <<spare, committed>> /\ main' = NoTable
    BY <1>6, <1>t DEF DropMain, History, Undisturbed
  <2> QED
    BY <1>6, <1>n, <2>1, LoneMoves DEF DropMain, Undisturbed
<1>7. CASE RenameSpare(p)
  <2>1. /\ GoTo(p, "init") /\ adding' = [adding EXCEPT ![p] = adding[p]]
        /\ UNCHANGED committed /\ main' = spare /\ spare' = NoTable
    BY <1>7, <1>t DEF RenameSpare, History, Undisturbed
  <2> QED
    BY <1>7, <2>1, LoneMoves DEF RenameSpare, Undisturbed
<1>8. CASE CheckColumn(p)
  <2>1. PICK label \in {"finish", "columns", "alter"}, next \in Column \cup {adding[p]} :
          /\ GoTo(p, label) /\ adding' = [adding EXCEPT ![p] = next]
          /\ label = "alter" => next \notin main.columns
    BY <1>8, <1>t DEF CheckColumn, GoTo, MigrationInv, TypeOK
  <2>2. UNCHANGED <<main, spare, committed>> /\ pc[p] = "columns"
    BY <1>8 DEF CheckColumn, History
  <2>3. Undisturbed(label, next)'
    BY <2>1, <2>2 DEF Undisturbed
  <2> QED
    BY <2>1, <2>3, LoneMoves
<1>9. CASE AddColumn(p)
  <2>1. /\ GoTo(p, "columns") /\ adding' = [adding EXCEPT ![p] = adding[p]]
        /\ UNCHANGED <<spare, committed>> /\ main'.exists /\ main'.rows = main.rows
    BY <1>9, <1>t DEF AddColumn, Table, History, Undisturbed
  <2> QED
    BY <1>9, <2>1, LoneMoves DEF AddColumn, Undisturbed
<1>10. CASE Finish(p)
  <2>1. /\ GoTo(p, "done") /\ adding' = [adding EXCEPT ![p] = adding[p]]
        /\ UNCHANGED <<main, spare, committed>>
    BY <1>10, <1>t DEF Finish, History, Undisturbed
  <2> QED
    BY <1>10, <2>1, LoneMoves DEF Finish, Undisturbed
<1>11. CASE InsertSession(p)
  <2>1. PICK row \in NewRow : /\ main' = [main EXCEPT !.rows = main.rows \cup {row}]
                              /\ committed' = committed \cup {row}
    BY <1>11 DEF InsertSession
  <2>2. main'.exists /\ committed' \subseteq main'.rows /\ UNCHANGED spare
    BY <1>11, <1>t, <2>1 DEF InsertSession, Table, Undisturbed
  <2>3. GoTo(p, "done") /\ adding' = [adding EXCEPT ![p] = adding[p]]
    BY <1>11, <1>t DEF InsertSession, GoTo
  <2> QED
    BY <1>11, <2>2, <2>3, LoneMoves DEF InsertSession, Undisturbed
<1>12. ~Restart(p)
  BY DEF Restart, Undisturbed
<1> QED
  BY <1>1, <1>2, <1>3, <1>4, <1>5, <1>6, <1>7, <1>8, <1>9, <1>10, <1>11, <1>12 DEF Migrate

\* README.md's "SQLite persistence" is true of a process that migrates alone and
\* is not killed on the way: no statement of its migration fails, and once it is
\* up every session ever committed is in the table.
THEOREM LoneUpgradePersists ==
  ASSUME OneProcess
  PROVE  Spec => [](crashes = 0 => SessionsPersist /\ \A p \in Process : pc[p] # "failed")
<1>1. Init => LoneInv
  BY DEF Init, LoneInv, Undisturbed
<1>2. MigrationInv /\ LoneInv /\ [Next]_vars => LoneInv'
  <2> SUFFICES ASSUME MigrationInv, LoneInv, [Next]_vars, crashes' = 0 PROVE LoneInv'
    BY DEF LoneInv
  <2>1. CASE Next
    <3>1. PICK p \in Process : Migrate(p) \/ Restart(p) \/ InsertSession(p) \/ Crash(p)
      BY <2>1 DEF Next
    <3>2. ~Crash(p)
      BY DEF Crash, MigrationInv, TypeOK
    <3>3. crashes = 0
      BY <3>1, <3>2 DEF Migrate, InitTables, InitIndexes, CheckRequired, CreateSpare,
         CopyRows, DropMain, RenameSpare, CheckColumn, AddColumn, Finish, Restart,
         InsertSession, History
    <3>4. Undisturbed(pc[p], adding[p])
      BY <3>3 DEF LoneInv
    <3> QED
      BY <3>1, <3>2, <3>3, <3>4, LoneSteps
  <2>2. CASE UNCHANGED vars
    BY <2>2 DEF vars, LoneInv, Undisturbed
  <2> QED
    BY <2>1, <2>2
<1>3. LoneInv => (crashes = 0 => SessionsPersist /\ \A p \in Process : pc[p] # "failed")
  BY DEF OneProcess, LoneInv, Undisturbed, SessionsPersist
<1> QED
  BY <1>1, <1>2, <1>3, MigrationHolds, PTL DEF Spec
=============================================================================
