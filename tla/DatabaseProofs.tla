--------------------------- MODULE DatabaseProofs ---------------------------
(***************************************************************************)
(* Theorems about Database, for every set of rows and every number of      *)
(* commands, crashes and writes: types, what the head revision stands for, *)
(* that no row is destroyed, and what an import adds and reports.          *)
(***************************************************************************)
EXTENDS Database, FiniteSetTheorems, TLAPS

LEMMA TablesAre ==
  /\ Len(EXPORT_ORDER) = 4
  /\ Tables = {"workspaces", "staffs", "topics", "event_actions"}
  /\ \A i \in 1 .. 4 : EXPORT_ORDER[i] \in Tables
<1>1. /\ Len(EXPORT_ORDER) = 4
      /\ EXPORT_ORDER[1] = "workspaces" /\ EXPORT_ORDER[2] = "staffs"
      /\ EXPORT_ORDER[3] = "topics" /\ EXPORT_ORDER[4] = "event_actions"
  BY DEF EXPORT_ORDER
<1>2. \A i \in 1 .. 4 : i = 1 \/ i = 2 \/ i = 3 \/ i = 4
  OBVIOUS
<1>3. Tables = {"workspaces", "staffs", "topics", "event_actions"}
  BY <1>1, <1>2 DEF Tables
<1> QED BY <1>1, <1>2, <1>3

LEMMA LatestForms ==
  /\ Latest \in [Tables -> 1 .. 3]
  /\ Latest["workspaces"] = 3 /\ Latest["staffs"] = 2
  /\ Latest["topics"] = 1 /\ Latest["event_actions"] = 3
  BY TablesAre DEF Latest

LEMMA RebuildsAre ==
  /\ Len(Rebuilds) = 4
  /\ \A i \in 1 .. 4 : Rebuilds[i].table \in Tables /\ Rebuilds[i].to \in 2 .. 3
<1>1. /\ Len(Rebuilds) = 4
      /\ Rebuilds[1] = [table |-> "workspaces", to |-> 2]
      /\ Rebuilds[2] = [table |-> "event_actions", to |-> 2]
      /\ Rebuilds[3] = [table |-> "event_actions", to |-> 3]
      /\ Rebuilds[4] = [table |-> "staffs", to |-> 2]
  BY DEF Rebuilds
<1>2. \A i \in 1 .. 4 : i = 1 \/ i = 2 \/ i = 3 \/ i = 4
  OBVIOUS
<1> QED BY <1>1, <1>2, TablesAre

-----------------------------------------------------------------------------
(* Types *)

Table == [form : Form, rows : SUBSET Ids]

SchemaPcs == {"classify", "create", "createRest", "schema", "copyTo", "copy", "drop",
              "rename", "stamp"}
ImportPcs == {"verify", "probe", "load", "count"}

\* Where a process may be, and how far it is, by its command.
OpInv ==
  /\ op.pc \in SchemaPcs => op.cmd \in {"start", "migrate", "import", "both"}
  /\ op.pc \in ImportPcs => op.cmd \in {"import", "both"}
  /\ op.pc \in SchemaPcs \cup ImportPcs /\ op.cmd \in {"import", "both"} => op.on = "new"
  /\ op.pc \in {"select", "write", "copy", "drop", "rename", "count"} => op.stage \in 1 .. 4
  /\ \/ op.pc \in {"write", "manifest", "manifested"}
     \/ op.pc = "select" /\ op.stage # 1
     => db["file"].rev = "head"
  /\ op.pc \in SchemaPcs \ {"classify"} => db[op.on].rev \in {"none", "blank"}
  /\ op.pc \in SchemaPcs \ {"classify", "create"} => Sqlite(op.on)

TypeInv == TypeOK /\ OpInv

LEMMA EmptyTypes ==
  /\ Absent \in Table
  /\ Empty \in Database
  /\ Nobody \in Process
  BY DEF Absent, Table, Form, Empty, Database, Nobody, Process, Names, Pcs, Rows, EXPORT_ORDER

LEMMA InitTyped ==
  ASSUME Init
  PROVE  TypeInv
<1> DEFINE none == [t \in Tables |-> Absent]
<1>0. none \in [Tables -> Table] /\ Empty = [rev |-> "none", table |-> none, side |-> none]
  BY EmptyTypes DEF Empty
<1>1. \A rev \in {"none", "head"}, tables \in [Tables -> Table] :
        /\ [Empty EXCEPT !.table = tables] \in Database
        /\ [Empty EXCEPT !.rev = rev, !.table = tables] \in Database
  BY <1>0 DEF Database, Table
<1>2. Legacy \subseteq Database
  <2>1. \A x \in { [Latest EXCEPT !.workspaces = 1, !.staffs = 0, !.event_actions = 0],
                   [Latest EXCEPT !.workspaces = 1, !.staffs = 1, !.event_actions = 1],
                   [Latest EXCEPT !.workspaces = 2, !.staffs = 1, !.event_actions = 1],
                   [Latest EXCEPT !.staffs = 1, !.event_actions = 2],
                   [Latest EXCEPT !.staffs = 1],
                   Latest } : x \in [Tables -> Form]
    <3>1. Latest \in [Tables -> Form] /\ 0 \in Form /\ 1 \in Form /\ 2 \in Form
      BY LatestForms DEF Form
    <3> QED BY <3>1
  <2>2. \A f \in [Tables -> Form] :
          [t \in Tables |-> [form |-> f[t], rows |-> IF f[t] = 0 THEN {} ELSE {1}]]
            \in [Tables -> Table]
    BY IdsAssumption DEF Table
  <2> DEFINE rowed(f) == [t \in Tables |-> [form |-> f[t], rows |-> IF f[t] = 0 THEN {} ELSE {1}]]
  <2>3. \A x \in Legacy : \E f \in [Tables -> Form] : x = [Empty EXCEPT !.table = rowed(f)]
    BY <2>1 DEF Legacy
  <2>4. \A f \in [Tables -> Form] : [Empty EXCEPT !.table = rowed(f)] \in Database
    <3> TAKE f \in [Tables -> Form]
    <3>1. rowed(f) \in [Tables -> Table]
      BY <2>2
    <3> HIDE DEF rowed
    <3> QED BY Zenon, <1>1, <3>1
  <2> HIDE DEF rowed
  <2> QED BY <2>3, <2>4
<1>3. \A s \in SUBSET Ids : AtHead(s) \in Database
  <2> TAKE s \in SUBSET Ids
  <2>1. [t \in Tables |-> [form |-> Latest[t], rows |-> s]] \in [Tables -> Table]
    BY LatestForms DEF Table, Form
  <2> QED BY Zenon, <1>1, <2>1 DEF AtHead
<1>4. [AtHead({1}) EXCEPT !.rev = "newer"] \in Database
  BY <1>3, IdsAssumption DEF Database
<1>5. db \in [Names -> Database] /\ dialect \in {"sqlite", "postgresql"}
  <2>1. PICK begin \in AnyInstallation :
          db = [file |-> begin.file, new |-> begin.new] /\ dialect = begin.dialect
    BY InstallationsAssumption DEF Init
  <2>2. begin.file \in Database /\ begin.new \in Database
    BY <1>2, <1>3, <1>4, EmptyTypes, IdsAssumption DEF AnyInstallation
  <2> QED BY <2>1, <2>2 DEF AnyInstallation, Names
<1>6. dir \in Directory
  BY DEF Init, NoDir, Directory, Rows
<1>7. used \in [commands : 0..MaxCommands, crashes : 0..MaxCrashes, writes : 0..MaxWrites]
  BY BoundsAssumption DEF Init
<1>8. OpInv
  BY DEF Init, OpInv, Nobody, SchemaPcs, ImportPcs
<1> QED BY <1>5, <1>6, <1>7, <1>8, EmptyTypes DEF Init, TypeInv, TypeOK

\* What a step does to database d, given as its new revision and tables.
Becomes(d, rev, table, side) ==
  /\ db' \in [Names -> Database]
  /\ \A e \in Names \ {d} : db'[e] = db[e]
  /\ db'[d].rev = rev
  /\ \A t \in Tables : db'[d].table[t] = table[t] /\ db'[d].side[t] = side[t]

LEMMA DatabaseTypes ==
  ASSUME TypeOK, NEW d \in Names
  PROVE  /\ db[d] \in Database
         /\ db[d] = [rev |-> db[d].rev, table |-> db[d].table, side |-> db[d].side]
         /\ db[d].rev \in {"none", "blank", "head", "newer"}
         /\ db[d].table \in [Tables -> Table] /\ db[d].side \in [Tables -> Table]
  BY DEF TypeOK, Database, Table

LEMMA Changes ==
  ASSUME TypeOK, NEW d \in Names,
         NEW rev \in {"none", "blank", "head", "newer"},
         NEW table \in [Tables -> Table], NEW side \in [Tables -> Table],
         db' = [db EXCEPT ![d] = [rev |-> rev, table |-> table, side |-> side]]
  PROVE  Becomes(d, rev, table, side)
<1>1. [rev |-> rev, table |-> table, side |-> side] \in Database
  BY DEF Database, Table
<1> QED BY <1>1 DEF TypeOK, Becomes

LEMMA Records ==
  ASSUME NEW x \in Database, NEW rev, NEW table, NEW side
  PROVE  /\ [x EXCEPT !.rev = rev] = [rev |-> rev, table |-> x.table, side |-> x.side]
         /\ [x EXCEPT !.table = table] = [rev |-> x.rev, table |-> table, side |-> x.side]
         /\ [x EXCEPT !.side = side] = [rev |-> x.rev, table |-> x.table, side |-> side]
  BY DEF Database

LEMMA RevAndTable ==
  ASSUME NEW x \in Database, NEW rev, NEW table
  PROVE  [x EXCEPT !.rev = rev, !.table = table]
           = [rev |-> rev, table |-> table, side |-> x.side]
<1>1. PICK y : y = [x EXCEPT !.rev = rev]
  OBVIOUS
<1>2. y = [rev |-> rev, table |-> x.table, side |-> x.side]
  BY <1>1, Records
<1>3. [x EXCEPT !.rev = rev, !.table = table] = [y EXCEPT !.table = table]
  BY <1>1 DEF Database
<1>4. [y EXCEPT !.table = table] = [rev |-> rev, table |-> table, side |-> x.side]
  BY <1>2
<1> QED BY <1>3, <1>4, Zenon

LEMMA TableAndSide ==
  ASSUME NEW x \in Database, NEW table, NEW side
  PROVE  [x EXCEPT !.table = table, !.side = side]
           = [rev |-> x.rev, table |-> table, side |-> side]
<1>1. PICK y : y = [x EXCEPT !.table = table]
  OBVIOUS
<1>2. y = [rev |-> x.rev, table |-> table, side |-> x.side]
  BY <1>1, Records
<1>3. [x EXCEPT !.table = table, !.side = side] = [y EXCEPT !.side = side]
  BY <1>1 DEF Database
<1>4. [y EXCEPT !.side = side] = [rev |-> x.rev, table |-> table, side |-> side]
  BY <1>2
<1> QED BY <1>3, <1>4, Zenon

LEMMA StampChanges ==
  ASSUME TypeOK, NEW d \in Names, NEW rev \in {"blank", "head"},
         db' = [db EXCEPT ![d].rev = rev]
  PROVE  Becomes(d, rev, db[d].table, db[d].side)
<1>1. db' = [db EXCEPT ![d] = [db[d] EXCEPT !.rev = rev]]
  OBVIOUS
<1>2. db' = [db EXCEPT ![d] = [rev |-> rev, table |-> db[d].table, side |-> db[d].side]]
  <2>1. db[d] \in Database
    BY DatabaseTypes
  <2>2. [db[d] EXCEPT !.rev = rev] = [rev |-> rev, table |-> db[d].table, side |-> db[d].side]
    BY <2>1, Records
  <2> QED BY <1>1, <2>2
<1>3. db[d].table \in [Tables -> Table] /\ db[d].side \in [Tables -> Table]
  BY DatabaseTypes
<1>4. rev \in {"none", "blank", "head", "newer"}
  OBVIOUS
<1> QED BY <1>2, <1>3, <1>4, Changes

LEMMA TableChanges ==
  ASSUME TypeOK, NEW d \in Names, NEW table \in [Tables -> Table],
         db' = [db EXCEPT ![d].table = table]
  PROVE  Becomes(d, db[d].rev, table, db[d].side)
<1>1. db' = [db EXCEPT ![d] = [db[d] EXCEPT !.table = table]]
  OBVIOUS
<1>2. db' = [db EXCEPT ![d] = [rev |-> db[d].rev, table |-> table, side |-> db[d].side]]
  <2>1. db[d] \in Database
    BY DatabaseTypes
  <2>2. [db[d] EXCEPT !.table = table] = [rev |-> db[d].rev, table |-> table, side |-> db[d].side]
    BY <2>1, Records
  <2> QED BY <1>1, <2>2
<1>3. db[d].rev \in {"none", "blank", "head", "newer"} /\ db[d].side \in [Tables -> Table]
  BY DatabaseTypes
<1> QED BY <1>2, <1>3, Changes

LEMMA SideChanges ==
  ASSUME TypeOK, NEW d \in Names, NEW side \in [Tables -> Table],
         db' = [db EXCEPT ![d].side = side]
  PROVE  Becomes(d, db[d].rev, db[d].table, side)
<1>1. db' = [db EXCEPT ![d] = [db[d] EXCEPT !.side = side]]
  OBVIOUS
<1>2. db' = [db EXCEPT ![d] = [rev |-> db[d].rev, table |-> db[d].table, side |-> side]]
  <2>1. db[d] \in Database
    BY DatabaseTypes
  <2>2. [db[d] EXCEPT !.side = side] = [rev |-> db[d].rev, table |-> db[d].table, side |-> side]
    BY <2>1, Records
  <2> QED BY <1>1, <2>2
<1>3. db[d].rev \in {"none", "blank", "head", "newer"} /\ db[d].table \in [Tables -> Table]
  BY DatabaseTypes
<1> QED BY <1>2, <1>3, Changes

\* The tables of d once those called `names` are made.
MadeTables(d, names) ==
  [t \in Tables |-> IF t \in names THEN [form |-> Latest[t], rows |-> {}] ELSE db[d].table[t]]

LEMMA MadeTypes ==
  ASSUME TypeOK, NEW d \in Names, NEW names \in SUBSET Tables
  PROVE  MadeTables(d, names) \in [Tables -> Table]
<1>1. \A t \in Tables : db[d].table[t] \in Table /\ Latest[t] \in Form
  <2>1. db[d].table \in [Tables -> Table]
    BY DatabaseTypes
  <2>2. \A t \in Tables : Latest[t] \in Form
    BY LatestForms DEF Form
  <2> QED BY <2>1, <2>2
<1> QED BY <1>1 DEF MadeTables, Table

LEMMA MadeChanges ==
  ASSUME TypeOK, NEW d \in Names, NEW names \in SUBSET Tables, db' = Made(d, names)
  PROVE  Becomes(d, "blank", MadeTables(d, names), db[d].side)
<1>1. db' = [db EXCEPT ![d] = [db[d] EXCEPT !.rev = "blank", !.table = MadeTables(d, names)]]
  BY DatabaseTypes DEF Made, MadeTables, TypeOK
<1>2. db[d] \in Database /\ db[d].side \in [Tables -> Table]
  BY DatabaseTypes
<1>3. db' = [db EXCEPT ![d] = [rev |-> "blank", table |-> MadeTables(d, names),
                               side |-> db[d].side]]
  <2>1. [db[d] EXCEPT !.rev = "blank", !.table = MadeTables(d, names)]
          = [rev |-> "blank", table |-> MadeTables(d, names), side |-> db[d].side]
    BY Zenon, <1>2, RevAndTable
  <2> QED BY <1>1, <2>1
<1> QED BY <1>2, <1>3, MadeTypes, Changes

\* On Postgres the tables and the revision come in one transaction.
LEMMA MadeAtOnce ==
  ASSUME TypeOK, NEW d \in Names, db' = [Made(d, Tables) EXCEPT ![d].rev = "head"]
  PROVE  Becomes(d, "head", MadeTables(d, Tables), db[d].side)
<1>1. Made(d, Tables) = [db EXCEPT ![d] = [db[d] EXCEPT !.rev = "blank",
                                                        !.table = MadeTables(d, Tables)]]
  BY Zenon, DatabaseTypes DEF Made, MadeTables, TypeOK
<1>2. db[d] \in Database /\ db[d].side \in [Tables -> Table] /\ db \in [Names -> Database]
  BY DatabaseTypes DEF TypeOK
<1> DEFINE new == [rev |-> "blank", table |-> MadeTables(d, Tables), side |-> db[d].side]
<1>3. new \in Database
  <2>1. MadeTables(d, Tables) \in [Tables -> Table]
    BY MadeTypes
  <2> QED BY <1>2, <2>1 DEF Database, Table
<1>4. Made(d, Tables) = [db EXCEPT ![d] = new]
  <2>1. [db[d] EXCEPT !.rev = "blank", !.table = MadeTables(d, Tables)] = new
    BY Zenon, <1>2, RevAndTable
  <2> QED BY <1>1, <2>1
<1>5. db' = [db EXCEPT ![d] = [new EXCEPT !.rev = "head"]]
  <2> HIDE DEF new
  <2> QED BY <1>2, <1>3, <1>4
<1>6. [new EXCEPT !.rev = "head"]
        = [rev |-> "head", table |-> MadeTables(d, Tables), side |-> db[d].side]
  OBVIOUS
<1> QED BY <1>2, <1>5, <1>6, MadeTypes, Changes

-----------------------------------------------------------------------------
(* The steps that change a database *)

LEMMA WriteChanges ==
  ASSUME TypeOK, NEW t \in Tables, NEW i \in Ids, Write(t, i)
  PROVE  /\ master \in Names
         /\ Becomes(master, db[master].rev,
                    [db[master].table EXCEPT ![t].rows = @ \cup {i}], db[master].side)
<1>1. master \in Names
  BY DEF Write, TypeOK
<1>2. [db[master].table EXCEPT ![t].rows = @ \cup {i}] \in [Tables -> Table]
  <2>1. db[master].table \in [Tables -> Table]
    BY <1>1, DatabaseTypes
  <2> QED BY <2>1 DEF Table
<1>3. db' = [db EXCEPT ![master].table = [db[master].table EXCEPT ![t].rows = @ \cup {i}]]
  BY DEF Write
<1> QED BY <1>1, <1>2, <1>3, TableChanges

\* The tables of d after _SCHEMA and _MIGRATIONS.
SchemaTables(d) ==
  [t \in Tables |->
     CASE db[d].table[t].form = 0 -> [form |-> Latest[t], rows |-> {}]
       [] t = "workspaces" /\ db[d].table[t].form = 2 -> [db[d].table[t] EXCEPT !.form = 3]
       [] OTHER -> db[d].table[t]]

LEMMA SchemaChanges ==
  ASSUME TypeOK, NEW d \in Names, op.on = d, Schema
  PROVE  Becomes(d, db[d].rev, SchemaTables(d), db[d].side)
<1>1. \A t \in Tables : /\ db[d].table[t] \in Table /\ Latest[t] \in Form /\ 3 \in Form
  <2>1. db[d].table \in [Tables -> Table]
    BY DatabaseTypes
  <2>2. \A t \in Tables : Latest[t] \in Form /\ 3 \in Form
    BY LatestForms DEF Form
  <2> QED BY <2>1, <2>2
<1>2. SchemaTables(d) \in [Tables -> Table]
  <2>1. ASSUME NEW r \in Table PROVE [r EXCEPT !.form = 3] \in Table
    BY DEF Table, Form
  <2>2. ASSUME NEW t \in Tables PROVE [form |-> Latest[t], rows |-> {}] \in Table
    BY <1>1 DEF Table
  <2> HIDE DEF Table
  <2> QED BY <1>1, <2>1, <2>2 DEF SchemaTables
<1>3. db' = [db EXCEPT ![d].table = SchemaTables(d)]
  BY DatabaseTypes DEF Schema, SchemaTables, TypeOK
<1> QED BY <1>2, <1>3, TableChanges

LEMMA CopyToChanges ==
  ASSUME TypeOK, NEW d \in Names, NEW t \in Tables, NEW to \in Form,
         db' = [db EXCEPT ![d].side[t].form = to]
  PROVE  Becomes(d, db[d].rev, db[d].table, [db[d].side EXCEPT ![t].form = to])
<1>0. db[d].side \in [Tables -> Table]
  BY DatabaseTypes
<1>1. [db[d].side EXCEPT ![t].form = to] \in [Tables -> Table]
  BY <1>0 DEF Table
<1>2. db' = [db EXCEPT ![d].side = [db[d].side EXCEPT ![t].form = to]]
  OBVIOUS
<1> QED BY <1>1, <1>2, SideChanges

LEMMA CopyChanges ==
  ASSUME TypeOK, NEW d \in Names, NEW t \in Tables, NEW rows \in SUBSET Ids,
         db' = [db EXCEPT ![d].side[t].rows = @ \cup rows]
  PROVE  Becomes(d, db[d].rev, db[d].table, [db[d].side EXCEPT ![t].rows = @ \cup rows])
<1>0. db[d].side \in [Tables -> Table]
  BY DatabaseTypes
<1>1. [db[d].side EXCEPT ![t].rows = @ \cup rows] \in [Tables -> Table]
  BY <1>0 DEF Table
<1>2. db' = [db EXCEPT ![d].side = [db[d].side EXCEPT ![t].rows = @ \cup rows]]
  OBVIOUS
<1> QED BY <1>1, <1>2, SideChanges

LEMMA DropChanges ==
  ASSUME TypeOK, NEW d \in Names, NEW t \in Tables,
         db' = [db EXCEPT ![d].table[t] = Absent]
  PROVE  Becomes(d, db[d].rev, [db[d].table EXCEPT ![t] = Absent], db[d].side)
<1>1. [db[d].table EXCEPT ![t] = Absent] \in [Tables -> Table]
  BY DatabaseTypes, EmptyTypes
<1>2. db' = [db EXCEPT ![d].table = [db[d].table EXCEPT ![t] = Absent]]
  OBVIOUS
<1> QED BY <1>1, <1>2, TableChanges

LEMMA RenameChanges ==
  ASSUME TypeOK, NEW d \in Names, NEW t \in Tables,
         db' = [db EXCEPT ![d].table[t] = db[d].side[t], ![d].side[t] = Absent]
  PROVE  Becomes(d, db[d].rev, [db[d].table EXCEPT ![t] = db[d].side[t]],
                 [db[d].side EXCEPT ![t] = Absent])
<1>1. /\ [db[d].table EXCEPT ![t] = db[d].side[t]] \in [Tables -> Table]
      /\ [db[d].side EXCEPT ![t] = Absent] \in [Tables -> Table]
  BY DatabaseTypes, EmptyTypes
<1>2. db[d] \in Database /\ db \in [Names -> Database]
  BY DatabaseTypes DEF TypeOK
<1>3. db' = [db EXCEPT ![d] = [db[d] EXCEPT !.table = [db[d].table EXCEPT ![t] = db[d].side[t]],
                                            !.side = [db[d].side EXCEPT ![t] = Absent]]]
  BY <1>2 DEF Database
<1>4. db' = [db EXCEPT ![d] = [rev |-> db[d].rev,
                               table |-> [db[d].table EXCEPT ![t] = db[d].side[t]],
                               side |-> [db[d].side EXCEPT ![t] = Absent]]]
  <2>1. [db[d] EXCEPT !.table = [db[d].table EXCEPT ![t] = db[d].side[t]],
                      !.side = [db[d].side EXCEPT ![t] = Absent]]
          = [rev |-> db[d].rev, table |-> [db[d].table EXCEPT ![t] = db[d].side[t]],
             side |-> [db[d].side EXCEPT ![t] = Absent]]
    BY Zenon, <1>2, TableAndSide
  <2> QED BY <1>3, <2>1
<1> QED BY <1>1, <1>4, DatabaseTypes, Changes

-----------------------------------------------------------------------------
(* Every step is typed *)

LEMMA AtHeadTypes ==
  ASSUME TypeInv, op.pc \in {"classify", "stamp"}
  PROVE  /\ AtHeadNow.to \in {Nobody, [op EXCEPT !.pc = "probe"]}
         /\ AtHeadNow.up \in {op.on, master}
         /\ AtHeadNow.up = op.on \/ AtHeadNow.up = master
         /\ AtHeadNow.to # Nobody => op.cmd \in {"import", "both"} /\ op.on = "new"
  BY DEF TypeInv, OpInv, SchemaPcs, AtHeadNow

\* What the schema steps leave alone.
LEMMA SchemaStepTyped ==
  ASSUME TypeInv, Classify \/ Create \/ CreateRest \/ Stamp \/ Schema \/ CopyTo \/ Copy
                  \/ Drop \/ Rename,
         db' \in [Names -> Database], op' \in Process
  PROVE  TypeOK'
<1>1. UNCHANGED <<dialect, wanted, exit, used, dir, exports, unsound>>
  BY Zenon DEF Classify, Create, CreateRest, Stamp, Schema, CopyTo, Copy, Drop, Rename, Goes
<1>2. master' \in Names \cup {"down"}
  <2>1. CASE Classify \/ Stamp
    <3>1. master' = AtHeadNow.up \/ UNCHANGED master
      BY <2>1 DEF Classify, Stamp, Goes
    <3>2. op.pc \in {"classify", "stamp"} /\ op.on \in Names
      BY <2>1 DEF Classify, Stamp, Step, TypeInv, TypeOK, Process
    <3> QED BY <3>1, <3>2, AtHeadTypes DEF TypeInv, TypeOK
  <2>2. CASE UNCHANGED master
    BY <2>2 DEF TypeInv, TypeOK
  <2> QED BY Zenon, <2>1, <2>2 DEF Create, CreateRest, Schema, CopyTo, Copy, Drop, Rename
<1> QED BY <1>1, <1>2 DEF TypeInv, TypeOK

LEMMA ClassifyTyped ==
  ASSUME TypeInv, Classify
  PROVE  TypeInv'
<1>1. /\ op.pc = "classify" /\ UNCHANGED db /\ UNCHANGED dialect
      /\ op.on \in Names /\ op \in Process
  BY DEF Classify, Step, Goes, TypeInv, TypeOK, Process
<1>2. CASE op' = Nobody
  <2>1. OpInv'
    BY <1>2 DEF OpInv, Nobody, SchemaPcs, ImportPcs
  <2> QED BY <1>1, <1>2, <2>1, EmptyTypes, SchemaStepTyped DEF TypeInv, TypeOK
<1>3. CASE op' = [op EXCEPT !.pc = "probe"] /\ op.cmd \in {"import", "both"} /\ op.on = "new"
  <2>1. op' \in Process /\ op'.pc = "probe" /\ op'.cmd = op.cmd /\ op'.on = op.on
    BY <1>1, <1>3 DEF Process, Pcs
  <2>2. OpInv'
    BY <1>3, <2>1 DEF OpInv, SchemaPcs, ImportPcs
  <2> QED BY <1>1, <2>1, <2>2, SchemaStepTyped DEF TypeInv, TypeOK
<1>4. CASE /\ op' = [op EXCEPT !.pc = "schema"] \/ op' = [op EXCEPT !.pc = "create"]
           /\ op'.pc = "schema" => Sqlite(op.on)
           /\ db[op.on].rev \in {"none", "blank"}
  <2>1. /\ op' \in Process /\ op'.pc \in {"schema", "create"}
        /\ op'.cmd = op.cmd /\ op'.on = op.on
    BY <1>1, <1>4 DEF Process, Pcs
  <2>2. OpInv'
    BY <1>1, <1>4, <2>1 DEF TypeInv, OpInv, SchemaPcs, ImportPcs, Sqlite
  <2> QED BY <1>1, <2>1, <2>2, SchemaStepTyped DEF TypeInv, TypeOK
<1>5. db[op.on].rev \in {"none", "blank", "head", "newer"}
  BY <1>1, DatabaseTypes DEF TypeInv
<1>6. CASE db[op.on].rev \in {"head", "newer"}
  <2>1. op' = Nobody \/ op' = AtHeadNow.to
    BY <1>6 DEF Classify, Unstamped, Goes
  <2> QED BY <1>1, <1>2, <1>3, <2>1, AtHeadTypes
<1>7. CASE db[op.on].rev \in {"none", "blank"}
  <2>1. \/ op' = Nobody
        \/ op' = [op EXCEPT !.pc = "schema"] /\ Sqlite(op.on)
        \/ op' = [op EXCEPT !.pc = "create"]
    BY <1>7 DEF Classify, Goes
  <2>2. [op EXCEPT !.pc = "create"].pc = "create"
    BY <1>1 DEF Process
  <2> QED BY <1>2, <1>4, <1>7, <2>1, <2>2
<1> QED BY <1>5, <1>6, <1>7

\* A step from one schema statement to the next.
LEMMA NextStatement ==
  ASSUME TypeInv, op' \in Process, op'.cmd = op.cmd, op'.on = op.on, dialect' = dialect,
         op.pc \in SchemaPcs, op'.pc \in SchemaPcs,
         op'.pc # "classify" => db'[op.on].rev \in {"none", "blank"},
         op'.pc \notin {"classify", "create"} => Sqlite(op.on),
         op'.pc \in {"copy", "drop", "rename"} => op'.stage \in 1 .. 4
  PROVE  OpInv'
  BY DEF TypeInv, OpInv, SchemaPcs, ImportPcs, Sqlite

LEMMA PcsAre ==
  /\ "idle" \in Pcs /\ "classify" \in Pcs /\ "create" \in Pcs /\ "createRest" \in Pcs
  /\ "schema" \in Pcs /\ "copyTo" \in Pcs /\ "copy" \in Pcs /\ "drop" \in Pcs
  /\ "rename" \in Pcs /\ "stamp" \in Pcs /\ "select" \in Pcs /\ "write" \in Pcs
  /\ "manifest" \in Pcs /\ "manifested" \in Pcs /\ "verify" \in Pcs /\ "probe" \in Pcs
  /\ "load" \in Pcs /\ "count" \in Pcs
  /\ 1 \in 1 .. 5
  BY DEF Pcs

\* What a process that moves keeps.
Same ==
  /\ op' \in Process /\ op'.cmd = op.cmd /\ op'.on = op.on
  /\ op'.yes = op.yes /\ op'.found = op.found /\ op'.meta = op.meta

LEMMA Moves ==
  ASSUME TypeOK, NEW pc \in Pcs, op' = [op EXCEPT !.pc = pc]
  PROVE  Same /\ op'.pc = pc /\ op'.stage = op.stage
<1>1. op \in Process
  BY DEF TypeOK
<1>2. [op EXCEPT !.pc = pc] \in Process
  BY <1>1 DEF Process
<1>3. op'.pc = pc /\ op'.stage = op.stage /\ op'.cmd = op.cmd /\ op'.on = op.on
  BY <1>1 DEF Process
<1>4. op'.yes = op.yes /\ op'.found = op.found /\ op'.meta = op.meta
  BY <1>1 DEF Process
<1> QED BY <1>2, <1>3, <1>4 DEF Same

LEMMA Stays ==
  ASSUME TypeOK, NEW n \in 1 .. 5, op' = [op EXCEPT !.stage = n]
  PROVE  Same /\ op'.pc = op.pc /\ op'.stage = n
<1>1. op \in Process /\ n \in 1 .. (Len(EXPORT_ORDER) + 1)
  BY TablesAre DEF TypeOK
<1>2. [op EXCEPT !.stage = n] \in Process
  BY <1>1 DEF Process
<1>3. op'.pc = op.pc /\ op'.stage = n /\ op'.cmd = op.cmd /\ op'.on = op.on
  BY <1>1 DEF Process
<1>4. op'.yes = op.yes /\ op'.found = op.found /\ op'.meta = op.meta
  BY <1>1 DEF Process
<1> QED BY <1>2, <1>3, <1>4 DEF Same

LEMMA MovesOn ==
  ASSUME TypeOK, NEW pc \in Pcs, NEW n \in 1 .. 5, op' = [op EXCEPT !.pc = pc, !.stage = n]
  PROVE  Same /\ op'.pc = pc /\ op'.stage = n
<1>1. op \in Process /\ n \in 1 .. (Len(EXPORT_ORDER) + 1)
  BY TablesAre DEF TypeOK
<1>2. PICK p : p = [op EXCEPT !.pc = pc]
  OBVIOUS
<1>3. p \in Process
  BY <1>1, <1>2 DEF Process
<1>4. p.pc = pc /\ p.cmd = op.cmd /\ p.on = op.on
  BY <1>1, <1>2 DEF Process
<1>5. p.yes = op.yes /\ p.found = op.found /\ p.meta = op.meta
  BY <1>1, <1>2 DEF Process
<1>6. op' = [p EXCEPT !.stage = n]
  BY <1>1, <1>2 DEF Process
<1>7. op' \in Process
  BY <1>1, <1>3, <1>6 DEF Process
<1>8. op'.pc = p.pc /\ op'.stage = n /\ op'.cmd = p.cmd /\ op'.on = p.on
  BY <1>3, <1>6 DEF Process
<1>9. op'.yes = p.yes /\ op'.found = p.found /\ op'.meta = p.meta
  BY <1>3, <1>6 DEF Process
<1> QED BY <1>4, <1>5, <1>7, <1>8, <1>9 DEF Same

LEMMA NobodyTyped ==
  ASSUME op' = Nobody
  PROVE  OpInv' /\ op' \in Process
  BY EmptyTypes DEF OpInv, Nobody, SchemaPcs, ImportPcs

LEMMA CreateTyped ==
  ASSUME TypeInv, Create
  PROVE  TypeInv'
<1>1. op.pc = "create" /\ op.on \in Names /\ dialect' = dialect /\ TypeOK
  BY DEF Create, Step, Goes, TypeInv, TypeOK, Process
<1>2. CASE op' = Nobody /\ UNCHANGED db
  BY <1>1, <1>2, NobodyTyped, SchemaStepTyped DEF TypeInv, TypeOK
<1>3. CASE /\ ~ Sqlite(op.on)
           /\ db' = [Made(op.on, Tables) EXCEPT ![op.on].rev = "head"]
           /\ op' = [op EXCEPT !.pc = "classify"]
  <2>1. db' \in [Names -> Database]
    BY <1>1, <1>3, MadeAtOnce DEF Becomes
  <2>2. op' \in Process /\ op'.pc = "classify" /\ op'.cmd = op.cmd /\ op'.on = op.on
    BY <1>1, <1>3, PcsAre, Moves DEF Same
  <2>3. OpInv'
    BY <1>1, <2>2, NextStatement DEF SchemaPcs
  <2> QED BY <2>1, <2>2, <2>3, SchemaStepTyped DEF TypeInv
<1>4. CASE /\ Sqlite(op.on)
           /\ db' = Made(op.on, {"workspaces"})
           /\ op' = [op EXCEPT !.pc = "createRest"]
  <2>1. db' \in [Names -> Database] /\ db'[op.on].rev = "blank"
    BY <1>1, <1>4, MadeChanges, TablesAre DEF Becomes
  <2>2. op' \in Process /\ op'.pc = "createRest" /\ op'.cmd = op.cmd /\ op'.on = op.on
    BY <1>1, <1>4, PcsAre, Moves DEF Same
  <2>3. OpInv'
    BY <1>1, <1>4, <2>1, <2>2, NextStatement DEF SchemaPcs
  <2> QED BY <2>1, <2>2, <2>3, SchemaStepTyped DEF TypeInv
<1> QED BY <1>2, <1>3, <1>4 DEF Create, Goes

LEMMA CreateRestTyped ==
  ASSUME TypeInv, CreateRest
  PROVE  TypeInv'
<1>1. /\ op.pc = "createRest" /\ op.on \in Names /\ dialect' = dialect /\ TypeOK
      /\ Sqlite(op.on)
  BY DEF CreateRest, Step, Goes, TypeInv, TypeOK, OpInv, SchemaPcs, Process
<1>2. CASE op' = Nobody /\ UNCHANGED db
  BY <1>1, <1>2, NobodyTyped, SchemaStepTyped DEF TypeInv, TypeOK
<1>3. CASE /\ db' = Made(op.on, Tables \ {"workspaces"})
           /\ op' = [op EXCEPT !.pc = "stamp"]
  <2>1. db' \in [Names -> Database] /\ db'[op.on].rev = "blank"
    BY <1>1, <1>3, MadeChanges DEF Becomes
  <2>2. op' \in Process /\ op'.pc = "stamp" /\ op'.cmd = op.cmd /\ op'.on = op.on
    BY <1>1, <1>3, PcsAre, Moves DEF Same
  <2>3. OpInv'
    BY <1>1, <2>1, <2>2, NextStatement DEF SchemaPcs
  <2> QED BY <2>1, <2>2, <2>3, SchemaStepTyped DEF TypeInv
<1> QED BY <1>2, <1>3 DEF CreateRest, Goes

LEMMA StampTyped ==
  ASSUME TypeInv, Stamp
  PROVE  TypeInv'
<1>1. /\ op.pc = "stamp" /\ op.on \in Names /\ dialect' = dialect /\ TypeOK
      /\ db' = [db EXCEPT ![op.on].rev = "head"]
      /\ op' = AtHeadNow.to
  BY DEF Stamp, Step, Goes, TypeInv, TypeOK, Process
<1>2. db' \in [Names -> Database]
  BY <1>1, StampChanges DEF Becomes
<1>3. CASE op' = Nobody
  BY <1>2, <1>3, NobodyTyped, SchemaStepTyped DEF TypeInv
<1>4. CASE op' # Nobody
  <2>1. op' = [op EXCEPT !.pc = "probe"] /\ op.cmd \in {"import", "both"} /\ op.on = "new"
    BY <1>1, <1>4, AtHeadTypes
  <2>2. op' \in Process /\ op'.pc = "probe" /\ op'.cmd = op.cmd /\ op'.on = op.on
    BY <1>1, <2>1, PcsAre, Moves DEF Same
  <2>3. OpInv'
    BY <2>1, <2>2 DEF OpInv, SchemaPcs, ImportPcs
  <2> QED BY <1>2, <2>2, <2>3, SchemaStepTyped DEF TypeInv
<1> QED BY <1>3, <1>4

LEMMA SchemaTyped ==
  ASSUME TypeInv, Schema
  PROVE  TypeInv'
<1>1. /\ op.pc = "schema" /\ op.on \in Names /\ dialect' = dialect /\ TypeOK
      /\ Sqlite(op.on) /\ db[op.on].rev \in {"none", "blank"}
      /\ op' = [op EXCEPT !.pc = "copyTo", !.stage = 1]
  BY DEF Schema, Step, Goes, TypeInv, TypeOK, OpInv, SchemaPcs, Process
<1>2. db' \in [Names -> Database] /\ db'[op.on].rev = db[op.on].rev
  BY <1>1, SchemaChanges DEF Becomes
<1>3. op' \in Process /\ op'.pc = "copyTo" /\ op'.cmd = op.cmd /\ op'.on = op.on
  BY Zenon, <1>1, PcsAre, MovesOn DEF Same
<1>4. OpInv'
  BY <1>1, <1>2, <1>3, NextStatement DEF SchemaPcs
<1> QED BY <1>2, <1>3, <1>4, SchemaStepTyped DEF TypeInv

\* What a rebuild does, at one of its four stages.
LEMMA RebuildStep ==
  ASSUME TypeInv, CopyTo \/ Copy \/ Drop \/ Rename
  PROVE  /\ op.pc \in {"copyTo", "copy", "drop", "rename"}
         /\ op.on \in Names /\ dialect' = dialect /\ TypeOK /\ op.stage \in 1 .. 5
         /\ Sqlite(op.on) /\ db[op.on].rev \in {"none", "blank"}
         /\ op.pc # "copyTo" \/ op.stage <= Len(Rebuilds) => op.stage \in 1 .. 4
         /\ op.stage \in 1 .. 4 => /\ Rebuilds[op.stage].table \in Tables
                                   /\ Rebuilds[op.stage].to \in Form
                                   /\ op.stage + 1 \in 1 .. 5
<1>1. op.pc \in {"copyTo", "copy", "drop", "rename"}
  BY Zenon DEF CopyTo, Copy, Drop, Rename, Step
<1>2. op.on \in Names /\ dialect' = dialect /\ TypeOK /\ op.stage \in 1 .. 5
  <2>1. TypeOK /\ op \in Process
    BY DEF TypeInv, TypeOK
  <2>2. op.on \in Names /\ op.stage \in 1 .. 5
    BY <2>1, TablesAre DEF Process
  <2>3. dialect' = dialect
    BY Zenon DEF CopyTo, Copy, Drop, Rename, Goes
  <2> QED BY <2>1, <2>2, <2>3
<1>3. Sqlite(op.on) /\ db[op.on].rev \in {"none", "blank"}
  BY <1>1 DEF TypeInv, OpInv, SchemaPcs
<1>4. op.pc # "copyTo" \/ op.stage <= Len(Rebuilds) => op.stage \in 1 .. 4
  BY <1>1, <1>2, RebuildsAre DEF TypeInv, OpInv
<1>5. op.stage \in 1 .. 4 => /\ Rebuilds[op.stage].table \in Tables
                             /\ Rebuilds[op.stage].to \in Form
                             /\ op.stage + 1 \in 1 .. 5
  BY RebuildsAre DEF Form
<1> QED BY <1>1, <1>2, <1>3, <1>4, <1>5

\* A rebuild is over, not due, or begins.
LEMMA CopyToDoes ==
  ASSUME TypeInv, CopyTo
  PROVE  \/ op' = [op EXCEPT !.pc = "stamp", !.stage = 1] /\ UNCHANGED db
         \/ /\ op.stage \in 1 .. 4 /\ op' = [op EXCEPT !.stage = op.stage + 1]
            /\ UNCHANGED db
            /\ db[op.on].table[Rebuilds[op.stage].table].form >= Rebuilds[op.stage].to
         \/ /\ op.stage \in 1 .. 4 /\ op' = [op EXCEPT !.pc = "copy"]
            /\ ~ (db[op.on].table[Rebuilds[op.stage].table].form >= Rebuilds[op.stage].to)
            /\ \/ /\ db[op.on].side[Rebuilds[op.stage].table].form # 0
                  /\ UNCHANGED db
               \/ /\ db[op.on].side[Rebuilds[op.stage].table].form = 0
                  /\ db' = [db EXCEPT ![op.on].side[Rebuilds[op.stage].table].form
                                         = Rebuilds[op.stage].to]
<1>1. op.stage \in 1 .. 5 /\ Len(Rebuilds) = 4
  BY RebuildStep, RebuildsAre
<1>2. CASE op.stage > Len(Rebuilds)
  BY Zenon, <1>2 DEF CopyTo, Goes
<1>3. CASE ~ (op.stage > Len(Rebuilds))
  <2>1. op.stage \in 1 .. 4
    BY <1>1, <1>3
  <2>2. CASE db[op.on].table[Rebuilds[op.stage].table].form >= Rebuilds[op.stage].to
    BY Zenon, <1>3, <2>1, <2>2 DEF CopyTo, Goes
  <2>3. CASE ~ (db[op.on].table[Rebuilds[op.stage].table].form >= Rebuilds[op.stage].to)
    BY Zenon, <1>3, <2>1, <2>3 DEF CopyTo, Goes
  <2> QED BY Zenon, <2>2, <2>3
<1> QED BY Zenon, <1>2, <1>3

LEMMA RebuildGoes ==
  ASSUME TypeInv, CopyTo \/ Copy \/ Drop \/ Rename
  PROVE  \/ op' = Nobody
         \/ op' \in Process /\ op'.cmd = op.cmd /\ op'.on = op.on
              /\ op'.pc \in {"stamp", "copyTo", "copy", "drop", "rename"}
              /\ (op'.pc \in {"copy", "drop", "rename"} => op'.stage \in 1 .. 4)
<1>1. CASE CopyTo
  <2>1. \/ op' = [op EXCEPT !.pc = "stamp", !.stage = 1]
        \/ op' = [op EXCEPT !.stage = op.stage + 1] /\ op.stage \in 1 .. 4
        \/ op' = [op EXCEPT !.pc = "copy"] /\ op.stage \in 1 .. 4
    BY Zenon, <1>1, CopyToDoes
  <2>2. CASE op' = [op EXCEPT !.stage = op.stage + 1] /\ op.stage \in 1 .. 4
    <3>1. op.pc = "copyTo" /\ op.stage + 1 \in 1 .. 5
      BY Zenon, <1>1, <2>2, RebuildStep DEF CopyTo, Step
    <3> QED BY <2>2, <3>1, RebuildStep, Stays DEF Same
  <2>3. CASE op' = [op EXCEPT !.pc = "stamp", !.stage = 1]
    BY Zenon, <2>3, RebuildStep, PcsAre, MovesOn DEF Same
  <2>4. CASE op' = [op EXCEPT !.pc = "copy"] /\ op.stage \in 1 .. 4
    BY <2>4, RebuildStep, PcsAre, Moves DEF Same
  <2> QED BY <2>1, <2>2, <2>3, <2>4
<1>2. CASE Copy
  <2>1. op' = Nobody \/ op' = [op EXCEPT !.pc = "drop"]
    BY Zenon, <1>2 DEF Copy, Goes
  <2>2. op.stage \in 1 .. 4
    BY Zenon, <1>2, RebuildStep DEF Copy, Step
  <2> QED BY <2>1, <2>2, RebuildStep, PcsAre, Moves DEF Same
<1>3. CASE Drop
  <2>1. op' = [op EXCEPT !.pc = "rename"] /\ op.stage \in 1 .. 4
    BY <1>3, RebuildStep DEF Drop, Step, Goes
  <2> QED BY <2>1, RebuildStep, PcsAre, Moves DEF Same
<1>4. CASE Rename
  <2>1. op' = [op EXCEPT !.pc = "copyTo", !.stage = op.stage + 1] /\ op.stage \in 1 .. 4
    BY <1>4, RebuildStep DEF Rename, Step, Goes
  <2> QED BY Zenon, <2>1, RebuildStep, PcsAre, MovesOn DEF Same
<1> QED BY <1>1, <1>2, <1>3, <1>4

LEMMA RebuildTyped ==
  ASSUME TypeInv, CopyTo \/ Copy \/ Drop \/ Rename
  PROVE  TypeInv'
<1>1. \/ op' = Nobody
      \/ op' \in Process /\ op'.cmd = op.cmd /\ op'.on = op.on
           /\ op'.pc \in {"stamp", "copyTo", "copy", "drop", "rename"}
           /\ (op'.pc \in {"copy", "drop", "rename"} => op'.stage \in 1 .. 4)
  BY RebuildGoes
<1>2. db' \in [Names -> Database] /\ db'[op.on].rev = db[op.on].rev
  <2>1. CASE UNCHANGED db
    BY <2>1, RebuildStep DEF TypeOK
  <2>2. CASE CopyTo /\ db' # db
    <3>1. op.stage \in 1 .. 4 /\ db' = [db EXCEPT ![op.on].side[Rebuilds[op.stage].table].form
                                              = Rebuilds[op.stage].to]
      BY Zenon, <2>2, CopyToDoes
    <3> QED BY Zenon, <3>1, RebuildStep, CopyToChanges DEF Becomes
  <2>3. CASE Copy /\ db' # db
    <3>1. /\ op.stage \in 1 .. 4
          /\ db' = [db EXCEPT ![op.on].side[Rebuilds[op.stage].table].rows
                       = @ \cup db[op.on].table[Rebuilds[op.stage].table].rows]
      BY Zenon, <2>3, RebuildStep DEF Copy, Step, Goes
    <3>2. db[op.on].table[Rebuilds[op.stage].table].rows \in SUBSET Ids
      BY Zenon, <3>1, RebuildStep, DatabaseTypes DEF Table
    <3> QED BY Zenon, <3>1, <3>2, RebuildStep, CopyChanges DEF Becomes
  <2>4. CASE Drop
    <3>1. op.stage \in 1 .. 4 /\ db' = [db EXCEPT ![op.on].table[Rebuilds[op.stage].table] = Absent]
      BY <2>4, RebuildStep DEF Drop, Step
    <3> QED BY Zenon, <3>1, RebuildStep, DropChanges DEF Becomes
  <2>5. CASE Rename
    <3> DEFINE t == Rebuilds[op.stage].table
    <3>1. op.stage \in 1 .. 4 /\ db' = [db EXCEPT ![op.on].table[t] = db[op.on].side[t],
                                                  ![op.on].side[t] = Absent]
      BY <2>5, RebuildStep DEF Rename, Step
    <3> QED BY Zenon, <3>1, RebuildStep, RenameChanges DEF Becomes
  <2> QED BY <2>1, <2>2, <2>3, <2>4, <2>5
<1>3. op' \in Process /\ OpInv'
  <2>1. CASE op' = Nobody
    BY <2>1, NobodyTyped
  <2>2. CASE op' # Nobody
    BY <1>1, <1>2, <2>2, RebuildStep, NextStatement DEF SchemaPcs
  <2> QED BY <2>1, <2>2
<1> QED BY <1>2, <1>3, SchemaStepTyped DEF TypeInv

LEMMA DirectoryTypes ==
  ASSUME dir \in Directory, NEW t \in Tables, NEW s \in SUBSET Ids,
         dir' = [dir EXCEPT !.file[t] = {s}]
  PROVE  /\ dir' \in Directory /\ dir'.file = [dir.file EXCEPT ![t] = {s}]
         /\ dir'.state = dir.state /\ dir'.version = dir.version /\ dir'.rows = dir.rows
<1>1. dir.file \in [Tables -> SUBSET SUBSET Ids]
  BY DEF Directory
<1>2. [dir.file EXCEPT ![t] = {s}] \in [Tables -> SUBSET SUBSET Ids]
  BY <1>1
<1>3. dir' = [dir EXCEPT !.file = [dir.file EXCEPT ![t] = {s}]]
  OBVIOUS
<1> QED BY <1>2, <1>3 DEF Directory

\* What a step of an export, or the end of a command, leaves alone.
LEMMA ExportStepTyped ==
  ASSUME TypeInv, Select \/ WriteFile \/ OpenManifest \/ WriteManifest,
         dir' \in Directory, exports' \in SUBSET Rows, op' \in Process
  PROVE  TypeOK'
<1>1. UNCHANGED <<db, dialect, wanted, exit, used, master, unsound>>
  BY DEF Select, WriteFile, OpenManifest, WriteManifest, Goes
<1> QED BY <1>1 DEF TypeInv, TypeOK

\* OpInv of a process that exports.
LEMMA NextExport ==
  ASSUME TypeInv, UNCHANGED db,
         op'.pc \in {"select", "write", "manifest", "manifested"},
         op'.pc \in {"select", "write"} => op'.stage \in 1 .. 4,
         db["file"].rev = "head"
  PROVE  OpInv'
  BY DEF OpInv, SchemaPcs, ImportPcs

LEMMA SelectTyped ==
  ASSUME TypeInv, Select
  PROVE  TypeInv'
<1>1. op.pc = "select" /\ op.stage \in 1 .. 4 /\ TypeOK /\ UNCHANGED <<db, exports>>
  BY DEF Select, Step, TypeInv, OpInv
<1>2. CASE op' = Nobody /\ UNCHANGED dir
  <2>1. dir' \in Directory /\ exports' \in SUBSET Rows
    BY <1>1, <1>2 DEF TypeOK
  <2>2. OpInv' /\ op' \in Process
    BY <1>2, NobodyTyped
  <2> QED BY <2>1, <2>2, ExportStepTyped DEF TypeInv
<1>3. CASE ~ (op' = Nobody /\ UNCHANGED dir)
  <2> DEFINE t == EXPORT_ORDER[op.stage]
             got == db["file"].table[t].rows
  <2>1. /\ op' = [op EXCEPT !.pc = "write", !.got = got]
        /\ dir' = [dir EXCEPT !.file[t] = {{}}]
        /\ op.stage # 1 \/ db["file"].rev = "head"
    BY <1>3 DEF Select, Goes
  <2>2. db["file"].rev = "head"
    BY <1>1, <2>1 DEF TypeInv, OpInv
  <2>3. t \in Tables /\ got \in SUBSET Ids
    <3>1. db["file"].table \in [Tables -> Table]
      BY <1>1, DatabaseTypes DEF Names
    <3>2. t \in Tables
      BY <1>1, TablesAre
    <3>3. \A u \in Tables : db["file"].table[u].rows \in SUBSET Ids
      BY <3>1 DEF Table
    <3> QED BY <3>2, <3>3
  <2>4. dir' \in Directory
    <3>1. dir \in Directory /\ {} \in SUBSET Ids
      BY <1>1 DEF TypeOK
    <3> HIDE DEF t
    <3> QED BY <2>1, <2>3, <3>1, DirectoryTypes
  <2>5. op' \in Process /\ op'.pc = "write" /\ op'.stage = op.stage
    <3> HIDE DEF got, t
    <3>1. PICK p : p = [op EXCEPT !.pc = "write"]
      OBVIOUS
    <3>2. op \in Process
      BY <1>1 DEF TypeOK
    <3>3. p \in Process /\ p.pc = "write" /\ p.stage = op.stage
      BY <3>1, <3>2, PcsAre DEF Process
    <3>4. op' = [p EXCEPT !.got = got]
      BY <2>1, <3>1, <3>2 DEF Process
    <3>5. op' \in Process
      BY <2>3, <3>3, <3>4 DEF Process
    <3>6. op'.pc = p.pc /\ op'.stage = p.stage
      BY <3>3, <3>4 DEF Process
    <3> QED BY <3>3, <3>5, <3>6
  <2>6. OpInv'
    BY <1>1, <2>2, <2>5, NextExport
  <2>7. exports' \in SUBSET Rows
    BY <1>1 DEF TypeOK
  <2> QED BY <2>4, <2>5, <2>6, <2>7, ExportStepTyped DEF TypeInv
<1> QED BY <1>2, <1>3

\* The process after it has written one file.
LEMMA WriteMoves ==
  ASSUME TypeOK, NEW meta \in Rows, NEW n \in 1 .. 5, NEW pc \in Pcs,
         op' = [op EXCEPT !.meta = meta, !.got = {}, !.stage = n, !.pc = pc]
  PROVE  /\ op' \in Process /\ op'.pc = pc /\ op'.stage = n /\ op'.meta = meta
         /\ op'.cmd = op.cmd
<1>1. op \in Process /\ n \in 1 .. (Len(EXPORT_ORDER) + 1)
  BY TablesAre DEF TypeOK
<1>2. PICK p : p = [op EXCEPT !.meta = meta]
  OBVIOUS
<1>3. p \in Process /\ p.meta = meta /\ p.cmd = op.cmd
  BY <1>1, <1>2 DEF Process
<1>4. PICK q : q = [p EXCEPT !.got = {}]
  OBVIOUS
<1>5. q \in Process
  BY <1>3, <1>4 DEF Process
<1>6. q.meta = meta /\ q.cmd = op.cmd
  BY <1>3, <1>4 DEF Process
<1>7. PICK r : r = [q EXCEPT !.stage = n]
  OBVIOUS
<1>8. r \in Process
  BY <1>1, <1>5, <1>7 DEF Process
<1>9. r.meta = meta /\ r.cmd = op.cmd /\ r.stage = n
  BY <1>5, <1>6, <1>7 DEF Process
<1>10. op' = [r EXCEPT !.pc = pc]
  BY <1>1, <1>2, <1>4, <1>7 DEF Process
<1>11. op' \in Process
  BY <1>8, <1>10 DEF Process
<1>12. op'.pc = pc /\ op'.stage = r.stage /\ op'.meta = r.meta /\ op'.cmd = r.cmd
  BY <1>8, <1>10 DEF Process
<1> QED BY <1>9, <1>11, <1>12

\* What the step from one file to the next does.
LEMMA WriteFileDoes ==
  ASSUME TypeInv, WriteFile
  PROVE  /\ op.stage \in 1 .. 4 /\ EXPORT_ORDER[op.stage] \in Tables
         /\ op.pc = "write" /\ db["file"].rev = "head"
         /\ op.meta \in Rows /\ op.got \in SUBSET Ids
         /\ [op.meta EXCEPT ![EXPORT_ORDER[op.stage]] = op.got] \in Rows
         /\ dir' = [dir EXCEPT !.file[EXPORT_ORDER[op.stage]] = {op.got}]
         /\ op' \in Process /\ op'.cmd = op.cmd
         /\ op'.meta = [op.meta EXCEPT ![EXPORT_ORDER[op.stage]] = op.got]
         /\ \/ /\ op.stage = 4 /\ op'.pc = "manifest"
               /\ exports' = exports \cup {[op.meta EXCEPT ![EXPORT_ORDER[op.stage]] = op.got]}
            \/ /\ op.stage \in 1 .. 3 /\ op'.pc = "select" /\ op'.stage = op.stage + 1
               /\ exports' = exports
<1> DEFINE t == EXPORT_ORDER[op.stage]
           meta == [op.meta EXCEPT ![t] = op.got]
<1>1. op.pc = "write" /\ op.stage \in 1 .. 4 /\ db["file"].rev = "head" /\ TypeOK
  BY DEF WriteFile, Step, TypeInv, OpInv
<1>2. t \in Tables /\ op.meta \in Rows /\ op.got \in SUBSET Ids
  <2>1. op \in Process
    BY <1>1 DEF TypeOK
  <2> QED BY <1>1, <2>1, TablesAre DEF Process
<1>3. meta \in Rows
  BY <1>2 DEF Rows
<1>4. dir' = [dir EXCEPT !.file[t] = {op.got}]
  BY DEF WriteFile
<1>5. CASE op.stage = 4
  <2>1. op' = [op EXCEPT !.meta = meta, !.got = {}, !.stage = 1, !.pc = "manifest"]
    BY <1>5, TablesAre DEF WriteFile, Goes
  <2>2. exports' = exports \cup {meta}
    BY <1>5, TablesAre DEF WriteFile
  <2> HIDE DEF meta
  <2>3. op' \in Process /\ op'.pc = "manifest" /\ op'.meta = meta /\ op'.cmd = op.cmd
    BY Zenon, <1>1, <1>3, <2>1, PcsAre, WriteMoves
  <2> QED BY <1>1, <1>2, <1>3, <1>4, <1>5, <2>2, <2>3 DEF meta
<1>6. CASE op.stage # 4
  <2>1. op' = [op EXCEPT !.meta = meta, !.got = {}, !.stage = op.stage + 1, !.pc = "select"]
    BY <1>6, TablesAre DEF WriteFile, Goes
  <2>2. exports' = exports
    BY <1>6, TablesAre DEF WriteFile
  <2>3. op.stage + 1 \in 1 .. 5 /\ op.stage \in 1 .. 3
    BY <1>1, <1>6
  <2> HIDE DEF meta
  <2>4. /\ op' \in Process /\ op'.pc = "select" /\ op'.meta = meta /\ op'.cmd = op.cmd
        /\ op'.stage = op.stage + 1
    BY Zenon, <1>1, <1>3, <2>1, <2>3, PcsAre, WriteMoves
  <2> QED BY <1>1, <1>2, <1>3, <1>4, <2>2, <2>3, <2>4 DEF meta
<1> QED BY <1>5, <1>6

LEMMA WriteFileTyped ==
  ASSUME TypeInv, WriteFile
  PROVE  TypeInv'
<1>1. dir' \in Directory
  BY WriteFileDoes, DirectoryTypes DEF TypeInv, TypeOK
<1>2. op' \in Process /\ exports' \in SUBSET Rows
  BY WriteFileDoes DEF TypeInv, TypeOK
<1>3. op'.pc \in {"select", "write"} => op'.stage \in 1 .. 4
  BY WriteFileDoes
<1>4. UNCHANGED db
  BY DEF WriteFile
<1>5. OpInv'
  BY <1>3, <1>4, WriteFileDoes, NextExport
<1> QED BY <1>1, <1>2, <1>5, ExportStepTyped DEF TypeInv

LEMMA OpenManifestTyped ==
  ASSUME TypeInv, OpenManifest
  PROVE  TypeInv'
<1>1. /\ op.pc = "manifest" /\ db["file"].rev = "head" /\ TypeOK
      /\ UNCHANGED <<db, exports>> /\ op' = [op EXCEPT !.pc = "manifested"]
  BY DEF OpenManifest, Step, Goes, TypeInv, OpInv
<1>2. op' \in Process /\ op'.pc = "manifested"
  BY <1>1, PcsAre, Moves DEF Same
<1>3. OpInv'
  BY <1>1, <1>2, NextExport
<1>4. dir' \in Directory /\ exports' \in SUBSET Rows
  BY <1>1 DEF OpenManifest, TypeOK, Directory
<1> QED BY <1>2, <1>3, <1>4, ExportStepTyped DEF TypeInv

LEMMA WriteManifestTyped ==
  ASSUME TypeInv, WriteManifest
  PROVE  /\ TypeInv'
         /\ dir'.state = "written" /\ dir'.version = "head" /\ dir'.rows = op.meta
         /\ dir'.file = dir.file
<1>1. /\ op.pc = "manifested" /\ db["file"].rev = "head" /\ TypeOK
      /\ UNCHANGED <<db, exports>>
      /\ dir' = [dir EXCEPT !.state = "written", !.version = "head", !.rows = op.meta]
  BY DEF WriteManifest, Step, TypeInv, OpInv
<1>2. /\ dir' \in Directory
      /\ dir'.state = "written" /\ dir'.version = "head" /\ dir'.rows = op.meta
      /\ dir'.file = dir.file
  <2>1. dir \in Directory /\ op.meta \in Rows
    BY <1>1 DEF TypeOK, Process
  <2>2. PICK x : x = [dir EXCEPT !.state = "written"]
    OBVIOUS
  <2>3. x \in Directory /\ x.state = "written" /\ x.file = dir.file
    BY <2>1, <2>2 DEF Directory
  <2>4. PICK y : y = [x EXCEPT !.version = "head"]
    OBVIOUS
  <2>5. y \in Directory /\ y.state = "written" /\ y.version = "head" /\ y.file = dir.file
    BY <2>3, <2>4 DEF Directory
  <2>6. dir' = [y EXCEPT !.rows = op.meta]
    BY <1>1, <2>1, <2>2, <2>4 DEF Directory
  <2>7. dir' \in Directory
    BY <2>1, <2>5, <2>6 DEF Directory
  <2>8. /\ dir'.state = y.state /\ dir'.version = y.version /\ dir'.rows = op.meta
        /\ dir'.file = y.file
    BY <2>5, <2>6 DEF Directory
  <2> QED BY <2>5, <2>7, <2>8
<1>3. op' = Nobody \/ op' = [Nobody EXCEPT !.cmd = "both", !.on = "new", !.pc = "verify"]
  BY DEF WriteManifest, Goes
<1>4. op' \in Process /\ OpInv'
  <2>1. CASE op' = Nobody
    BY <2>1, NobodyTyped
  <2>2. CASE op' = [Nobody EXCEPT !.cmd = "both", !.on = "new", !.pc = "verify"]
    <3>1. op' = [cmd |-> "both", on |-> "new", pc |-> "verify", stage |-> 1,
                 got |-> {}, meta |-> [t \in Tables |-> {}], yes |-> FALSE, found |-> FALSE]
      BY <2>2 DEF Nobody
    <3>2. op' \in Process
      BY <3>1, PcsAre, TablesAre DEF Process, Names, Rows
    <3>3. OpInv'
      BY <3>1 DEF OpInv, SchemaPcs, ImportPcs
    <3> QED BY <3>2, <3>3
  <2> QED BY <1>3, <2>1, <2>2
<1>5. exports' \in SUBSET Rows
  BY <1>1 DEF TypeOK
<1> QED BY <1>2, <1>4, <1>5, ExportStepTyped DEF TypeInv

LEMMA NextImport ==
  ASSUME TypeInv, op.pc \in ImportPcs,
         op' \in Process, op'.cmd = op.cmd, op'.on = op.on,
         op'.pc \in {"classify", "load", "count"},
         op'.pc = "count" => op'.stage \in 1 .. 4
  PROVE  OpInv'
  BY DEF TypeInv, OpInv, SchemaPcs, ImportPcs

LEMMA ImportStepTyped ==
  ASSUME TypeInv, Verify \/ Probe \/ LockTimeout \/ Load \/ Count,
         db' \in [Names -> Database], op' \in Process
  PROVE  TypeOK'
<1>1. UNCHANGED <<dialect, wanted, used, master, dir, exports>>
  BY DEF Verify, Probe, LockTimeout, Load, Count, Goes, Calm
<1>2. exit' \in {"none", "ok", "failed"}
  BY DEF Verify, Probe, LockTimeout, Load, Count, Goes, TypeInv, TypeOK
<1>3. unsound' \in BOOLEAN
  <2>1. CASE UNCHANGED unsound
    BY <2>1 DEF TypeInv, TypeOK
  <2>2. CASE unsound' = (op.yes /\ dialect = "sqlite" /\ ~Closed(Loaded))
    BY <2>2
  <2> QED BY <2>1, <2>2 DEF Verify, Probe, LockTimeout, Load, Count, Calm
<1> QED BY <1>1, <1>2, <1>3 DEF TypeInv, TypeOK

\* The process that has probed its target.
LEMMA ProbeMoves ==
  ASSUME TypeOK, NEW found \in BOOLEAN, op' = [op EXCEPT !.pc = "load", !.found = found]
  PROVE  /\ op' \in Process /\ op'.pc = "load" /\ op'.found = found
         /\ op'.cmd = op.cmd /\ op'.on = op.on /\ op'.yes = op.yes
<1>1. op \in Process
  BY DEF TypeOK
<1>2. PICK p : p = [op EXCEPT !.pc = "load"]
  OBVIOUS
<1>3. p \in Process
  BY <1>1, <1>2, PcsAre DEF Process
<1>4. p.pc = "load" /\ p.cmd = op.cmd /\ p.on = op.on /\ p.yes = op.yes
  BY <1>1, <1>2 DEF Process
<1>5. op' = [p EXCEPT !.found = found]
  BY <1>1, <1>2 DEF Process
<1>6. op' \in Process
  BY <1>3, <1>5 DEF Process
<1>7. op'.pc = p.pc /\ op'.cmd = p.cmd /\ op'.on = p.on /\ op'.yes = p.yes /\ op'.found = found
  BY <1>3, <1>5 DEF Process
<1> QED BY <1>4, <1>6, <1>7

LEMMA VerifyProbeTyped ==
  ASSUME TypeInv, Verify \/ Probe \/ LockTimeout
  PROVE  TypeInv'
<1>1. op.pc \in ImportPcs /\ UNCHANGED db /\ TypeOK
  BY DEF Verify, Probe, LockTimeout, Step, Calm, ImportPcs, TypeInv
<1>2. op' \in Process /\ OpInv'
  <2>1. CASE op' = Nobody
    BY <2>1, NobodyTyped
  <2>2. CASE op' = [op EXCEPT !.pc = "classify"]
    <3>1. Same /\ op'.pc = "classify"
      BY <1>1, <2>2, PcsAre, Moves
    <3> QED BY <1>1, <3>1, NextImport DEF Same
  <2>3. CASE Probe /\ op' # Nobody
    <3> DEFINE found == \E t \in Tables : db["new"].table[t].rows # {}
    <3>1. op' = [op EXCEPT !.pc = "load", !.found = found]
      BY <2>3 DEF Probe, Goes
    <3>2. found \in BOOLEAN
      OBVIOUS
    <3> HIDE DEF found
    <3>3. /\ op' \in Process /\ op'.pc = "load"
          /\ op'.cmd = op.cmd /\ op'.on = op.on
      BY Zenon, <1>1, <3>1, <3>2, ProbeMoves
    <3>4. OpInv'
      BY <1>1, <3>3 DEF TypeInv, OpInv, SchemaPcs, ImportPcs
    <3> QED BY <3>3, <3>4
  <2> QED BY <2>1, <2>2, <2>3 DEF Verify, Probe, LockTimeout, Goes
<1>3. db' \in [Names -> Database]
  BY <1>1 DEF TypeOK
<1> QED BY <1>2, <1>3, ImportStepTyped DEF TypeInv

\* The tables of the target after a load.
LoadTables == [t \in Tables |-> [db["new"].table[t] EXCEPT !.rows = Loaded[t]]]

LEMMA LoadedTypes ==
  ASSUME TypeOK
  PROVE  /\ Loaded \in [Tables -> SUBSET Ids]
         /\ LoadTables \in [Tables -> Table]
         /\ \A t \in Tables : /\ LoadTables[t].rows = Loaded[t]
                              /\ LoadTables[t].form = db["new"].table[t].form
<1>1. db["new"].table \in [Tables -> Table]
  BY DatabaseTypes DEF Names
<1>2. dir.file \in [Tables -> SUBSET SUBSET Ids]
  BY DEF TypeOK, Directory
<1>3. Loaded \in [Tables -> SUBSET Ids]
  <2>1. \A t \in Tables : db["new"].table[t].rows \in SUBSET Ids
    BY <1>1 DEF Table
  <2>2. \A t \in Tables : UNION dir.file[t] \in SUBSET Ids
    BY <1>2
  <2> QED BY <2>1, <2>2 DEF Loaded
<1>4. \A x \in Table, s \in SUBSET Ids :
        /\ [x EXCEPT !.rows = s] \in Table
        /\ [x EXCEPT !.rows = s].rows = s
        /\ [x EXCEPT !.rows = s].form = x.form
  BY DEF Table
<1>5. \A t \in Tables : db["new"].table[t] \in Table /\ Loaded[t] \in SUBSET Ids
  BY <1>1, <1>3
<1> HIDE DEF Table, Loaded
<1> QED BY <1>3, <1>4, <1>5 DEF LoadTables

LEMMA LoadDoes ==
  ASSUME TypeInv, Load
  PROVE  \/ op' = Nobody /\ UNCHANGED <<db, unsound>>
         \/ /\ ~ Clash /\ (Closed(Loaded) \/ Unchecked)
            /\ Becomes("new", db["new"].rev, LoadTables, db["new"].side)
            /\ op' = [op EXCEPT !.pc = "count", !.stage = 1]
            /\ unsound' = (op.yes /\ dialect = "sqlite" /\ ~Closed(Loaded))
<1>1. CASE Clash \/ (~Closed(Loaded) /\ ~Unchecked)
  BY <1>1 DEF Load, Goes
<1>2. CASE ~ (Clash \/ (~Closed(Loaded) /\ ~Unchecked))
  <2>1. /\ db' = [db EXCEPT !["new"].table =
                     [t \in Tables |-> [@[t] EXCEPT !.rows = Loaded[t]]]]
        /\ op' = [op EXCEPT !.pc = "count", !.stage = 1]
        /\ unsound' = (op.yes /\ dialect = "sqlite" /\ ~Closed(Loaded))
    BY <1>2 DEF Load, Goes
  <2>2. db' = [db EXCEPT !["new"].table = LoadTables]
    BY <2>1 DEF LoadTables, TypeInv, TypeOK, Names
  <2>3. TypeOK /\ LoadTables \in [Tables -> Table] /\ "new" \in Names
    BY LoadedTypes DEF TypeInv, Names
  <2>4. Becomes("new", db["new"].rev, LoadTables, db["new"].side)
    BY <2>2, <2>3, TableChanges
  <2> QED BY <1>2, <2>1, <2>4
<1> QED BY <1>1, <1>2

LEMMA CountedTypes ==
  ASSUME TypeInv, op.pc = "count"
  PROVE  CountedSoFar \in Rows /\ op.stage \in 1 .. 4 /\ EXPORT_ORDER[op.stage] \in Tables
<1> DEFINE t == EXPORT_ORDER[op.stage]
           meta == [op.meta EXCEPT ![t] = db["new"].table[t].rows]
<1>1. op.stage \in 1 .. 4 /\ op \in Process /\ TypeOK
  BY DEF TypeInv, TypeOK, OpInv
<1>2. t \in Tables
  BY <1>1, TablesAre
<1>3. db["new"].table[t].rows \in SUBSET Ids
  <2>1. db["new"].table \in [Tables -> Table]
    BY <1>1, DatabaseTypes DEF Names
  <2> QED BY <1>2, <2>1 DEF Table
<1>4. op.meta \in [Tables -> SUBSET Ids]
  BY <1>1 DEF Process, Rows
<1>5. meta \in [Tables -> SUBSET Ids]
  BY <1>3, <1>4
<1> QED BY <1>1, <1>2, <1>5 DEF CountedSoFar, Rows

\* A count that goes on with the next table.
LEMMA CountMoves ==
  ASSUME TypeInv, Count, op' # Nobody
  PROVE  /\ op' \in Process /\ op'.cmd = op.cmd /\ op'.on = op.on
         /\ op.pc = "count" /\ op'.pc = "count" /\ op.stage \in 1 .. 3
         /\ op'.stage = op.stage + 1 /\ op'.meta = CountedSoFar
         /\ UNCHANGED <<db, dir, exports, exit>>
<1>1. op.pc = "count" /\ op.stage \in 1 .. 4 /\ op \in Process /\ TypeOK
  BY DEF Count, Step, TypeInv, TypeOK, OpInv
<1>2. /\ op' = [op EXCEPT !.stage = @ + 1, !.meta = CountedSoFar]
      /\ UNCHANGED <<db, dir, exports, exit>> /\ op.stage # 4
  BY TablesAre DEF Count
<1>3. op.stage \in 1 .. 3 /\ op.stage + 1 \in 1 .. (Len(EXPORT_ORDER) + 1)
  BY <1>1, <1>2, TablesAre
<1>4. CountedSoFar \in Rows
  BY <1>1, CountedTypes
<1>5. PICK m : m = CountedSoFar
  OBVIOUS
<1>6. PICK n : n = op.stage + 1
  OBVIOUS
<1>7. op' = [op EXCEPT !.stage = n, !.meta = m]
  BY <1>2, <1>5, <1>6
<1>8. m \in Rows /\ n \in 1 .. (Len(EXPORT_ORDER) + 1)
  BY <1>3, <1>4, <1>5, <1>6
<1>9. PICK q : q = [op EXCEPT !.stage = n]
  OBVIOUS
<1>10. q \in Process
  BY <1>1, <1>8, <1>9 DEF Process
<1>11. q.pc = op.pc /\ q.stage = n /\ q.cmd = op.cmd /\ q.on = op.on
  BY <1>1, <1>9 DEF Process
<1>12. op' = [q EXCEPT !.meta = m]
  BY <1>1, <1>7, <1>9 DEF Process
<1>13. op' \in Process
  BY <1>8, <1>10, <1>12 DEF Process
<1>14. op'.pc = q.pc /\ op'.stage = q.stage /\ op'.cmd = q.cmd /\ op'.on = q.on /\ op'.meta = m
  BY <1>10, <1>12 DEF Process
<1> QED BY <1>1, <1>2, <1>3, <1>5, <1>6, <1>11, <1>13, <1>14

LEMMA LoadCountTyped ==
  ASSUME TypeInv, Load \/ Count
  PROVE  TypeInv'
<1>1. op.pc \in ImportPcs /\ TypeOK
  BY DEF Load, Count, Step, ImportPcs, TypeInv
<1>2. CASE op' = Nobody /\ UNCHANGED db
  <2>1. op' \in Process /\ OpInv' /\ db' \in [Names -> Database]
    BY <1>1, <1>2, NobodyTyped DEF TypeOK
  <2> QED BY <2>1, ImportStepTyped DEF TypeInv
<1>3. CASE Load /\ db' \in [Names -> Database] /\ op' = [op EXCEPT !.pc = "count", !.stage = 1]
  <2>1. Same /\ op'.pc = "count" /\ op'.stage = 1
    BY <1>1, <1>3, PcsAre, MovesOn
  <2>2. OpInv'
    BY <1>1, <2>1, NextImport DEF Same
  <2> QED BY <1>3, <2>1, <2>2, ImportStepTyped DEF TypeInv, Same
<1>4. CASE Load
  BY <1>2, <1>3, <1>4, LoadDoes DEF Becomes
<1>5. CASE Count /\ op' = Nobody
  BY <1>2, <1>5 DEF Count
<1>6. CASE Count /\ op' # Nobody
  <2>1. /\ op' \in Process /\ op'.cmd = op.cmd /\ op'.on = op.on /\ op'.pc = "count"
        /\ op.stage \in 1 .. 3 /\ op'.stage = op.stage + 1 /\ UNCHANGED db
    BY <1>6, CountMoves
  <2>2. OpInv'
    <3>1. op'.stage \in 1 .. 4
      BY <2>1
    <3> QED BY <1>1, <2>1, <3>1, NextImport
  <2> QED BY <1>1, <1>6, <2>1, <2>2, ImportStepTyped DEF TypeInv, TypeOK
<1> QED BY <1>4, <1>5, <1>6

LEMMA UsedTypes ==
  ASSUME TypeOK
  PROVE  /\ \/ used' = [used EXCEPT !.commands = @ + 1] /\ used.commands < MaxCommands
            \/ used' = [used EXCEPT !.crashes = @ + 1] /\ used.crashes < MaxCrashes
            \/ used' = [used EXCEPT !.writes = @ + 1] /\ used.writes < MaxWrites
            => used' \in [commands : 0..MaxCommands, crashes : 0..MaxCrashes,
                          writes : 0..MaxWrites]
  BY BoundsAssumption DEF TypeOK

\* What Migrate, Export, Import and SnapshotAndMigrate begin with.
Beginnings ==
  { [Nobody EXCEPT !.cmd = "migrate", !.pc = "classify"],
    [Nobody EXCEPT !.cmd = "export", !.pc = "select"],
    [Nobody EXCEPT !.cmd = "import", !.on = "new", !.pc = "verify", !.yes = TRUE],
    [Nobody EXCEPT !.cmd = "import", !.on = "new", !.pc = "verify", !.yes = FALSE],
    [Nobody EXCEPT !.cmd = "both", !.pc = "select"] }

Begins(o, cmd, on, pc) ==
  /\ o \in Process /\ o.cmd = cmd /\ o.on = on /\ o.pc = pc /\ o.stage = 1

LEMMA BeginningsAre ==
  ASSUME NEW o \in Beginnings
  PROVE  \/ Begins(o, "migrate", "file", "classify")
         \/ Begins(o, "export", "file", "select")
         \/ Begins(o, "import", "new", "verify")
         \/ Begins(o, "both", "file", "select")
<1> DEFINE With(cmd, on, pc, yes) ==
             [cmd |-> cmd, on |-> on, pc |-> pc, stage |-> 1, got |-> {},
              meta |-> [t \in Tables |-> {}], yes |-> yes, found |-> FALSE]
<1>1. \/ o = With("migrate", "file", "classify", FALSE)
      \/ o = With("export", "file", "select", FALSE)
      \/ o = With("import", "new", "verify", TRUE)
      \/ o = With("import", "new", "verify", FALSE)
      \/ o = With("both", "file", "select", FALSE)
  BY Zenon DEF Beginnings, Nobody
<1>2. \A cmd \in {"migrate", "export", "import", "both"}, on \in Names,
         pc \in Pcs, yes \in BOOLEAN :
        Begins(With(cmd, on, pc, yes), cmd, on, pc)
  BY TablesAre DEF Process, Rows, Begins
<1> HIDE DEF With
<1> QED BY <1>1, <1>2, PcsAre DEF Names

LEMMA CommandTyped ==
  ASSUME TypeInv, NEW o \in Beginnings, Command(o)
  PROVE  TypeInv'
<1>1. op' = o /\ UNCHANGED <<db, dialect, wanted, master, dir, exports, unsound>>
      /\ exit' = "none"
  BY DEF Command
<1>2. o \in Process
  BY BeginningsAre DEF Begins
<1>3. OpInv'
  BY <1>1, BeginningsAre DEF Begins, OpInv, SchemaPcs, ImportPcs
<1>4. used' \in [commands : 0..MaxCommands, crashes : 0..MaxCrashes, writes : 0..MaxWrites]
  BY UsedTypes DEF Command, TypeInv
<1> QED BY <1>1, <1>2, <1>3, <1>4 DEF TypeInv, TypeOK

LEMMA StartTyped ==
  ASSUME TypeInv, Start
  PROVE  TypeInv' /\ op'.cmd = "start" /\ op'.pc = "classify" /\ op'.on = wanted
<1>1. /\ op' = [Nobody EXCEPT !.cmd = "start", !.on = wanted, !.pc = "classify"]
      /\ UNCHANGED <<db, dialect, wanted, master, dir, exports, unsound, exit, used>>
      /\ wanted \in Names
  BY DEF Start, TypeInv, TypeOK
<1>2. op' = [cmd |-> "start", on |-> wanted, pc |-> "classify", stage |-> 1,
             got |-> {}, meta |-> [t \in Tables |-> {}], yes |-> FALSE, found |-> FALSE]
  BY <1>1 DEF Nobody
<1>3. op' \in Process
  <2>1. \A on \in Names, pc \in Pcs, no \in BOOLEAN :
          [cmd |-> "start", on |-> on, pc |-> pc, stage |-> 1,
           got |-> {}, meta |-> [t \in Tables |-> {}], yes |-> no, found |-> no]
            \in Process
    BY TablesAre DEF Process, Rows
  <2> QED BY <1>1, <1>2, <2>1, PcsAre
<1>4. OpInv'
  BY <1>2 DEF OpInv, SchemaPcs, ImportPcs
<1> QED BY <1>1, <1>2, <1>3, <1>4 DEF TypeInv, TypeOK

LEMMA OthersTyped ==
  ASSUME TypeInv
  PROVE  /\ \A d \in Names : Up(d) => TypeInv'
         /\ Stop => TypeInv'
         /\ Crash => TypeInv'
         /\ \A t \in Tables, i \in Ids : Write(t, i) => TypeInv'
         /\ UNCHANGED vars => TypeInv'
<1>1. ASSUME UNCHANGED <<op, db, dialect>> PROVE OpInv'
  BY <1>1 DEF TypeInv, OpInv, Sqlite
<1>2. ASSUME NEW d \in Names, Up(d) PROVE TypeInv'
  BY <1>1, <1>2 DEF Up, TypeInv, TypeOK
<1>3. ASSUME Stop PROVE TypeInv'
  BY <1>1, <1>3 DEF Stop, TypeInv, TypeOK
<1>4. ASSUME Crash PROVE TypeInv'
  <2>1. used' \in [commands : 0..MaxCommands, crashes : 0..MaxCrashes, writes : 0..MaxWrites]
    BY <1>4, UsedTypes DEF Crash, TypeInv
  <2>2. op' \in Process /\ OpInv'
    BY <1>4, NobodyTyped DEF Crash
  <2> QED BY <1>4, <2>1, <2>2 DEF Crash, TypeInv, TypeOK
<1>5. ASSUME NEW t \in Tables, NEW i \in Ids, Write(t, i) PROVE TypeInv'
  <2>1. used' \in [commands : 0..MaxCommands, crashes : 0..MaxCrashes, writes : 0..MaxWrites]
    BY <1>5, UsedTypes DEF Write, TypeInv
  <2>2. db' \in [Names -> Database] /\ \A d \in Names : db'[d].rev = db[d].rev
    BY <1>5, WriteChanges DEF Becomes, TypeInv
  <2>3. UNCHANGED <<dialect, wanted, master, dir, op, exports, unsound, exit>>
    BY <1>5 DEF Write
  <2>4. op.on \in Names /\ "file" \in Names
    BY DEF TypeInv, TypeOK, Process, Names
  <2>5. OpInv'
    BY <2>2, <2>3, <2>4 DEF TypeInv, OpInv, Sqlite
  <2> QED BY <2>1, <2>2, <2>3, <2>5 DEF TypeInv, TypeOK
<1>6. ASSUME UNCHANGED vars PROVE TypeInv'
  BY <1>1, <1>6 DEF vars, TypeInv, TypeOK
<1> QED BY <1>2, <1>3, <1>4, <1>5, <1>6

\* The steps, as the proofs below take them apart.
LEMMA Cases ==
  ASSUME Next
  PROVE  \/ Classify \/ Create \/ CreateRest \/ Stamp \/ Schema
         \/ CopyTo \/ Copy \/ Drop \/ Rename
         \/ Select \/ WriteFile \/ OpenManifest \/ WriteManifest
         \/ Verify \/ Probe \/ LockTimeout \/ Load \/ Count
         \/ Start \/ Stop \/ Crash
         \/ \E o \in Beginnings : Command(o)
         \/ \E d \in Names : Up(d)
         \/ \E t \in Tables, i \in Ids : Write(t, i)
<1>1. ASSUME Migrate \/ Export \/ SnapshotAndMigrate PROVE \E o \in Beginnings : Command(o)
  BY <1>1 DEF Migrate, Export, SnapshotAndMigrate, Beginnings
<1>2. ASSUME NEW yes \in BOOLEAN, Import(yes) PROVE \E o \in Beginnings : Command(o)
  BY <1>2 DEF Import, Beginnings
<1>3. ASSUME NEW t \in {"workspaces", "topics"}, NEW i \in Ids, Write(t, i)
      PROVE  \E u \in Tables, j \in Ids : Write(u, j)
  BY <1>3, TablesAre
<1> QED BY <1>1, <1>2, <1>3 DEF Next, Advance

LEMMA TypeStep ==
  ASSUME TypeInv, [Next]_vars
  PROVE  TypeInv'
<1>1. CASE Next
  BY <1>1, Cases, ClassifyTyped, CreateTyped, CreateRestTyped, StampTyped, SchemaTyped,
     RebuildTyped, SelectTyped, WriteFileTyped, OpenManifestTyped, WriteManifestTyped,
     VerifyProbeTyped, LoadCountTyped, StartTyped, CommandTyped, OthersTyped
<1> QED BY <1>1, OthersTyped

LEMMA TypeInvariant == Spec => []TypeInv
  BY InitTyped, TypeStep, PTL DEF Spec

\* Every reachable state is well formed: the schemas and rows of both
\* databases, the snapshot directory, and the process that works on them.
THEOREM TypeCorrect == Spec => []TypeOK
<1>1. TypeInv => TypeOK
  BY DEF TypeInv
<1> QED BY <1>1, TypeInvariant, PTL

-----------------------------------------------------------------------------
(* Why the head revision means the latest forms, and no row is lost.       *)
(* Good is about the schema of one database, Progress about the process    *)
(* that changes one.                                                       *)

\* The form that a stamped table has at least.
Low == [workspaces |-> 2, staffs |-> 2, topics |-> 1, event_actions |-> 3]

\* The form that table t has at least when rebuild n is about to begin.
Least(t, n) ==
  CASE t = "workspaces"    -> IF n > 1 THEN 2 ELSE 1
    [] t = "event_actions" -> IF n > 3 THEN 3 ELSE IF n > 2 THEN 2 ELSE 1
    [] t = "staffs"        -> IF n > 4 THEN 2 ELSE 1
    [] OTHER               -> 1

\* The side table that a run before left is of the form that is due.
SideFits(table, side) ==
  \A n \in 1 .. 4 :
    LET r == Rebuilds[n] IN
      table[r.table].form = r.to - 1 => side[r.table].form \in {0, r.to}

Good(d, rev, table, side) ==
  /\ \A t \in Tables :
       /\ table[t].form <= Latest[t]
       /\ table[t].form = 0 => table[t].rows = {}
       /\ side[t].form = 0 => side[t].rows = {}
       /\ rev = "head" => table[t].form >= Low[t]
  /\ SideFits(table, side)
  /\ d = "new" => \A t \in Tables : table[t].form \in {0, Latest[t]} /\ side[t] = Absent
  /\ ~ Sqlite(d) => \A t, u \in Tables : table[t].form = 0 => table[u].form = 0

Rebuilding == {"copyTo", "copy", "drop", "rename"}

Progress(o, table, side) ==
  LET r == Rebuilds[o.stage] IN
  /\ o.pc = "createRest" => table["workspaces"].form = 3
  /\ o.pc = "stamp" => \A t \in Tables : table[t].form >= Low[t]
  /\ o.pc \in Rebuilding =>
       \A t \in Tables : table[t].form >= Least(t, o.stage)
                           \/ (o.pc = "rename" /\ t = r.table)
  /\ o.pc \in Rebuilding \ {"copyTo"} => side[r.table].form = r.to /\ o.on = "file"
  /\ o.pc = "drop" => table[r.table].rows \subseteq side[r.table].rows
  /\ o.pc = "rename" => table[r.table] = Absent

FormsInv ==
  /\ \A d \in Names : Good(d, db[d].rev, db[d].table, db[d].side)
  /\ Progress(op, db[op.on].table, db[op.on].side)
  /\ master # "down" => db[master].rev = "head"

LEMMA Lows ==
  /\ Low["workspaces"] = 2 /\ Low["staffs"] = 2 /\ Low["topics"] = 1 /\ Low["event_actions"] = 3
  /\ \A t \in Tables : Low[t] \in 1 .. 3 /\ Latest[t] \in 1 .. 3 /\ Low[t] <= Latest[t]
<1>1. Low["workspaces"] = 2 /\ Low["staffs"] = 2 /\ Low["topics"] = 1 /\ Low["event_actions"] = 3
  BY DEF Low
<1> QED BY <1>1, LatestForms, TablesAre

LEMMA RebuildValues ==
  /\ Rebuilds[1].table = "workspaces" /\ Rebuilds[1].to = 2
  /\ Rebuilds[2].table = "event_actions" /\ Rebuilds[2].to = 2
  /\ Rebuilds[3].table = "event_actions" /\ Rebuilds[3].to = 3
  /\ Rebuilds[4].table = "staffs" /\ Rebuilds[4].to = 2
  BY DEF Rebuilds

LEMMA Stages ==
  /\ \A t \in Tables : Least(t, 1) = 1 /\ Least(t, 5) = Low[t]
  /\ \A n \in 1 .. 5, t \in Tables : Least(t, n) \in 1 .. 3
  /\ \A n \in 1 .. 4 :
       /\ \A t \in Tables : t # Rebuilds[n].table => Least(t, n + 1) = Least(t, n)
       /\ Least(Rebuilds[n].table, n) = Rebuilds[n].to - 1
       /\ Least(Rebuilds[n].table, n + 1) = Rebuilds[n].to
       /\ Rebuilds[n].table \in Tables /\ Rebuilds[n].to \in 2 .. 3
       /\ Rebuilds[n].to <= Latest[Rebuilds[n].table]
<1>1. \A t \in Tables : Least(t, 1) = 1 /\ Least(t, 5) = Low[t]
  BY TablesAre, Lows DEF Least
<1>2. \A n \in 1 .. 5, t \in Tables : Least(t, n) \in 1 .. 3
  BY TablesAre DEF Least
<1>3. ASSUME NEW n \in 1 .. 4
      PROVE  /\ \A t \in Tables : t # Rebuilds[n].table => Least(t, n + 1) = Least(t, n)
             /\ Least(Rebuilds[n].table, n) = Rebuilds[n].to - 1
             /\ Least(Rebuilds[n].table, n + 1) = Rebuilds[n].to
             /\ Rebuilds[n].table \in Tables /\ Rebuilds[n].to \in 2 .. 3
             /\ Rebuilds[n].to <= Latest[Rebuilds[n].table]
  <2>1. n = 1 \/ n = 2 \/ n = 3 \/ n = 4
    OBVIOUS
  <2>2. CASE n = 1
    BY <2>2, TablesAre, LatestForms, RebuildValues DEF Least
  <2>3. CASE n = 2
    BY <2>3, TablesAre, LatestForms, RebuildValues DEF Least
  <2>4. CASE n = 3
    BY <2>4, TablesAre, LatestForms, RebuildValues DEF Least
  <2>5. CASE n = 4
    BY <2>5, TablesAre, LatestForms, RebuildValues DEF Least
  <2> QED BY <2>1, <2>2, <2>3, <2>4, <2>5
<1> QED BY <1>1, <1>2, <1>3

\* No row and no head revision is lost; the new database has the same rows.
Keeps ==
  \A d \in Names :
    /\ \A t \in Tables : Kept(d, t) \subseteq Kept(d, t)'
    /\ db[d].rev = "head" => db'[d].rev = "head"
NewSame == \A t \in Tables : db'["new"].table[t].rows = db["new"].table[t].rows

\* The same of one database, given by its tables.
KeepsRows(d, table, side) ==
  /\ \A t \in Tables : Kept(d, t) \subseteq table[t].rows \cup side[t].rows
  /\ d = "new" => \A t \in Tables : table[t].rows = db["new"].table[t].rows

Quiet(o) == o.pc \notin {"createRest", "stamp"} \cup Rebuilding

\* The invariant after a change of one database ...
LEMMA FormsChange ==
  ASSUME TypeInv, FormsInv, TypeInv', UNCHANGED dialect,
         NEW d \in Names, NEW rev, NEW table, NEW side,
         Becomes(d, rev, table, side), Good(d, rev, table, side),
         Quiet(op') \/ (op'.on = d /\ Progress(op', table, side)),
         rev = "head" \/ rev = db[d].rev \/ db[d].rev # "head",
         UNCHANGED master \/ (master' = d /\ rev = "head")
  PROVE  FormsInv'
<1>1. ASSUME NEW e \in Names
      PROVE  Good(e, db[e].rev, db[e].table, db[e].side)'
  <2>1. CASE e # d
    <3>1. Good(e, db[e].rev, db[e].table, db[e].side) /\ db'[e] = db[e]
      BY <2>1 DEF FormsInv, Becomes
    <3> QED BY <3>1 DEF Good, SideFits, Sqlite
  <2>2. CASE e = d
    <3>1. db'[d].rev = rev
      BY DEF Becomes
    <3>2. \A t \in Tables : db'[d].table[t] = table[t] /\ db'[d].side[t] = side[t]
      BY DEF Becomes
    <3>3. SideFits(db'[d].table, db'[d].side)
      BY <3>2, RebuildsAre DEF Good, SideFits
    <3> QED BY <2>2, <3>1, <3>2, <3>3 DEF Good, Sqlite
  <2> QED BY <2>1, <2>2
<1>2. Progress(op', db'[op'.on].table, db'[op'.on].side)
  <2>1. CASE Quiet(op')
    BY Zenon, <2>1 DEF Quiet, Progress, Rebuilding
  <2>2. CASE op'.on = d /\ Progress(op', table, side)
    <3>1. \A t \in Tables : db'[d].table[t] = table[t] /\ db'[d].side[t] = side[t]
      BY DEF Becomes
    <3>2. op'.pc \in Rebuilding \ {"copyTo"} => Rebuilds[op'.stage].table \in Tables
      BY RebuildsAre DEF TypeInv, OpInv, Rebuilding
    <3>3. "workspaces" \in Tables
      BY TablesAre
    <3> QED BY Zenon, <2>2, <3>1, <3>2, <3>3 DEF Progress, Rebuilding
  <2> QED BY <2>1, <2>2
<1>3. master' # "down" => db'[master'].rev = "head"
  <2>1. \A e \in Names : db[e].rev = "head" => db'[e].rev = "head"
    BY DEF Becomes
  <2>2. master \in Names \cup {"down"} /\ (master # "down" => db[master].rev = "head")
    BY DEF TypeInv, TypeOK, FormsInv
  <2> QED BY <2>1, <2>2 DEF Becomes
<1> QED BY <1>1, <1>2, <1>3 DEF FormsInv

\* ... and of none.
LEMMA FormsSame ==
  ASSUME TypeInv, FormsInv, UNCHANGED <<db, dialect>>,
         Quiet(op') \/ (op'.on = op.on /\ Progress(op', db[op.on].table, db[op.on].side)),
         master' = master \/ master' = "down"
           \/ (master' \in Names /\ db[master'].rev = "head")
  PROVE  FormsInv' /\ Keeps /\ NewSame
<1>1. ASSUME NEW e \in Names
      PROVE  Good(e, db[e].rev, db[e].table, db[e].side)'
  BY DEF FormsInv, Good, SideFits, Sqlite
<1>2. Progress(op', db'[op'.on].table, db'[op'.on].side)
  BY Zenon DEF Quiet, Progress, Rebuilding
<1>3. master' # "down" => db'[master'].rev = "head"
  BY DEF FormsInv
<1>4. Keeps /\ NewSame
  BY DEF Keeps, NewSame, Kept
<1> QED BY <1>1, <1>2, <1>3, <1>4 DEF FormsInv

LEMMA RowsChange ==
  ASSUME NEW d \in Names, NEW rev, NEW table, NEW side,
         Becomes(d, rev, table, side), KeepsRows(d, table, side),
         rev = "head" \/ rev = db[d].rev \/ db[d].rev # "head"
  PROVE  Keeps /\ NewSame
<1>1. ASSUME NEW e \in Names, NEW t \in Tables
      PROVE  Kept(e, t) \subseteq Kept(e, t)'
  <2>1. CASE e = d
    <3>1. db'[d].table[t] = table[t] /\ db'[d].side[t] = side[t]
      BY DEF Becomes
    <3> QED BY <2>1, <3>1 DEF KeepsRows, Kept
  <2>2. CASE e # d
    BY <2>2 DEF Becomes, Kept
  <2> QED BY <2>1, <2>2
<1>2. NewSame
  BY DEF Becomes, KeepsRows, NewSame, Names
<1>3. \A e \in Names : db[e].rev = "head" => db'[e].rev = "head"
  BY DEF Becomes
<1> QED BY <1>1, <1>2, <1>3 DEF Keeps

\* What is known of the database of the process.
LEMMA OnIt ==
  ASSUME TypeInv, FormsInv
  PROVE  /\ TypeOK /\ op.on \in Names
         /\ Good(op.on, db[op.on].rev, db[op.on].table, db[op.on].side)
         /\ Progress(op, db[op.on].table, db[op.on].side)
         /\ \A t \in Tables : /\ db[op.on].table[t] \in Table /\ db[op.on].side[t] \in Table
                              /\ db[op.on].table[t].form \in 0 .. 3
                              /\ db[op.on].side[t].form \in 0 .. 3
         /\ db[op.on].rev \in {"none", "blank", "head", "newer"}
<1>1. TypeOK /\ op.on \in Names
  BY DEF TypeInv, TypeOK, Process
<1>2. /\ db[op.on].table \in [Tables -> Table] /\ db[op.on].side \in [Tables -> Table]
      /\ db[op.on].rev \in {"none", "blank", "head", "newer"}
  BY <1>1, DatabaseTypes
<1>3. \A x \in Table : x.form \in 0 .. 3
  BY DEF Table, Form
<1> HIDE DEF Table
<1> QED BY <1>1, <1>2, <1>3 DEF FormsInv

LEMMA ClassifyForms ==
  ASSUME TypeInv, FormsInv, Classify
  PROVE  FormsInv' /\ Keeps /\ NewSame
<1>1. op.pc = "classify" /\ UNCHANGED <<db, dialect>> /\ op \in Process
  BY DEF Classify, Step, Goes, TypeInv, TypeOK
<1>2. Quiet(op')
  <2>1. \/ op' = Nobody \/ op' = [op EXCEPT !.pc = "probe"]
        \/ op' = [op EXCEPT !.pc = "schema"] \/ op' = [op EXCEPT !.pc = "create"]
    BY <1>1, AtHeadTypes DEF Classify, Goes
  <2>2. \/ op' = Nobody \/ op'.pc = "probe" \/ op'.pc = "schema" \/ op'.pc = "create"
    BY <1>1, <2>1 DEF Process
  <2> QED BY <2>2 DEF Quiet, Nobody, Rebuilding
<1>3. master' = master \/ (master' \in Names /\ db[master'].rev = "head")
  <2>1. CASE db[op.on].rev = "head"
    <3>1. master' = AtHeadNow.up
      BY <2>1 DEF Classify, Unstamped, Goes
    <3> QED BY <1>1, <2>1, <3>1, OnIt, AtHeadTypes
  <2>2. CASE db[op.on].rev # "head"
    <3>1. master' = master
      BY <2>2 DEF Classify
    <3> QED BY <3>1
  <2> QED BY <2>1, <2>2
<1> QED BY <1>1, <1>2, <1>3, FormsSame

LEMMA MadeGood ==
  ASSUME TypeInv, FormsInv, NEW d \in Names, NEW names \in SUBSET Tables,
         \A t \in names : ~ Has(d, t),
         names = Tables \/ Sqlite(d),
         NEW rev, rev = "head" => names = Tables
  PROVE  /\ Good(d, rev, MadeTables(d, names), db[d].side)
         /\ KeepsRows(d, MadeTables(d, names), db[d].side)
<1> DEFINE table == MadeTables(d, names)
           side == db[d].side
<1>1. Good(d, db[d].rev, db[d].table, side)
  BY DEF FormsInv
<1>2. ASSUME NEW t \in Tables
      PROVE  \/ table[t] = db[d].table[t] /\ t \notin names
             \/ /\ t \in names /\ table[t].form = Latest[t] /\ table[t].rows = {}
                /\ db[d].table[t].form = 0 /\ db[d].table[t].rows = {}
  <2>1. CASE t \notin names
    BY <2>1 DEF MadeTables
  <2>2. CASE t \in names
    BY <1>1, <2>2 DEF MadeTables, Has, Good
  <2> QED BY <2>1, <2>2
<1> HIDE DEF table
<1>3. KeepsRows(d, table, side)
  BY <1>2 DEF KeepsRows, Kept
<1>4. SideFits(table, side)
  <2> SUFFICES ASSUME NEW n \in 1 .. 4,
                      table[Rebuilds[n].table].form = Rebuilds[n].to - 1
               PROVE  side[Rebuilds[n].table].form \in {0, Rebuilds[n].to}
    BY DEF SideFits
  <2>1. /\ Rebuilds[n].table \in Tables /\ Rebuilds[n].to \in 2 .. 3
        /\ Rebuilds[n].to <= Latest[Rebuilds[n].table]
    BY Stages
  <2>2. Latest[Rebuilds[n].table] \in 1 .. 3
    BY <2>1, Lows
  <2>3. table[Rebuilds[n].table] = db[d].table[Rebuilds[n].table]
    BY <1>2, <2>1, <2>2
  <2> QED BY <1>1, <2>3 DEF Good, SideFits
<1>5. ASSUME NEW t \in Tables
      PROVE  /\ table[t].form <= Latest[t]
             /\ table[t].form = 0 => table[t].rows = {}
             /\ side[t].form = 0 => side[t].rows = {}
             /\ rev = "head" => table[t].form >= Low[t]
  <2>1. Low[t] \in 1 .. 3 /\ Latest[t] \in 1 .. 3 /\ Low[t] <= Latest[t]
    BY Lows
  <2>2. CASE table[t] = db[d].table[t] /\ t \notin names
    BY <1>1, <2>2 DEF Good
  <2>3. CASE table[t].form = Latest[t] /\ table[t].rows = {}
    BY <1>1, <2>1, <2>3 DEF Good
  <2> QED BY <1>2, <2>2, <2>3
<1>6. d = "new" => \A t \in Tables : table[t].form \in {0, Latest[t]} /\ side[t] = Absent
  BY <1>1, <1>2 DEF Good
<1>7. ~ Sqlite(d) => \A t, u \in Tables : table[t].form = 0 => table[u].form = 0
  <2>1. \A t \in Tables : Latest[t] # 0
    BY Lows
  <2> QED BY <1>2, <2>1
<1> QED BY <1>3, <1>4, <1>5, <1>6, <1>7 DEF Good, table

LEMMA CreateForms ==
  ASSUME TypeInv, FormsInv, Create
  PROVE  FormsInv' /\ Keeps /\ NewSame
<1> DEFINE d == op.on
<1>1. /\ op.pc = "create" /\ UNCHANGED <<dialect, master>> /\ TypeOK /\ d \in Names
      /\ TypeInv' /\ db[d].rev \in {"none", "blank"}
  BY OnIt, CreateTyped DEF Create, Step, Goes, TypeInv, OpInv, SchemaPcs
<1>2. CASE op' = Nobody /\ UNCHANGED db
  <2>1. Quiet(op')
    BY <1>2 DEF Quiet, Nobody, Rebuilding
  <2> QED BY <1>1, <1>2, <2>1, FormsSame
<1>3. CASE /\ ~ Sqlite(d) /\ ~ Has(d, "workspaces")
           /\ db' = [Made(d, Tables) EXCEPT ![d].rev = "head"]
           /\ op' = [op EXCEPT !.pc = "classify"]
  <2>1. \A t \in Tables : ~ Has(d, t)
    BY Zenon, <1>3, OnIt, TablesAre DEF Good, Has
  <2>2. Good(d, "head", MadeTables(d, Tables), db[d].side)
    BY <1>1, <2>1, MadeGood
  <2>3. KeepsRows(d, MadeTables(d, Tables), db[d].side)
    BY <1>1, <2>1, MadeGood
  <2>4. Becomes(d, "head", MadeTables(d, Tables), db[d].side)
    BY <1>1, <1>3, MadeAtOnce
  <2>5. op'.pc = "classify"
    BY <1>1, <1>3, PcsAre, Moves
  <2>6. Quiet(op')
    BY <2>5 DEF Quiet, Rebuilding
  <2>7. FormsInv'
    BY <1>1, <2>2, <2>4, <2>6, FormsChange
  <2> QED BY <1>1, <2>3, <2>4, <2>7, RowsChange
<1>4. CASE /\ Sqlite(d) /\ ~ Has(d, "workspaces")
           /\ db' = Made(d, {"workspaces"})
           /\ op' = [op EXCEPT !.pc = "createRest"]
  <2> DEFINE table == MadeTables(d, {"workspaces"})
  <2>0. {"workspaces"} \in SUBSET Tables /\ {"workspaces"} # Tables
    BY TablesAre
  <2>1. \A t \in {"workspaces"} : ~ Has(d, t)
    BY <1>4
  <2>2. Good(d, "blank", table, db[d].side) /\ KeepsRows(d, table, db[d].side)
    BY <1>1, <1>4, <2>0, <2>1, MadeGood
  <2>3. Becomes(d, "blank", table, db[d].side)
    BY <1>1, <1>4, <2>0, MadeChanges
  <2>4. op'.pc = "createRest" /\ op'.on = d
    BY <1>1, <1>4, PcsAre, Moves DEF Same
  <2>5. table["workspaces"].form = 3
    BY TablesAre, LatestForms DEF MadeTables
  <2> HIDE DEF table
  <2>6. Progress(op', table, db[d].side)
    BY <2>4, <2>5 DEF Progress, Rebuilding
  <2>7. db[d].rev # "head"
    BY <1>1
  <2>8. FormsInv'
    BY <1>1, <2>2, <2>3, <2>4, <2>6, <2>7, FormsChange
  <2> QED BY <1>1, <2>2, <2>3, <2>8, RowsChange
<1> QED BY <1>2, <1>3, <1>4 DEF Create, Goes

LEMMA CreateRestForms ==
  ASSUME TypeInv, FormsInv, CreateRest
  PROVE  FormsInv' /\ Keeps /\ NewSame
<1> DEFINE d == op.on
           rest == Tables \ {"workspaces"}
<1>1. /\ op.pc = "createRest" /\ UNCHANGED <<dialect, master>> /\ TypeOK /\ d \in Names
      /\ TypeInv' /\ db[d].rev \in {"none", "blank"} /\ Sqlite(d)
  BY OnIt, CreateRestTyped DEF CreateRest, Step, Goes, TypeInv, OpInv, SchemaPcs
<1>2. CASE op' = Nobody /\ UNCHANGED db
  <2>1. Quiet(op')
    BY <1>2 DEF Quiet, Nobody, Rebuilding
  <2> QED BY <1>1, <1>2, <2>1, FormsSame
<1>3. CASE /\ \A t \in rest : ~ Has(d, t)
           /\ db' = Made(d, rest)
           /\ op' = [op EXCEPT !.pc = "stamp"]
  <2> DEFINE table == MadeTables(d, rest)
  <2>1. Good(d, "blank", table, db[d].side) /\ KeepsRows(d, table, db[d].side)
    BY <1>1, <1>3, MadeGood
  <2>2. Becomes(d, "blank", table, db[d].side)
    BY <1>1, <1>3, MadeChanges
  <2>3. op'.pc = "stamp" /\ op'.on = d
    BY <1>1, <1>3, PcsAre, Moves DEF Same
  <2>4. \A t \in Tables : table[t].form >= Low[t]
    <3> TAKE t \in Tables
    <3>1. Low[t] \in 1 .. 3 /\ Latest[t] \in 1 .. 3 /\ Low[t] <= Latest[t] /\ Low["workspaces"] = 2
      BY Lows
    <3>2. CASE t = "workspaces"
      <4>1. db[d].table["workspaces"].form = 3
        BY <1>1, OnIt DEF Progress
      <4> QED BY <3>1, <3>2, <4>1 DEF MadeTables
    <3>3. CASE t # "workspaces"
      BY <3>1, <3>3 DEF MadeTables
    <3> QED BY <3>2, <3>3
  <2> HIDE DEF table
  <2>5. Progress(op', table, db[d].side)
    BY <2>3, <2>4 DEF Progress, Rebuilding
  <2>6. db[d].rev # "head"
    BY <1>1
  <2>7. FormsInv'
    BY <1>1, <2>1, <2>2, <2>3, <2>5, <2>6, FormsChange
  <2> QED BY <1>1, <2>1, <2>2, <2>7, RowsChange
<1> QED BY <1>2, <1>3 DEF CreateRest, Goes

LEMMA StampForms ==
  ASSUME TypeInv, FormsInv, Stamp
  PROVE  FormsInv' /\ Keeps /\ NewSame
<1> DEFINE d == op.on
<1>1. /\ op.pc = "stamp" /\ UNCHANGED dialect /\ TypeOK /\ d \in Names /\ TypeInv'
      /\ db' = [db EXCEPT ![d].rev = "head"]
      /\ op' = AtHeadNow.to /\ master' = AtHeadNow.up
  BY OnIt, StampTyped DEF Stamp, Step, Goes, TypeInv
<1>2. Becomes(d, "head", db[d].table, db[d].side)
  BY <1>1, StampChanges
<1>3. Good(d, "head", db[d].table, db[d].side)
  <2>1. \A t \in Tables : db[d].table[t].form >= Low[t]
    BY <1>1, OnIt DEF Progress
  <2> QED BY <2>1, OnIt DEF Good
<1>4. Quiet(op')
  <2>1. op' = Nobody \/ op'.pc = "probe"
    BY <1>1, AtHeadTypes, PcsAre, Moves
  <2> QED BY <2>1 DEF Quiet, Nobody, Rebuilding
<1>5. master' = master \/ master' = d
  BY <1>1, AtHeadTypes
<1>6. FormsInv'
  BY <1>1, <1>2, <1>3, <1>4, <1>5, FormsChange
<1>7. KeepsRows(d, db[d].table, db[d].side)
  BY DEF KeepsRows, Kept
<1> QED BY <1>1, <1>2, <1>6, <1>7, RowsChange

LEMMA SchemaForms ==
  ASSUME TypeInv, FormsInv, Schema
  PROVE  FormsInv' /\ Keeps /\ NewSame
<1> DEFINE d == op.on
           table == SchemaTables(d)
           side == db[d].side
<1>1. /\ op.pc = "schema" /\ UNCHANGED <<dialect, master>> /\ TypeOK /\ d \in Names /\ TypeInv'
      /\ db[d].rev \in {"none", "blank"} /\ Sqlite(d)
      /\ op' = [op EXCEPT !.pc = "copyTo", !.stage = 1]
  BY OnIt, SchemaTyped DEF Schema, Step, Goes, TypeInv, OpInv, SchemaPcs
<1>2. Becomes(d, db[d].rev, table, side)
  BY <1>1, SchemaChanges
<1>3. Good(d, db[d].rev, db[d].table, side)
  BY OnIt
<1>4. ASSUME NEW t \in Tables
      PROVE  /\ table[t].rows = db[d].table[t].rows
             /\ \/ table[t].form = db[d].table[t].form
                \/ table[t].form = Latest[t] /\ db[d].table[t].form \in {0, 2}
             /\ table[t].form # 0
  <2>1. db[d].table[t] \in Table /\ Latest[t] \in 1 .. 3
    BY OnIt, Lows
  <2>2. CASE db[d].table[t].form = 0
    <3>1. table[t] = [form |-> Latest[t], rows |-> {}]
      BY <2>2 DEF SchemaTables
    <3>2. db[d].table[t].rows = {}
      BY <1>3, <2>2 DEF Good
    <3> QED BY <2>1, <2>2, <3>1, <3>2
  <2>3. CASE db[d].table[t].form # 0 /\ t = "workspaces" /\ db[d].table[t].form = 2
    <3>1. table[t] = [db[d].table[t] EXCEPT !.form = 3]
      BY <2>3 DEF SchemaTables
    <3> QED BY <2>1, <2>3, <3>1, LatestForms DEF Table
  <2>4. CASE db[d].table[t].form # 0 /\ ~ (t = "workspaces" /\ db[d].table[t].form = 2)
    BY <2>4 DEF SchemaTables
  <2> QED BY <2>2, <2>3, <2>4
<1> HIDE DEF table
<1>5. KeepsRows(d, table, side)
  BY <1>4 DEF KeepsRows, Kept
<1>6. SideFits(table, side)
  <2> SUFFICES ASSUME NEW n \in 1 .. 4,
                      table[Rebuilds[n].table].form = Rebuilds[n].to - 1
               PROVE  side[Rebuilds[n].table].form \in {0, Rebuilds[n].to}
    BY DEF SideFits
  <2>1. /\ Rebuilds[n].table \in Tables /\ Rebuilds[n].to \in 2 .. 3
        /\ Rebuilds[n].to <= Latest[Rebuilds[n].table]
    BY Stages
  <2>2. Latest[Rebuilds[n].table] \in 1 .. 3
    BY <2>1, Lows
  <2>3. table[Rebuilds[n].table].form = db[d].table[Rebuilds[n].table].form
    BY <1>4, <2>1, <2>2
  <2> QED BY <1>3, <2>3 DEF Good, SideFits
<1>7. ASSUME NEW t \in Tables
      PROVE  /\ table[t].form <= Latest[t]
             /\ table[t].form = 0 => table[t].rows = {}
             /\ side[t].form = 0 => side[t].rows = {}
  <2>1. Latest[t] \in 1 .. 3
    BY Lows
  <2> QED BY <1>3, <1>4, <2>1 DEF Good
<1>8. d = "new" => \A t \in Tables : table[t].form \in {0, Latest[t]} /\ side[t] = Absent
  BY <1>3, <1>4 DEF Good
<1>9. Good(d, db[d].rev, table, side)
  BY <1>1, <1>6, <1>7, <1>8 DEF Good
<1>10. op'.pc = "copyTo" /\ op'.on = d /\ op'.stage = 1
  BY Zenon, <1>1, PcsAre, MovesOn DEF Same
<1>11. \A t \in Tables : table[t].form >= Least(t, 1)
  <2> TAKE t \in Tables
  <2>1. Latest[t] \in 1 .. 3 /\ db[d].table[t].form \in 0 .. 3
    BY Lows, OnIt
  <2> QED BY <1>4, <2>1, Stages
<1>12. Progress(op', table, side)
  BY <1>10, <1>11 DEF Progress, Rebuilding
<1>13. FormsInv'
  BY <1>1, <1>2, <1>9, <1>10, <1>12, FormsChange
<1> QED BY <1>1, <1>2, <1>5, <1>13, RowsChange

\* The rebuild at work: its table r.table, copied for form r.to.
LEMMA AtRebuild ==
  ASSUME TypeInv, FormsInv, op.pc \in Rebuilding, op.stage \in 1 .. 4,
         NEW t, t = Rebuilds[op.stage].table,
         NEW to, to = Rebuilds[op.stage].to
  PROVE  /\ t \in Tables /\ to \in 2 .. 3 /\ to <= Latest[t] /\ Latest[t] \in 1 .. 3
         /\ \A u \in Tables : u # t => Least(u, op.stage + 1) = Least(u, op.stage)
         /\ Least(t, op.stage) = to - 1 /\ Least(t, op.stage + 1) = to
         /\ \A u \in Tables : /\ Least(u, op.stage) \in 1 .. 3
                              /\ Least(u, op.stage + 1) \in 1 .. 3
         /\ op.stage + 1 \in 1 .. 5
<1>1. op.stage + 1 \in 1 .. 5 /\ op.stage \in 1 .. 5
  OBVIOUS
<1> QED BY <1>1, Stages, Lows

LEMMA CopyToForms ==
  ASSUME TypeInv, FormsInv, CopyTo
  PROVE  FormsInv' /\ Keeps /\ NewSame
<1> DEFINE d == op.on
           t == Rebuilds[op.stage].table
           to == Rebuilds[op.stage].to
           table == db[d].table
<1>1. /\ op.pc = "copyTo" /\ UNCHANGED <<dialect, master>> /\ TypeOK /\ d \in Names /\ TypeInv'
      /\ Good(d, db[d].rev, table, db[d].side)
      /\ \A u \in Tables : table[u].form >= Least(u, op.stage)
      /\ op.stage \in 1 .. 5 /\ Len(Rebuilds) = 4
  BY Zenon, OnIt, RebuildTyped, RebuildStep, RebuildsAre
     DEF CopyTo, Step, Goes, Progress, Rebuilding
<1>2. CASE op' = [op EXCEPT !.pc = "stamp", !.stage = 1] /\ UNCHANGED db /\ op.stage = 5
  <2>1. op'.pc = "stamp" /\ op'.on = d
    BY Zenon, <1>1, <1>2, PcsAre, MovesOn DEF Same
  <2>2. \A u \in Tables : table[u].form >= Low[u]
    BY <1>1, <1>2, Stages
  <2>3. Progress(op', table, db[d].side)
    BY <2>1, <2>2 DEF Progress, Rebuilding
  <2> QED BY <1>1, <1>2, <2>1, <2>3, FormsSame
<1>3. CASE /\ op.stage \in 1 .. 4 /\ op' = [op EXCEPT !.stage = op.stage + 1] /\ UNCHANGED db
           /\ table[t].form >= to
  <2>1. op.stage + 1 \in 1 .. 5
    BY <1>3
  <2>2. op'.pc = "copyTo" /\ op'.on = d /\ op'.stage = op.stage + 1
    BY <1>1, <1>3, <2>1, Stays DEF Same
  <2>3. \A u \in Tables : table[u].form >= Least(u, op.stage + 1)
    <3>1. /\ \A u \in Tables : u # t => Least(u, op.stage + 1) = Least(u, op.stage)
          /\ Least(t, op.stage + 1) = to
      BY <1>1, <1>3, AtRebuild DEF Rebuilding
    <3> QED BY <1>1, <1>3, <3>1
  <2>4. Progress(op', table, db[d].side)
    BY <2>2, <2>3 DEF Progress, Rebuilding
  <2> QED BY <1>1, <1>3, <2>2, <2>4, FormsSame
<1>4. CASE /\ op.stage \in 1 .. 4 /\ op' = [op EXCEPT !.pc = "copy"]
           /\ ~ (table[t].form >= to)
  <2>1. /\ t \in Tables /\ to \in 2 .. 3 /\ to <= Latest[t] /\ Latest[t] \in 1 .. 3
        /\ Least(t, op.stage) = to - 1
    BY <1>1, <1>4, AtRebuild DEF Rebuilding
  <2>2. table[t].form \in 0 .. 3 /\ db[d].side[t] \in Table /\ db[d].side \in [Tables -> Table]
    BY <2>1, OnIt, DatabaseTypes
  <2>3. table[t].form = to - 1
    <3>1. table[t].form >= Least(t, op.stage)
      BY <1>1, <2>1
    <3> QED BY <1>4, <2>1, <2>2, <3>1
  <2>4. d = "file"
    <3>1. ASSUME d = "new" PROVE FALSE
      <4>1. table[t].form \in {0, Latest[t]}
        BY <1>1, <2>1, <3>1 DEF Good
      <4> QED BY <2>1, <2>3, <4>1
    <3> QED BY <1>1, <3>1 DEF Names
  <2>5. db[d].side[t].form \in {0, to}
    BY Zenon, <1>1, <1>4, <2>3 DEF Good, SideFits
  <2>6. op'.pc = "copy" /\ op'.on = d /\ op'.stage = op.stage
    BY <1>1, <1>4, PcsAre, Moves DEF Same
  <2>7. CASE db[d].side[t].form # 0 /\ UNCHANGED db
    <3>1. Progress(op', table, db[d].side)
      BY <1>1, <2>4, <2>5, <2>6, <2>7 DEF Progress, Rebuilding
    <3> QED BY <1>1, <2>6, <2>7, <3>1, FormsSame
  <2>8. CASE db[d].side[t].form = 0 /\ db' = [db EXCEPT ![d].side[t].form = to]
    <3> DEFINE side == [db[d].side EXCEPT ![t].form = to]
    <3>1. Becomes(d, db[d].rev, table, side)
      <4>1. to \in Form
        BY <2>1 DEF Form
      <4> QED BY Zenon, <1>1, <2>1, <2>8, <4>1, CopyToChanges
    <3>2. \A u \in Tables : /\ u # t => side[u] = db[d].side[u]
                            /\ side[u].rows = db[d].side[u].rows
      BY Zenon, <2>1, <2>2 DEF Table
    <3>3. side[t].form = to
      BY <2>1, <2>2 DEF Table
    <3> HIDE DEF side
    <3>4. KeepsRows(d, table, side)
      BY <3>2 DEF KeepsRows, Kept
    <3>5. SideFits(table, side)
      <4> SUFFICES ASSUME NEW n \in 1 .. 4,
                          table[Rebuilds[n].table].form = Rebuilds[n].to - 1
                   PROVE  side[Rebuilds[n].table].form \in {0, Rebuilds[n].to}
        BY DEF SideFits
      <4>1. Rebuilds[n].table \in Tables /\ Rebuilds[n].to \in 2 .. 3
        BY Stages
      <4>2. CASE Rebuilds[n].table = t
        BY <2>1, <2>3, <3>3, <4>1, <4>2
      <4>3. CASE Rebuilds[n].table # t
        BY Zenon, <1>1, <3>2, <4>1, <4>3 DEF Good, SideFits
      <4> QED BY <4>2, <4>3
    <3>6. \A u \in Tables : side[u].form = 0 => side[u].rows = {}
      BY <1>1, <2>1, <3>2, <3>3 DEF Good
    <3>7. Good(d, db[d].rev, table, side)
      BY <1>1, <2>4, <3>5, <3>6 DEF Good
    <3>8. Progress(op', table, side)
      BY <1>1, <2>4, <2>6, <3>3 DEF Progress, Rebuilding
    <3>9. FormsInv'
      BY <1>1, <2>6, <3>1, <3>7, <3>8, FormsChange
    <3> QED BY <1>1, <3>1, <3>4, <3>9, RowsChange
  <2>9. \/ db[d].side[t].form # 0 /\ UNCHANGED db
        \/ db[d].side[t].form = 0 /\ db' = [db EXCEPT ![d].side[t].form = to]
    <3>1. op'.pc = "copy" /\ op.pc = "copyTo"
      BY <1>1, <2>6
    <3>2. op' # [op EXCEPT !.pc = "stamp", !.stage = 1]
      BY Zenon, <1>1, <3>1, PcsAre, MovesOn
    <3>3. op' # [op EXCEPT !.stage = op.stage + 1]
      <4>1. op.stage + 1 \in 1 .. 5
        BY <1>4
      <4> QED BY <1>1, <3>1, <4>1, Stays
    <3> QED BY Zenon, <3>2, <3>3, CopyToDoes
  <2> QED BY Zenon, <2>7, <2>8, <2>9
<1>5. CASE op.stage = 5
  <2>1. op' = [op EXCEPT !.pc = "stamp", !.stage = 1] /\ UNCHANGED db
    BY <1>1, <1>5 DEF CopyTo, Goes
  <2> QED BY <1>2, <1>5, <2>1
<1>6. CASE op.stage # 5 /\ table[t].form >= to
  <2>1. op.stage \in 1 .. 4 /\ ~ (op.stage > Len(Rebuilds))
    BY <1>1, <1>6
  <2>2. op' = [op EXCEPT !.stage = op.stage + 1] /\ UNCHANGED db
    BY <1>6, <2>1 DEF CopyTo, Goes
  <2> QED BY <1>3, <1>6, <2>1, <2>2
<1>7. CASE op.stage # 5 /\ ~ (table[t].form >= to)
  <2>1. op.stage \in 1 .. 4 /\ ~ (op.stage > Len(Rebuilds))
    BY <1>1, <1>7
  <2>2. op' = [op EXCEPT !.pc = "copy"]
    BY Zenon, <1>7, <2>1 DEF CopyTo, Goes
  <2> QED BY <1>4, <1>7, <2>1, <2>2
<1> QED BY <1>5, <1>6, <1>7

LEMMA CopyForms ==
  ASSUME TypeInv, FormsInv, Copy
  PROVE  FormsInv' /\ Keeps /\ NewSame
<1> DEFINE d == op.on
           t == Rebuilds[op.stage].table
           to == Rebuilds[op.stage].to
           table == db[d].table
           side == [db[d].side EXCEPT ![t].rows = @ \cup db[d].table[t].rows]
<1>1. /\ op.pc = "copy" /\ UNCHANGED <<dialect, master>> /\ TypeOK /\ d \in Names /\ TypeInv'
      /\ Good(d, db[d].rev, table, db[d].side)
      /\ \A u \in Tables : table[u].form >= Least(u, op.stage)
      /\ op.stage \in 1 .. 4 /\ db[d].side[t].form = to /\ d = "file"
  BY Zenon, OnIt, RebuildTyped, RebuildStep DEF Copy, Step, Goes, Progress, Rebuilding
<1>2. CASE op' = Nobody /\ UNCHANGED db
  <2>1. Quiet(op')
    BY <1>2 DEF Quiet, Nobody, Rebuilding
  <2> QED BY <1>1, <1>2, <2>1, FormsSame
<1>3. CASE /\ db' = [db EXCEPT ![d].side[t].rows = @ \cup db[d].table[t].rows]
           /\ op' = [op EXCEPT !.pc = "drop"]
  <2>1. t \in Tables /\ to \in 2 .. 3
    BY <1>1, AtRebuild DEF Rebuilding
  <2>2. /\ table[t] \in Table /\ db[d].side[t] \in Table /\ db[d].side \in [Tables -> Table]
        /\ table[t].rows \in SUBSET Ids
    <3>1. table \in [Tables -> Table] /\ db[d].side \in [Tables -> Table]
      BY Zenon, <1>1, DatabaseTypes
    <3>2. \A x \in Table : x.rows \in SUBSET Ids
      BY DEF Table
    <3> HIDE DEF Table
    <3> QED BY <2>1, <3>1, <3>2
  <2>3. Becomes(d, db[d].rev, table, side)
    BY Zenon, <1>1, <1>3, <2>1, <2>2, CopyChanges
  <2>4. \A u \in Tables : /\ u # t => side[u] = db[d].side[u]
                          /\ side[u].form = db[d].side[u].form
    BY Zenon, <2>1, <2>2 DEF Table
  <2>5. side[t].rows = db[d].side[t].rows \cup table[t].rows
    BY <2>1, <2>2 DEF Table
  <2> HIDE DEF side
  <2>6. KeepsRows(d, table, side)
    BY Zenon, <1>1, <2>4, <2>5 DEF KeepsRows, Kept
  <2>7. SideFits(table, side)
    BY <1>1, <2>4, RebuildsAre DEF Good, SideFits
  <2>8. \A u \in Tables : side[u].form = 0 => side[u].rows = {}
    BY <1>1, <2>1, <2>4 DEF Good
  <2>9. Good(d, db[d].rev, table, side)
    BY <1>1, <2>7, <2>8 DEF Good
  <2>10. op'.pc = "drop" /\ op'.on = d /\ op'.stage = op.stage
    BY Zenon, <1>1, <1>3, PcsAre, Moves DEF Same
  <2>11. Progress(op', table, side)
    BY Zenon, <1>1, <2>1, <2>4, <2>5, <2>10 DEF Progress, Rebuilding
  <2>12. FormsInv'
    BY <1>1, <2>3, <2>9, <2>10, <2>11, FormsChange
  <2> QED BY <1>1, <2>3, <2>6, <2>12, RowsChange
<1> QED BY Zenon, <1>2, <1>3 DEF Copy, Goes

LEMMA DropForms ==
  ASSUME TypeInv, FormsInv, Drop
  PROVE  FormsInv' /\ Keeps /\ NewSame
<1> DEFINE d == op.on
           t == Rebuilds[op.stage].table
           to == Rebuilds[op.stage].to
           side == db[d].side
           table == [db[d].table EXCEPT ![t] = Absent]
<1>1. /\ op.pc = "drop" /\ UNCHANGED <<dialect, master>> /\ TypeOK /\ d \in Names /\ TypeInv'
      /\ Good(d, db[d].rev, db[d].table, side)
      /\ \A u \in Tables : db[d].table[u].form >= Least(u, op.stage)
      /\ op.stage \in 1 .. 4 /\ side[t].form = to /\ d = "file"
      /\ db[d].table[t].rows \subseteq side[t].rows
      /\ db' = [db EXCEPT ![d].table[t] = Absent]
      /\ op' = [op EXCEPT !.pc = "rename"]
      /\ db[d].rev \in {"none", "blank"}
  BY Zenon, OnIt, RebuildTyped, RebuildStep DEF Drop, Step, Goes, Progress, Rebuilding
<1>2. t \in Tables /\ to \in 2 .. 3
  BY <1>1, AtRebuild DEF Rebuilding
<1>3. Becomes(d, db[d].rev, table, side)
  BY Zenon, <1>1, <1>2, DropChanges
<1>4. (\A u \in Tables : u # t => table[u] = db[d].table[u]) /\ table[t] = Absent
  <2>1. db[d].table \in [Tables -> Table]
    BY <1>1, DatabaseTypes
  <2> QED BY <1>2, <2>1
<1>5. Absent.form = 0 /\ Absent.rows = {}
  BY DEF Absent
<1> HIDE DEF table
<1>6. KeepsRows(d, table, side)
  BY <1>1, <1>4, <1>5 DEF KeepsRows, Kept
<1>7. SideFits(table, side)
  <2> SUFFICES ASSUME NEW n \in 1 .. 4,
                      table[Rebuilds[n].table].form = Rebuilds[n].to - 1
               PROVE  side[Rebuilds[n].table].form \in {0, Rebuilds[n].to}
    BY DEF SideFits
  <2>1. Rebuilds[n].table \in Tables /\ Rebuilds[n].to \in 2 .. 3
    BY Stages
  <2>2. Rebuilds[n].table # t
    BY <1>4, <1>5, <2>1
  <2> QED BY <1>1, <1>4, <2>1, <2>2 DEF Good, SideFits
<1>8. ASSUME NEW u \in Tables
      PROVE  /\ table[u].form <= Latest[u]
             /\ table[u].form = 0 => table[u].rows = {}
             /\ side[u].form = 0 => side[u].rows = {}
  <2>1. Latest[u] \in 1 .. 3
    BY Lows
  <2> QED BY <1>1, <1>4, <1>5, <2>1 DEF Good
<1>9. Good(d, db[d].rev, table, side)
  BY <1>1, <1>7, <1>8 DEF Good, Sqlite
<1>10. op'.pc = "rename" /\ op'.on = d /\ op'.stage = op.stage
  BY <1>1, PcsAre, Moves DEF Same
<1>11. Progress(op', table, side)
  BY <1>1, <1>4, <1>10 DEF Progress, Rebuilding
<1>12. FormsInv'
  BY <1>1, <1>3, <1>9, <1>10, <1>11, FormsChange
<1> QED BY <1>1, <1>3, <1>6, <1>12, RowsChange

LEMMA RenameForms ==
  ASSUME TypeInv, FormsInv, Rename
  PROVE  FormsInv' /\ Keeps /\ NewSame
<1> DEFINE d == op.on
           t == Rebuilds[op.stage].table
           to == Rebuilds[op.stage].to
           table == [db[d].table EXCEPT ![t] = db[d].side[t]]
           side == [db[d].side EXCEPT ![t] = Absent]
<1>1. /\ op.pc = "rename" /\ UNCHANGED <<dialect, master>> /\ TypeOK /\ d \in Names /\ TypeInv'
      /\ Good(d, db[d].rev, db[d].table, db[d].side)
      /\ \A u \in Tables : u # t => db[d].table[u].form >= Least(u, op.stage)
      /\ op.stage \in 1 .. 4 /\ db[d].side[t].form = to /\ d = "file"
      /\ db[d].table[t] = Absent
      /\ db' = [db EXCEPT ![d].table[t] = db[d].side[t], ![d].side[t] = Absent]
      /\ op' = [op EXCEPT !.pc = "copyTo", !.stage = op.stage + 1]
      /\ db[d].rev \in {"none", "blank"}
  BY Zenon, OnIt, RebuildTyped, RebuildStep DEF Rename, Step, Goes, Progress, Rebuilding
<1>2. /\ t \in Tables /\ to \in 2 .. 3 /\ to <= Latest[t] /\ Latest[t] \in 1 .. 3
      /\ \A u \in Tables : u # t => Least(u, op.stage + 1) = Least(u, op.stage)
      /\ Least(t, op.stage + 1) = to
      /\ op.stage + 1 \in 1 .. 5
  BY <1>1, AtRebuild DEF Rebuilding
<1>3. Becomes(d, db[d].rev, table, side)
  BY Zenon, <1>1, <1>2, RenameChanges
<1>4. /\ \A u \in Tables : u # t => table[u] = db[d].table[u] /\ side[u] = db[d].side[u]
      /\ table[t] = db[d].side[t] /\ side[t] = Absent
  <2>1. db[d].table \in [Tables -> Table] /\ db[d].side \in [Tables -> Table]
    BY <1>1, DatabaseTypes
  <2> QED BY <1>2, <2>1
<1>5. Absent.form = 0 /\ Absent.rows = {}
  BY DEF Absent
<1> HIDE DEF table, side
<1>6. KeepsRows(d, table, side)
  BY <1>1, <1>4, <1>5 DEF KeepsRows, Kept
<1>7. SideFits(table, side)
  <2> SUFFICES ASSUME NEW n \in 1 .. 4,
                      table[Rebuilds[n].table].form = Rebuilds[n].to - 1
               PROVE  side[Rebuilds[n].table].form \in {0, Rebuilds[n].to}
    BY DEF SideFits
  <2>1. Rebuilds[n].table \in Tables
    BY Stages
  <2>2. CASE Rebuilds[n].table = t
    BY <1>4, <1>5, <2>2
  <2>3. CASE Rebuilds[n].table # t
    BY <1>1, <1>4, <2>1, <2>3 DEF Good, SideFits
  <2> QED BY <2>2, <2>3
<1>8. ASSUME NEW u \in Tables
      PROVE  /\ table[u].form <= Latest[u]
             /\ table[u].form = 0 => table[u].rows = {}
             /\ side[u].form = 0 => side[u].rows = {}
  <2>1. CASE u = t
    BY Zenon, <1>1, <1>2, <1>4, <1>5, <2>1 DEF Good
  <2>2. CASE u # t
    BY <1>1, <1>4, <2>2 DEF Good
  <2> QED BY <2>1, <2>2
<1>9. Good(d, db[d].rev, table, side)
  BY <1>1, <1>7, <1>8 DEF Good, Sqlite
<1>10. op'.pc = "copyTo" /\ op'.on = d /\ op'.stage = op.stage + 1
  BY Zenon, <1>1, <1>2, PcsAre, MovesOn DEF Same
<1>11. \A u \in Tables : table[u].form >= Least(u, op.stage + 1)
  BY <1>1, <1>2, <1>4
<1>12. Progress(op', table, side)
  BY <1>10, <1>11 DEF Progress, Rebuilding
<1>13. FormsInv'
  BY <1>1, <1>3, <1>9, <1>10, <1>12, FormsChange
<1> QED BY <1>1, <1>3, <1>6, <1>13, RowsChange

-----------------------------------------------------------------------------
\* The steps that no schema statement is one of.
LEMMA IdleForms ==
  ASSUME TypeInv, FormsInv, TypeInv',
         \/ Select \/ WriteFile \/ OpenManifest \/ WriteManifest
         \/ Verify \/ Probe \/ LockTimeout \/ Count
         \/ Start \/ Stop \/ Crash
         \/ \E o \in Beginnings : Command(o)
         \/ \E d \in Names : Up(d)
         \/ UNCHANGED vars
  PROVE  FormsInv' /\ Keeps /\ NewSame
<1>1. UNCHANGED <<db, dialect>> /\ (master' = master \/ master' = "down") /\ op \in Process
  BY DEF Select, WriteFile, OpenManifest, WriteManifest, Verify, Probe, LockTimeout, Count,
         Start, Stop, Crash, Command, Up, vars, Goes, Calm, TypeInv, TypeOK
<1>2. Quiet(op') \/ UNCHANGED op
  <2>1. CASE Select
    <3>1. op' = Nobody
            \/ op' = [op EXCEPT !.pc = "write", !.got = db["file"].table[EXPORT_ORDER[op.stage]].rows]
      BY <2>1 DEF Select, Goes
    <3>2. op' = Nobody \/ op'.pc = "write"
      BY <1>1, <3>1 DEF Process
    <3> QED BY <3>2 DEF Quiet, Nobody, Rebuilding
  <2>2. CASE WriteFile
    <3>1. op'.pc = "manifest" \/ op'.pc = "select"
      BY <2>2, WriteFileDoes
    <3> QED BY <3>1 DEF Quiet, Rebuilding
  <2>3. CASE OpenManifest
    <3>1. op'.pc = "manifested"
      BY <1>1, <2>3 DEF OpenManifest, Goes, Process
    <3> QED BY <3>1 DEF Quiet, Rebuilding
  <2>4. CASE WriteManifest
    BY <2>4 DEF WriteManifest, Goes, Quiet, Nobody, Rebuilding
  <2>5. CASE Verify \/ LockTimeout \/ Count \/ Crash
    <3>1. op' = Nobody \/ op' = [op EXCEPT !.pc = "classify"] \/ Count
      BY <2>5 DEF Verify, LockTimeout, Crash, Goes
    <3>2. op' = Nobody \/ op'.pc \in {"classify", "count"}
      BY <1>1, <3>1, CountMoves DEF Process
    <3> QED BY <3>2 DEF Quiet, Nobody, Rebuilding
  <2>6. CASE Probe
    <3>1. op' = Nobody \/ op'.pc = "load"
      <4>1. op' = Nobody
              \/ op' = [op EXCEPT !.pc = "load",
                                  !.found = \E t \in Tables : db["new"].table[t].rows # {}]
        BY <2>6 DEF Probe, Goes
      <4> QED BY <1>1, <4>1 DEF Process
    <3> QED BY <3>1 DEF Quiet, Nobody, Rebuilding
  <2>7. CASE Start
    BY <2>7, StartTyped DEF Quiet, Rebuilding
  <2>8. CASE \E o \in Beginnings : Command(o)
    BY <2>8, BeginningsAre DEF Command, Begins, Quiet, Rebuilding
  <2>9. CASE Stop \/ (\E d \in Names : Up(d)) \/ UNCHANGED vars
    BY <2>9 DEF Stop, Up, vars
  <2> QED BY <2>1, <2>2, <2>3, <2>4, <2>5, <2>6, <2>7, <2>8, <2>9
<1>3. Quiet(op') \/ (op'.on = op.on /\ Progress(op', db[op.on].table, db[op.on].side))
  BY <1>2, OnIt
<1> QED BY <1>1, <1>3, FormsSame

\* Rows that change in a database whose tables stay as they are.
LEMMA RowsGood ==
  ASSUME FormsInv, NEW d \in Names, NEW table,
         \A t \in Tables : /\ table[t].form = db[d].table[t].form
                           /\ table[t].form = 0 => table[t].rows = {}
  PROVE  Good(d, db[d].rev, table, db[d].side)
<1>1. Good(d, db[d].rev, db[d].table, db[d].side)
  BY DEF FormsInv
<1>2. SideFits(table, db[d].side)
  BY <1>1, RebuildsAre DEF Good, SideFits
<1> QED BY <1>1, <1>2 DEF Good

\* A table that is there stays there until the process works on it.
LEMMA WriteForms ==
  ASSUME TypeInv, FormsInv, NEW t \in Tables, NEW i \in Ids, Write(t, i)
  PROVE  FormsInv' /\ Keeps
<1> DEFINE d == master
           table == [db[d].table EXCEPT ![t].rows = @ \cup {i}]
<1>1. /\ d \in Names /\ Becomes(d, db[d].rev, table, db[d].side) /\ TypeInv'
      /\ UNCHANGED <<dialect, master, op>> /\ TypeOK /\ db[d].rev = "head"
  <2>1. master \in Names
    BY DEF Write, TypeInv, TypeOK
  <2>2. Becomes(master, db[master].rev,
                [db[master].table EXCEPT ![t].rows = @ \cup {i}], db[master].side)
    BY WriteChanges DEF TypeInv
  <2>3. TypeInv'
    BY OthersTyped
  <2>4. db[master].rev = "head"
    BY <2>1 DEF FormsInv, Names
  <2> QED BY <2>1, <2>2, <2>3, <2>4 DEF Write, TypeInv
<1>2. db[d].table \in [Tables -> Table]
  BY <1>1, DatabaseTypes
<1>3. \A u \in Tables : /\ table[u].form = db[d].table[u].form
                        /\ db[d].table[u].rows \subseteq table[u].rows
  BY <1>2 DEF Table
<1>4. db[d].table[t].form # 0
  <2>1. db[d].table[t].form >= Low[t] /\ Low[t] \in 1 .. 3
    BY <1>1, Lows DEF FormsInv, Good
  <2>2. db[d].table[t].form \in 0 .. 3
    BY <1>2 DEF Table, Form
  <2> QED BY <2>1, <2>2
<1>5. \A u \in Tables : u # t => table[u] = db[d].table[u]
  BY <1>2
<1> HIDE DEF table
<1>6. Good(d, db[d].rev, table, db[d].side)
  <2>1. \A u \in Tables : db[d].table[u].form = 0 => db[d].table[u].rows = {}
    BY <1>1 DEF FormsInv, Good
  <2>2. \A u \in Tables : table[u].form = 0 => table[u].rows = {}
    BY <1>3, <1>4, <1>5, <2>1
  <2> QED BY <1>1, <1>3, <2>2, RowsGood
<1>7. Quiet(op') \/ op.on # d
  <2>1. op.pc \in {"createRest", "stamp"} \cup Rebuilding => db[op.on].rev \in {"none", "blank"}
    BY DEF TypeInv, OpInv, SchemaPcs, Rebuilding
  <2> QED BY <1>1, <2>1 DEF Quiet
<1>8. FormsInv'
  <2>1. CASE Quiet(op')
    BY <1>1, <1>6, <2>1, FormsChange
  <2>2. CASE op.on # d
    <3>1. ASSUME NEW e \in Names PROVE Good(e, db[e].rev, db[e].table, db[e].side)'
      <4>1. CASE e # d
        <5>1. Good(e, db[e].rev, db[e].table, db[e].side) /\ db'[e] = db[e]
          BY <1>1, <4>1 DEF FormsInv, Becomes
        <5> QED BY <1>1, <5>1 DEF Good, SideFits, Sqlite
      <4>2. CASE e = d
        <5>1. /\ db'[d].rev = db[d].rev
              /\ \A u \in Tables : db'[d].table[u] = table[u] /\ db'[d].side[u] = db[d].side[u]
          BY <1>1 DEF Becomes
        <5>2. SideFits(db'[d].table, db'[d].side)
          BY <1>6, <5>1, RebuildsAre DEF Good, SideFits
        <5> QED BY <1>1, <1>6, <4>2, <5>1, <5>2 DEF Good, Sqlite
      <4> QED BY <4>1, <4>2
    <3>2. db'[op.on] = db[op.on]
      BY <1>1, <2>2, OnIt DEF Becomes
    <3>3. Progress(op', db'[op'.on].table, db'[op'.on].side)
      BY <1>1, <3>2, OnIt
    <3>4. db'[d].rev = "head"
      BY <1>1 DEF Becomes
    <3> QED BY <1>1, <3>1, <3>3, <3>4 DEF FormsInv
  <2> QED BY <1>7, <2>1, <2>2
<1>9. Keeps
  <2>0. \A e \in Names : db[e].rev = "head" => db'[e].rev = "head"
    BY <1>1 DEF Becomes
  <2> SUFFICES ASSUME NEW e \in Names, NEW u \in Tables
               PROVE  Kept(e, u) \subseteq Kept(e, u)'
    BY <2>0 DEF Keeps
  <2>1. CASE e = d
    <3>1. db'[d].table[u] = table[u] /\ db'[d].side[u] = db[d].side[u]
      BY <1>1 DEF Becomes
    <3> QED BY <1>3, <2>1, <3>1 DEF Kept
  <2>2. CASE e # d
    BY <1>1, <2>2 DEF Becomes, Kept
  <2> QED BY <2>1, <2>2
<1> QED BY <1>8, <1>9

\* A running master only adds rows, and a topic only to a workspace.
LEMMA WriteRows ==
  ASSUME TypeInv, NEW t \in Tables, NEW i \in Ids, Write(t, i)
  PROVE  /\ \A d \in Names, u \in Tables :
              db[d].table[u].rows \subseteq db'[d].table[u].rows
         /\ Closed(RowsOf("new")) => Closed(RowsOf("new"))'
<1> DEFINE table == [db[master].table EXCEPT ![t].rows = @ \cup {i}]
<1>1. master \in Names /\ Becomes(master, db[master].rev, table, db[master].side)
  BY WriteChanges DEF TypeInv
<1>2. db[master].table \in [Tables -> Table]
  BY <1>1, DatabaseTypes DEF TypeInv
<1>3. \A u \in Tables : table[u].rows = IF u = t THEN db[master].table[u].rows \cup {i}
                                        ELSE db[master].table[u].rows
  BY <1>2 DEF Table
<1> HIDE DEF table
<1>4. \A d \in Names, u \in Tables :
        db'[d].table[u].rows = IF d = master /\ u = t THEN db[d].table[u].rows \cup {i}
                               ELSE db[d].table[u].rows
  <2> TAKE d \in Names, u \in Tables
  <2>1. CASE d = master
    <3>1. db'[d].table[u] = table[u]
      BY <1>1, <2>1 DEF Becomes
    <3> QED BY <1>3, <2>1, <3>1
  <2>2. CASE d # master
    BY <1>1, <2>2 DEF Becomes
  <2> QED BY <2>1, <2>2
<1>5. t = "topics" => i \in db[master].table["workspaces"].rows
  BY DEF Write
<1>6. "new" \in Names /\ "topics" \in Tables /\ "workspaces" \in Tables
  BY TablesAre DEF Names
<1> QED BY Zenon, <1>4, <1>5, <1>6 DEF Closed, RowsOf

\* The target of an import that loads is at the head.
LoadHead == op.pc \in {"probe", "load", "count"} => db["new"].rev = "head"

LEMMA LoadForms ==
  ASSUME TypeInv, FormsInv, LoadHead, Load
  PROVE  /\ FormsInv'
         /\ \A d \in Names : db[d].rev = "head" => db'[d].rev = "head"
<1>1. op.pc = "load" /\ TypeOK /\ TypeInv' /\ UNCHANGED <<dialect, master>> /\ "new" \in Names
  BY LoadCountTyped DEF Load, Step, Goes, TypeInv, Names
<1>2. CASE op' = Nobody /\ UNCHANGED db
  <2>1. Quiet(op')
    BY <1>2 DEF Quiet, Nobody, Rebuilding
  <2> QED BY <1>1, <1>2, <2>1, FormsSame
<1>3. CASE /\ Becomes("new", db["new"].rev, LoadTables, db["new"].side)
           /\ op' = [op EXCEPT !.pc = "count", !.stage = 1]
  <2>1. op'.pc = "count"
    BY <1>1, <1>3, PcsAre, MovesOn
  <2>2. Quiet(op')
    BY <2>1 DEF Quiet, Rebuilding
  <2>3. \A t \in Tables : db["new"].table[t].form # 0
    <3> TAKE t \in Tables
    <3>1. Low[t] \in 1 .. 3
      BY Lows
    <3>2. db["new"].rev = "head"
      BY <1>1 DEF LoadHead
    <3>3. db["new"].table[t].form >= Low[t]
      BY <1>1, <3>2 DEF FormsInv, Good
    <3> QED BY <3>1, <3>3
  <2>4. \A t \in Tables : LoadTables[t].form = db["new"].table[t].form
    BY <1>1, LoadedTypes
  <2>5. Good("new", db["new"].rev, LoadTables, db["new"].side)
    BY <1>1, <2>3, <2>4, RowsGood
  <2>6. FormsInv'
    BY <1>1, <1>3, <2>2, <2>5, FormsChange
  <2> QED BY <1>3, <2>6 DEF Becomes
<1> QED BY <1>2, <1>3, LoadDoes

\* Every step but the two that are meant to change rows keeps them.
LEMMA FormsStep ==
  ASSUME TypeInv, FormsInv, LoadHead, [Next]_vars
  PROVE  /\ FormsInv'
         /\ \A d \in Names : db[d].rev = "head" => db'[d].rev = "head"
         /\ Load \/ Keeps
         /\ Load \/ NewSame \/ \E t \in Tables, i \in Ids : Write(t, i)
<1>0. TypeInv'
  BY TypeStep
<1>1. ASSUME Keeps PROVE \A d \in Names : db[d].rev = "head" => db'[d].rev = "head"
  BY <1>1 DEF Keeps
<1>2. CASE Classify \/ Create \/ CreateRest \/ Stamp \/ Schema
  BY <1>1, <1>2, ClassifyForms, CreateForms, CreateRestForms, StampForms, SchemaForms
<1>3. CASE CopyTo \/ Copy \/ Drop \/ Rename
  BY <1>1, <1>3, CopyToForms, CopyForms, DropForms, RenameForms
<1>4. CASE Load
  BY <1>4, LoadForms
<1>5. ASSUME NEW t \in Tables, NEW i \in Ids, Write(t, i)
      PROVE  FormsInv' /\ Keeps
  BY <1>5, WriteForms
<1>6. CASE \/ Select \/ WriteFile \/ OpenManifest \/ WriteManifest
           \/ Verify \/ Probe \/ LockTimeout \/ Count
           \/ Start \/ Stop \/ Crash
           \/ \E o \in Beginnings : Command(o)
           \/ \E d \in Names : Up(d)
           \/ UNCHANGED vars
  BY <1>0, <1>1, <1>6, IdleForms
<1> QED BY <1>1, <1>2, <1>3, <1>4, <1>5, <1>6, Cases

LEMMA LoadHeadStep ==
  ASSUME TypeInv, FormsInv, LoadHead, [Next]_vars
  PROVE  LoadHead'
<1>1. \A d \in Names : db[d].rev = "head" => db'[d].rev = "head"
  BY FormsStep
<1>2. "new" \in Names /\ op \in Process /\ TypeOK
  BY DEF Names, TypeInv, TypeOK
<1>3. CASE op'.pc \notin {"probe", "load", "count"}
  BY <1>3 DEF LoadHead
<1>4. CASE op.pc \in {"probe", "load", "count"}
  BY <1>1, <1>2, <1>4 DEF LoadHead
<1>5. CASE op.pc \notin {"probe", "load", "count"} /\ op'.pc \in {"probe", "load", "count"}
  <2>1. Classify \/ Stamp
    <3>1. ~ (Verify \/ Crash \/ Probe \/ LockTimeout \/ Load \/ Count \/ Start)
      <4>1. ~ (Probe \/ LockTimeout \/ Load \/ Count)
        BY <1>5 DEF Probe, LockTimeout, Load, Count, Step
      <4>2. ASSUME Verify PROVE FALSE
        <5>1. op' = Nobody \/ op' = [op EXCEPT !.pc = "classify"]
          BY <4>2 DEF Verify, Goes
        <5>2. op' = Nobody \/ op'.pc = "classify"
          BY <1>2, <5>1 DEF Process
        <5> QED BY <1>5, <5>2 DEF Nobody
      <4>3. ~ Crash
        BY <1>5 DEF Crash, Nobody
      <4>4. ~ Start
        BY <1>5, StartTyped
      <4> QED BY <4>1, <4>2, <4>3, <4>4
    <3>2. ~ (Stop \/ (\E d \in Names : Up(d)) \/ (\E t \in Tables, i \in Ids : Write(t, i))
             \/ UNCHANGED vars)
      BY <1>5 DEF Stop, Up, Write, vars
    <3>3. ~ \E o \in Beginnings : Command(o)
      BY <1>5, BeginningsAre DEF Command, Begins
    <3>4. ~ (Create \/ CreateRest \/ Schema)
      <4>1. ASSUME Create \/ CreateRest \/ Schema
            PROVE  \/ op' = Nobody \/ op' = [op EXCEPT !.pc = "classify"]
                   \/ op' = [op EXCEPT !.pc = "createRest"] \/ op' = [op EXCEPT !.pc = "stamp"]
                   \/ op' = [op EXCEPT !.pc = "copyTo", !.stage = 1]
        BY <4>1 DEF Create, CreateRest, Schema, Goes
      <4>2. ASSUME Create \/ CreateRest \/ Schema
            PROVE  op' = Nobody \/ op'.pc \in {"classify", "createRest", "stamp", "copyTo"}
        BY Zenon, <1>2, <4>1, <4>2, PcsAre, Moves, MovesOn
      <4> QED BY <1>5, <4>2 DEF Nobody
    <3>5. ~ (CopyTo \/ Copy \/ Drop \/ Rename)
      <4>1. ASSUME CopyTo \/ Copy \/ Drop \/ Rename
            PROVE  op' = Nobody \/ op'.pc \in Rebuilding \cup {"stamp"}
        BY <4>1, RebuildGoes DEF Rebuilding
      <4> QED BY <1>5, <4>1 DEF Nobody, Rebuilding
    <3>6. ~ (Select \/ WriteFile \/ OpenManifest \/ WriteManifest)
      <4>1. ~ WriteFile
        BY <1>5, WriteFileDoes
      <4>2. ASSUME Select PROVE FALSE
        <5>1. op' = Nobody
            \/ op' = [op EXCEPT !.pc = "write", !.got = db["file"].table[EXPORT_ORDER[op.stage]].rows]
          BY <4>2 DEF Select, Goes
        <5>2. op' = Nobody \/ op'.pc = "write"
          BY <1>2, <5>1 DEF Process
        <5> QED BY <1>5, <5>2 DEF Nobody
      <4>3. ASSUME OpenManifest PROVE FALSE
        <5>1. op' = [op EXCEPT !.pc = "manifested"]
          BY <4>3 DEF OpenManifest, Goes
        <5>2. op'.pc = "manifested"
          BY <1>2, <5>1, PcsAre, Moves
        <5> QED BY <1>5, <5>2
      <4>4. ASSUME WriteManifest PROVE FALSE
        <5>1. op' = Nobody \/ op' = [Nobody EXCEPT !.cmd = "both", !.on = "new", !.pc = "verify"]
          BY <4>4 DEF WriteManifest, Goes
        <5>2. op' = Nobody \/ op' = [cmd |-> "both", on |-> "new", pc |-> "verify", stage |-> 1,
                                     got |-> {}, meta |-> [t \in Tables |-> {}],
                                     yes |-> FALSE, found |-> FALSE]
          BY <5>1 DEF Nobody
        <5>3. op' = Nobody \/ op'.pc = "verify"
          BY <5>2
        <5> QED BY <1>5, <5>3 DEF Nobody
      <4> QED BY <4>1, <4>2, <4>3, <4>4
    <3> QED BY <3>1, <3>2, <3>3, <3>4, <3>5, <3>6, Cases
  <2>2. op' # Nobody
    BY <1>5 DEF Nobody
  <2>3. CASE Classify
    <3>1. CASE db[op.on].rev = "head"
      <4>1. op' = AtHeadNow.to /\ op.pc = "classify" /\ UNCHANGED db
        BY <2>3, <3>1 DEF Classify, Unstamped, Goes, Step
      <4>2. op.on = "new"
        BY <2>2, <4>1, AtHeadTypes
      <4> QED BY <3>1, <4>1, <4>2 DEF LoadHead
    <3>2. CASE db[op.on].rev # "head"
      <4>1. \/ op' = Nobody
            \/ op' = [op EXCEPT !.pc = "schema"] \/ op' = [op EXCEPT !.pc = "create"]
        BY <2>3, <3>2 DEF Classify, Goes
      <4>2. op'.pc \in {"idle", "schema", "create"}
        BY <1>2, <4>1 DEF Process, Nobody
      <4> QED BY <1>5, <4>2
    <3> QED BY <3>1, <3>2
  <2>4. CASE Stamp
    <3>1. op' = AtHeadNow.to /\ op.pc = "stamp" /\ db' = [db EXCEPT ![op.on].rev = "head"]
      BY <2>4 DEF Stamp, Goes, Step
    <3>2. op.on = "new"
      BY <2>2, <3>1, AtHeadTypes
    <3>3. db'["new"].rev = "head"
      BY <1>2, <3>1, <3>2, StampChanges DEF Becomes
    <3> QED BY <3>3 DEF LoadHead
  <2> QED BY <2>1, <2>3, <2>4
<1> QED BY <1>3, <1>4, <1>5

LEMMA FormsInit ==
  ASSUME Init
  PROVE  FormsInv /\ LoadHead
<1> DEFINE none == [t \in Tables |-> Absent]
           rowed(f) == [t \in Tables |-> [form |-> f[t], rows |-> IF f[t] = 0 THEN {} ELSE {1}]]
           legacy == { [Latest EXCEPT !.workspaces = 1, !.staffs = 0, !.event_actions = 0],
                       [Latest EXCEPT !.workspaces = 1, !.staffs = 1, !.event_actions = 1],
                       [Latest EXCEPT !.workspaces = 2, !.staffs = 1, !.event_actions = 1],
                       [Latest EXCEPT !.staffs = 1, !.event_actions = 2],
                       [Latest EXCEPT !.staffs = 1],
                       Latest }
           Sound(x) == /\ x.side = none
                       /\ \A t \in Tables :
                            /\ x.table[t].form \in 0 .. 3 /\ x.table[t].form <= Latest[t]
                            /\ x.table[t].form = 0 => x.table[t].rows = {}
                            /\ x.rev = "head" => x.table[t].form >= Low[t]
           Even(x) == \/ \A t \in Tables : x.table[t].form = 0
                      \/ \A t \in Tables : x.table[t].form = Latest[t]
<1>1. ASSUME NEW x, Sound(x), NEW d \in Names, d = "new" => Even(x)
      PROVE  Good(d, x.rev, x.table, x.side)
  <2>1. \A t \in Tables : x.side[t].form = 0 /\ x.side[t].rows = {} /\ x.side[t] = Absent
    BY <1>1 DEF Absent
  <2>2. SideFits(x.table, x.side)
    BY <2>1, RebuildsAre DEF SideFits
  <2>3. d # "new" => Sqlite(d)
    BY DEF Names, Sqlite
  <2>4. \A t \in Tables : Latest[t] # 0
    BY Lows
  <2> QED BY <1>1, <2>1, <2>2, <2>3, <2>4 DEF Good
<1>2. Empty = [rev |-> "none", table |-> none, side |-> none]
  BY DEF Empty
<1>3. Sound(Empty) /\ Even(Empty)
  BY <1>2, Lows DEF Absent
<1>4. \A s \in SUBSET Ids :
        AtHead(s) = [rev |-> "head", side |-> none,
                     table |-> [t \in Tables |-> [form |-> Latest[t], rows |-> s]]]
  <2> TAKE s \in SUBSET Ids
  <2> DEFINE all == [t \in Tables |-> [form |-> Latest[t], rows |-> s]]
  <2>1. AtHead(s) = [Empty EXCEPT !.rev = "head", !.table = all]
    BY DEF AtHead
  <2>2. Empty \in Database /\ Empty.side = none
    BY <1>2, EmptyTypes
  <2> HIDE DEF all, none
  <2>3. [Empty EXCEPT !.rev = "head", !.table = all]
          = [rev |-> "head", table |-> all, side |-> none]
    BY Zenon, <2>2, RevAndTable
  <2> QED BY <2>1, <2>3 DEF all
<1>5. \A s \in SUBSET Ids : Sound(AtHead(s)) /\ Even(AtHead(s))
  BY <1>4, Lows
<1>6. Sound([AtHead({1}) EXCEPT !.rev = "newer"])
  <2>1. AtHead({1}) = [rev |-> "head", side |-> none,
                       table |-> [t \in Tables |-> [form |-> Latest[t], rows |-> {1}]]]
    BY <1>4, IdsAssumption
  <2>2. [AtHead({1}) EXCEPT !.rev = "newer"]
          = [rev |-> "newer", side |-> none,
             table |-> [t \in Tables |-> [form |-> Latest[t], rows |-> {1}]]]
    <3> DEFINE all == [t \in Tables |-> [form |-> Latest[t], rows |-> {1}]]
    <3>1. AtHead({1}) = [rev |-> "head", side |-> none, table |-> all]
      BY <2>1
    <3> HIDE DEF all, none
    <3>2. [AtHead({1}) EXCEPT !.rev = "newer"] = [rev |-> "newer", side |-> none, table |-> all]
      BY <3>1
    <3> QED BY <3>2 DEF all
  <2> QED BY <2>2, Lows
<1>7. \A f \in legacy : \A t \in Tables : f[t] \in 0 .. 3 /\ f[t] <= Latest[t]
  <2>1. /\ Latest["workspaces"] = 3 /\ Latest["staffs"] = 2
        /\ Latest["topics"] = 1 /\ Latest["event_actions"] = 3
        /\ Latest \in [Tables -> 1 .. 3]
    BY LatestForms
  <2>2. /\ "workspaces" \in Tables /\ "staffs" \in Tables /\ "event_actions" \in Tables
        /\ \A t \in Tables : Latest[t] \in 1 .. 3
    BY <2>1, TablesAre
  <2>3. ASSUME NEW w \in 0 .. 3, w <= 3, NEW s \in 0 .. 2, NEW e \in 0 .. 3,
               NEW f, f = [[[Latest EXCEPT !["workspaces"] = w] EXCEPT !["staffs"] = s]
                             EXCEPT !["event_actions"] = e]
        PROVE  \A t \in Tables : f[t] \in 0 .. 3 /\ f[t] <= Latest[t]
    BY <2>1, <2>2, <2>3
  <2>4. \A f \in legacy : \E w \in 0 .. 3, s \in 0 .. 2, e \in 0 .. 3 :
          f = [[[Latest EXCEPT !["workspaces"] = w] EXCEPT !["staffs"] = s]
                 EXCEPT !["event_actions"] = e]
    <3> TAKE f \in legacy
    <3>1. CASE f = [Latest EXCEPT !.workspaces = 1, !.staffs = 0, !.event_actions = 0]
      <4> WITNESS 1 \in 0 .. 3, 0 \in 0 .. 2, 0 \in 0 .. 3
      <4> QED BY <2>1, <3>1
    <3>2. CASE f = [Latest EXCEPT !.workspaces = 1, !.staffs = 1, !.event_actions = 1]
      <4> WITNESS 1 \in 0 .. 3, 1 \in 0 .. 2, 1 \in 0 .. 3
      <4> QED BY <2>1, <3>2
    <3>3. CASE f = [Latest EXCEPT !.workspaces = 2, !.staffs = 1, !.event_actions = 1]
      <4> WITNESS 2 \in 0 .. 3, 1 \in 0 .. 2, 1 \in 0 .. 3
      <4> QED BY <2>1, <3>3
    <3>4. CASE f = [Latest EXCEPT !.staffs = 1, !.event_actions = 2]
      <4> WITNESS 3 \in 0 .. 3, 1 \in 0 .. 2, 2 \in 0 .. 3
      <4> QED BY <2>1, <3>4
    <3>5. CASE f = [Latest EXCEPT !.staffs = 1]
      <4> WITNESS 3 \in 0 .. 3, 1 \in 0 .. 2, 3 \in 0 .. 3
      <4> QED BY <2>1, <3>5
    <3>6. CASE f = Latest
      <4> WITNESS 3 \in 0 .. 3, 2 \in 0 .. 2, 3 \in 0 .. 3
      <4> QED BY <2>1, <3>6
    <3> QED BY <3>1, <3>2, <3>3, <3>4, <3>5, <3>6
  <2> HIDE DEF legacy
  <2> QED BY <2>3, <2>4
<1>8. \A x \in Legacy : Sound(x)
  <2>1. \A f \in legacy : [Empty EXCEPT !.table = rowed(f)]
                            = [rev |-> "none", table |-> rowed(f), side |-> none]
    <3> TAKE f \in legacy
    <3> HIDE DEF legacy, rowed, none
    <3> QED BY <1>2
  <2>2. \A x \in Legacy : \E f \in legacy : x = [Empty EXCEPT !.table = rowed(f)]
    BY DEF Legacy
  <2>3. \A f \in legacy : \A t \in Tables :
          /\ rowed(f)[t].form = f[t]
          /\ f[t] = 0 => rowed(f)[t].rows = {}
    <3> HIDE DEF legacy
    <3> QED OBVIOUS
  <2> HIDE DEF legacy, rowed, none
  <2> SUFFICES ASSUME NEW x \in Legacy PROVE Sound(x)
    OBVIOUS
  <2>4. PICK f \in legacy : x = [rev |-> "none", table |-> rowed(f), side |-> none]
    BY Zenon, <2>1, <2>2
  <2>5. x.rev = "none" /\ x.table = rowed(f) /\ x.side = none
    BY <2>4
  <2> QED BY <1>7, <2>3, <2>5
<1>9. Sound(db["file"]) /\ Sound(db["new"]) /\ Even(db["new"])
  <2>1. PICK begin \in AnyInstallation : db = [file |-> begin.file, new |-> begin.new]
    BY InstallationsAssumption DEF Init
  <2> HIDE DEF Sound, Even
  <2>2. Sound(begin.file) /\ Sound(begin.new) /\ Even(begin.new)
    BY <1>3, <1>5, <1>6, <1>8, IdsAssumption DEF AnyInstallation
  <2> QED BY <2>1, <2>2
<1>10. \A d \in Names : Good(d, db[d].rev, db[d].table, db[d].side)
  <2> HIDE DEF Sound, Even
  <2>1. Good("file", db["file"].rev, db["file"].table, db["file"].side)
    BY <1>1, <1>9 DEF Names
  <2>2. Good("new", db["new"].rev, db["new"].table, db["new"].side)
    BY <1>1, <1>9 DEF Names
  <2> QED BY <2>1, <2>2 DEF Names
<1>11. op.pc = "idle" /\ master = "down"
  BY DEF Init, Nobody
<1> QED BY <1>10, <1>11 DEF FormsInv, Progress, Rebuilding, LoadHead

SchemaInv == TypeInv /\ FormsInv /\ LoadHead

LEMMA SchemaInvariant == Spec => []SchemaInv
<1>1. Init => SchemaInv
  BY InitTyped, FormsInit DEF SchemaInv
<1>2. SchemaInv /\ [Next]_vars => SchemaInv'
  BY TypeStep, FormsStep, LoadHeadStep DEF SchemaInv
<1> QED BY <1>1, <1>2, PTL DEF Spec

\* A database at the head revision has its tables in the latest form, or a
\* workspaces table rebuilt without the columns of _MIGRATIONS, from whatever
\* installation it comes and wherever the runs before were killed: startup_db
\* and init_db_sqlite stamp a database only after the last of their rebuilds.
THEOREM Stamped == Spec => []StampedIsLatest
<1>1. SchemaInv => StampedIsLatest
  <2> SUFFICES ASSUME SchemaInv, NEW d \in Names, NEW t \in Tables, db[d].rev = "head"
               PROVE  \/ db[d].table[t].form = Latest[t]
                      \/ t = "workspaces" /\ db[d].table[t].form = 2
    BY DEF StampedIsLatest
  <2>1. db[d].table[t].form >= Low[t] /\ db[d].table[t].form <= Latest[t]
    BY DEF SchemaInv, FormsInv, Good
  <2>2. db[d].table[t].form \in 0 .. 3
    <3>1. db[d].table \in [Tables -> Table]
      BY Zenon, DatabaseTypes DEF SchemaInv, TypeInv
    <3> QED BY <3>1 DEF Table, Form
  <2>3. t \in {"workspaces", "staffs", "topics", "event_actions"}
    BY TablesAre
  <2> QED BY <2>1, <2>2, <2>3, LatestForms, Lows
<1> QED BY <1>1, SchemaInvariant, PTL

-----------------------------------------------------------------------------
(* Why an import adds the rows of one export.                              *)

\* The tables the import has counted held the rows of the manifest.
CountRight == \A i \in 1 .. 4 :
                i < op.stage => op.meta[EXPORT_ORDER[i]] = dir.rows[EXPORT_ORDER[i]]

ImportInv ==
  /\ dir.state = "written" => dir.rows \in exports
  /\ op.pc \in {"manifest", "manifested"} => op.meta \in exports
  /\ op.cmd \in {"import", "both"} /\ op.pc \in SchemaPcs \cup {"probe", "load", "count"}
       => Intact
  /\ op.pc = "load" /\ op.found => op.yes
  /\ op.pc = "count" => \A t \in Tables : dir.rows[t] \subseteq db["new"].table[t].rows
  /\ op.pc = "count" => CountRight

Importing == {"probe", "load", "count"} \cup SchemaPcs

\* Where each step of a process leads.
Leads ==
  \/ /\ UNCHANGED <<op, dir, exports>>
     /\ \A t \in Tables : db["new"].table[t].rows \subseteq db'["new"].table[t].rows
  \/ op' = Nobody /\ UNCHANGED <<dir, exports>>
  \/ /\ UNCHANGED <<dir, exports>> /\ op'.pc \in {"classify", "select", "verify"}
     /\ op'.cmd \in {"import", "both"} => op'.pc # "classify"
  \/ /\ UNCHANGED <<dir, exports>> /\ op'.cmd = op.cmd /\ op.pc \in SchemaPcs
     /\ op'.pc \in SchemaPcs \cup {"probe"}
  \/ UNCHANGED <<dir, exports>> /\ Intact /\ op'.pc = "classify"
  \/ /\ UNCHANGED <<dir, exports>> /\ op.pc = "probe" /\ op'.pc = "load"
     /\ op'.cmd = op.cmd /\ (op'.found => op'.yes)
  \/ /\ UNCHANGED <<dir, exports>> /\ op.pc = "load" /\ op'.pc = "count"
     /\ op'.cmd = op.cmd /\ \A t \in Tables : db'["new"].table[t].rows = Loaded[t]
     /\ op'.stage = 1
  \/ /\ UNCHANGED <<db, dir, exports>> /\ Count /\ op.pc = "count" /\ op'.pc = "count"
     /\ op'.cmd = op.cmd /\ op.stage \in 1 .. 3 /\ op'.stage = op.stage + 1
     /\ op'.meta = CountedSoFar
  \/ /\ dir'.state = dir.state /\ dir'.rows = dir.rows /\ exports \subseteq exports'
     /\ op'.pc \in {"select", "write", "manifest"}
     /\ op'.pc = "manifest" => op'.meta \in exports'
  \/ /\ dir'.state = "broken" /\ UNCHANGED exports /\ op.pc = "manifest"
     /\ op'.pc = "manifested" /\ op'.meta = op.meta
  \/ /\ dir'.rows = op.meta /\ UNCHANGED exports /\ op.pc = "manifested"
     /\ op'.pc \in {"idle", "verify"}

LEMMA SchemaLeads ==
  ASSUME TypeInv, Classify \/ Create \/ CreateRest \/ Stamp \/ Schema
                  \/ CopyTo \/ Copy \/ Drop \/ Rename
  PROVE  Leads
<1>1. UNCHANGED <<dir, exports>> /\ op.pc \in SchemaPcs /\ TypeOK /\ op \in Process
  BY Zenon DEF Classify, Create, CreateRest, Stamp, Schema, CopyTo, Copy, Drop, Rename, Step,
         SchemaPcs, TypeInv, TypeOK
<1>2. CASE Classify \/ Stamp
  <2>1. \/ op' = Nobody
        \/ op' = [op EXCEPT !.pc = "probe"]
        \/ op' = [op EXCEPT !.pc = "schema"] \/ op' = [op EXCEPT !.pc = "create"]
    <3>1. \/ op' = Nobody \/ op' = AtHeadNow.to
          \/ op' = [op EXCEPT !.pc = "schema"] \/ op' = [op EXCEPT !.pc = "create"]
      BY <1>2 DEF Classify, Stamp, Goes
    <3>2. op.pc \in {"classify", "stamp"}
      BY <1>2 DEF Classify, Stamp, Step
    <3> QED BY <3>1, <3>2, AtHeadTypes
  <2>2. op' = Nobody \/ (op'.cmd = op.cmd /\ op'.pc \in {"probe", "schema", "create"})
    BY <1>1, <2>1, PcsAre, Moves DEF Same
  <2> QED BY <1>1, <2>2 DEF Leads, SchemaPcs
<1>3. CASE Create \/ CreateRest \/ Schema
  <2>1. \/ op' = Nobody \/ op' = [op EXCEPT !.pc = "classify"]
        \/ op' = [op EXCEPT !.pc = "createRest"] \/ op' = [op EXCEPT !.pc = "stamp"]
        \/ op' = [op EXCEPT !.pc = "copyTo", !.stage = 1]
    BY <1>3 DEF Create, CreateRest, Schema, Goes
  <2>2. \/ op' = Nobody
        \/ op'.cmd = op.cmd /\ op'.pc \in {"classify", "createRest", "stamp", "copyTo"}
    BY Zenon, <1>1, <2>1, PcsAre, Moves, MovesOn DEF Same
  <2> QED BY <1>1, <2>2 DEF Leads, SchemaPcs
<1>4. CASE CopyTo \/ Copy \/ Drop \/ Rename
  <2>1. \/ op' = Nobody
        \/ op'.cmd = op.cmd /\ op'.pc \in {"stamp", "copyTo", "copy", "drop", "rename"}
    BY <1>4, RebuildGoes
  <2> QED BY <1>1, <2>1 DEF Leads, SchemaPcs
<1> QED BY <1>2, <1>3, <1>4

LEMMA ExportLeads ==
  ASSUME TypeInv, Select \/ WriteFile \/ OpenManifest \/ WriteManifest
  PROVE  Leads
<1>1. TypeOK /\ op \in Process /\ dir \in Directory
  BY DEF TypeInv, TypeOK
<1>2. CASE Select
  <2> DEFINE t == EXPORT_ORDER[op.stage]
             got == db["file"].table[t].rows
  <2>1. \/ op' = Nobody /\ UNCHANGED <<dir, exports>>
        \/ /\ op' = [op EXCEPT !.pc = "write", !.got = got] /\ exports' = exports
           /\ dir' = [dir EXCEPT !.file[t] = {{}}]
    BY <1>2 DEF Select, Goes
  <2> HIDE DEF t, got
  <2>2. ASSUME op' = [op EXCEPT !.pc = "write", !.got = got] PROVE op'.pc = "write"
    BY <1>1, <2>2 DEF Process
  <2>3. ASSUME dir' = [dir EXCEPT !.file[t] = {{}}]
        PROVE  dir'.state = dir.state /\ dir'.rows = dir.rows
    BY <1>1, <2>3 DEF Directory
  <2> QED BY <2>1, <2>2, <2>3 DEF Leads
<1>3. CASE WriteFile
  <2> DEFINE t == EXPORT_ORDER[op.stage]
             meta == [op.meta EXCEPT ![t] = op.got]
  <2>1. /\ dir' = [dir EXCEPT !.file[t] = {op.got}] /\ t \in Tables /\ op.got \in SUBSET Ids
        /\ op'.meta = meta
        /\ \/ op'.pc = "manifest" /\ exports' = exports \cup {meta}
           \/ op'.pc = "select" /\ exports' = exports
    BY <1>3, WriteFileDoes
  <2> HIDE DEF t, meta
  <2>2. dir'.state = dir.state /\ dir'.rows = dir.rows
    BY <1>1, <2>1, DirectoryTypes
  <2> QED BY <2>1, <2>2 DEF Leads
<1>4. CASE OpenManifest
  <2>1. /\ dir' = [dir EXCEPT !.state = "broken"] /\ exports' = exports
        /\ op.pc = "manifest" /\ op' = [op EXCEPT !.pc = "manifested"]
    BY <1>4 DEF OpenManifest, Goes, Step
  <2>2. dir'.state = "broken"
    BY <1>1, <2>1 DEF Directory
  <2>3. op'.pc = "manifested" /\ op'.meta = op.meta
    BY <1>1, <2>1, PcsAre, Moves DEF Same
  <2> QED BY <2>1, <2>2, <2>3 DEF Leads
<1>5. CASE WriteManifest
  <2>1. dir'.rows = op.meta /\ exports' = exports /\ op.pc = "manifested"
    BY <1>5, WriteManifestTyped DEF WriteManifest, Step
  <2>2. op' = Nobody \/ op' = [Nobody EXCEPT !.cmd = "both", !.on = "new", !.pc = "verify"]
    BY <1>5 DEF WriteManifest, Goes
  <2>3. op' = Nobody \/ op' = [cmd |-> "both", on |-> "new", pc |-> "verify", stage |-> 1,
                               got |-> {}, meta |-> [u \in Tables |-> {}],
                               yes |-> FALSE, found |-> FALSE]
    BY <2>2 DEF Nobody
  <2>4. op'.pc = "idle" \/ op'.pc = "verify"
    <3>1. Nobody.pc = "idle"
      BY DEF Nobody
    <3> QED BY <2>3, <3>1
  <2> QED BY <2>1, <2>4 DEF Leads
<1> QED BY <1>2, <1>3, <1>4, <1>5

LEMMA ImportLeads ==
  ASSUME TypeInv, Verify \/ Probe \/ LockTimeout \/ Load \/ Count
  PROVE  Leads
<1>1. TypeOK /\ op \in Process /\ UNCHANGED <<dir, exports>>
  BY DEF TypeInv, TypeOK, Verify, Probe, LockTimeout, Load, Count, Calm
<1>2. CASE op' = Nobody
  BY <1>1, <1>2 DEF Leads
<1>3. CASE Verify /\ op' # Nobody
  <2>1. Intact /\ op' = [op EXCEPT !.pc = "classify"]
    BY <1>3 DEF Verify, Goes
  <2>2. op'.pc = "classify"
    BY <1>1, <2>1, PcsAre, Moves
  <2> QED BY <1>1, <2>1, <2>2 DEF Leads
<1>4. CASE Probe /\ op' # Nobody
  <2> DEFINE found == \E t \in Tables : db["new"].table[t].rows # {}
  <2>1. op' = [op EXCEPT !.pc = "load", !.found = found] /\ (found => op.yes) /\ op.pc = "probe"
    BY <1>4 DEF Probe, Goes, Step
  <2>2. found \in BOOLEAN
    OBVIOUS
  <2> HIDE DEF found
  <2>3. op'.pc = "load" /\ op'.found = found /\ op'.yes = op.yes /\ op'.cmd = op.cmd
    BY Zenon, <1>1, <2>1, <2>2, ProbeMoves
  <2>4. op'.found => op'.yes
    BY <2>1, <2>3
  <2> QED BY <1>1, <2>1, <2>3, <2>4 DEF Leads
<1>5. CASE Load /\ op' # Nobody
  <2>1. /\ Becomes("new", db["new"].rev, LoadTables, db["new"].side)
        /\ op' = [op EXCEPT !.pc = "count", !.stage = 1] /\ op.pc = "load"
    BY <1>5, LoadDoes DEF Load, Step
  <2>2. op'.pc = "count" /\ op'.cmd = op.cmd /\ op'.stage = 1
    BY <1>1, <2>1, PcsAre, MovesOn DEF Same
  <2>3. \A t \in Tables : db'["new"].table[t].rows = Loaded[t]
    BY <1>1, <2>1, LoadedTypes DEF Becomes
  <2> QED BY <1>1, <2>1, <2>2, <2>3 DEF Leads
<1>6. CASE LockTimeout
  BY <1>2, <1>6 DEF LockTimeout, Goes
<1>7. CASE Count /\ op' # Nobody
  BY <1>1, <1>7, CountMoves DEF Leads
<1> QED BY <1>2, <1>3, <1>4, <1>5, <1>6, <1>7

LEMMA OthersLead ==
  ASSUME TypeInv,
         \/ Start \/ Stop \/ Crash \/ (\E o \in Beginnings : Command(o))
         \/ (\E d \in Names : Up(d)) \/ (\E t \in Tables, i \in Ids : Write(t, i))
         \/ UNCHANGED vars
  PROVE  Leads
<1>1. CASE Start
  <2>1. op'.cmd = "start" /\ op'.pc = "classify"
    BY <1>1, StartTyped
  <2> QED BY <1>1, <2>1 DEF Start, Leads
<1>2. CASE Crash
  BY <1>2 DEF Crash, Leads
<1>3. ASSUME NEW o \in Beginnings, Command(o) PROVE Leads
  <2>1. UNCHANGED <<dir, exports>> /\ op' = o
    BY <1>3 DEF Command
  <2>2. /\ op'.pc \in {"classify", "select", "verify"}
        /\ op'.cmd \in {"import", "both"} => op'.pc # "classify"
    BY <2>1, BeginningsAre DEF Begins
  <2> QED BY <2>1, <2>2 DEF Leads
<1>4. CASE Stop \/ (\E d \in Names : Up(d)) \/ UNCHANGED vars
  BY <1>4 DEF Stop, Up, vars, Leads
<1>5. ASSUME NEW t \in Tables, NEW i \in Ids, Write(t, i) PROVE Leads
  <2>1. UNCHANGED <<op, dir, exports>>
    BY <1>5 DEF Write
  <2>2. \A u \in Tables : db["new"].table[u].rows \subseteq db'["new"].table[u].rows
    BY <1>5, WriteRows DEF Names
  <2> QED BY <2>1, <2>2 DEF Leads
<1> QED BY <1>1, <1>2, <1>3, <1>4, <1>5

LEMMA AllLead ==
  ASSUME TypeInv, [Next]_vars
  PROVE  Leads
  BY Cases, SchemaLeads, ExportLeads, ImportLeads, OthersLead

\* A table whose number is right holds the rows of the manifest.
LEMMA CountExact ==
  ASSUME TypeInv, ImportInv, op.pc = "count", Counted(EXPORT_ORDER[op.stage])
  PROVE  \A i \in 1 .. 4 :
           i <= op.stage => CountedSoFar[EXPORT_ORDER[i]] = dir.rows[EXPORT_ORDER[i]]
<1> DEFINE t == EXPORT_ORDER[op.stage]
<1>1. /\ op.stage \in 1 .. 4 /\ t \in Tables /\ TypeOK
      /\ op.meta \in [Tables -> SUBSET Ids]
  BY CountedTypes DEF TypeInv, TypeOK, Process, Rows
<1>2. db["new"].table[t].rows \in SUBSET Ids
  <2>1. db["new"].table \in [Tables -> Table]
    BY <1>1, DatabaseTypes DEF Names
  <2> QED BY <1>1, <2>1 DEF Table
<1>3. db["new"].table[t].rows = dir.rows[t]
  <2>1. IsFiniteSet(db["new"].table[t].rows)
    BY <1>2, IdsAssumption, FS_Subset
  <2>2. dir.rows[t] \subseteq db["new"].table[t].rows
    BY <1>1 DEF ImportInv
  <2>3. Cardinality(db["new"].table[t].rows) = Cardinality(dir.rows[t])
    BY DEF Counted
  <2> QED BY <2>1, <2>2, <2>3, FS_Subset
<1>4. CountedSoFar = [op.meta EXCEPT ![t] = dir.rows[t]]
  BY <1>3 DEF CountedSoFar
<1> HIDE DEF t
<1>5. CountedSoFar[t] = dir.rows[t]
  BY <1>1, <1>4
<1>6. ASSUME NEW i \in 1 .. 4, i < op.stage
      PROVE  CountedSoFar[EXPORT_ORDER[i]] = dir.rows[EXPORT_ORDER[i]]
  <2>1. EXPORT_ORDER[i] \in Tables
    BY <1>6, TablesAre
  <2>2. op.meta[EXPORT_ORDER[i]] = dir.rows[EXPORT_ORDER[i]]
    BY <1>6 DEF ImportInv, CountRight
  <2>3. CASE EXPORT_ORDER[i] = t
    BY <1>5, <2>3
  <2>4. CASE EXPORT_ORDER[i] # t
    BY <1>1, <1>4, <2>1, <2>2, <2>4
  <2> QED BY <2>3, <2>4
<1>7. \A i \in 1 .. 4 : i <= op.stage => i < op.stage \/ EXPORT_ORDER[i] = t
  BY <1>1 DEF t
<1> QED BY <1>5, <1>6, <1>7

LEMMA ImportStep ==
  ASSUME TypeInv, ImportInv, [Next]_vars
  PROVE  ImportInv'
<1>1. Leads
  BY AllLead
<1>2. dir'.state = "written" => dir'.rows \in exports'
  BY <1>1 DEF Leads, ImportInv
<1>3. op'.pc \in {"manifest", "manifested"} => op'.meta \in exports'
  BY <1>1 DEF Leads, ImportInv, Nobody, SchemaPcs
<1>4. op'.cmd \in {"import", "both"} /\ op'.pc \in Importing => Intact'
  <2>1. ASSUME op'.cmd \in {"import", "both"} /\ op'.pc \in Importing
        PROVE  UNCHANGED dir /\ Intact
    BY <1>1, <2>1 DEF Leads, ImportInv, Importing, Nobody, SchemaPcs
  <2> QED BY <2>1 DEF Intact
<1>5. op'.pc = "load" /\ op'.found => op'.yes
  BY <1>1 DEF Leads, ImportInv, Nobody, SchemaPcs
<1>6. op'.pc = "count" => \A t \in Tables : dir'.rows[t] \subseteq db'["new"].table[t].rows
  <2>1. CASE UNCHANGED <<op, dir>> /\
             \A t \in Tables : db["new"].table[t].rows \subseteq db'["new"].table[t].rows
    BY <2>1 DEF ImportInv
  <2>2. CASE /\ UNCHANGED dir /\ op.pc = "load"
             /\ \A t \in Tables : db'["new"].table[t].rows = Loaded[t]
    <3>1. Intact
      <4>1. op.cmd \in {"import", "both"}
        BY <2>2 DEF TypeInv, OpInv, ImportPcs
      <4> QED BY <2>2, <4>1 DEF ImportInv
    <3>2. \A t \in Tables : dir.rows[t] \subseteq Loaded[t]
      BY <3>1 DEF Intact, Loaded
    <3> QED BY <2>2, <3>2
  <2>3. CASE UNCHANGED <<db, dir>> /\ op.pc = "count"
    BY <2>3 DEF ImportInv
  <2> QED BY <1>1, <2>1, <2>2, <2>3 DEF Leads, Nobody, SchemaPcs
<1>7. op'.pc = "count" => CountRight'
  <2>1. CASE UNCHANGED <<op, dir>>
    BY <2>1 DEF ImportInv, CountRight
  <2>2. CASE op'.stage = 1
    BY <2>2 DEF CountRight
  <2>3. CASE /\ UNCHANGED dir /\ Count /\ op.pc = "count" /\ op'.pc = "count"
             /\ op.stage \in 1 .. 3 /\ op'.stage = op.stage + 1
             /\ op'.meta = CountedSoFar
    <3>1. Counted(EXPORT_ORDER[op.stage])
      BY <2>3 DEF Count, Nobody
    <3>2. \A i \in 1 .. 4 :
            i <= op.stage => CountedSoFar[EXPORT_ORDER[i]] = dir.rows[EXPORT_ORDER[i]]
      BY <2>3, <3>1, CountExact
    <3>3. \A i \in 1 .. 4 : i < op'.stage => i <= op.stage
      BY <2>3
    <3> QED BY <2>3, <3>2, <3>3 DEF CountRight
  <2> QED BY <1>1, <2>1, <2>2, <2>3 DEF Leads, Nobody, SchemaPcs
<1> QED BY <1>2, <1>3, <1>4, <1>5, <1>6, <1>7 DEF ImportInv, Importing

\* A load without --yes only adds rows, and one that leaves a reference to
\* nothing says so.
LEMMA LoadAdds ==
  ASSUME TypeInv, ImportInv, Load
  PROVE  /\ \A d \in Names : d # "new" => db'[d] = db[d]
         /\ \A d \in Names, t \in Tables : db'[d].side[t] = db[d].side[t]
         /\ ~ op.yes => \A t \in Tables :
                          db["new"].table[t].rows \subseteq db'["new"].table[t].rows
         /\ \/ \A t \in Tables : db'["new"].table[t].rows = db["new"].table[t].rows
            \/ \A t \in Tables : db'["new"].table[t].rows = dir.rows[t]
            \/ \A t \in Tables : db'["new"].table[t].rows
                                   = dir.rows[t] \cup db["new"].table[t].rows
         /\ \/ \A t \in Tables : db'["new"].table[t].rows = db["new"].table[t].rows
               /\ UNCHANGED unsound
            \/ Closed(RowsOf("new"))' \/ unsound'
<1>1. /\ op.pc = "load" /\ TypeOK /\ "new" \in Names /\ Intact
      /\ "topics" \in Tables /\ "workspaces" \in Tables
  <2>1. op.pc = "load" /\ TypeOK
    BY DEF Load, Step, TypeInv
  <2>2. op.cmd \in {"import", "both"}
    BY <2>1 DEF TypeInv, OpInv, ImportPcs
  <2> QED BY <2>1, <2>2, TablesAre DEF ImportInv, Names
<1>2. op.found => op.yes
  BY <1>1 DEF ImportInv
<1>3. CASE UNCHANGED <<db, unsound>>
  BY <1>3
<1>4. CASE /\ Closed(Loaded) \/ Unchecked
           /\ Becomes("new", db["new"].rev, LoadTables, db["new"].side)
           /\ unsound' = (op.yes /\ dialect = "sqlite" /\ ~Closed(Loaded))
  <2>1. \A t \in Tables : /\ db'["new"].table[t].rows = Loaded[t]
                          /\ db'["new"].side[t] = db["new"].side[t]
    BY <1>1, <1>4, LoadedTypes DEF Becomes
  <2>2. \A d \in Names : d # "new" => db'[d] = db[d]
    BY <1>4 DEF Becomes
  <2>3. \A t \in Tables : Loaded[t] = IF op.found THEN dir.rows[t]
                                      ELSE dir.rows[t] \cup db["new"].table[t].rows
    BY <1>1 DEF Intact, Loaded
  <2>4. Closed(RowsOf("new"))' \/ unsound'
    <3>1. Closed(Loaded) => Closed(RowsOf("new"))'
      BY <1>1, <2>1 DEF Closed, RowsOf
    <3>2. ~ Closed(Loaded) => unsound'
      BY <1>2, <1>4 DEF Unchecked
    <3> QED BY <3>1, <3>2
  <2> HIDE DEF Loaded
  <2>5. CASE op.found
    BY <1>2, <2>1, <2>2, <2>3, <2>4, <2>5
  <2>6. CASE ~ op.found
    BY <2>1, <2>2, <2>3, <2>4, <2>6
  <2> QED BY <2>5, <2>6
<1> QED BY <1>3, <1>4, LoadDoes

AllInv == SchemaInv /\ ImportInv /\ NewIsSound

LEMMA AllInvariant == Spec => []AllInv
<1>1. Init => AllInv
  <2>1. ASSUME Init PROVE ImportInv
    BY <2>1 DEF Init, ImportInv, Nobody, NoDir, SchemaPcs
  <2>2. ASSUME Init PROVE NewIsSound
    <3>1. \A s : \A t \in Tables : AtHead(s).table[t].rows = s
      BY DEF AtHead, Empty
    <3>2. \A t \in Tables : Empty.table[t].rows = {}
      BY DEF Empty, Absent
    <3>3. \A t \in Tables : db["new"].table[t].rows = {}
            \/ \A u \in Tables : db["new"].table[u].rows = {2}
      <4>1. PICK begin \in AnyInstallation : db = [file |-> begin.file, new |-> begin.new]
        BY <2>2, InstallationsAssumption DEF Init
      <4>2. db["new"] = Empty \/ db["new"] = AtHead({2})
        BY <4>1 DEF AnyInstallation
      <4> QED BY <3>1, <3>2, <4>2
    <3>4. "topics" \in Tables /\ "workspaces" \in Tables
      BY TablesAre
    <3> QED BY <3>3, <3>4 DEF NewIsSound, Closed, RowsOf
  <2> QED BY <2>1, <2>2, InitTyped, FormsInit DEF AllInv, SchemaInv
<1>2. AllInv /\ [Next]_vars => AllInv'
  <2> SUFFICES ASSUME AllInv, [Next]_vars PROVE AllInv'
    OBVIOUS
  <2>1. SchemaInv'
    BY TypeStep, FormsStep, LoadHeadStep DEF AllInv, SchemaInv
  <2>2. ImportInv'
    BY ImportStep DEF AllInv, SchemaInv
  <2>3. NewIsSound'
    <3>0. "topics" \in Tables /\ "workspaces" \in Tables
      BY TablesAre
    <3>1. CASE Load
      <4>1. \/ Closed(RowsOf("new"))' \/ unsound'
            \/ \A t \in Tables : db'["new"].table[t].rows = db["new"].table[t].rows
               /\ UNCHANGED unsound
        BY <3>1, LoadAdds DEF AllInv, SchemaInv
      <4> QED BY <3>0, <4>1 DEF AllInv, NewIsSound, Closed, RowsOf
    <3>2. ASSUME ~ Load PROVE UNCHANGED unsound
      BY Zenon, <3>2, Cases DEF Classify, Create, CreateRest, Stamp, Schema, CopyTo, Copy, Drop,
         Rename, Select, WriteFile, OpenManifest, WriteManifest, Verify, Probe, LockTimeout,
         Count, Start, Stop, Crash, Command, Up, Write, Calm, vars
    <3>3. ASSUME NEW t \in Tables, NEW i \in Ids, Write(t, i)
          PROVE  NewIsSound'
      <4>1. Closed(RowsOf("new")) => Closed(RowsOf("new"))'
        BY <3>3, WriteRows DEF AllInv, SchemaInv
      <4>2. UNCHANGED unsound
        BY <3>3 DEF Write
      <4> QED BY <4>1, <4>2 DEF AllInv, NewIsSound
    <3>4. CASE NewSame /\ ~ Load
      BY <3>0, <3>2, <3>4 DEF AllInv, NewIsSound, NewSame, Closed, RowsOf
    <3> QED BY <3>1, <3>3, <3>4, FormsStep DEF AllInv, SchemaInv
  <2> QED BY <2>1, <2>2, <2>3 DEF AllInv
<1> QED BY <1>1, <1>2, PTL DEF Spec

\* The references of the new database lead to rows, although an export reads
\* its tables one after another while the master writes; but for the load of
\* --yes into SQLite, which import_snapshot does not check.
THEOREM NewSound == Spec => []NewIsSound
<1>1. AllInv => NewIsSound
  BY DEF AllInv
<1> QED BY <1>1, AllInvariant, PTL

\* No start of the master, fixup, migration, import or crash loses a row of
\* either database (db/__init__.py, _prebaseline.py, snapshot.py): what a table
\* or the side table of its rebuild holds stays in one of the two, unless
\* import_snapshot was told --yes.
THEOREM NothingLost == Spec => NothingDestroyed
<1>1. ASSUME AllInv, [Next]_vars
      PROVE  [\A d \in Names, t \in Tables :
                Kept(d, t) \subseteq Kept(d, t)' \/ (d = "new" /\ op.pc = "load" /\ op.yes)]_vars
  <2>1. CASE Keeps
    BY <2>1 DEF Keeps
  <2>2. CASE Load
    <3>1. op.pc = "load"
      BY <2>2 DEF Load, Step
    <3>2. /\ \A d \in Names : d # "new" => db'[d] = db[d]
          /\ \A d \in Names, t \in Tables : db'[d].side[t] = db[d].side[t]
          /\ ~ op.yes => \A t \in Tables :
                           db["new"].table[t].rows \subseteq db'["new"].table[t].rows
      BY <1>1, <2>2, LoadAdds DEF AllInv, SchemaInv
    <3> QED BY <3>1, <3>2 DEF Kept
  <2> QED BY <1>1, <2>1, <2>2, FormsStep DEF AllInv, SchemaInv
<1> QED BY <1>1, AllInvariant, PTL DEF Spec, NothingDestroyed

\* The rows an import adds are all those of one export, and of no other:
\* import_snapshot compares the digest of every file with the manifest, which
\* export_snapshot writes last, so that a directory half overwritten by a
\* second export is refused.
THEOREM OneExport == Spec => ImportsOneExport
<1>1. ASSUME AllInv, [Next]_vars
      PROVE  [\/ op.cmd \notin {"import", "both"}
              \/ \A t \in Tables : db["new"].table[t].rows' = db["new"].table[t].rows
              \/ \E e \in exports : Adds(e)
              \/ used' # used]_vars
  <2>1. CASE NewSame
    BY <2>1 DEF NewSame
  <2>2. CASE Load
    <3>1. Intact
      <4>1. op.pc = "load"
        BY <2>2 DEF Load, Step
      <4>2. op.cmd \in {"import", "both"}
        BY <1>1, <4>1 DEF AllInv, SchemaInv, TypeInv, OpInv, ImportPcs
      <4> QED BY <1>1, <4>1, <4>2 DEF AllInv, ImportInv
    <3>2. PICK e \in exports : e = dir.rows
      BY <1>1, <3>1 DEF AllInv, ImportInv, Intact
    <3>3. \/ \A t \in Tables : db'["new"].table[t].rows = db["new"].table[t].rows
          \/ \A t \in Tables : db'["new"].table[t].rows = dir.rows[t]
          \/ \A t \in Tables : db'["new"].table[t].rows
                                 = dir.rows[t] \cup db["new"].table[t].rows
      BY <1>1, <2>2, LoadAdds DEF AllInv, SchemaInv
    <3>4. \/ \A t \in Tables : db["new"].table[t].rows' = db["new"].table[t].rows
          \/ Adds(e)
      <4>1. CASE \A t \in Tables : db'["new"].table[t].rows = db["new"].table[t].rows
        BY <4>1
      <4>2. CASE \A t \in Tables : db'["new"].table[t].rows = dir.rows[t]
        BY <3>2, <4>2 DEF Adds
      <4>3. CASE \A t \in Tables : db'["new"].table[t].rows
                                     = dir.rows[t] \cup db["new"].table[t].rows
        BY <3>2, <4>3 DEF Adds
      <4> QED BY <3>3, <4>1, <4>2, <4>3
    <3> QED BY <3>2, <3>4
  <2>3. ASSUME NEW t \in Tables, NEW i \in Ids, Write(t, i) PROVE used' # used
    <3>1. used' = [used EXCEPT !.writes = used.writes + 1]
      BY <2>3 DEF Write
    <3>2. used.writes \in Nat /\ used \in [commands : 0..MaxCommands, crashes : 0..MaxCrashes,
                                           writes : 0..MaxWrites]
      BY <1>1 DEF AllInv, SchemaInv, TypeInv, TypeOK
    <3>3. used'.writes = used.writes + 1
      BY <3>1, <3>2
    <3> QED BY <3>2, <3>3
  <2> QED BY <1>1, <2>1, <2>2, <2>3, FormsStep DEF AllInv, SchemaInv
<1> QED BY <1>1, AllInvariant, PTL DEF Spec, ImportsOneExport

\* An import that reports success has found in every table, when it counted it,
\* the rows of the snapshot and no other, and they are there still; what else
\* there is came after the count of its table.  import_snapshot compares numbers
\* only; they tell enough because every row of the snapshot is there by then,
\* and the sets are finite.
THEOREM Done == Spec => DoneMeansLoaded
<1>1. ASSUME AllInv, [Next]_vars
      PROVE  [exit' = "ok" /\ exit # "ok" =>
                /\ CountedSoFar = dir.rows
                /\ \A t \in Tables : dir.rows[t] \subseteq db["new"].table[t].rows']_vars
  <2> SUFFICES ASSUME exit' = "ok", exit # "ok"
               PROVE  /\ CountedSoFar = dir.rows
                      /\ \A t \in Tables : dir.rows[t] \subseteq db["new"].table[t].rows'
    OBVIOUS
  <2>1. Count
    BY Zenon, <1>1, Cases DEF Classify, Create, CreateRest, Stamp, Schema, CopyTo, Copy, Drop,
       Rename, Select, WriteFile, OpenManifest, WriteManifest, Verify, Probe, LockTimeout,
       Load, Start, Stop, Crash, Command, Up, Write, Goes, vars
  <2>2. UNCHANGED db /\ op.pc = "count" /\ TypeInv /\ ImportInv
    BY <1>1, <2>1 DEF Count, Step, AllInv, SchemaInv
  <2>3. \A t \in Tables : dir.rows[t] \subseteq db["new"].table[t].rows
    BY <2>2 DEF ImportInv
  <2>4. op.stage = 4 /\ Counted(EXPORT_ORDER[op.stage])
    BY <2>1, TablesAre DEF Count
  <2>5. CountedSoFar = dir.rows
    <3>1. \A i \in 1 .. 4 :
            i <= op.stage => CountedSoFar[EXPORT_ORDER[i]] = dir.rows[EXPORT_ORDER[i]]
      BY <2>2, <2>4, CountExact
    <3>2. \A t \in Tables : \E i \in 1 .. 4 : t = EXPORT_ORDER[i]
      BY TablesAre DEF Tables
    <3>3. \A t \in Tables : CountedSoFar[t] = dir.rows[t]
      BY <2>4, <3>1, <3>2
    <3>4. CountedSoFar \in [Tables -> SUBSET Ids] /\ dir.rows \in [Tables -> SUBSET Ids]
      BY <2>2, CountedTypes DEF TypeInv, TypeOK, Directory, Rows
    <3> QED BY <3>3, <3>4
  <2> QED BY <2>2, <2>3, <2>5
<1> QED BY <1>1, AllInvariant, PTL DEF Spec, DoneMeansLoaded

=============================================================================
