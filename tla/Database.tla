------------------------------ MODULE Database ------------------------------
(***************************************************************************)
(* The databases of the master and the tools that move them: the start-up  *)
(* state machine (startup_db), the fixups of SQLite files older than the   *)
(* Alembic baseline (init_db_sqlite), `db.sh migrate`, and the export and  *)
(* the import of snapshots.                                                *)
(*                                                                         *)
(* There are two databases, the SQLite file of an old installation and the *)
(* one it is moved to.  The master runs on one of them, or on none, and an *)
(* operator runs one command at a time, beside the master; any of them may *)
(* die between two statements.  A table is abstracted to the form of its   *)
(* schema and the identities of its rows.  A topic and the workspace it    *)
(* references have the same identity.                                      *)
(***************************************************************************)
EXTENDS Naturals, FiniteSets, Sequences

CONSTANTS
    Ids,          \* identities of rows
    Installations,\* what the operator may begin with
    MaxCommands,  \* bound: commands of the operator
    MaxCrashes,   \* bound: processes killed half-way
    MaxWrites     \* bound: rows the running master adds

ASSUME BoundsAssumption ==
    {MaxCommands, MaxCrashes, MaxWrites} \subseteq Nat

ASSUME IdsAssumption == IsFiniteSet(Ids) /\ {1, 2} \subseteq Ids

VARIABLES
    db,        \* both databases
    dialect,   \* of the database "new"
    wanted,    \* the database the service is configured for, if it is to run
    master,    \* the database a started master runs on, or "down"
    dir,       \* the snapshot directory
    op,        \* the process that runs a command, or the master's start
    exports,   \* the contents that the exports so far have read, whole
    unsound,   \* whether the last load, unchecked, left a reference to nothing
    exit,      \* what the last import has told the operator
    used       \* how much of each bound is used

vars == <<db, dialect, wanted, master, dir, op, exports, unsound, exit, used>>

(***************************************************************************)
(* Schemas.  The four tables stand for those of EXPORT_ORDER: one that is  *)
(* a parent, one that references it, and the three that the fixups build   *)
(* again.  A form is 0 while the table is absent, and Latest at the        *)
(* baseline.  A workspaces table has form 1 with the UNIQUE of the oldest  *)
(* installations, 2 once it is rebuilt with its six first columns only,    *)
(* and 3 with the columns of _MIGRATIONS.                                  *)
(***************************************************************************)
EXPORT_ORDER == <<"workspaces", "staffs", "topics", "event_actions">>
Tables == {EXPORT_ORDER[i] : i \in 1..Len(EXPORT_ORDER)}

Latest == [workspaces |-> 3, staffs |-> 2, topics |-> 1, event_actions |-> 3]
Form == 0..3

\* The rebuilds of init_db_sqlite, in their order: a table below form `to`
\* is copied into a side table and replaced by it.
Rebuilds == << [table |-> "workspaces",    to |-> 2],
               [table |-> "event_actions", to |-> 2],
               [table |-> "event_actions", to |-> 3],
               [table |-> "staffs",        to |-> 2] >>

Names == {"file", "new"}
Absent == [form |-> 0, rows |-> {}]
Rows == [Tables -> SUBSET Ids]
Database == [rev   : {"none", "blank", "head", "newer"},
             table : [Tables -> [form : Form, rows : SUBSET Ids]],
             side  : [Tables -> [form : Form, rows : SUBSET Ids]]]

Empty == [rev |-> "none", table |-> [t \in Tables |-> Absent],
          side |-> [t \in Tables |-> Absent]]
AtHead(rows) ==
    [Empty EXCEPT !.rev = "head",
                  !.table = [t \in Tables |-> [form |-> Latest[t], rows |-> rows]]]

\* The schemas that the releases before the baseline left behind.
Legacy ==
    { [Empty EXCEPT !.table =
         [t \in Tables |-> [form |-> f[t], rows |-> IF f[t] = 0 THEN {} ELSE {1}]]] :
      f \in { [Latest EXCEPT !.workspaces = 1, !.staffs = 0, !.event_actions = 0],
              [Latest EXCEPT !.workspaces = 1, !.staffs = 1, !.event_actions = 1],
              [Latest EXCEPT !.workspaces = 2, !.staffs = 1, !.event_actions = 1],
              [Latest EXCEPT !.staffs = 1, !.event_actions = 2],
              [Latest EXCEPT !.staffs = 1],
              Latest } }

AnyInstallation ==
    [file : Legacy \cup {Empty, AtHead({1}), [AtHead({1}) EXCEPT !.rev = "newer"]},
     new : {Empty, AtHead({2})}, dialect : {"sqlite", "postgresql"}]

ASSUME InstallationsAssumption == Installations \subseteq AnyInstallation

RowsOf(d) == [t \in Tables |-> db[d].table[t].rows]
Has(d, t) == db[d].table[t].form # 0
Closed(rows) == rows["topics"] \subseteq rows["workspaces"]
Sqlite(d) == d = "file" \/ dialect = "sqlite"

(***************************************************************************)
(* The snapshot directory: one file for each table and a manifest, which   *)
(* holds the revision and the digest and the count of each file.  A digest *)
(* is the content it was taken of.                                         *)
(***************************************************************************)
NoDir == [state |-> "missing", version |-> "head",
          rows |-> [t \in Tables |-> {}], file |-> [t \in Tables |-> {}]]
Directory == [state : {"missing", "broken", "written"},   \* of the manifest
              version : {"head", "newer"}, rows : Rows,   \* what it records
              file : [Tables -> SUBSET SUBSET Ids]]       \* the file, if any

(***************************************************************************)
(* A process: the command, the database it works on, and where it is.      *)
(*   pc     the next thing it does                                         *)
(*   stage  the rebuild of the fixups, or the table of the export or of    *)
(*          the count                                                      *)
(*   got    the rows selected from the table that is being exported        *)
(*   meta   the digests of the files written so far; of an import, what    *)
(*          the tables counted so far held                                 *)
(*   found  whether the import found rows in the target                    *)
(***************************************************************************)
Nobody == [cmd |-> "none", on |-> "file", pc |-> "idle", stage |-> 1,
           got |-> {}, meta |-> [t \in Tables |-> {}], yes |-> FALSE,
           found |-> FALSE]
Pcs == {"idle", "classify", "create", "createRest", "schema", "copyTo", "copy",
        "drop", "rename", "stamp", "select", "write", "manifest", "manifested",
        "verify", "probe", "load", "count"}
Process == [cmd : {"none", "start", "migrate", "export", "import", "both"},
            on : Names, pc : Pcs, stage : 1..(Len(EXPORT_ORDER) + 1),
            got : SUBSET Ids, meta : Rows, yes : BOOLEAN, found : BOOLEAN]

TypeOK ==
    /\ db \in [Names -> Database]
    /\ dialect \in {"sqlite", "postgresql"}
    /\ wanted \in Names \cup {"none"}
    /\ master \in Names \cup {"down"}
    /\ dir \in Directory
    /\ op \in Process
    /\ exports \in SUBSET Rows
    /\ unsound \in BOOLEAN
    /\ exit \in {"none", "ok", "failed"}
    /\ used \in [commands : 0..MaxCommands, crashes : 0..MaxCrashes,
                 writes : 0..MaxWrites]

Init ==
    /\ \E begin \in Installations :
          /\ db = [file |-> begin.file, new |-> begin.new]
          /\ dialect = begin.dialect
    /\ wanted = "none"
    /\ master = "down"
    /\ dir = NoDir
    /\ op = Nobody
    /\ exports = {}
    /\ unsound = FALSE
    /\ exit = "none"
    /\ used = [commands |-> 0, crashes |-> 0, writes |-> 0]

-----------------------------------------------------------------------------
(***************************************************************************)
(* The operator and the service manager.                                   *)
(***************************************************************************)

\* `docker compose up` and `stop`, with DATABASE_URL set to d.
Up(d) ==
    /\ wanted = "none"
    /\ wanted' = d
    /\ UNCHANGED <<db, dialect, master, dir, op, exports, unsound, exit, used>>

Stop ==
    /\ wanted # "none"
    /\ op.cmd # "start"
    /\ wanted' = "none"
    /\ master' = "down"
    /\ UNCHANGED <<db, dialect, dir, op, exports, unsound, exit, used>>

\* The lifespan begins; the container's restart policy repeats it when it
\* failed.  A start and a command of the operator wait for each other.
Start ==
    /\ wanted # "none"
    /\ master = "down"
    /\ op = Nobody
    /\ op' = [Nobody EXCEPT !.cmd = "start", !.on = wanted, !.pc = "classify"]
    /\ UNCHANGED <<db, dialect, wanted, master, dir, exports, unsound, exit, used>>

Command(o) ==
    /\ op = Nobody
    /\ used.commands < MaxCommands
    /\ used' = [used EXCEPT !.commands = @ + 1]
    /\ op' = o
    /\ exit' = "none"
    /\ UNCHANGED <<db, dialect, wanted, master, dir, exports, unsound>>

\* The running master creates a workspace, or a topic in one.
Write(t, i) ==
    /\ master # "down"
    /\ used.writes < MaxWrites
    /\ i \notin db[master].table[t].rows
    /\ t = "topics" => i \in db[master].table["workspaces"].rows
    /\ db' = [db EXCEPT ![master].table[t].rows = @ \cup {i}]
    /\ used' = [used EXCEPT !.writes = @ + 1]
    /\ UNCHANGED <<dialect, wanted, master, dir, op, exports, unsound, exit>>

\* The process is killed.  Its transaction, if one is open, is rolled back;
\* the statements of a script are transactions of their own.
Crash ==
    /\ op # Nobody
    /\ used.crashes < MaxCrashes
    /\ used' = [used EXCEPT !.crashes = @ + 1]
    /\ op' = Nobody
    /\ UNCHANGED <<db, dialect, wanted, master, dir, exports, unsound, exit>>

-----------------------------------------------------------------------------
(***************************************************************************)
(* The schema.  Step(pc) is a step of the running process; Goes(o) is what *)
(* becomes of it, and Nobody that it ended, with an error or without.      *)
(***************************************************************************)
Step(pc) == op.pc = pc
Goes(o) == /\ op' = o
           /\ UNCHANGED <<dialect, wanted, exit, used>>
Calm == UNCHANGED <<db, master, dir, exports, unsound>>

\* The database is at the head: the master is up, the import goes on.
AtHeadNow ==
    CASE op.cmd = "start"            -> [to |-> Nobody, up |-> op.on]
      [] op.cmd = "migrate"          -> [to |-> Nobody, up |-> master]
      [] op.cmd \in {"import", "both"} -> [to |-> [op EXCEPT !.pc = "probe"],
                                          up |-> master]

\* Mutant of Unstamped: with an alembic_version, no database is older than the baseline.
WithoutVersionTable(d) == db[d].rev = "none"

\* `migrate` takes a file for one older than the baseline only if it has no
\* alembic_version at all, while startup_db looks for a revision in it.
Unstamped(d) ==
    db[d].rev \in IF op.cmd = "migrate" THEN {"none"} ELSE {"none", "blank"}

\* startup_db, and the first steps of `migrate`.
Classify ==
    LET d == op.on IN
    /\ Step("classify")
    /\ CASE db[d].rev = "head" ->
              /\ Goes(AtHeadNow.to)
              /\ master' = AtHeadNow.up
         [] db[d].rev = "newer" -> Goes(Nobody) /\ UNCHANGED master
         [] Unstamped(d) /\ Has(d, "workspaces") ->
              /\ Goes(IF Sqlite(d) THEN [op EXCEPT !.pc = "schema"] ELSE Nobody)
              /\ UNCHANGED master
         [] OTHER -> Goes([op EXCEPT !.pc = "create"]) /\ UNCHANGED master
    /\ UNCHANGED <<db, dir, exports, unsound>>

\* `alembic upgrade head` makes the tables of the baseline, the workspaces
\* first, in one transaction on Postgres and one by one on SQLite.
Made(d, names) ==
    [db EXCEPT ![d].rev = "blank",
               ![d].table = [t \in Tables |-> IF t \in names
                                THEN [form |-> Latest[t], rows |-> {}] ELSE @[t]]]

Create ==
    LET d == op.on IN
    /\ Step("create")
    /\ \/ /\ Has(d, "workspaces")
          /\ Goes(Nobody) /\ UNCHANGED db
       \/ /\ ~Has(d, "workspaces") /\ ~Sqlite(d)
          /\ db' = [Made(d, Tables) EXCEPT ![d].rev = "head"]
          /\ Goes([op EXCEPT !.pc = "classify"])
       \/ /\ ~Has(d, "workspaces") /\ Sqlite(d)
          /\ db' = Made(d, {"workspaces"})
          /\ Goes([op EXCEPT !.pc = "createRest"])
    /\ UNCHANGED <<master, dir, exports, unsound>>

CreateRest ==
    LET d == op.on
        rest == Tables \ {"workspaces"}
    IN  /\ Step("createRest")
        /\ IF \E t \in rest : Has(d, t)
           THEN Goes(Nobody) /\ UNCHANGED db
           ELSE /\ db' = Made(d, rest)
                /\ Goes([op EXCEPT !.pc = "stamp"])
        /\ UNCHANGED <<master, dir, exports, unsound>>

\* alembic_version gets the head, which is the baseline.
Stamp ==
    /\ Step("stamp")
    /\ db' = [db EXCEPT ![op.on].rev = "head"]
    /\ Goes(AtHeadNow.to)
    /\ master' = AtHeadNow.up
    /\ UNCHANGED <<dir, exports, unsound>>

\* Mutant of Schema: columns are added to the tables that have them.
SchemaOnceMore ==
    /\ Step("schema")
    /\ db' = [db EXCEPT ![op.on].table = [t \in Tables |-> [@[t] EXCEPT !.form = @ + 1]]]
    /\ Goes([op EXCEPT !.pc = "copyTo", !.stage = 1])
    /\ UNCHANGED <<master, dir, exports, unsound>>

\* Mutant of Schema: the revision is stamped before the rebuilds.
StampThenRebuild ==
    /\ Step("schema")
    /\ db' = [db EXCEPT ![op.on].rev = "head"]
    /\ Goes([op EXCEPT !.pc = "copyTo", !.stage = 1])
    /\ UNCHANGED <<master, dir, exports, unsound>>

\* init_db_sqlite: _SCHEMA makes the tables that are missing, _MIGRATIONS
\* adds the columns that are missing.
Schema ==
    LET Fixed(t, r) == CASE r.form = 0 -> [form |-> Latest[t], rows |-> {}]
                         [] t = "workspaces" /\ r.form = 2 -> [r EXCEPT !.form = 3]
                         [] OTHER -> r
    IN  /\ Step("schema")
        /\ db' = [db EXCEPT ![op.on].table = [t \in Tables |-> Fixed(t, @[t])]]
        /\ Goes([op EXCEPT !.pc = "copyTo", !.stage = 1])
        /\ UNCHANGED <<master, dir, exports, unsound>>

\* A rebuild that is due makes its side table, unless a run before left it.
CopyTo ==
    LET r == Rebuilds[op.stage]
        now == db[op.on]
    IN  /\ Step("copyTo")
        /\ IF op.stage > Len(Rebuilds)
           THEN Goes([op EXCEPT !.pc = "stamp", !.stage = 1]) /\ UNCHANGED db
           ELSE IF now.table[r.table].form >= r.to
           THEN Goes([op EXCEPT !.stage = @ + 1]) /\ UNCHANGED db
           ELSE /\ db' = IF now.side[r.table].form # 0 THEN db
                         ELSE [db EXCEPT ![op.on].side[r.table].form = r.to]
                /\ Goes([op EXCEPT !.pc = "copy"])
        /\ UNCHANGED <<master, dir, exports, unsound>>

\* The rows are copied: INSERT OR IGNORE, but for the staffs, whose plain
\* INSERT fails on a row that a run before has copied.
Copy ==
    LET t == Rebuilds[op.stage].table
        now == db[op.on]
    IN  /\ Step("copy")
        /\ IF t = "staffs" /\ now.table[t].rows \cap now.side[t].rows # {}
           THEN Goes(Nobody) /\ UNCHANGED db
           ELSE /\ db' = [db EXCEPT ![op.on].side[t].rows = @ \cup now.table[t].rows]
                /\ Goes([op EXCEPT !.pc = "drop"])
        /\ UNCHANGED <<master, dir, exports, unsound>>

Drop ==
    /\ Step("drop")
    /\ db' = [db EXCEPT ![op.on].table[Rebuilds[op.stage].table] = Absent]
    /\ Goes([op EXCEPT !.pc = "rename"])
    /\ UNCHANGED <<master, dir, exports, unsound>>

Rename ==
    LET t == Rebuilds[op.stage].table IN
    /\ Step("rename")
    /\ db' = [db EXCEPT ![op.on].table[t] = db[op.on].side[t],
                        ![op.on].side[t] = Absent]
    /\ Goes([op EXCEPT !.pc = "copyTo", !.stage = @ + 1])
    /\ UNCHANGED <<master, dir, exports, unsound>>

-----------------------------------------------------------------------------
(***************************************************************************)
(* Snapshots.                                                              *)
(***************************************************************************)

\* export_snapshot reads one table at a time, each in a transaction of its
\* own, into a file it has emptied; the manifest comes last.
Select ==
    LET t == EXPORT_ORDER[op.stage] IN
    /\ Step("select")
    /\ IF op.stage = 1 /\ (db["file"].rev # "head" \/ \E s \in Tables : ~Has("file", s))
       THEN Goes(Nobody) /\ UNCHANGED dir
       ELSE /\ Goes([op EXCEPT !.pc = "write", !.got = db["file"].table[t].rows])
            /\ dir' = [dir EXCEPT !.file[t] = {{}}]
    /\ UNCHANGED <<db, master, exports, unsound>>

WriteFile ==
    LET t == EXPORT_ORDER[op.stage]
        last == op.stage = Len(EXPORT_ORDER)
    IN  /\ Step("write")
        /\ dir' = [dir EXCEPT !.file[t] = {op.got}]
        /\ Goes([op EXCEPT !.meta[t] = op.got, !.got = {},
                           !.stage = IF last THEN 1 ELSE @ + 1,
                           !.pc = IF last THEN "manifest" ELSE "select"])
        /\ exports' = IF last THEN exports \cup {[op.meta EXCEPT ![t] = op.got]}
                      ELSE exports
        /\ UNCHANGED <<db, master, unsound>>

\* write_text empties the old manifest before it writes the new one.
OpenManifest ==
    /\ Step("manifest")
    /\ dir' = [dir EXCEPT !.state = "broken"]
    /\ Goes([op EXCEPT !.pc = "manifested"])
    /\ UNCHANGED <<db, master, exports, unsound>>

\* snapshot_and_migrate goes on with the import.
WriteManifest ==
    /\ Step("manifested")
    /\ dir' = [dir EXCEPT !.state = "written", !.version = db["file"].rev,
                           !.rows = op.meta]
    /\ Goes(IF op.cmd = "both"
            THEN [Nobody EXCEPT !.cmd = "both", !.on = "new", !.pc = "verify"]
            ELSE Nobody)
    /\ UNCHANGED <<db, master, exports, unsound>>

\* Mutant of Intact: the digests are not compared.
IntactVersion == dir.state = "written" /\ dir.version = "head"

\* import_snapshot checks the digest of every file and the revision, brings
\* the schema of the target to the head ...
Intact == /\ dir.state = "written"
          /\ dir.version = "head"
          /\ \A t \in Tables : dir.file[t] = {dir.rows[t]}

Verify ==
    /\ Step("verify")
    /\ Goes(IF Intact THEN [op EXCEPT !.pc = "classify"] ELSE Nobody)
    /\ Calm

\* Mutant of Probe: --yes is not asked for.
ProbeWithoutYes ==
    /\ Step("probe")
    /\ Goes([op EXCEPT !.pc = "load",
                       !.found = \E t \in Tables : db["new"].table[t].rows # {}])
    /\ Calm

\* ... looks for rows in it, and stops at them without --yes ...
Probe ==
    LET found == \E t \in Tables : db["new"].table[t].rows # {} IN
    /\ Step("probe")
    /\ Goes(IF found /\ ~op.yes THEN Nobody
            ELSE [op EXCEPT !.pc = "load", !.found = found])
    /\ Calm

\* Mutant of Unchecked: every load into SQLite has the foreign keys off.
NeverChecked == dialect = "sqlite"

\* ... and then, in one transaction that keeps every writer out, deletes what
\* it found and inserts the rows.  A row whose key is there already, or a
\* reference to none, undoes it all; but on SQLite a load that deletes has
\* the foreign keys off to its end.
Loaded == [t \in Tables |->
             (IF op.found THEN {} ELSE db["new"].table[t].rows) \cup UNION dir.file[t]]
Clash == ~op.found /\ \E t \in Tables : db["new"].table[t].rows \cap UNION dir.file[t] # {}
Unchecked == op.found /\ dialect = "sqlite"

Load ==
    /\ Step("load")
    /\ IF Clash \/ (~Closed(Loaded) /\ ~Unchecked)
       THEN Goes(Nobody) /\ UNCHANGED <<db, unsound>>
       ELSE /\ db' = [db EXCEPT !["new"].table =
                        [t \in Tables |-> [@[t] EXCEPT !.rows = Loaded[t]]]]
            /\ unsound' = (op.yes /\ dialect = "sqlite" /\ ~Closed(Loaded))
            /\ Goes([op EXCEPT !.pc = "count", !.stage = 1])
    /\ UNCHANGED <<master, dir, exports>>

\* A master that holds the tables of a Postgres target outlasts the timeout.
LockTimeout ==
    /\ Step("load")
    /\ dialect = "postgresql"
    /\ master = "new"
    /\ Goes(Nobody)
    /\ Calm

\* Mutant of Counted: rows too many pass.
CountedAtLeast(t) ==
    Cardinality(db["new"].table[t].rows) >= Cardinality(dir.rows[t])

\* At last the rows are counted, one table after the other and beside a master
\* that may write; the first wrong number ends it, and the verdict is the exit
\* status.
Counted(t) == Cardinality(db["new"].table[t].rows) = Cardinality(dir.rows[t])

CountedSoFar ==
    LET t == EXPORT_ORDER[op.stage] IN [op.meta EXCEPT ![t] = db["new"].table[t].rows]

Count ==
    LET last == op.stage = Len(EXPORT_ORDER) IN
    /\ Step("count")
    /\ IF ~Counted(EXPORT_ORDER[op.stage])
       THEN op' = Nobody /\ exit' = "failed"
       ELSE IF last
       THEN op' = Nobody /\ exit' = "ok"
       ELSE /\ op' = [op EXCEPT !.stage = @ + 1, !.meta = CountedSoFar]
            /\ UNCHANGED exit
    /\ UNCHANGED <<db, dialect, wanted, master, dir, exports, unsound, used>>

-----------------------------------------------------------------------------
Advance ==
    \/ Classify \/ Create \/ CreateRest \/ Stamp
    \/ Schema \/ CopyTo \/ Copy \/ Drop \/ Rename
    \/ Select \/ WriteFile \/ OpenManifest \/ WriteManifest
    \/ Verify \/ Probe \/ Load \/ LockTimeout \/ Count

Migrate == Command([Nobody EXCEPT !.cmd = "migrate", !.pc = "classify"])
Export == Command([Nobody EXCEPT !.cmd = "export", !.pc = "select"])
Import(yes) == Command([Nobody EXCEPT !.cmd = "import", !.on = "new",
                                      !.pc = "verify", !.yes = yes])
SnapshotAndMigrate == Command([Nobody EXCEPT !.cmd = "both", !.pc = "select"])

Next ==
    \/ Advance \/ Start \/ Stop \/ Crash
    \/ Migrate \/ Export \/ SnapshotAndMigrate
    \/ \E yes \in BOOLEAN : Import(yes)
    \/ \E d \in Names : Up(d)
    \/ \E t \in {"workspaces", "topics"}, i \in Ids : Write(t, i)

\* A process runs on, and the restart policy starts a master that is to run.
Fairness == WF_vars(Advance) /\ WF_vars(Start)

Spec == Init /\ [][Next]_vars /\ Fairness

-----------------------------------------------------------------------------
\* NothingDestroyed: no start, migration, import or crash destroys a row: what
\* was in a table or in the side table of its rebuild stays in one of them,
\* but for an import that was told to replace what it found (--yes).
Kept(d, t) == db[d].table[t].rows \cup db[d].side[t].rows

NothingDestroyed ==
    [][\A d \in Names, t \in Tables :
          Kept(d, t) \subseteq Kept(d, t)' \/ (d = "new" /\ op.pc = "load" /\ op.yes)]_vars

\* StampedIsLatest: a database that carries the head revision has every table
\* in its latest form, wherever the runs before were killed; but for a
\* workspaces table rebuilt in the run that stamped it, which has lost the
\* columns that _MIGRATIONS had added before (_prebaseline.py:367-384).
StampedIsLatest ==
    \A d \in Names, t \in Tables :
        db[d].rev = "head" =>
            \/ db[d].table[t].form = Latest[t]
            \/ t = "workspaces" /\ db[d].table[t].form = 2

\* ImportsOneExport: the rows an import adds to its target are those that one
\* export read, never a mixture of the files of two of them, and it adds all.
Adds(e) == \A t \in Tables :
              /\ e[t] \subseteq db["new"].table[t].rows'
              /\ db["new"].table[t].rows' \subseteq e[t] \cup db["new"].table[t].rows

ImportsOneExport ==
    [][ \/ op.cmd \notin {"import", "both"}
        \/ \A t \in Tables : db["new"].table[t].rows' = db["new"].table[t].rows
        \/ \E e \in exports : Adds(e)
        \/ used' # used ]_vars

\* DoneMeansLoaded: when an import reports success, every table held the rows
\* of the snapshot and no other when it was counted, and holds them still,
\* although the check for an empty target holds no lock, the count comes after
\* the commit and compares numbers only, and the master may write all the
\* while.  What else is in the target then, the master has put into a table
\* that was counted already.
DoneMeansLoaded ==
    [][ exit' = "ok" /\ exit # "ok" =>
           /\ CountedSoFar = dir.rows
           /\ \A t \in Tables : dir.rows[t] \subseteq db["new"].table[t].rows' ]_vars

\* NewIsSound: the references of the new database lead somewhere, although an
\* export reads its tables one after another while the master may write; but
\* for an import with --yes into SQLite, which loads unchecked (snapshot.py:523-531).
NewIsSound == Closed(RowsOf("new")) \/ unsound

\* GetsUp: a service that is to run gets up, whatever was killed half-way,
\* unless its database is newer than the code, or a rebuild of the staffs was
\* killed between its copy and its drop (_prebaseline.py:609-611).
GetsUp ==
    \A d \in Names :
        wanted = d ~> \/ master = d
                      \/ wanted # d
                      \/ db[d].rev = "newer"
                      \/ db[d].side["staffs"].rows # {}

=============================================================================
