----------------------------- MODULE MCDatabase -----------------------------
(***************************************************************************)
(* Small instances of Database for TLC.                                    *)
(***************************************************************************)
EXTENDS Database

\* Row 1 is in every table of the old file, row 2 in the new database when it
\* is not empty, and the master may add either of them.
TwoIds == {1, 2}

\* Every file that is there is started and migrated beside an empty SQLite
\* database (how an empty one gets its tables is seen there); the moves from
\* the file at the head go to each kind of target.
Moves == {i \in AnyInstallation :
            \/ i.file = AtHead({1})
            \/ i.file # Empty /\ i.new = Empty /\ i.dialect = "sqlite"}

=============================================================================
