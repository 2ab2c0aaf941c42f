-------------------------- MODULE MCOrchestration --------------------------
(***************************************************************************)
(* Small instances of Orchestration for TLC.                               *)
(***************************************************************************)
EXTENDS Orchestration, TLC

CONSTANTS lead, dev

Staffs == {lead, dev}
Nobody == {}
OnlyDev == {dev}
OnlyLead == {lead}

\* The two staffs play the same part until one of them delegates.
Symmetry == Permutations(Staffs)

=============================================================================
