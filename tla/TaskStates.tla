----------------------------- MODULE TaskStates -----------------------------
(***************************************************************************)
(* The states of a delegated task and the table _TRANSITIONS of            *)
(* src/src/master/orchestration.py, which apply_transition looks up.       *)
(* "absent" stands for a task that has no row yet.                         *)
(***************************************************************************)

TaskState == {"absent", "submitted", "working", "input-required", "completed", "failed"}

Transitions ==
  { <<"submitted",      "dispatch",        "working">>,
    <<"working",        "ask_sender",      "input-required">>,
    <<"input-required", "ask_sender",      "input-required">>,
    <<"input-required", "answer",          "working">>,
    <<"input-required", "answer_question", "working">>,
    <<"working",        "submit_result",   "working">>,
    <<"working",        "accept_result",   "completed">>,
    <<"working",        "master_error",    "failed">>,
    <<"input-required", "master_error",    "failed">>,
    <<"submitted",      "master_error",    "failed">> }

\* apply_transition does not raise IllegalTransition.
Legal(current, event) == \E tr \in Transitions : tr[1] = current /\ tr[2] = event

\* The state apply_transition returns.
After(current, event) ==
  CHOOSE new \in TaskState : <<current, event, new>> \in Transitions

=============================================================================
