----------------------------- MODULE TopicQueue -----------------------------
(***************************************************************************)
(* What delegation promises of the tasks of one topic, with no message,    *)
(* lock or turn in sight: a task only moves along _TRANSITIONS, tasks are  *)
(* worked on one at a time and in the order they were submitted, and a     *)
(* completed task stays completed.  Orchestration implements this.         *)
(***************************************************************************)
EXTENDS Naturals, TaskStates

CONSTANT Task   \* naturals, in the order of submission

VARIABLE state

InFlight(t) == state[t] \in {"working", "input-required"}

Oldest(t) ==
  /\ state[t] = "submitted"
  /\ \A u \in Task : state[u] = "submitted" => t <= u

Move(t, event) ==
  /\ Legal(state[t], event)
  /\ state' = [state EXCEPT ![t] = After(@, event)]

Init == state = [t \in Task |-> "absent"]

Submit(t) ==
  /\ state[t] = "absent"
  /\ \A u \in Task : state[u] = "absent" => t <= u
  /\ state' = [state EXCEPT ![t] = "submitted"]

Dispatch(t) ==
  /\ \A u \in Task : ~ InFlight(u)
  /\ Oldest(t)
  /\ Move(t, "dispatch")

Ask(t) == Move(t, "ask_sender")
Answer(t) == Move(t, "answer_question")
Accept(t) == Move(t, "accept_result")

\* The accepted task hands over to the oldest in the queue.
HandOver(t, u) ==
  /\ Legal(state[t], "accept_result")
  /\ Oldest(u)
  /\ state' = [state EXCEPT ![t] = After(@, "accept_result"),
                            ![u] = After(@, "dispatch")]

Next ==
  \/ \E t \in Task : Submit(t) \/ Dispatch(t) \/ Ask(t) \/ Answer(t) \/ Accept(t)
  \/ \E t, u \in Task : HandOver(t, u)

Spec == Init /\ [][Next]_state

=============================================================================
