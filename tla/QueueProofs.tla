---------------------------- MODULE QueueProofs ----------------------------
(***************************************************************************)
(* Delegation implements TopicQueue, and no task waits behind a free lock, *)
(* under the assumptions of OneInFlightProofs and while no staff is        *)
(* deleted (a queued task whose assignee is gone blocks the queue).        *)
(*                                                                         *)
(* The invariant says of the queue what OneInv says of the task in flight. *)
(* When accept_result finds nobody to hand over to, nobody is queued; so   *)
(* delegate_task finds the lock free only when its own task is the whole   *)
(* queue, and that task, the oldest then, stays the oldest because tasks   *)
(* are numbered in order (Numbered) until its first dispatch is over.      *)
(***************************************************************************)
EXTENDS OneInFlightProofs, WellFoundedInduction

NobodyLeaves == Removable = {}

Numbered ==
  \A t, u \in Task : state[t] # "absent" /\ state[u] = "absent" => t < u

FirstIsOldest ==
  \A h \in handlers : h.kind = "first" =>
    \A t \in Task : state[t] = "submitted" => h.task <= t

QueueInv ==
  /\ roster = Staff
  /\ \A t \in Task : state[t] = "submitted" => info[t].assignee \in Staff
  /\ NoQueueBehindFreeLock
  /\ Numbered
  /\ FirstIsOldest

-----------------------------------------------------------------------------
\* A set of naturals has a least element.
LEMMA Least ==
  ASSUME NEW T, T \subseteq Nat, T # {}
  PROVE  \E x \in T : \A y \in T : x <= y
<1> DEFINE R == {p \in Nat \X Nat : p[1] < p[2]}
<1>1. \A x, y \in Nat : x < y => <<x, y>> \in R
  OBVIOUS
<1>2. R = OpToRel(<, Nat)
  BY Zenon DEF OpToRel
<1>3. IsWellFoundedOn(R, Nat)
  BY <1>2, NatLessThanWellFounded, Zenon
<1> HIDE DEF R
<1>4. PICK x \in T : \A y \in T : ~ (<<y, x>> \in R)
  BY <1>3, WFMin, Zenon
<1>5. ASSUME NEW y \in T PROVE x <= y
  <2>1. x \in Nat /\ y \in Nat /\ ~ (y < x)
    BY <1>1, <1>4, Zenon
  <2> QED BY <2>1
<1> QED BY <1>5

\* _dispatch_next_queued comes back empty-handed from an empty queue only.
LEMMA NextOfQueue ==
  ASSUME TypeOK, QueueInv, NextQueued = {}, NEW t \in Task, state[t] = "submitted"
  PROVE  FALSE
<1> DEFINE queued == {u \in Task : state[u] = "submitted"}
<1>1. queued \subseteq Nat /\ queued # {}
  BY DEF Task
<1> HIDE DEF queued
<1>2. PICK u \in queued : \A v \in queued : u <= v
  BY <1>1, Least
<1>3. u \in Task /\ state[u] = "submitted" /\ info[u].assignee \in roster
  BY <1>2 DEF QueueInv, queued
<1>4. \A v \in Task : state[v] = "submitted" => u <= v
  BY <1>2 DEF queued
<1> QED BY <1>3, <1>4 DEF NextQueued

\* The states apply_transition returns, as far as delegation uses them.
LEMMA Moves ==
  /\ Queue!Legal("submitted", "dispatch")
  /\ Queue!After("submitted", "dispatch") = "working"
  /\ Queue!After("working", "accept_result") = "completed"
  /\ Queue!Legal("working", "accept_result")
  /\ Queue!Legal("working", "ask_sender")
  /\ Queue!After("working", "ask_sender") = "input-required"
  /\ Queue!Legal("input-required", "ask_sender")
  /\ Queue!After("input-required", "ask_sender") = "input-required"
  /\ Queue!Legal("input-required", "answer_question")
  /\ Queue!After("input-required", "answer_question") = "working"
BY DEF Queue!Legal, Queue!After, Queue!Transitions, Queue!TaskState

-----------------------------------------------------------------------------
(* One step of delegation: what it does to the tasks and to the invariant. *)

QueueStep == [Queue!Next]_state

\* A step that leaves tasks, lock and first dispatches alone leaves the queue alone.
LEMMA QueueKept ==
  ASSUME QueueInv, UNCHANGED <<state, info, topicLock, roster>>,
         \A h \in handlers' : h \in handlers \/ h.kind # "first"
  PROVE  QueueInv' /\ QueueStep
BY DEF QueueInv, NoQueueBehindFreeLock, Numbered, FirstIsOldest, QueueStep

\* A row loop moves a task on only by an answer it waits for.
LEMMA QueueExecute ==
  ASSUME TypeOK, OneInv, QueueInv,
         NEW todo, todo \subseteq staged, NEW ends, NEW base,
         NEW others, others \subseteq handlers,
         UNCHANGED <<info, roster>>,
         Execute("end", todo, ends, others, base)
  PROVE  QueueInv' /\ QueueStep
<1>1. CASE state' = state /\ handlers' = others /\ topicLock' = topicLock
  BY <1>1, QueueKept
<1>2. ASSUME NEW r \in todo, NEW new, new.kind = "end",
             state' = IF r.kind = "answer" THEN [state EXCEPT ![r.task] = "working"]
                      ELSE state,
             handlers' = others \cup {new}, topicLock' = topicLock
      PROVE  QueueInv' /\ QueueStep
  <2>1. r \in staged /\ r.task \in Task
    BY DEF TypeOK, Row
  <2>2. CASE r.kind # "answer"
    BY <1>2, <2>2, QueueKept
  <2>3. CASE r.kind = "answer"
    <3>1. /\ state[r.task] = "input-required"
          /\ state' = [state EXCEPT ![r.task] = "working"]
      BY <1>2, <2>1, <2>3 DEF OneInv, AnswersExpected
    <3>2. QueueInv'
      BY <1>2, <2>1, <3>1 DEF QueueInv, NoQueueBehindFreeLock, Numbered, FirstIsOldest,
                              TypeOK
    <3>3. Queue!Answer(r.task)
      BY <3>1, Moves DEF Queue!Answer, Queue!Move
    <3> QED BY <2>1, <3>2, <3>3 DEF QueueStep, Queue!Next
  <2> QED BY <2>2, <2>3
<1>3. ASSUME NEW r \in todo, NEW q,
             state' = IF r.kind = "answer" THEN [state EXCEPT ![r.task] = "working"]
                      ELSE state,
             handlers' = others \cup
               {[kind |-> "end", task |-> r.task, row |-> r,
                 todo |-> {x \in todo : x.n > r.n}, out |-> q]},
             topicLock' = topicLock
      PROVE  QueueInv' /\ QueueStep
  <2> DEFINE new == [kind |-> "end", task |-> r.task, row |-> r,
                     todo |-> {x \in todo : x.n > r.n}, out |-> q]
  <2>1. new.kind = "end"
    OBVIOUS
  <2> HIDE DEF new
  <2>2. handlers' = others \cup {new}
    BY <1>3 DEF new
  <2> QED BY <1>2, <1>3, <2>1, <2>2
<1> QED BY <1>1, <1>3 DEF Execute

\* Tool calls: delegate_task submits, accept_result accepts and hands over.
LEMMA QueueTool ==
  ASSUME TypeOK, OneInv, QueueInv, NEW m \in Message, Tool(m)
  PROVE  QueueInv' /\ QueueStep
<1>1. ASSUME NEW s \in Staff, DelegateTask(m, s) PROVE QueueInv' /\ QueueStep
  <2>1. PICK t \in Task :
          /\ state[t] = "absent"
          /\ \A u \in Task : state[u] = "absent" => t <= u
          /\ state' = [state EXCEPT ![t] = "submitted"]
          /\ info' = [info EXCEPT ![t] = NewInfo(m, s, t)]
          /\ \/ /\ topicLock # Free
                /\ UNCHANGED <<topicLock, handlers>>
             \/ /\ topicLock = Free
                /\ topicLock' = t
                /\ \E q : handlers' = handlers \cup
                          {[kind |-> "first", task |-> t, row |-> NoRow,
                            todo |-> {}, out |-> q]}
    BY <1>1 DEF DelegateTask, Available
  <2>2. QueueStep
    BY <2>1 DEF QueueStep, Queue!Next, Queue!Submit
  <2>3. /\ roster' = Staff
        /\ \A u \in Task : state'[u] = "submitted" => info'[u].assignee \in Staff
    BY <1>1, <2>1 DEF DelegateTask, QueueInv, NewInfo, TypeOK
  <2>4. Numbered'
    <3>1. \A u \in Task : u \in Nat
      BY DEF Task
    <3> QED BY <2>1, <3>1 DEF QueueInv, Numbered, TypeOK
  <2>5. CASE topicLock # Free /\ UNCHANGED <<topicLock, handlers>>
    <3>1. \A h \in handlers : h.kind = "first" => h.task \in Task /\ h.task <= t
      <4>1. ASSUME NEW h \in handlers, h.kind = "first" PROVE h.task \in Task /\ h.task <= t
        <5>1. h.task \in Task /\ state[h.task] # "absent"
          BY <4>1 DEF OneInv, FirstHolds
        <5>2. h.task < t
          BY <2>1, <5>1 DEF QueueInv, Numbered
        <5>3. h.task \in Nat /\ t \in Nat
          BY <5>1 DEF Task
        <5> QED BY <5>1, <5>2, <5>3
      <4> QED BY <4>1
    <3>2. NoQueueBehindFreeLock' /\ FirstIsOldest'
      BY <2>1, <2>5, <3>1 DEF NoQueueBehindFreeLock, FirstIsOldest, QueueInv, TypeOK
    <3> QED BY <2>2, <2>3, <2>4, <3>2 DEF QueueInv
  <2>6. ASSUME NEW new, new.kind = "first", new.task = t,
               topicLock = Free, topicLock' = t, handlers' = handlers \cup {new}
        PROVE QueueInv' /\ QueueStep
    <3>1. \A u \in Task : state[u] # "submitted"
      BY <2>6 DEF QueueInv, NoQueueBehindFreeLock
    <3>2. \A u \in Task : state'[u] = "submitted" => u = t /\ t <= u
      <4>1. t \in Nat
        BY DEF Task
      <4> QED BY <2>1, <3>1, <4>1 DEF TypeOK
    <3>3. \A h \in handlers : h.kind # "first"
      BY <2>6, LockValues DEF OneInv, FirstHolds
    <3>4. NoQueueBehindFreeLock' /\ FirstIsOldest'
      BY <2>6, <3>2, <3>3, LockValues DEF NoQueueBehindFreeLock, FirstIsOldest
    <3> QED BY <2>2, <2>3, <2>4, <3>4 DEF QueueInv
  <2>7. ASSUME NEW q, topicLock = Free, topicLock' = t,
               handlers' = handlers \cup
                 {[kind |-> "first", task |-> t, row |-> NoRow, todo |-> {}, out |-> q]}
        PROVE QueueInv' /\ QueueStep
    <3> DEFINE new == [kind |-> "first", task |-> t, row |-> NoRow, todo |-> {},
                       out |-> q]
    <3>1. new.kind = "first" /\ new.task = t
      OBVIOUS
    <3> HIDE DEF new
    <3>2. handlers' = handlers \cup {new}
      BY <2>7 DEF new
    <3> QED BY <2>6, <2>7, <3>1, <3>2
  <2> QED BY <2>1, <2>5, <2>7
<1>2. CASE AskSender(m)
  <2> DEFINE t == messages[m].task
  <2>1. t \in Task
    BY <1>2 DEF AskSender, TypeOK, Prompt
  <2>2. state[t] \in {"working", "input-required"}
    BY <1>2 DEF AskSender, Legal, Transitions
  <2>3. /\ state' = [state EXCEPT ![t] = "input-required"]
        /\ UNCHANGED <<info, topicLock, handlers, roster>>
    BY <1>2 DEF AskSender
  <2> HIDE DEF t
  <2>4. QueueInv'
    BY <2>1, <2>2, <2>3 DEF QueueInv, NoQueueBehindFreeLock, Numbered, FirstIsOldest,
                            TypeOK
  <2>5. Queue!Ask(t)
    BY <2>1, <2>2, <2>3, Moves DEF Queue!Ask, Queue!Move
  <2> QED BY <2>1, <2>4, <2>5 DEF QueueStep, Queue!Next
<1>3. CASE SubmitResult(m)
  BY <1>3, QueueKept DEF SubmitResult
<1>4. ASSUME NEW t \in Task, AnswerQuestion(m, t) PROVE QueueInv' /\ QueueStep
  BY <1>4, QueueKept DEF AnswerQuestion
<1>5. ASSUME NEW t \in Task, AcceptResult(m, t) PROVE QueueInv' /\ QueueStep
  <2>1. state[t] = "working" /\ UNCHANGED <<info, roster>>
    BY <1>5 DEF AcceptResult, Legal, Transitions
  <2>2. \A h \in handlers : h.kind # "first"
    BY <2>1 DEF OneInv, FirstHolds, LockOwned, InFlight
  <2>3. CASE /\ NextQueued = {}
             /\ state' = [state EXCEPT ![t] = "completed"]
             /\ UNCHANGED handlers
    <3>1. \A u \in Task : state[u] # "submitted"
      BY <2>3, NextOfQueue
    <3>2. QueueInv'
      BY <2>1, <2>2, <2>3, <3>1 DEF QueueInv, NoQueueBehindFreeLock, Numbered,
                                    FirstIsOldest, TypeOK
    <3>3. Queue!Accept(t)
      BY <2>1, <2>3, Moves DEF Queue!Accept, Queue!Move
    <3> QED BY <3>2, <3>3 DEF QueueStep, Queue!Next
  <2>4. ASSUME NEW u \in NextQueued, NEW new, new.kind = "next",
               state' = [state EXCEPT ![t] = "completed", ![u] = "working"],
               topicLock' = u,
               handlers' = handlers \cup {new}
        PROVE QueueInv' /\ QueueStep
    <3>1. /\ u \in Task /\ state[u] = "submitted"
          /\ \A v \in Task : state[v] = "submitted" => u <= v
      BY DEF NextQueued
    <3>2. QueueInv'
      BY <2>1, <2>2, <2>4, <3>1, LockValues DEF QueueInv, NoQueueBehindFreeLock, Numbered,
                                                FirstIsOldest, TypeOK
    <3>3. Queue!HandOver(t, u)
      BY <2>1, <2>4, <3>1, Moves DEF Queue!HandOver, Queue!Oldest, TypeOK
    <3> QED BY <3>1, <3>2, <3>3 DEF QueueStep, Queue!Next
  <2>5. ASSUME NEW u \in NextQueued, NEW q,
               state' = [state EXCEPT ![t] = "completed", ![u] = "working"],
               topicLock' = u,
               handlers' = handlers \cup
                 {[kind |-> "next", task |-> u, row |-> NoRow, todo |-> {}, out |-> q]}
        PROVE QueueInv' /\ QueueStep
    <3> DEFINE new == [kind |-> "next", task |-> u, row |-> NoRow, todo |-> {},
                       out |-> q]
    <3>1. new.kind = "next"
      OBVIOUS
    <3> HIDE DEF new
    <3>2. handlers' = handlers \cup {new}
      BY <2>5 DEF new
    <3> QED BY <2>4, <2>5, <3>1, <3>2
  <2> QED BY <1>5, <2>3, <2>5 DEF AcceptResult
<1>6. CASE AskUser(m)
  BY <1>6, QueueKept DEF AskUser
<1> QED BY <1>1, <1>2, <1>3, <1>4, <1>5, <1>6 DEF Tool

\* The end of a turn: rows executed, or a judgment turn for the implicit result.
LEMMA QueueTurn ==
  ASSUME TypeOK, OneInv, QueueInv, NEW m \in Message, ProcessTurnEnd(m)
  PROVE  QueueInv' /\ QueueStep
<1>1. UNCHANGED <<info, roster>>
  BY DEF ProcessTurnEnd
<1>2. ASSUME NEW ends, Execute("end", RowsOf(m), ends, handlers, messages)
      PROVE  QueueInv' /\ QueueStep
  <2>1. RowsOf(m) \subseteq staged
    BY DEF RowsOf
  <2> QED BY <1>1, <1>2, <2>1, QueueExecute
<1>3. CASE UNCHANGED <<state, topicLock, handlers>>
  BY <1>1, <1>3, QueueKept
<1>4. ASSUME NEW t, NEW q, UNCHANGED <<state, topicLock>>,
             handlers' = handlers \cup
               {[kind |-> "end", task |-> t, row |-> NoRow, todo |-> {}, out |-> q]}
      PROVE  QueueInv' /\ QueueStep
  <2> DEFINE new == [kind |-> "end", task |-> t, row |-> NoRow, todo |-> {}, out |-> q]
  <2>1. new.kind # "first"
    OBVIOUS
  <2> HIDE DEF new
  <2>2. handlers' = handlers \cup {new}
    BY <1>4 DEF new
  <2> QED BY <1>1, <1>4, <2>1, <2>2, QueueKept
<1> QED BY <1>2, <1>3, <1>4 DEF ProcessTurnEnd

\* A coroutine resumes: the publish of a first prompt is the abstract dispatch.
LEMMA QueuePublish ==
  ASSUME TypeOK, OneInv, QueueInv, NEW h \in handlers, Publish(h)
  PROVE  QueueInv' /\ QueueStep
<1>1. UNCHANGED <<info, roster>> /\ h.kind # "scan"
  BY DEF Publish, OneInv, NoScan
<1>2. CASE h.kind = "first"
  <2>1. /\ state' = [state EXCEPT ![h.task] = "working"]
        /\ handlers' = handlers \ {h}
        /\ UNCHANGED topicLock
    BY <1>2 DEF Publish
  <2>2. /\ h.task \in Task
        /\ topicLock = h.task
        /\ state[h.task] = "submitted"
        /\ \A g \in handlers \ {h} : g.kind # "first"
    BY <1>2 DEF OneInv, FirstHolds
  <2>3. QueueInv'
    BY <1>1, <2>1, <2>2, LockValues DEF QueueInv, NoQueueBehindFreeLock, Numbered,
                                        FirstIsOldest, TypeOK
  <2>4. \A u \in Task : ~ Queue!InFlight(u)
    BY <2>2 DEF OneInv, LockOwned, InFlight, Queue!InFlight
  <2>5. Queue!Dispatch(h.task)
    <3>1. Queue!Oldest(h.task)
      BY <1>2, <2>2 DEF QueueInv, FirstIsOldest, Queue!Oldest
    <3> QED BY <2>1, <2>2, <2>4, <3>1, Moves DEF Queue!Dispatch, Queue!Move
  <2> QED BY <2>2, <2>3, <2>5 DEF QueueStep, Queue!Next
<1>3. CASE h.kind = "next"
  BY <1>1, <1>3, QueueKept DEF Publish
<1>4. CASE h.kind = "end"
  <2>1. Execute("end", h.todo, due, handlers \ {h}, Published(h.out))
    BY <1>4 DEF Publish
  <2>2. h.todo \subseteq staged
    BY DEF OneInv, TodoOwned
  <2> QED BY <1>1, <2>1, <2>2, QueueExecute
<1> QED BY <1>1, <1>2, <1>3, <1>4 DEF TypeOK, Handler

\* QueueInv is inductive, and every step is a step of TopicQueue or a stutter.
LEMMA QueueNext ==
  ASSUME FaultFree, NobodyLeaves, TypeOK, OneInv, QueueInv, [Next]_vars
  PROVE  QueueInv' /\ QueueStep
<1>1. ASSUME NEW s \in Staff, UserPrompt(s) PROVE QueueInv' /\ QueueStep
  BY <1>1, QueueKept DEF UserPrompt
<1>2. ASSUME NEW m \in Message, Tool(m) PROVE QueueInv' /\ QueueStep
  BY <1>2, QueueTool
<1>3. ASSUME NEW m \in Message, Respond(m) PROVE QueueInv' /\ QueueStep
  BY <1>3, QueueKept DEF Respond
<1>4. ASSUME NEW m \in Message, ProcessTurnEnd(m) PROVE QueueInv' /\ QueueStep
  BY <1>4, QueueTurn
<1>5. ASSUME NEW h \in handlers, Publish(h) PROVE QueueInv' /\ QueueStep
  BY <1>5, QueuePublish
<1>6. ASSUME NEW h \in handlers, StartScanJob(h) PROVE FALSE
  BY <1>6 DEF StartScanJob, OneInv, NoScan
<1>7. ~ StartupScan
  BY DEF StartupScan, OneInv, NoScan
<1>8. CASE Fault
  <2>1. ASSUME NEW m \in Message, KillTurn(m) PROVE QueueInv' /\ QueueStep
    BY <2>1, QueueKept DEF KillTurn
  <2>2. ASSUME NEW m \in Message, DupResponse(m) PROVE FALSE
    BY <2>2, NothingToSpend DEF DupResponse, FaultFree, Budget
  <2>3. ASSUME NEW h \in handlers, DispatchFails(h) PROVE FALSE
    BY <2>3, NothingToSpend DEF DispatchFails, FaultFree, Budget
  <2>4. ASSUME NEW s \in Staff, RemoveStaff(s) PROVE FALSE
    BY <2>4 DEF RemoveStaff, NobodyLeaves
  <2>5. ~ Crash
    BY NothingToSpend DEF Crash, FaultFree, Budget
  <2> QED BY <1>8, <2>1, <2>2, <2>3, <2>4, <2>5 DEF Fault
<1>9. ASSUME NEW t \in Task, ForeignTask(t) \/ Elsewhere(t) PROVE FALSE
  BY <1>9, NothingToSpend DEF ForeignTask, Elsewhere, FaultFree, Budget
<1>10. CASE UNCHANGED vars
  BY <1>10, QueueKept DEF vars
<1> QED BY <1>1, <1>2, <1>3, <1>4, <1>5, <1>6, <1>7, <1>8, <1>9, <1>10 DEF Next

\* Nothing is queued at the start.
LEMMA QueueInit == Init => QueueInv /\ Queue!Init
BY DEF Init, QueueInv, NoQueueBehindFreeLock, Numbered, FirstIsOldest, Queue!Init

-----------------------------------------------------------------------------
\* A task waits in state 'submitted' only while somebody holds the topic lock, and
\* so will look at the queue when done: delegate_task queues behind a holder, and
\* accept_result frees the lock only with the queue empty.
THEOREM QueueWatched ==
  ASSUME FaultFree, NobodyLeaves
  PROVE  Spec => []NoQueueBehindFreeLock
<1>1. TypeOK /\ OneInv /\ QueueInv /\ [Next]_vars => QueueInv'
  BY QueueNext
<1>2. TypeOK /\ OneInv /\ [Next]_vars => OneInv'
  BY OneStep
<1>3. Init => OneInv /\ QueueInv
  BY OneInit, QueueInit
<1>4. QueueInv => NoQueueBehindFreeLock
  BY DEF QueueInv
<1> QED BY <1>1, <1>2, <1>3, <1>4, TypeCorrect, PTL DEF Spec

\* Delegation implements TopicQueue, for any number of staffs, tasks and turns:
\* every state change in orchestrate_api.py, those that bypass apply_transition
\* included, is a legal transition, tasks of a topic are worked on one at a time,
\* first come first served, and a completed task is never reopened.
THEOREM Implementation ==
  ASSUME FaultFree, NobodyLeaves
  PROVE  Spec => ImplementsQueue
<1>1. TypeOK /\ OneInv /\ QueueInv /\ [Next]_vars => QueueInv' /\ [Queue!Next]_state
  BY QueueNext DEF QueueStep
<1>2. TypeOK /\ OneInv /\ [Next]_vars => OneInv'
  BY OneStep
<1>3. Init => OneInv /\ QueueInv /\ Queue!Init
  BY OneInit, QueueInit
<1> QED BY <1>1, <1>2, <1>3, TypeCorrect, PTL DEF Spec, ImplementsQueue, Queue!Spec

=============================================================================
