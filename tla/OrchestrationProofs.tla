------------------------ MODULE OrchestrationProofs ------------------------
(***************************************************************************)
(* What the runs check of Orchestration on small instances, proved for     *)
(* every value of the constants.                                           *)
(***************************************************************************)
EXTENDS Orchestration, TLAPS

-----------------------------------------------------------------------------
(* The helpers on prompts keep a table of prompts a table of prompts. *)

Prompts == [Message -> Prompt]

\* Giving the ids of finished turns back yields a table of prompts.
LEMMA RecycleType ==
  ASSUME NEW base \in Prompts, NEW ends, NEW rows, NEW coroutines
  PROVE  Recycle(base, ends, rows, coroutines) \in Prompts
BY DEF Recycle, Prompts, Prompt, NoPrompt, MessageState

\* Marking unasked questions dead (their rows will never be executed) yields a
\* table of prompts.
LEMMA DropType ==
  ASSUME NEW base \in Prompts, NEW rows
  PROVE  Drop(base, rows) \in Prompts
BY DEF Drop, Prompts, Prompt, MessageState

\* A fresh prompt id is a prompt id.
LEMMA FreshType == FreshMessage \subseteq Message
BY DEF FreshMessage

\* mqtt.publish of a prompt yields a table of prompts.
LEMMA PublishedType ==
  ASSUME TypeOK, NEW q
  PROVE  Published(q) \in Prompts
BY DEF TypeOK, Published, Prompts, Prompt, MessageState

\* The prompt that carries a staged row is a prompt id (_execute_staged_row).
LEMMA CarrierType ==
  ASSUME NEW r \in Row, NEW q \in Carrier(r), q \in Message \/ r.kind # "question"
  PROVE  q \in Message
BY FreshType DEF Carrier

\* Committing the prompt of a staged row yields a table of prompts.
LEMMA CarriedType ==
  ASSUME NEW base \in Prompts, NEW r \in Row, NEW q \in Message
  PROVE  Carried(base, r, q) \in Prompts
BY DEF Carried, NewPrompt, Row, Prompts, Prompt, MessageState

\* Turns nobody will answer leave typed prompts and typed staged rows.
LEMMA AbandonType ==
  ASSUME TypeOK, NEW base \in Prompts, NEW turns, NEW ends, NEW coroutines,
         Abandon(base, turns, ends, coroutines)
  PROVE  messages' \in Prompts /\ staged' \subseteq Row
<1> DEFINE rows == {r \in staged : r.prompt \in turns /\ ~ base[r.prompt].replied}
           ended == [m \in Message |-> IF m \in turns
                                      THEN [base[m] EXCEPT !.st = "dead"]
                                      ELSE base[m]]
<1>1. ended \in Prompts
  BY DEF Prompts, Prompt, MessageState
<1>2. /\ staged' = staged \ rows
      /\ messages' = Recycle(Drop(ended, rows), ends, staged \ rows, coroutines)
  BY DEF Abandon
<1> HIDE DEF rows, ended
<1>3. messages' \in Prompts
  BY <1>1, <1>2, DropType, RecycleType
<1>4. staged' \subseteq Row
  BY <1>2 DEF TypeOK
<1> QED BY <1>3, <1>4

\* _stage_dispatch inserts a well-formed row.
LEMMA StageRowType ==
  ASSUME NEW m \in Message, NEW kept, kept \subseteq Row,
         NEW kind \in {"question", "answer", "result_ready"}, NEW t \in Task,
         NEW receiver \in Staff \cup {User}, NEW q \in Message \cup {NoMessage},
         StageRow(m, kept, kind, t, receiver, q)
  PROVE  staged' \subseteq Row
BY DEF StageRow, Row

\* Using up a budget keeps the budgets typed.
LEMMA SpendType ==
  ASSUME TypeOK, NEW k \in Budget, NEW bound,
         Spend(k, bound)
  PROVE  spent' \in [Budget -> Nat]
BY DEF TypeOK, Spend, Budget

\* The loop over _execute_staged_row, up to its next suspension, keeps every
\* variable it writes typed; the suspended coroutine it leaves is a handler.
LEMMA ExecuteType ==
  ASSUME TypeOK, NEW kind \in {"end", "scan"}, NEW todo, todo \subseteq Row,
         NEW ends, NEW others, others \subseteq Handler, NEW base \in Prompts,
         Execute(kind, todo, ends, others, base)
  PROVE  /\ state' \in [Task -> TaskState]
         /\ topicLock' \in Task \cup {Free, Scan}
         /\ messages' \in Prompts
         /\ staged' \subseteq Row
         /\ handlers' \subseteq Handler
         /\ told' \subseteq Task
<1> DEFINE waits == {r \in todo : r.receiver \in roster}
<1>1. CASE /\ waits = {}
           /\ staged' = Unstamped(todo)
           /\ handlers' = others
           /\ topicLock' = IF kind = "scan" THEN Free ELSE topicLock
           /\ messages' = Recycle(Drop(base, todo), ends, Unstamped(todo), others)
           /\ UNCHANGED <<state, told>>
  <2>1. messages' \in Prompts
    BY <1>1, DropType, RecycleType
  <2> QED BY <1>1, <2>1 DEF TypeOK, Unstamped
<1>2. ASSUME NEW r \in waits, NEW q \in Message,
             LET skipped == {x \in todo : x.n < r.n}
                 rows == Unstamped(skipped \cup {r})
                 suspended == [kind |-> kind, task |-> r.task, row |-> r,
                               todo |-> {x \in todo : x.n > r.n}, out |-> q]
             IN /\ staged' = rows
                /\ state' = IF r.kind = "answer"
                            THEN [state EXCEPT ![r.task] = "working"] ELSE state
                /\ told' = IF r.kind = "result_ready" THEN told \cup {r.task} ELSE told
                /\ handlers' = others \cup {suspended}
                /\ messages' = Recycle(Carried(Drop(base, skipped), r, q), ends, rows,
                                       others \cup {suspended})
                /\ UNCHANGED topicLock
      PROVE /\ state' \in [Task -> TaskState]
            /\ topicLock' \in Task \cup {Free, Scan}
            /\ messages' \in Prompts
            /\ staged' \subseteq Row
            /\ handlers' \subseteq Handler
            /\ told' \subseteq Task
  <2> DEFINE skipped == {x \in todo : x.n < r.n}
             rows == Unstamped(skipped \cup {r})
             suspended == [kind |-> kind, task |-> r.task, row |-> r,
                           todo |-> {x \in todo : x.n > r.n}, out |-> q]
  <2>1. r \in Row /\ r.task \in Task
    BY DEF Row
  <2>2. suspended \in Handler
    BY <2>1 DEF Handler
  <2>3. handlers' \subseteq Handler
    BY <1>2, <2>2
  <2>4. messages' \in Prompts
    <3>1. Carried(Drop(base, skipped), r, q) \in Prompts
      BY <2>1, DropType, CarriedType
    <3> QED BY <1>2, <3>1, RecycleType
  <2>5. state' \in [Task -> TaskState] /\ told' \subseteq Task
    BY <1>2, <2>1 DEF TypeOK, TaskState
  <2>6. staged' \subseteq Row /\ topicLock' \in Task \cup {Free, Scan}
    BY <1>2 DEF TypeOK, Unstamped
  <2> QED BY <2>3, <2>4, <2>5, <2>6
<1> QED BY <1>1, <1>2 DEF Execute

\* What apply_transition returns for the two calls that set a task's state.
LEMMA AfterCalls ==
  ASSUME NEW current
  PROVE  /\ Legal(current, "ask_sender") =>
              /\ current \in {"working", "input-required"}
              /\ After(current, "ask_sender") = "input-required"
         /\ Legal(current, "accept_result") =>
              /\ current = "working"
              /\ After(current, "accept_result") = "completed"
BY DEF Legal, After, Transitions, TaskState

\* ask_sender's routing ends at a staff or the user, because a task's parent is
\* a task whose dispatcher column is filled.
LEMMA AskReceiverType ==
  ASSUME TypeOK, NEW m \in Message, messages[m].task # NoTask
  PROVE  AskReceiver(m) \in Staff \cup {User}
<1> DEFINE t == messages[m].task
<1>1. t \in Task /\ info[t] \in Info
  BY DEF TypeOK, Prompt
<1>2. info[t].parent # NoTask => info[info[t].parent] \in Info
  BY <1>1 DEF TypeOK, Info
<1> QED BY <1>1, <1>2 DEF AskReceiver, Info

\* delegate_task inserts well-formed columns.
LEMMA NewInfoType ==
  ASSUME TypeOK, NEW m \in Message, NEW s \in Staff, NEW t \in Task
  PROVE  NewInfo(m, s, t) \in Info
<1> DEFINE p == messages[m].task
<1>1. p \in Task \cup {NoTask} /\ messages[m].to \in Staff \cup {User}
  BY DEF TypeOK, Prompt
<1>2. p # NoTask => info[p].root \in Task \cup {NoTask} /\ info[p].depth \in Nat
  BY <1>1 DEF TypeOK, Info
<1> QED BY <1>1, <1>2 DEF NewInfo, Info

-----------------------------------------------------------------------------
(***************************************************************************)
(* Type correctness, with any number of faults.                            *)
(***************************************************************************)
\* The empty database is well typed.
LEMMA TypeInit == Init => TypeOK
BY DEF Init, TypeOK, TaskState, Info, NoInfo, NoTask, Prompt, NoPrompt, MessageState

\* The end of a turn and process_turn_end keep the types.
LEMMA TypeTurn ==
  ASSUME TypeOK, NEW m \in Message, Respond(m) \/ ProcessTurnEnd(m)
  PROVE  TypeOK'
<1>1. CASE Respond(m)
  BY <1>1 DEF TypeOK, Respond, Prompt, MessageState
<1>2. CASE ProcessTurnEnd(m)
  <2> DEFINE t == messages[m].task
             ends == [due EXCEPT ![m] = @ - 1]
  <2>1. /\ due' \in [Message -> Nat]
        /\ UNCHANGED <<info, roster, phase, spent>>
    BY <1>2 DEF TypeOK, ProcessTurnEnd
  <2>2. CASE Execute("end", RowsOf(m), ends, handlers, messages)
    <3>1. RowsOf(m) \subseteq Row /\ messages \in Prompts /\ handlers \subseteq Handler
      BY DEF TypeOK, RowsOf, Prompts
    <3>2. /\ state' \in [Task -> TaskState] /\ topicLock' \in Task \cup {Free, Scan}
          /\ messages' \in Prompts /\ staged' \subseteq Row
          /\ handlers' \subseteq Handler /\ told' \subseteq Task
      BY <2>2, <3>1, ExecuteType
    <3> QED BY <2>1, <3>2 DEF TypeOK, Prompts
  <2>3. CASE /\ ImplicitResult(m)
             /\ told' = told \cup {t}
             /\ \E q \in FreshMessage :
                  LET suspended == [kind |-> "end", task |-> t, row |-> NoRow,
                                    todo |-> {}, out |-> q]
                      judgment == NewPrompt(info[t].dispatcher, t)
                  IN /\ handlers' = handlers \cup {suspended}
                     /\ messages' = Recycle([messages EXCEPT ![q] = judgment], ends,
                                            staged, handlers \cup {suspended})
             /\ UNCHANGED <<state, topicLock, staged>>
    <3>1. t \in Task /\ info[t] \in Info
      BY <2>3 DEF TypeOK, ImplicitResult, Prompt
    <3>2. PICK q \in FreshMessage :
            LET suspended == [kind |-> "end", task |-> t, row |-> NoRow,
                              todo |-> {}, out |-> q]
                judgment == NewPrompt(info[t].dispatcher, t)
            IN /\ handlers' = handlers \cup {suspended}
               /\ messages' = Recycle([messages EXCEPT ![q] = judgment], ends,
                                      staged, handlers \cup {suspended})
      BY <2>3
    <3>3. [messages EXCEPT ![q] = NewPrompt(info[t].dispatcher, t)] \in Prompts
      BY <3>1, FreshType DEF TypeOK, NewPrompt, Prompts, Prompt, MessageState, Info
    <3>4. messages' \in Prompts
      BY <3>2, <3>3, RecycleType
    <3>5. handlers' \subseteq Handler
      BY <3>1, <3>2, FreshType DEF TypeOK, Handler
    <3> QED BY <2>1, <2>3, <3>1, <3>4, <3>5 DEF TypeOK, Prompts
  <2>4. CASE /\ messages' = Recycle(messages, ends, staged, handlers)
             /\ UNCHANGED <<state, topicLock, staged, handlers, told>>
    <3>1. messages' \in Prompts
      BY <2>4, RecycleType DEF TypeOK, Prompts
    <3> QED BY <2>1, <2>4, <3>1 DEF TypeOK, Prompts
  <2> QED BY <1>2, <2>2, <2>3, <2>4 DEF ProcessTurnEnd
<1> QED BY <1>1, <1>2

\* Every tool endpoint of a running turn keeps the types.
LEMMA TypeTool ==
  ASSUME TypeOK, NEW m \in Message, Tool(m)
  PROVE  TypeOK'
<1>1. ASSUME NEW s \in Staff, DelegateTask(m, s) PROVE TypeOK'
  <2>1. PICK t \in Task :
          /\ state' = [state EXCEPT ![t] = "submitted"]
          /\ info' = [info EXCEPT ![t] = NewInfo(m, s, t)]
          /\ \/ UNCHANGED <<topicLock, messages, handlers>>
             \/ /\ topicLock' = t
                /\ \E q \in FreshMessage :
                     /\ messages' = [messages EXCEPT ![q] = NewPrompt(s, t)]
                     /\ handlers' = handlers \cup
                          {[kind |-> "first", task |-> t, row |-> NoRow,
                            todo |-> {}, out |-> q]}
    BY <1>1 DEF DelegateTask
  <2>2. state' \in [Task -> TaskState] /\ info' \in [Task -> Info]
    BY <2>1, NewInfoType DEF TypeOK, TaskState
  <2>3. topicLock' \in Task \cup {Free, Scan} /\ handlers' \subseteq Handler
    BY <2>1, FreshType DEF TypeOK, Handler
  <2>4. messages' \in [Message -> Prompt]
    <3>1. NewPrompt(s, t) \in Prompt
      BY DEF NewPrompt, Prompt, MessageState
    <3> QED BY <2>1, <3>1, FreshType DEF TypeOK
  <2> QED BY <1>1, <2>2, <2>3, <2>4 DEF TypeOK, DelegateTask
<1>2. CASE AskSender(m)
  <2> DEFINE t == messages[m].task
  <2>1. t \in Task /\ AskReceiver(m) \in Staff \cup {User}
    BY <1>2, AskReceiverType DEF AskSender, TypeOK, Prompt
  <2>2. /\ state' = [state EXCEPT ![t] = "input-required"]
        /\ spent' \in [Budget -> Nat]
        /\ UNCHANGED <<info, topicLock, handlers, due, told, roster, phase>>
    BY <1>2, SpendType DEF AskSender, Budget
  <2>3. staged' \subseteq Row /\ messages' \in [Message -> Prompt]
    <3>1. CASE /\ StageRow(m, staged, "question", t, User, NoMessage)
               /\ messages' = [messages EXCEPT ![m].replied = TRUE]
      BY <2>1, <3>1, StageRowType DEF TypeOK, Prompt
    <3>2. ASSUME NEW q \in FreshMessage,
                 StageRow(m, staged, "question", t, AskReceiver(m), q),
                 messages' = [messages EXCEPT
                                ![q] = [NewPrompt(AskReceiver(m), t) EXCEPT !.st = "asked"]]
          PROVE  staged' \subseteq Row /\ messages' \in [Message -> Prompt]
      <4>1. staged' \subseteq Row
        BY <2>1, <3>2, FreshType, StageRowType DEF TypeOK
      <4> QED BY <2>1, <3>2, <4>1, FreshType DEF TypeOK, NewPrompt, Prompt, MessageState
    <3> QED BY <1>2, <3>1, <3>2 DEF AskSender
  <2> QED BY <2>1, <2>2, <2>3 DEF TypeOK, TaskState
<1>3. CASE SubmitResult(m)
  <2> DEFINE t == messages[m].task
             kept == {r \in staged : ~(r.prompt = m /\ r.kind = "result_ready")}
  <2>1. t \in Task /\ info[t].dispatcher \in Staff \cup {User}
    BY <1>3 DEF SubmitResult, TypeOK, Prompt, Info
  <2>2. kept \subseteq Row
    BY DEF TypeOK
  <2>3. staged' \subseteq Row
    BY <1>3, <2>1, <2>2, StageRowType DEF SubmitResult
  <2> QED BY <1>3, <2>3 DEF TypeOK, SubmitResult
<1>4. ASSUME NEW t \in Task, AnswerQuestion(m, t) PROVE TypeOK'
  <2>1. info[t].assignee \in Staff \cup {User}
    BY DEF TypeOK, Info
  <2>2. staged' \subseteq Row
    BY <1>4, <2>1, StageRowType DEF AnswerQuestion, TypeOK
  <2> QED BY <1>4, <2>2 DEF TypeOK, AnswerQuestion
<1>5. ASSUME NEW t \in Task, AcceptResult(m, t) PROVE TypeOK'
  <2>1. CASE /\ state' = [state EXCEPT ![t] = "completed"]
             /\ topicLock' = Free
             /\ UNCHANGED <<messages, handlers>>
    BY <1>5, <2>1 DEF TypeOK, AcceptResult, TaskState
  <2>2. ASSUME NEW u \in NextQueued, NEW q \in FreshMessage,
               state' = [state EXCEPT ![t] = "completed", ![u] = "working"],
               topicLock' = u,
               messages' = [messages EXCEPT ![q] = NewPrompt(info[u].assignee, u)],
               handlers' = handlers \cup {[kind |-> "next", task |-> u, row |-> NoRow,
                                           todo |-> {}, out |-> q]}
        PROVE TypeOK'
    <3>1. u \in Task /\ q \in Message
      BY FreshType DEF NextQueued
    <3>2. messages' \in [Message -> Prompt]
      BY <2>2, <3>1 DEF TypeOK, NewPrompt, Prompt, MessageState, Info
    <3>3. handlers' \subseteq Handler
      BY <2>2, <3>1 DEF TypeOK, Handler
    <3>4. state' \in [Task -> TaskState] /\ topicLock' \in Task
      BY <2>2, <3>1 DEF TypeOK, TaskState
    <3> QED BY <1>5, <3>2, <3>3, <3>4 DEF TypeOK, AcceptResult
  <2> QED BY <1>5, <2>1, <2>2 DEF AcceptResult
<1>6. CASE AskUser(m)
  <2>1. spent' \in [Budget -> Nat]
    BY <1>6, SpendType DEF AskUser, Budget
  <2> QED BY <1>6, <2>1 DEF AskUser, TypeOK, Prompt
<1> QED BY <1>1, <1>2, <1>3, <1>4, <1>5, <1>6 DEF Tool

\* A coroutine resuming after its broadcast, or a startup job, keeps the types.
LEMMA TypeHandler ==
  ASSUME TypeOK, NEW h \in handlers, Publish(h) \/ StartScanJob(h)
  PROVE  TypeOK'
<1>1. h \in Handler /\ handlers \ {h} \subseteq Handler /\ h.todo \subseteq Row
  BY DEF TypeOK, Handler
<1>2. /\ messages \in Prompts
      /\ Published(h.out) \in Prompts
  BY PublishedType DEF TypeOK, Prompts
<1>3. CASE Publish(h)
  <2>1. CASE h.kind \in {"first", "next"}
    <3>1. state' = state \/ state' = [state EXCEPT ![h.task] = "working"]
      BY <1>3, <2>1 DEF Publish
    <3>2. state' \in [Task -> TaskState]
      BY <3>1 DEF TypeOK, TaskState
    <3> QED BY <1>2, <1>3, <2>1, <3>2 DEF Publish, TypeOK, Prompts
  <2>2. CASE h.kind \in {"end", "scan"}
    <3>1. /\ Execute(h.kind, h.todo, due, handlers \ {h}, Published(h.out))
          /\ UNCHANGED <<info, due, roster, phase, spent>>
      BY <1>3, <2>2 DEF Publish
    <3>2. /\ state' \in [Task -> TaskState] /\ topicLock' \in Task \cup {Free, Scan}
          /\ messages' \in Prompts /\ staged' \subseteq Row
          /\ handlers' \subseteq Handler /\ told' \subseteq Task
      BY <1>1, <1>2, <2>2, <3>1, ExecuteType
    <3> QED BY <3>1, <3>2 DEF TypeOK, Prompts
  <2> QED BY <1>1, <2>1, <2>2 DEF Handler
<1>4. CASE StartScanJob(h)
  <2>1. /\ Execute("scan", h.todo, due, handlers \ {h}, messages)
        /\ UNCHANGED <<info, due, roster, phase, spent>>
    BY <1>4 DEF StartScanJob
  <2>2. /\ state' \in [Task -> TaskState] /\ topicLock' \in Task \cup {Free, Scan}
        /\ messages' \in Prompts /\ staged' \subseteq Row
        /\ handlers' \subseteq Handler /\ told' \subseteq Task
    BY <1>1, <1>2, <2>1, ExecuteType
  <2> QED BY <2>1, <2>2 DEF TypeOK, Prompts
<1> QED BY <1>3, <1>4

\* Killed turns, duplicates, failed dispatches, deleted staffs and crashes keep
\* the types.
LEMMA TypeFault ==
  ASSUME TypeOK, Fault
  PROVE  TypeOK'
<1>1. ASSUME NEW m \in Message, KillTurn(m) PROVE TypeOK'
  <2>1. spent' \in [Budget -> Nat]
    BY <1>1, SpendType DEF KillTurn, Budget
  <2>2. messages' \in Prompts /\ staged' \subseteq Row
    BY <1>1, AbandonType DEF KillTurn, TypeOK, Prompts
  <2> QED BY <1>1, <2>1, <2>2 DEF KillTurn, TypeOK, Prompts
<1>2. ASSUME NEW m \in Message, DupResponse(m) PROVE TypeOK'
  <2>1. spent' \in [Budget -> Nat]
    BY <1>2, SpendType DEF DupResponse, Budget
  <2> QED BY <1>2, <2>1 DEF DupResponse, TypeOK
<1>3. ASSUME NEW h \in handlers, DispatchFails(h) PROVE TypeOK'
  <2> DEFINE unsent == IF h.row # NoRow /\ h.row.kind = "question" THEN "asked" ELSE "dead"
             base == IF messages[h.out].st = "out"
                     THEN [messages EXCEPT ![h.out].st = unsent] ELSE messages
  <2>1. h \in Handler
    BY DEF TypeOK
  <2>2. spent' \in [Budget -> Nat]
    BY <1>3, SpendType DEF DispatchFails, Budget
  <2>3. \A rows \in Restored(h.row) : rows \subseteq Row
    BY <2>1 DEF TypeOK, Handler, Restored
  <2>4. base \in Prompts
    <3>1. unsent \in MessageState
      BY DEF MessageState
    <3> HIDE DEF unsent
    <3> QED BY <3>1 DEF TypeOK, Prompts, Prompt
  <2>5. /\ staged' \in Restored(h.row)
        /\ messages' = Recycle(base, due, staged', handlers \ {h})
        /\ handlers' = handlers \ {h}
        /\ topicLock' = Released(h)
        /\ UNCHANGED <<state, info, due, told, roster, phase>>
    BY <1>3 DEF DispatchFails
  <2> HIDE DEF base
  <2>6. messages' \in Prompts
    BY <2>4, <2>5, RecycleType
  <2>7. topicLock' \in Task \cup {Free, Scan}
    BY <2>5 DEF Released, TypeOK
  <2> QED BY <2>2, <2>3, <2>5, <2>6, <2>7 DEF TypeOK, Prompts
<1>4. ASSUME NEW s \in Staff, RemoveStaff(s) PROVE TypeOK'
  BY <1>4 DEF RemoveStaff, TypeOK
<1>5. CASE Crash
  <2>1. spent' \in [Budget -> Nat]
    BY <1>5, SpendType DEF Crash, Budget
  <2>2. PICK sent, lost :
          Abandon([m \in Message |->
                    IF messages[m].st # "out" THEN messages[m]
                    ELSE [messages[m] EXCEPT
                            !.st = IF m \in sent THEN "running" ELSE "dead"]],
                  lost, [m \in Message |-> 0], {})
    BY <1>5 DEF Crash
  <2>3. [m \in Message |->
           IF messages[m].st # "out" THEN messages[m]
           ELSE [messages[m] EXCEPT
                   !.st = IF m \in sent THEN "running" ELSE "dead"]] \in Prompts
    BY DEF TypeOK, Prompts, Prompt, MessageState
  <2>4. messages' \in Prompts /\ staged' \subseteq Row
    BY <2>2, <2>3, AbandonType
  <2> QED BY <1>5, <2>1, <2>4 DEF Crash, TypeOK, Prompts
<1> QED BY <1>1, <1>2, <1>3, <1>4, <1>5 DEF Fault

\* The other topics keep the types.
LEMMA TypeOther ==
  ASSUME TypeOK, NEW t \in Task, ForeignTask(t) \/ Elsewhere(t)
  PROVE  TypeOK'
<1>1. CASE ForeignTask(t)
  <2>1. spent' \in [Budget -> Nat]
    BY <1>1, SpendType DEF ForeignTask, Budget
  <2>2. info' \in [Task -> Info] /\ state' \in [Task -> TaskState]
    BY <1>1 DEF ForeignTask, TypeOK, Info, TaskState
  <2> QED BY <1>1, <2>1, <2>2 DEF ForeignTask, TypeOK
<1>2. CASE Elsewhere(t)
  <2>1. spent' \in [Budget -> Nat]
    BY <1>2, SpendType DEF Elsewhere, Budget
  <2>2. state' = state \/ state' = [state EXCEPT ![t] = "working"]
        \/ \E e \in {"ask_sender", "accept_result"} :
             Legal(state[t], e) /\ state' = [state EXCEPT ![t] = After(state[t], e)]
    BY <1>2 DEF Elsewhere, TypeOK
  <2>3. state' \in [Task -> TaskState]
    BY <2>2, AfterCalls DEF TypeOK, TaskState
  <2> QED BY <1>2, <2>1, <2>3 DEF Elsewhere, TypeOK
<1> QED BY <1>1, <1>2

\* TypeOK is inductive.
LEMMA TypeStep == TypeOK /\ [Next]_vars => TypeOK'
<1> SUFFICES ASSUME TypeOK, [Next]_vars PROVE TypeOK'
  OBVIOUS
<1>1. ASSUME NEW s \in Staff, UserPrompt(s) PROVE TypeOK'
  BY <1>1, FreshType DEF TypeOK, UserPrompt, NewPrompt, Prompt, MessageState
<1>2. ASSUME NEW m \in Message, Tool(m) \/ Respond(m) \/ ProcessTurnEnd(m) PROVE TypeOK'
  BY <1>2, TypeTool, TypeTurn
<1>3. ASSUME NEW h \in handlers, Publish(h) \/ StartScanJob(h) PROVE TypeOK'
  BY <1>3, TypeHandler
<1>4. CASE StartupScan
  BY <1>4 DEF StartupScan, TypeOK, Handler
<1>5. CASE Fault
  BY <1>5, TypeFault
<1>6. ASSUME NEW t \in Task, ForeignTask(t) \/ Elsewhere(t) PROVE TypeOK'
  BY <1>6, TypeOther
<1>7. CASE UNCHANGED vars
  BY <1>7 DEF vars, TypeOK
<1> QED BY <1>1, <1>2, <1>3, <1>4, <1>5, <1>6, <1>7 DEF Next

\* The rows, locks and coroutines of delegation (orchestrate_api.py, dispatch.py)
\* are well formed in every reachable state, for all constants.
THEOREM TypeCorrect == Spec => []TypeOK
BY TypeInit, TypeStep, PTL DEF Spec

-----------------------------------------------------------------------------
(***************************************************************************)
(* The lock is never leaked, with any number of faults.  Every step either *)
(* leaves the holder in flight or its coroutine where it is, or releases   *)
(* the lock.                                                               *)
(***************************************************************************)
\* No budget is ever given back.
LEMMA SpentGrows ==
  ASSUME TypeOK, [Next]_vars, NEW k \in Budget
  PROVE  spent'[k] >= spent[k]
<1>1. \/ spent' = spent
      \/ \E j, bound : Spend(j, bound)
  <2>1. ASSUME NEW m \in Message, Tool(m) \/ Respond(m) \/ ProcessTurnEnd(m)
        PROVE  spent' = spent \/ \E j, bound : Spend(j, bound)
    BY <2>1 DEF Tool, Respond, ProcessTurnEnd, DelegateTask, AskSender, AskUser, SubmitResult,
                AnswerQuestion, AcceptResult
  <2>2. ASSUME Fault PROVE spent' = spent \/ \E j, bound : Spend(j, bound)
    BY <2>2 DEF Fault, KillTurn, DupResponse, DispatchFails, RemoveStaff, Crash
  <2>3. ASSUME NEW s \in Staff, UserPrompt(s) PROVE spent' = spent
    BY <2>3 DEF UserPrompt
  <2>4. ASSUME NEW h \in handlers, Publish(h) \/ StartScanJob(h) PROVE spent' = spent
    BY <2>4 DEF Publish, StartScanJob
  <2>5. StartupScan => spent' = spent
    BY DEF StartupScan
  <2>6. ASSUME NEW t \in Task, ForeignTask(t) \/ Elsewhere(t)
        PROVE  \E j, bound : Spend(j, bound)
    BY <2>6 DEF ForeignTask, Elsewhere
  <2> QED BY <2>1, <2>2, <2>3, <2>4, <2>5, <2>6 DEF Next, vars
<1>2. spent'[k] = spent[k] \/ spent'[k] = spent[k] + 1
  BY <1>1 DEF Spend, TypeOK
<1>3. spent[k] \in Nat
  BY DEF TypeOK
<1> QED BY <1>2, <1>3

\* The lock values are distinct from one another and from every task.
LEMMA LockValues == Free \notin Task /\ Scan \notin Task /\ Free # Scan
BY ParamsAssumption DEF Free, Scan, Task

\* A row loop keeps every task in flight, whatever it does to the others.
LEMMA ExecuteKeepsInFlight ==
  ASSUME TypeOK, NEW kind, NEW todo, NEW ends, NEW others, NEW base,
         Execute(kind, todo, ends, others, base),
         NEW t \in Task, InFlight(t)
  PROVE  InFlight(t)'
<1>1. state' = state \/ \E r : state' = [state EXCEPT ![r.task] = "working"]
  BY DEF Execute
<1> QED BY <1>1 DEF InFlight, TypeOK

\* A row loop takes the lock from nobody, and the startup job frees it only when
\* it is the last of its kind or leaves a coroutine behind.
LEMMA LockExecute ==
  ASSUME TypeOK, LockNotLeaked, spent'["elsewhere"] = 0 => spent["elsewhere"] = 0,
         NEW kind, NEW todo, NEW ends, NEW others, NEW base,
         \A g \in handlers : g.kind = "first" => g \in others,
         Scanning => kind = "scan" \/ \E g \in others : g.kind = "scan",
         Execute(kind, todo, ends, others, base)
  PROVE  LockNotLeaked'
<1>1. \A t \in Task : Starting(t) => Starting(t)'
  <2>1. others \subseteq handlers'
    BY DEF Execute
  <2> QED BY <2>1 DEF Starting
<1>2. topicLock' = Free \/ topicLock' = topicLock
  BY DEF Execute
<1>3. topicLock' = Scan => topicLock = Scan /\ Scanning'
  <2>1. SUFFICES ASSUME topicLock' = Scan PROVE topicLock = Scan /\ Scanning'
    OBVIOUS
  <2>2. topicLock = Scan
    BY <1>2, <2>1, LockValues
  <2>3. kind = "scan" \/ \E g \in others : g.kind = "scan"
    BY <2>2 DEF LockNotLeaked
  <2>4. \/ handlers' = others /\ kind # "scan"
        \/ \E g : handlers' = others \cup {g} /\ g.kind = kind
    <3>1. CASE handlers' = others
              /\ topicLock' = IF kind = "scan" THEN Free ELSE topicLock
      BY <2>1, <3>1, LockValues
    <3>2. ASSUME NEW r, NEW q,
                 handlers' = others \cup
                   {[kind |-> kind, task |-> r.task, row |-> r,
                     todo |-> {x \in todo : x.n > r.n}, out |-> q]}
          PROVE  \E g : handlers' = others \cup {g} /\ g.kind = kind
      <4> DEFINE new == [kind |-> kind, task |-> r.task, row |-> r,
                         todo |-> {x \in todo : x.n > r.n}, out |-> q]
      <4>1. new.kind = kind
        OBVIOUS
      <4> HIDE DEF new
      <4>2. handlers' = others \cup {new}
        BY <3>2 DEF new
      <4> QED BY <4>1, <4>2
    <3> QED BY <3>1, <3>2 DEF Execute
  <2> QED BY <2>2, <2>3, <2>4 DEF Scanning
<1>4. ASSUME NEW t \in Task, topicLock' = t, spent["elsewhere"] = 0
      PROVE  InFlight(t)' \/ Starting(t)'
  <2>1. topicLock = t
    BY <1>2, <1>4, LockValues
  <2>2. InFlight(t) \/ Starting(t)
    BY <1>4, <2>1 DEF LockNotLeaked
  <2>3. InFlight(t) => InFlight(t)'
    BY ExecuteKeepsInFlight
  <2> QED BY <1>1, <2>2, <2>3
<1> QED BY <1>3, <1>4 DEF LockNotLeaked

\* The tool endpoints take the lock only for a task they start, and only
\* accept_result takes a task out of flight, freeing the lock in the same step.
LEMMA LockTool ==
  ASSUME TypeOK, LockNotLeaked, spent'["elsewhere"] = 0 => spent["elsewhere"] = 0,
         NEW m \in Message, Tool(m)
  PROVE  LockNotLeaked'
<1>1. ASSUME NEW s \in Staff, DelegateTask(m, s) PROVE LockNotLeaked'
  <2>1. PICK t \in Task :
          /\ state[t] = "absent"
          /\ state' = [state EXCEPT ![t] = "submitted"]
          /\ \/ UNCHANGED <<topicLock, handlers>>
             \/ /\ topicLock' = t
                /\ \E q : handlers' = handlers \cup
                     {[kind |-> "first", task |-> t, row |-> NoRow,
                       todo |-> {}, out |-> q]}
    BY <1>1 DEF DelegateTask
  <2>2. \A u \in Task : InFlight(u) => InFlight(u)'
    BY <2>1 DEF InFlight, TypeOK
  <2>3. CASE UNCHANGED <<topicLock, handlers>>
    BY <2>2, <2>3 DEF LockNotLeaked, Starting, Scanning
  <2>4. ASSUME NEW q, topicLock' = t,
               handlers' = handlers \cup
                 {[kind |-> "first", task |-> t, row |-> NoRow, todo |-> {}, out |-> q]}
        PROVE LockNotLeaked'
    <3> DEFINE new == [kind |-> "first", task |-> t, row |-> NoRow,
                       todo |-> {}, out |-> q]
    <3>1. Starting(t)'
      <4>1. new.kind = "first" /\ new.task = t
        OBVIOUS
      <4> HIDE DEF new
      <4>2. new \in handlers'
        BY <2>4 DEF new
      <4> QED BY <4>1, <4>2 DEF Starting
    <3> QED BY <2>4, <3>1, LockValues DEF LockNotLeaked
  <2> QED BY <2>1, <2>3, <2>4
<1>2. CASE AskSender(m)
  <2>1. \A u \in Task : InFlight(u) => InFlight(u)'
    BY <1>2 DEF AskSender, InFlight, TypeOK
  <2> QED BY <1>2, <2>1 DEF AskSender, LockNotLeaked, Starting, Scanning
<1>3. CASE SubmitResult(m)
  BY <1>3 DEF SubmitResult, LockNotLeaked, Starting, Scanning, InFlight
<1>4. ASSUME NEW t \in Task, AnswerQuestion(m, t) PROVE LockNotLeaked'
  BY <1>4 DEF AnswerQuestion, LockNotLeaked, Starting, Scanning, InFlight
<1>5. ASSUME NEW t \in Task, AcceptResult(m, t) PROVE LockNotLeaked'
  <2>1. \/ topicLock' = Free
        \/ \E u \in Task : topicLock' = u
             /\ state' = [state EXCEPT ![t] = "completed", ![u] = "working"]
    BY <1>5 DEF AcceptResult, NextQueued
  <2>2. ASSUME NEW u \in Task, topicLock' = u,
               state' = [state EXCEPT ![t] = "completed", ![u] = "working"]
        PROVE LockNotLeaked'
    <3>1. InFlight(u)'
      BY <2>2 DEF InFlight, TypeOK
    <3> QED BY <2>2, <3>1, LockValues DEF LockNotLeaked
  <2> QED BY <2>1, <2>2, LockValues DEF LockNotLeaked
<1>6. CASE AskUser(m)
  BY <1>6 DEF AskUser, LockNotLeaked, Starting, Scanning, InFlight
<1> QED BY <1>1, <1>2, <1>3, <1>4, <1>5, <1>6 DEF Tool

\* A resuming coroutine puts its task in flight before it goes away.
LEMMA LockHandler ==
  ASSUME TypeOK, LockNotLeaked, spent'["elsewhere"] = 0 => spent["elsewhere"] = 0,
         NEW h \in handlers, Publish(h) \/ StartScanJob(h)
  PROVE  LockNotLeaked'
<1>1. CASE Publish(h)
  <2>1. CASE h.kind \in {"first", "next"}
    <3>1. /\ handlers' = handlers \ {h}
          /\ topicLock' = topicLock
          /\ state' = IF h.kind = "first" THEN [state EXCEPT ![h.task] = "working"]
                      ELSE state
      BY <1>1, <2>1 DEF Publish
    <3>2. Scanning => Scanning'
      BY <2>1, <3>1 DEF Scanning
    <3>3. ASSUME NEW t \in Task, InFlight(t) \/ Starting(t)
          PROVE InFlight(t)' \/ Starting(t)'
      BY <2>1, <3>1, <3>3 DEF InFlight, Starting, TypeOK
    <3> QED BY <3>1, <3>2, <3>3 DEF LockNotLeaked
  <2>2. CASE h.kind \in {"end", "scan"}
    <3>1. Execute(h.kind, h.todo, due, handlers \ {h}, Published(h.out))
      BY <1>1, <2>2 DEF Publish
    <3>2. /\ \A g \in handlers : g.kind = "first" => g \in handlers \ {h}
          /\ Scanning => h.kind = "scan" \/ \E g \in handlers \ {h} : g.kind = "scan"
      BY <2>2 DEF Scanning
    <3> QED BY <3>1, <3>2, LockExecute
  <2> QED BY <1>1, <2>1, <2>2 DEF Publish
<1>2. CASE StartScanJob(h)
  <2>1. Execute("scan", h.todo, due, handlers \ {h}, messages) /\ h.kind = "scan"
    BY <1>2 DEF StartScanJob
  <2>2. \A g \in handlers : g.kind = "first" => g \in handlers \ {h}
    BY <2>1
  <2> QED BY <2>1, <2>2, LockExecute
<1> QED BY <1>1, <1>2

\* A failed dispatch frees the lock its coroutine took; a crash frees it too.
LEMMA LockFault ==
  ASSUME TypeOK, LockNotLeaked, spent'["elsewhere"] = 0 => spent["elsewhere"] = 0, Fault
  PROVE  LockNotLeaked'
<1>1. ASSUME NEW m \in Message, KillTurn(m) \/ DupResponse(m) PROVE LockNotLeaked'
  BY <1>1 DEF KillTurn, DupResponse, LockNotLeaked, Starting, Scanning, InFlight
<1>2. ASSUME NEW h \in handlers, DispatchFails(h) PROVE LockNotLeaked'
  <2>1. /\ handlers' = handlers \ {h}
        /\ topicLock' = IF h.kind = "end" THEN topicLock ELSE Free
        /\ state' = state
    BY <1>2 DEF DispatchFails, Released
  <2> QED BY <2>1, LockValues DEF LockNotLeaked, Starting, Scanning, InFlight
<1>3. ASSUME NEW s \in Staff, RemoveStaff(s) PROVE LockNotLeaked'
  BY <1>3 DEF RemoveStaff, LockNotLeaked, Starting, Scanning, InFlight
<1>4. CASE Crash
  BY <1>4, LockValues DEF Crash, LockNotLeaked
<1> QED BY <1>1, <1>2, <1>3, <1>4 DEF Fault

\* LockNotLeaked is inductive relative to TypeOK.
LEMMA LockStep == TypeOK /\ LockNotLeaked /\ [Next]_vars => LockNotLeaked'
<1> SUFFICES ASSUME TypeOK, LockNotLeaked, [Next]_vars PROVE LockNotLeaked'
  OBVIOUS
<1>0. spent'["elsewhere"] = 0 => spent["elsewhere"] = 0
  <2>1. spent["elsewhere"] \in Nat /\ spent'["elsewhere"] >= spent["elsewhere"]
    BY SpentGrows DEF TypeOK, Budget
  <2> QED BY <2>1
<1>1. ASSUME NEW s \in Staff, UserPrompt(s) PROVE LockNotLeaked'
  BY <1>0, <1>1 DEF UserPrompt, LockNotLeaked, Starting, Scanning, InFlight
<1>2. ASSUME NEW m \in Message, Tool(m) PROVE LockNotLeaked'
  BY <1>0, <1>2, LockTool
<1>3. ASSUME NEW m \in Message, Respond(m) PROVE LockNotLeaked'
  BY <1>0, <1>3 DEF Respond, LockNotLeaked, Starting, Scanning, InFlight
<1>4. ASSUME NEW m \in Message, ProcessTurnEnd(m) PROVE LockNotLeaked'
  <2> DEFINE ends == [due EXCEPT ![m] = @ - 1]
  <2>1. CASE Execute("end", RowsOf(m), ends, handlers, messages)
    BY <1>0, <2>1, LockExecute DEF Scanning
  <2>2. CASE UNCHANGED <<state, topicLock>> /\ handlers \subseteq handlers'
    BY <1>0, <2>2 DEF LockNotLeaked, Starting, Scanning, InFlight
  <2> QED BY <1>4, <2>1, <2>2 DEF ProcessTurnEnd
<1>5. ASSUME NEW h \in handlers, Publish(h) \/ StartScanJob(h) PROVE LockNotLeaked'
  BY <1>0, <1>5, LockHandler
<1>6. CASE StartupScan
  <2>1. CASE UNCHANGED <<state, topicLock, handlers>>
    BY <1>0, <2>1 DEF LockNotLeaked, Starting, Scanning, InFlight
  <2>2. CASE topicLock' = Scan /\ Scanning'
    BY <2>2, LockValues DEF LockNotLeaked
  <2>3. ASSUME NEW r, handlers' = handlers \cup
                 {[kind |-> "scan", task |-> NoTask, row |-> NoRow,
                   todo |-> {r}, out |-> NoMessage]}
        PROVE Scanning'
    <3> DEFINE new == [kind |-> "scan", task |-> NoTask, row |-> NoRow,
                       todo |-> {r}, out |-> NoMessage]
    <3>1. new.kind = "scan"
      OBVIOUS
    <3> HIDE DEF new
    <3>2. new \in handlers'
      BY <2>3 DEF new
    <3> QED BY <3>1, <3>2 DEF Scanning
  <2> QED BY <1>6, <2>1, <2>2, <2>3 DEF StartupScan
<1>7. CASE Fault
  BY <1>0, <1>7, LockFault
<1>8. ASSUME NEW t \in Task, ForeignTask(t) PROVE LockNotLeaked'
  <2>1. /\ state[t] = "absent"
        /\ \E st \in {"working", "input-required"} : state' = [state EXCEPT ![t] = st]
        /\ UNCHANGED <<topicLock, handlers>>
    BY <1>8 DEF ForeignTask
  <2>2. \A u \in Task : InFlight(u) => InFlight(u)'
    BY <2>1 DEF InFlight, TypeOK
  <2> QED BY <1>0, <2>1, <2>2 DEF LockNotLeaked, Starting, Scanning
<1>9. ASSUME NEW t \in Task, Elsewhere(t) PROVE LockNotLeaked'
  <2>1. spent'["elsewhere"] # 0
    BY <1>9 DEF Elsewhere, Spend, TypeOK, Budget
  <2> QED BY <1>9, <2>1 DEF Elsewhere, LockNotLeaked, Scanning
<1>10. CASE UNCHANGED vars
  BY <1>10 DEF vars, LockNotLeaked, Starting, Scanning, InFlight
<1> QED BY <1>1, <1>2, <1>3, <1>4, <1>5, <1>6, <1>7, <1>8, <1>9, <1>10 DEF Next

\* The topic lock is never leaked: whoever holds it is a task in flight, a task
\* being started, or a startup job (delegate_task, accept_result,
\* _dispatch_next_queued, _startup_execute_and_release), whatever faults occur
\* and whatever tasks of other topics are accepted here, until a turn of another
\* topic touches a task of this one.
THEOREM LockSafe == Spec => []LockNotLeaked
<1>1. Init => LockNotLeaked
  BY LockValues DEF Init, LockNotLeaked
<1> QED BY <1>1, LockStep, TypeCorrect, PTL DEF Spec

=============================================================================
