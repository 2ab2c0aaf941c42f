--------------------------- MODULE Orchestration ---------------------------
(***************************************************************************)
(* Delegation between the staffs of ONE topic, as the master implements it *)
(* in src/src/master/orchestrate_api.py (the tool endpoints, turn re-entry *)
(* and the startup scan), dispatch.py (dispatch_to_staff), the /response   *)
(* branch of mqtt_client._on_message, and the agent's turn in              *)
(* agent/mqtt_loop.py.  The topic lock, the queue, the prompts and the     *)
(* staged rows are per topic.  Tasks are not: answer_question and          *)
(* accept_result find a task by its id alone, so the other topics are the  *)
(* environment: their tasks (ForeignTask) may be named by turns of this    *)
(* topic, and their turns may name the tasks of this one (Elsewhere).      *)
(*                                                                         *)
(* Grain.  The master's coroutines share one asyncio loop: they interleave *)
(* only where one awaits, and the one await that suspends here is the      *)
(* hub.broadcast inside dispatch_to_staff, after the prompt row is         *)
(* committed and before it is published.  A handler is therefore cut at    *)
(* exactly that point: what precedes it is one action, which leaves a      *)
(* record in `handlers`, and what follows it is Publish or DispatchFails.  *)
(***************************************************************************)
EXTENDS Naturals, FiniteSets, TaskStates

CONSTANTS
  Staff,         \* the staffs that can be resolved for the topic
  User,          \* the human at the other end of the topic
  Removable,     \* the staffs that may be deleted while the system runs
  Addressed,     \* the staffs the user writes to
  MaxDepth,      \* effective max_delegation_depth
  MaxPerRoot,    \* effective max_tasks_per_root
  Careful,       \* TRUE: no staff answers a task that has an answer staged
  \* bounds of the model
  MaxTasks,      \* tasks rows
  MaxMessages,   \* prompts alive at once
  MaxStaged,     \* staged rows of one turn
  MaxUserTurns,  \* user prompts alive at once
  MaxAsks,       \* ask_sender calls, over a whole behaviour
  \* fault budgets, over a whole behaviour
  MaxKills,      \* turns that die without a routable response
  MaxFails,      \* exceptions between the broadcast and the publish
  MaxDups,       \* QoS-1 responses delivered twice
  MaxCrashes,    \* master crashes, each followed by a restart
  \* budgets of the environment, over a whole behaviour
  MaxForeign,    \* tasks of other topics that turns of this topic may name
  MaxElsewhere,  \* what turns of other topics do to a task
  MaxKinds       \* how many of the budgets beside MaxAsks one behaviour uses

ASSUME ParamsAssumption ==
  /\ User \notin Staff
  /\ Removable \subseteq Staff
  /\ Addressed \subseteq Staff
  /\ Careful \in BOOLEAN
  /\ \A b \in {MaxDepth, MaxPerRoot, MaxTasks, MaxMessages, MaxStaged,
               MaxUserTurns, MaxAsks, MaxKills, MaxFails, MaxDups,
               MaxCrashes, MaxForeign, MaxElsewhere, MaxKinds} : b \in Nat

Task == 1 .. MaxTasks          \* numbered in the order of created_at
Message == 1 .. MaxMessages    \* prompt rows; an id is reused once its turn is over
NoTask == 0
NoMessage == 0
Free == 0                      \* values of topicLock beside the tasks
Scan == MaxTasks + 1
Budget == {"ask", "kill", "fail", "dup", "crash", "foreign", "elsewhere"}

(***************************************************************************)
(* MAX_DELEGATION_DEPTH of orchestration.py.  The agent never exports a    *)
(* MAX_DELEGATION_DEPTH variable to its MCP server, so this default gates  *)
(* the tool there, whatever the workspace configured.                      *)
(***************************************************************************)
McpDepth == 1

VARIABLES
  state,     \* tasks.state
  info,      \* the immutable columns of a tasks row
  topicLock, \* the topic's threading.Lock, with the task (or the scan) that took it
  messages,  \* prompts: where each one is on its way through a turn
  staged,    \* staged_dispatches rows whose dispatched_at is NULL
  handlers,  \* coroutines suspended in dispatch_to_staff's broadcast
  due,       \* process_turn_end coroutines scheduled for a prompt, not yet started
  told,      \* tasks with a judgment prompt row (assignee to dispatcher)
  roster,    \* the staffs resolve_staff finds
  phase,     \* "starting": lifespan runs before the startup scan; "up": serving
  spent      \* how much of each budget is used

vars == <<state, info, topicLock, messages, staged, handlers, due, told,
          roster, phase, spent>>

-----------------------------------------------------------------------------
(* Data *)

Info == [dispatcher : Staff \cup {User}, assignee : Staff \cup {User},
         parent : Task \cup {NoTask}, root : Task \cup {NoTask}, depth : Nat]
NoInfo == [dispatcher |-> User, assignee |-> User,
           parent |-> NoTask, root |-> NoTask, depth |-> 0]

(***************************************************************************)
(* A prompt: "asked" (a question row ask_sender inserted, not yet          *)
(* dispatched), "out" (row committed, publish pending), "running"          *)
(* (published: with the broker, in the agent's executor, in its turn, or   *)
(* answered by a response still on its way: to the master these are one),  *)
(* "saved" (response row committed), "dead" (it will never be published,   *)
(* or never be answered).  `replied`: the turn has asked the user, and the *)
(* question is a messages row of sender 'agent' that replies to the prompt.*)
(***************************************************************************)
MessageState == {"free", "asked", "out", "running", "saved", "dead"}
Prompt == [st : MessageState, to : Staff \cup {User}, task : Task \cup {NoTask},
           replied : BOOLEAN]
NoPrompt == [st |-> "free", to |-> User, task |-> NoTask, replied |-> FALSE]

Row == [prompt : Message, n : 1 .. MaxStaged, kind : {"question", "answer", "result_ready"},
        task : Task, receiver : Staff \cup {User}, question : Message \cup {NoMessage}]
NoRow == [prompt |-> NoMessage]

(***************************************************************************)
(* "first": delegate_task; "next": _dispatch_next_queued; "end":           *)
(* process_turn_end; "scan": _startup_execute_and_release.  `out` is the   *)
(* prompt being dispatched (NoMessage: the coroutine has not started),     *)
(* `row` the staged row it comes from, `todo` the rows still to execute.   *)
(***************************************************************************)
Handler == [kind : {"first", "next", "end", "scan"}, task : Task \cup {NoTask},
            row : Row \cup {NoRow}, todo : SUBSET Row, out : Message \cup {NoMessage}]

TypeOK ==
  /\ state \in [Task -> TaskState]
  /\ info \in [Task -> Info]
  /\ topicLock \in Task \cup {Free, Scan}
  /\ messages \in [Message -> Prompt]
  /\ staged \subseteq Row
  /\ handlers \subseteq Handler
  /\ due \in [Message -> Nat]
  /\ told \subseteq Task
  /\ roster \subseteq Staff
  /\ phase \in {"starting", "up"}
  /\ spent \in [Budget -> Nat]

Init ==
  /\ state = [t \in Task |-> "absent"]
  /\ info = [t \in Task |-> NoInfo]
  /\ topicLock = Free
  /\ messages = [m \in Message |-> NoPrompt]
  /\ staged = {}
  /\ handlers = {}
  /\ due = [m \in Message |-> 0]
  /\ told = {}
  /\ roster = Staff
  /\ phase = "up"
  /\ spent = [k \in Budget |-> 0]

-----------------------------------------------------------------------------
(* Prompts and turns *)

\* The lowest unused prompt id, or none.
FreshMessage ==
  {m \in Message : /\ messages[m].st = "free"
                   /\ \A k \in Message : messages[k].st = "free" => m <= k}

RowsOf(m) == {r \in staged : r.prompt = m}

\* `base` with the ids of finished turns given back (bookkeeping of the bound
\* MaxMessages: the rows stay in the database): no code will read the prompt
\* again once it has no turn end `ends`, no staged row and no handler.
Recycle(base, ends, rows, coroutines) ==
  [m \in Message |->
     IF /\ base[m].st \in {"saved", "dead"}
        /\ ends[m] = 0
        /\ \A r \in rows : r.prompt # m
        /\ \A h \in coroutines : /\ m \notin {h.out, h.row.prompt}
                                 /\ \A r \in h.todo : m \notin {r.prompt, r.question}
     THEN NoPrompt ELSE base[m]]

\* `base` when nobody will dispatch `rows` any more: their questions stay unasked.
Drop(base, rows) ==
  [m \in Message |-> IF base[m].st = "asked" /\ \E r \in rows : r.question = m
                     THEN [base[m] EXCEPT !.st = "dead"] ELSE base[m]]

\* dispatch.py: an assignee's turn runs at its task's depth, a turn given back
\* to the dispatcher one level up, a user's prompt at 0.
TurnDepth(m) ==
  LET t == messages[m].task IN
  IF t = NoTask THEN 0
  ELSE IF messages[m].to = info[t].assignee THEN info[t].depth
  ELSE IF info[t].depth = 0 THEN 0 ELSE info[t].depth - 1

NewPrompt(staff, t) == [st |-> "out", to |-> staff, task |-> t, replied |-> FALSE]

Spend(k, bound) ==
  /\ spent[k] < bound
  /\ Cardinality(({k} \cup {j \in Budget : spent[j] > 0}) \ {"ask"}) <= MaxKinds
  /\ spent' = [spent EXCEPT ![k] = @ + 1]

\* messages.send_message: a user's prompt, with no task, to a staff.
UserPrompt(s) ==
  /\ phase = "up"
  /\ s \in Addressed \cap roster
  /\ Cardinality({m \in Message : /\ messages[m].st # "free"
                                  /\ messages[m].task = NoTask}) < MaxUserTurns
  /\ \E m \in FreshMessage :
       messages' = [messages EXCEPT ![m] = [NewPrompt(s, NoTask) EXCEPT !.st = "running"]]
  /\ UNCHANGED <<state, info, topicLock, staged, handlers, due, told, roster, phase, spent>>

\* The turns are over and no response will ever answer them: process_turn_end
\* will not read their staged rows, and the startup scan only those of turns
\* that asked the user.
Abandon(base, turns, ends, coroutines) ==
  LET rows == {r \in staged : r.prompt \in turns /\ ~ base[r.prompt].replied}
      ended == [m \in Message |-> IF m \in turns THEN [base[m] EXCEPT !.st = "dead"]
                                 ELSE base[m]]
  IN /\ staged' = staged \ rows
     /\ messages' = Recycle(Drop(ended, rows), ends, staged \ rows, coroutines)

\* The agent is killed or shut down: what it publishes for the turn has
\* reply_to = None and an interrupt_reason, which process_turn_end skips.  Or
\* the response goes out while the master, whose MQTT session is clean, is
\* not connected.  Or it answers a prompt of an event action with
\* structured_output, and _on_message returns before process_turn_end.
KillTurn(m) ==
  /\ messages[m].st = "running"
  /\ Spend("kill", MaxKills)
  /\ Abandon(messages, {m}, due, handlers)
  /\ UNCHANGED <<state, info, topicLock, handlers, due, told, roster, phase>>

\* The turn ends; the MQTT thread takes its response: _save_agent_response commits
\* the row, then the turn-end coroutine is handed to the loop.
Respond(m) ==
  /\ messages[m].st = "running"
  /\ messages' = [messages EXCEPT ![m].st = "saved"]
  /\ due' = [due EXCEPT ![m] = @ + 1]
  /\ UNCHANGED <<state, info, topicLock, staged, handlers, told, roster, phase, spent>>

\* The same QoS-1 response again: the upsert ignores it, but the handler
\* schedules process_turn_end all the same.
DupResponse(m) ==
  /\ messages[m].st = "saved"
  /\ Spend("dup", MaxDups)
  /\ due' = [due EXCEPT ![m] = @ + 1]
  /\ UNCHANGED <<state, info, topicLock, messages, staged, handlers, told, roster, phase>>

-----------------------------------------------------------------------------
(* Tool calls of a running turn *)

ToolCall(m) == phase = "up" /\ messages[m].st = "running"

InFlight(t) == state[t] \in {"working", "input-required"}

\* The ancestors delegate_task walks: from the PARENT of the caller's task up.
Ancestors(t) ==
  LET chain[u \in Task \cup {NoTask}] ==
        IF u = NoTask THEN {} ELSE {u} \cup chain[info[u].parent]
  IN IF t = NoTask THEN {} ELSE chain[info[t].parent]

MayDelegate(m, s) ==
  LET t == messages[m].task IN
  /\ TurnDepth(m) < McpDepth
  /\ s # messages[m].to
  /\ s \in roster
  /\ (IF t = NoTask THEN 0 ELSE info[t].depth) < MaxDepth
  /\ t # NoTask =>
       /\ Cardinality({u \in Task : info[u].root = info[t].root}) < MaxPerRoot
       /\ \A a \in Ancestors(t) : s \notin {info[a].assignee, info[a].dispatcher}

\* Mutant of NewInfo: dispatcher and parent swapped.
SwappedInfo(m, s, t) ==
  LET p == messages[m].task IN
  [dispatcher |-> p, assignee |-> s, parent |-> messages[m].to,
   root |-> IF p = NoTask THEN t ELSE info[p].root,
   depth |-> IF p = NoTask THEN 1 ELSE info[p].depth + 1]

NewInfo(m, s, t) ==
  LET p == messages[m].task IN
  [dispatcher |-> messages[m].to, assignee |-> s, parent |-> p,
   root |-> IF p = NoTask THEN t ELSE info[p].root,
   depth |-> IF p = NoTask THEN 1 ELSE info[p].depth + 1]

\* Mutant of Available: nobody looks at the lock.
NoLock == TRUE

\* acquire(blocking=False) of the topic's lock succeeds.
Available == topicLock = Free

\* delegate_task: insert the row, then dispatch the first prompt if the lock
\* is free; a task that finds it taken stays queued in state 'submitted'.
DelegateTask(m, s) ==
  /\ ToolCall(m)
  /\ MayDelegate(m, s)
  /\ \E t \in Task :
       /\ state[t] = "absent"
       /\ \A u \in Task : state[u] = "absent" => t <= u
       /\ state' = [state EXCEPT ![t] = "submitted"]
       /\ info' = [info EXCEPT ![t] = NewInfo(m, s, t)]
       /\ \/ /\ ~ Available
             /\ UNCHANGED <<topicLock, messages, handlers>>
          \/ /\ Available
             /\ topicLock' = t
             /\ \E q \in FreshMessage :
                  /\ messages' = [messages EXCEPT ![q] = NewPrompt(s, t)]
                  /\ handlers' = handlers \cup
                       {[kind |-> "first", task |-> t, row |-> NoRow,
                         todo |-> {}, out |-> q]}
  /\ UNCHANGED <<staged, due, told, roster, phase, spent>>

\* _stage_dispatch: rows of a turn are numbered in the order of created_at,
\* after those that a job of the startup scan is dispatching already.
StageRow(m, kept, kind, t, receiver, q) ==
  LET held == {h.row : h \in handlers} \cup UNION {h.todo : h \in handlers}
      own == {r \in kept \cup held : r.prompt = m}
  IN
  \E n \in 1 .. MaxStaged :
    /\ \A r \in own : r.n < n
    /\ n = 1 \/ \E r \in own : r.n = n - 1
    /\ staged' = kept \cup {[prompt |-> m, n |-> n, kind |-> kind, task |-> t,
                             receiver |-> receiver, question |-> q]}

\* ask_sender's routing: the assignee asks its dispatcher, the dispatcher asks
\* whoever dispatched it; a question to oneself goes to the user.
AskReceiver(m) ==
  LET t == messages[m].task
      r == IF messages[m].to # info[t].dispatcher THEN info[t].dispatcher
           ELSE IF info[t].parent # NoTask THEN info[info[t].parent].dispatcher
           ELSE User
  IN IF r = messages[m].to THEN User ELSE r

\* ask_sender inside a task.  A question to the user replies to the prompt at
\* once; one to a staff is a prompt row from now on, dispatched at turn end.
AskSender(m) ==
  LET t == messages[m].task
      receiver == AskReceiver(m)
  IN
  /\ ToolCall(m)
  /\ t # NoTask
  /\ Legal(state[t], "ask_sender")
  /\ Spend("ask", MaxAsks)
  /\ state' = [state EXCEPT ![t] = "input-required"]
  /\ \/ /\ receiver = User
        /\ StageRow(m, staged, "question", t, User, NoMessage)
        /\ messages' = [messages EXCEPT ![m].replied = TRUE]
     \/ /\ receiver # User
        /\ \E q \in FreshMessage :
             /\ StageRow(m, staged, "question", t, receiver, q)
             /\ messages' = [messages EXCEPT
                               ![q] = [NewPrompt(receiver, t) EXCEPT !.st = "asked"]]
  /\ UNCHANGED <<info, topicLock, handlers, due, told, roster, phase>>

\* ask_sender outside a task: the question goes to the user, nothing is staged.
AskUser(m) ==
  /\ ToolCall(m)
  /\ messages[m].task = NoTask
  /\ Spend("ask", MaxAsks)
  /\ messages' = [messages EXCEPT ![m].replied = TRUE]
  /\ UNCHANGED <<state, info, topicLock, staged, handlers, due, told, roster, phase>>

\* submit_result: the last call of a turn wins.
SubmitResult(m) ==
  LET t == messages[m].task IN
  /\ ToolCall(m)
  /\ t # NoTask
  /\ TurnDepth(m) >= 1
  /\ messages[m].to = info[t].assignee
  /\ Legal(state[t], "submit_result")
  /\ StageRow(m, {r \in staged : ~(r.prompt = m /\ r.kind = "result_ready")},
              "result_ready", t, info[t].dispatcher, NoMessage)
  /\ UNCHANGED <<state, info, topicLock, messages, handlers, due, told, roster, phase, spent>>

\* Mutant of Waiting: the endpoint's state check is missing.
AnyTask(t) == state[t] # "absent"

Waiting(t) == state[t] = "input-required"

\* answer_question: the task stays 'input-required' until the turn ends.  It is
\* looked up by its id: its topic need not be this one.
AnswerQuestion(m, t) ==
  /\ ToolCall(m)
  /\ TurnDepth(m) = 0
  /\ info[t].dispatcher = messages[m].to
  /\ Waiting(t)
  /\ Careful => \A r \in staged : ~(r.kind = "answer" /\ r.task = t)
  /\ StageRow(m, staged, "answer", t, info[t].assignee, NoMessage)
  /\ UNCHANGED <<state, info, topicLock, messages, handlers, due, told, roster, phase, spent>>

\* Mutant of NextQueued: accept_result does not look at the queue.
NobodyQueued == {}

\* _dispatch_next_queued: the oldest submitted task, if its assignee resolves.
NextQueued ==
  LET queued == {u \in Task : state[u] = "submitted"} IN
  {u \in queued : (\A v \in queued : u <= v) /\ info[u].assignee \in roster}

\* accept_result closes the task, whichever topic it is of, releases this topic's
\* lock whoever took it, and goes on to _dispatch_next_queued: the next task of
\* this topic takes the lock.
AcceptResult(m, t) ==
  /\ ToolCall(m)
  /\ TurnDepth(m) = 0
  /\ info[t].dispatcher = messages[m].to
  /\ Legal(state[t], "accept_result")
  /\ \/ /\ NextQueued = {}
        /\ state' = [state EXCEPT ![t] = "completed"]
        /\ topicLock' = Free
        /\ UNCHANGED <<messages, handlers>>
     \/ \E u \in NextQueued, q \in FreshMessage :
          /\ state' = [state EXCEPT ![t] = "completed", ![u] = "working"]
          /\ topicLock' = u
          /\ messages' = [messages EXCEPT ![q] = NewPrompt(info[u].assignee, u)]
          /\ handlers' = handlers \cup
               {[kind |-> "next", task |-> u, row |-> NoRow,
                 todo |-> {}, out |-> q]}
  /\ UNCHANGED <<info, staged, due, told, roster, phase, spent>>

-----------------------------------------------------------------------------
(* Dispatch: staged rows, publishing, the end of a turn *)

\* Mutant of Published: turns given back to the dispatcher are not published.
OnlyToAssignee(q) ==
  IF q # NoMessage /\ messages[q].st = "out"
     /\ messages[q].to = info[messages[q].task].assignee
  THEN [messages EXCEPT ![q].st = "running"] ELSE messages

\* mqtt.publish.  The agent ignores a message_id it has already seen.
Published(q) ==
  IF q # NoMessage /\ messages[q].st = "out"
  THEN [messages EXCEPT ![q].st = "running"] ELSE messages

\* The prompt that carries a staged row: a question has had one since ask_sender.
Carrier(r) == IF r.kind = "question" THEN {r.question} ELSE FreshMessage

Carried(base, r, q) ==
  IF r.kind # "question" THEN [base EXCEPT ![q] = NewPrompt(r.receiver, r.task)]
  ELSE IF base[q].st = "asked" THEN [base EXCEPT ![q].st = "out"] ELSE base

\* Mutants of Unstamped: the stamp is forgotten, or set only for staff receivers.
AllUnstamped(done) == staged
UserRowsUnstamped(done) == staged \ {r \in done : r.receiver # User}

\* The rows without a stamp once those of `done` have theirs.
Unstamped(done) == staged \ done

(***************************************************************************)
(* The loop over _execute_staged_row, up to its next suspension: rows for  *)
(* the user and for staffs that no longer resolve are stamped and nothing  *)
(* else; the first other row is stamped, an answer sets its task to        *)
(* 'working' whatever its state is, and its prompt waits for the publish.  *)
(***************************************************************************)
Execute(kind, todo, ends, others, base) ==
  LET waits == {r \in todo : r.receiver \in roster} IN
  \/ /\ waits = {}
     /\ staged' = Unstamped(todo)
     /\ handlers' = others
     /\ topicLock' = IF kind = "scan" THEN Free ELSE topicLock
     /\ messages' = Recycle(Drop(base, todo), ends, Unstamped(todo), others)
     /\ UNCHANGED <<state, told>>
  \/ \E r \in waits, q \in Message :
       LET skipped == {x \in todo : x.n < r.n}
           rows == Unstamped(skipped \cup {r})
           suspended == [kind |-> kind, task |-> r.task, row |-> r,
                         todo |-> {x \in todo : x.n > r.n}, out |-> q]
       IN
       /\ \A x \in waits : r.n <= x.n
       /\ q \in Carrier(r)
       /\ staged' = rows
       /\ state' = IF r.kind = "answer" THEN [state EXCEPT ![r.task] = "working"]
                   ELSE state
       /\ told' = IF r.kind = "result_ready" THEN told \cup {r.task} ELSE told
       /\ handlers' = others \cup {suspended}
       /\ messages' = Recycle(Carried(Drop(base, skipped), r, q), ends, rows,
                              others \cup {suspended})
       /\ UNCHANGED topicLock

\* Mutant of ImplicitResult: it expects the dispatcher's turn.
JudgmentResult(m) ==
  LET t == messages[m].task IN
  /\ t # NoTask
  /\ state[t] = "working"
  /\ messages[m].to = info[t].dispatcher

\* _apply_implicit_fallback: the assignee's turn ended without a tool call while
\* its task is 'working'.  Its text is the result; other turns change nothing.
ImplicitResult(m) ==
  LET t == messages[m].task IN
  /\ t # NoTask
  /\ state[t] = "working"
  /\ messages[m].to = info[t].assignee
  /\ info[t].dispatcher \in roster

\* process_turn_end, scheduled by Respond or DupResponse.
ProcessTurnEnd(m) ==
  LET t == messages[m].task
      ends == [due EXCEPT ![m] = @ - 1]
  IN
  /\ phase = "up"
  /\ due[m] > 0
  /\ due' = ends
  /\ \/ /\ RowsOf(m) # {}
        /\ Execute("end", RowsOf(m), ends, handlers, messages)
     \/ /\ RowsOf(m) = {}
        /\ ImplicitResult(m)
        /\ told' = told \cup {t}
        /\ \E q \in FreshMessage :
             LET suspended == [kind |-> "end", task |-> t, row |-> NoRow,
                               todo |-> {}, out |-> q]
                 judgment == NewPrompt(info[t].dispatcher, t)
             IN /\ handlers' = handlers \cup {suspended}
                /\ messages' = Recycle([messages EXCEPT ![q] = judgment], ends, staged,
                                       handlers \cup {suspended})
        /\ UNCHANGED <<state, topicLock, staged>>
     \/ /\ RowsOf(m) = {}
        /\ ~ ImplicitResult(m)
        /\ messages' = Recycle(messages, ends, staged, handlers)
        /\ UNCHANGED <<state, topicLock, staged, handlers, told>>
  /\ UNCHANGED <<info, roster, phase, spent>>

\* The coroutine resumes after the broadcast and publishes its prompt.
\* _dispatch_task_first_prompt sets 'working' only now.
Publish(h) ==
  /\ h.out # NoMessage
  /\ \/ /\ h.kind \in {"first", "next"}
        /\ state' = IF h.kind = "first" THEN [state EXCEPT ![h.task] = "working"]
                    ELSE state
        /\ handlers' = handlers \ {h}
        /\ messages' = Published(h.out)
        /\ UNCHANGED <<topicLock, staged, told>>
     \/ /\ h.kind \in {"end", "scan"}
        /\ Execute(h.kind, h.todo, due, handlers \ {h}, Published(h.out))
  /\ UNCHANGED <<info, due, roster, phase, spent>>

\* Mutant of Released: delegate_task lets the exception through.
FirstKeepsLock(h) == IF h.kind \in {"end", "first"} THEN topicLock ELSE Free

\* The lock after a failed dispatch: whoever took it for this dispatch frees it.
Released(h) == IF h.kind = "end" THEN topicLock ELSE Free

\* The row whose dispatch failed and the table without and with it: the stamp is
\* cleared, unless submit_result has replaced the row (which only the startup
\* scan takes from a turn that can still call submit_result).
Restored(row) ==
  {staged \cup ({row} \ {NoRow})} \cup
    (IF row # NoRow /\ row.kind = "result_ready" /\ messages[row.prompt].replied
     THEN {staged} ELSE {})

\* dispatch_to_staff raises instead: the staged row loses its stamp, and the
\* rest of the loop is not run.
DispatchFails(h) ==
  LET unsent == IF h.row # NoRow /\ h.row.kind = "question" THEN "asked" ELSE "dead"
      base == IF messages[h.out].st = "out" THEN [messages EXCEPT ![h.out].st = unsent]
              ELSE messages
  IN
  /\ h.out # NoMessage
  /\ Spend("fail", MaxFails)
  /\ handlers' = handlers \ {h}
  /\ topicLock' = Released(h)
  /\ \E rows \in Restored(h.row) :
       /\ staged' = rows
       /\ messages' = Recycle(base, due, rows, handlers \ {h})
  /\ UNCHANGED <<state, info, due, told, roster, phase>>

-----------------------------------------------------------------------------
(* Staff changes, crash and restart of the master *)

\* A staff is deleted: resolve_staff no longer finds it.
RemoveStaff(s) ==
  /\ s \in Removable \cap roster
  /\ roster' = roster \ {s}
  /\ UNCHANGED <<state, info, topicLock, messages, staged, handlers, due, told, phase, spent>>

\* The database survives, the locks and the coroutines do not.  One publish may
\* have gone out just before; a response sent meanwhile may never arrive.
Crash ==
  /\ Spend("crash", MaxCrashes)
  /\ phase' = "starting"
  /\ topicLock' = Free
  /\ handlers' = {}
  /\ due' = [m \in Message |-> 0]
  /\ \E sent \in SUBSET {m \in Message : messages[m].st = "out"},
        lost \in SUBSET {m \in Message : messages[m].st = "running"} :
       /\ Cardinality(sent) <= 1
       /\ Abandon([m \in Message |->
                     IF messages[m].st # "out" THEN messages[m]
                     ELSE [messages[m] EXCEPT
                             !.st = IF m \in sent THEN "running" ELSE "dead"]],
                   lost, [m \in Message |-> 0], {})
  /\ UNCHANGED <<state, info, told, roster>>

\* A messages row of sender 'agent' replies to the prompt of the staged row: its
\* response, or a question of the turn to the user.
Answered(r) == messages[r.prompt].st = "saved" \/ messages[r.prompt].replied

\* dispatch_undispatched_staged_rows, the last step of lifespan before serving:
\* the first row found takes the lock, so the topic's other rows are skipped.
StartupScan ==
  LET orphaned == {r \in staged : Answered(r)} IN
  /\ phase = "starting"
  /\ phase' = "up"
  /\ \/ /\ orphaned = {}
        /\ UNCHANGED <<topicLock, handlers>>
     \/ \E r \in orphaned :
          /\ topicLock' = Scan
          /\ handlers' = handlers \cup
               {[kind |-> "scan", task |-> NoTask, row |-> NoRow,
                 todo |-> {r}, out |-> NoMessage]}
  /\ UNCHANGED <<state, info, messages, staged, due, told, roster, spent>>

\* _startup_execute_and_release starts.  It does not look at the stamp again.
StartScanJob(h) ==
  /\ h.kind = "scan"
  /\ h.out = NoMessage
  /\ Execute("scan", h.todo, due, handlers \ {h}, messages)
  /\ UNCHANGED <<info, due, roster, phase, spent>>

-----------------------------------------------------------------------------
(* The other topics *)

\* A task of another topic, in flight there: its dispatcher is a staff of this
\* topic too, and may name it in its turns here.
ForeignTask(t) ==
  /\ state[t] = "absent"
  /\ \A u \in Task : state[u] = "absent" => t <= u
  /\ Spend("foreign", MaxForeign)
  /\ \E st \in {"working", "input-required"} : state' = [state EXCEPT ![t] = st]
  /\ \E dispatcher, assignee \in Staff :
       /\ dispatcher # assignee
       /\ info' = [info EXCEPT ![t] = [dispatcher |-> dispatcher, assignee |-> assignee,
                                       parent |-> NoTask, root |-> t, depth |-> 1]]
  /\ UNCHANGED <<topicLock, messages, staged, handlers, due, told, roster, phase>>

\* A turn of another topic asks about the task or accepts its result there
\* (accept_result releases the lock of that topic), an answer staged there is
\* executed, whatever the state is, or a judgment prompt is sent there.
Elsewhere(t) ==
  /\ Spend("elsewhere", MaxElsewhere)
  /\ state[t] \notin {"absent", "submitted"}
  /\ \/ /\ \E e \in {"ask_sender", "accept_result"} :
             /\ Legal(state[t], e)
             /\ state' = [state EXCEPT ![t] = After(@, e)]
        /\ UNCHANGED told
     \/ /\ state' = [state EXCEPT ![t] = "working"]
        /\ UNCHANGED told
     \/ /\ told' = told \cup {t}
        /\ UNCHANGED state
  /\ UNCHANGED <<info, topicLock, messages, staged, handlers, due, roster, phase>>

-----------------------------------------------------------------------------
Tool(m) ==
  \/ \E s \in Staff : DelegateTask(m, s)
  \/ AskSender(m) \/ AskUser(m)
  \/ SubmitResult(m)
  \/ \E t \in Task : AnswerQuestion(m, t) \/ AcceptResult(m, t)

Fault ==
  \/ \E m \in Message : KillTurn(m) \/ DupResponse(m)
  \/ \E h \in handlers : DispatchFails(h)
  \/ \E s \in Staff : RemoveStaff(s)
  \/ Crash

Next ==
  \/ \E s \in Staff : UserPrompt(s)
  \/ \E m \in Message : Tool(m) \/ Respond(m) \/ ProcessTurnEnd(m)
  \/ \E h \in handlers : Publish(h) \/ StartScanJob(h)
  \/ StartupScan
  \/ Fault
  \/ \E t \in Task : ForeignTask(t) \/ Elsewhere(t)

Spec == Init /\ [][Next]_vars

-----------------------------------------------------------------------------
(* Safety *)

(***************************************************************************)
(* The worktree of a topic is shared: at most one task of the topic is in  *)
(* flight (docs/design/agent-orchestration.md, "Per-topic task queue").    *)
(***************************************************************************)
AtMostOneInFlight == \A t, u \in Task : InFlight(t) /\ InFlight(u) => t = u

(***************************************************************************)
(* What a fault costs.  A failed dispatch lets at most one more task in    *)
(* beside the others: _dispatch_next_queued has set it to 'working' when   *)
(* the lock is freed, or its row is staged again.  A restart lets in at    *)
(* most two: the lock is forgotten, and the startup scan may execute an    *)
(* answer that a turn end executes too, also one of a turn that still runs *)
(* or was killed.  A task of another topic costs one, itself or, once it   *)
(* is accepted here and the lock released, the next task; so does an       *)
(* answer given in another topic.  Killed turns, lost prompts and deleted  *)
(* staffs cost nothing.                                                    *)
(***************************************************************************)
InFlightWithinFaults ==
  Careful /\ spent["dup"] = 0 =>
    Cardinality({t \in Task : InFlight(t)})
      <= 1 + spent["fail"] + 2 * spent["crash"] + spent["foreign"] + spent["elsewhere"]

(***************************************************************************)
(* The lock is never leaked: it is held by a task in flight, by the task   *)
(* delegate_task is starting, or by a startup job that has yet to run.     *)
(* Otherwise no accept_result would ever release it and the topic's queue  *)
(* would stand still.  The releases in delegate_task, accept_result,       *)
(* _dispatch_next_queued and _startup_execute_and_release bear on it.  One *)
(* exception: a turn of another topic accepts the task that holds it, and  *)
(* releases the lock of its own topic.  Accepting another topic's task     *)
(* here frees the lock too early, but does not leak it.                    *)
(***************************************************************************)
Starting(t) == \E h \in handlers : h.kind = "first" /\ h.task = t
Scanning == \E h \in handlers : h.kind = "scan"

LockNotLeaked ==
  /\ spent["elsewhere"] = 0 => \A t \in Task : topicLock = t => InFlight(t) \/ Starting(t)
  /\ topicLock = Scan => Scanning

(***************************************************************************)
(* A task waits in the queue only behind somebody who will look at the     *)
(* queue when it is done: whoever holds the lock (delegate_task queues,    *)
(* accept_result and _dispatch_next_queued hand over).                     *)
(***************************************************************************)
NoQueueBehindFreeLock == topicLock = Free => \A t \in Task : state[t] # "submitted"

(***************************************************************************)
(* A task that is 'working' and whose dispatcher is there and has not been *)
(* shown a result is being worked on: a prompt of its assignee is on its   *)
(* way, or a turn of its assignee has ended and process_turn_end still has *)
(* it to deal with, or the result is staged.  (The stages are spread over  *)
(* delegate_task, submit_result, the staged rows and the implicit result.) *)
(* Only a lost turn or dispatch, and another topic's part in it, may leave *)
(* a task without an owner here: neither a duplicated response nor a       *)
(* careless answer does.                                                   *)
(***************************************************************************)
Unfinished(m) == messages[m].st \in {"out", "running"} \/ due[m] > 0

WorkingHasOwner ==
  \A t \in Task :
    /\ state[t] = "working"
    /\ t \notin told
    /\ info[t].dispatcher \in roster
    /\ \A k \in {"kill", "fail", "crash", "foreign", "elsewhere"} : spent[k] = 0
    => \/ \E m \in Message : /\ messages[m].task = t
                             /\ messages[m].to = info[t].assignee
                             /\ Unfinished(m)
       \/ \E r \in staged : r.kind = "result_ready" /\ r.task = t

(***************************************************************************)
(* At-most-once bias of _execute_staged_row: a row being dispatched bears  *)
(* its stamp already, so no later reader of the table dispatches it again. *)
(***************************************************************************)
StampedBeforeDispatch ==
  \A h \in handlers : h.row \in staged => spent["fail"] > 0

(***************************************************************************)
(* Delegation implements TopicQueue: legal transitions only, one task at a *)
(* time, first come first served, and nothing reopens a completed task.    *)
(***************************************************************************)
Queue == INSTANCE TopicQueue
ImplementsQueue == Queue!Spec

-----------------------------------------------------------------------------
(* Liveness *)

(***************************************************************************)
(* What the code's own scheduling gives: the agent ends every turn (it has *)
(* a timeout), the broker delivers the response, and the event loop runs   *)
(* every coroutine it was given.                                           *)
(***************************************************************************)
Fairness ==
  /\ \A m \in Message : WF_vars(Respond(m)) /\ WF_vars(ProcessTurnEnd(m))
  /\ \A q \in Message : WF_vars(\E h \in handlers : h.out = q /\ Publish(h))
  /\ WF_vars(\E h \in handlers : StartScanJob(h))
  /\ WF_vars(StartupScan)

FairSpec == Spec /\ Fairness

(***************************************************************************)
(* A user who keeps writing and staffs that in the end use their tools:    *)
(* given turns in which a question can be answered or a result accepted,   *)
(* again and again, one of them does.                                      *)
(***************************************************************************)
Cooperation ==
  /\ \A s \in Addressed : WF_vars(UserPrompt(s))
  /\ \A t \in Task : /\ SF_vars(\E m \in Message : AnswerQuestion(m, t))
                     /\ SF_vars(\E m \in Message : AcceptResult(m, t))

CooperativeSpec == FairSpec /\ Cooperation

\* Once a turn's response is saved, all the turn staged is dispatched and no
\* coroutine is left at it (process_turn_end and _execute_staged_row).
TurnsSettle == \A m \in Message : messages[m].st = "saved" ~> messages[m].st # "saved"

\* Work on a task comes to something: a result shown to the dispatcher, a
\* question, or an early acceptance.  (process_turn_end, on the turns it skips:
\* "rely on process restart / redelivery of the prompt to recover".)
WorkEndsInResult ==
  \A t \in Task : state[t] = "working" /\ t \notin told ~>
                   state[t] # "working" \/ t \in told

\* A result whose row bears its stamp reaches a turn of the dispatcher
\* (_execute_staged_row: "A crash after the stamp but before MQTT publish is
\* recovered by the startup scan re-delivering the prompt").
StampedResultArrives ==
  \A t \in Task : (\E h \in handlers : h.row # NoRow /\ h.row.kind = "result_ready"
                                       /\ h.task = t) ~>
    \E m \in Message : /\ messages[m].st = "running"
                      /\ messages[m].task = t
                      /\ messages[m].to = info[t].dispatcher

\* With cooperative staffs a delegated task is completed in the end, also when
\* it was queued first: accept_result's hand-over keeps the queue moving.
QueuedTaskCompletes == \A t \in Task : state[t] = "submitted" ~> state[t] = "completed"

=============================================================================
