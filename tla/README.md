# Verification of codex-slack

codex-slack is a *master* (FastAPI, SQLite or Postgres, one asyncio loop plus an
MQTT thread and background threads) that a user talks to through a web
interface, and one *agent* container per workspace that runs LLM command-line
tools.  Master and agent exchange JSON over an MQTT broker.  Inside a topic the
user writes to a *staff* (a named agent role); a staff may delegate tasks to
other staffs, ask questions up the chain and accept or reject results.
The modules here specify five parts of it, TLC checks them on small instances,
and TLAPS proves their safety properties for every instance.
The modules name the files under `src/src/` by their paths below it: `master/`
is `src/src/master/`, `agent/` is `src/src/agent/`.

## 1. Inventory

| Component | State it keeps | Operations | Hard behaviour | What makes it correct |
|---|---|---|---|---|
| Orchestration tools (`master/orchestrate_api.py`) | `tasks`, `staged_dispatches`, envelope columns of `messages` | `delegate_task`, `ask_sender`, `submit_result`, `answer_question`, `accept_result`, `process_turn_end`, `_dispatch_next_queued`, startup scan | coroutines interleave at one await; effects of a turn are staged and run when it ends; crashes; failures half-way | one task in flight per topic, queue in order, lock never leaked, work ends in a result, staged rows dispatched at most once |
| Task state machine (`master/orchestration.py`) | `_topic_lock_map` | `apply_transition`, `detect_cycle`, `get_topic_lock`, limits | lock lives in the process | only legal transitions |
| Prompt dispatch (`master/dispatch.py`) | prompt rows, `staff_sessions` | `dispatch_to_staff` | awaits between commit and publish | a committed prompt is published |
| MQTT intake (`master/mqtt_client.py`) | `messages`, `chunks`, `alive_confirmed_at` | `_on_message` per message type | callback thread beside the loop; QoS-1 duplicates; clean session | one response per prompt, chunks in order, turn end after the save |
| Agent turn loop (`agent/mqtt_loop.py`) | seen prompt ids, active processes, heartbeats | `_process_prompt`, `_on_message`, interrupts | thread pool, kill, restart, ping races | each prompt run once and answered once |
| Orchestrate MCP server (`orchestrate_mcp/server.py`) | environment of one turn | tool gating, HTTP calls | stale turn environment | tools offered match the turn's role |
| User messages (`master/messages.py`) | `messages` | send, cancel, list | cancel races with response | |
| Staffs (`master/staffs.py`) | `staffs` | CRUD, `resolve_staff` | deletion while tasks refer to a staff | workspace override before global |
| Lifespan, background loop (`master/main.py`) | timestamps of workspaces | startup, health check, idle stop, auth refresh, scheduler tick, stale streams | timers against late messages | live turns are not closed or stopped |
| Event dispatcher (`master/event_dispatcher.py`) | in-memory queue, gate futures, run records | emit, worker, watchdog, gate, veto | queue limit, timeouts against verdicts | a gate passes only when every verdict passes |
| Topics (`master/topics.py`) | `topics`, worktrees | create, patch, archive | archive waits for a veto | an archived topic stays archived once |
| Containers (`master/agent_runner.py`, `workspaces.py`) | podman/docker container | spawn, pause, start, ensure | health check against idle stop | a published prompt finds an agent |
| Shutdown drain (`master/dispatch_guard.py`) | counter, event, flag | enter, exit, SIGTERM | handler waits for others | drain ends only at zero or timeout |
| Database (`master/db/`, `db_cli.py`) | schema, snapshots | migrate, export, import | failure between steps | import restores what was exported |
| Event actions (`master/event_actions.py`) | `event_actions` | CRUD | edited between gate and worker | a row is asked once about a message |
| Runtime config, notes, attachments, export, notifications | rows and files | CRUD | little | validation |
| Legacy service (`master/service.py`, `registry.py`, `runtime_adapter.py`, `cli.py`) | JSON registry | start, stop, list | file lock | registry matches containers |
| Frontend, docker, scripts, alembic | - | - | - | out of scope |

How they interact: the user's message becomes a prompt row and an MQTT prompt;
the agent runs the turn, during which the LLM calls the tool endpoints over
HTTP; the agent publishes a response; the MQTT thread saves it and schedules
`process_turn_end` on the loop, which executes the rows the turn staged, that
is, dispatches further prompts.  `PROJECT.json` lists the hazards found in this
reading, each at its line, with the properties that cover it.

The five specifications meet as follows.  A prompt finds a running agent
(`AgentContainer`), is run once and streamed back (`AgentStream`); its response
becomes a row, resolves a gate or a veto (`EventGate`), and ends a turn of a
delegated task (`Orchestration`).  All of it lives in a database that was
brought to the head before the master got up (`Database`).  Each part is
checked with the others replaced by what they may do to it: `Orchestration`
takes a turn as a step that ends, or is killed, as `AgentStream` shows;
`AgentContainer` takes a prompt as a user's, which stamps the workspace, or as
one of an event or a staged row, which does not;
`EventGate` takes staff that answer once, late, twice or never.

## 2. Plan and state

| Part | Modules | State |
|---|---|---|
| Delegation | `TaskStates`, `TopicQueue`, `Orchestration` | checked; all safety and the refinement proved |
| Streaming of replies | `ReplyStream`, `AgentStream` | checked; all safety and the refinement proved |
| Gate, veto, event worker | `Interception`, `EventGate` | checked; all safety proved |
| Container, scheduler | `AgentContainer` | checked; all safety proved |
| Schema, snapshots | `Database` | checked; all safety proved |

Left for later: one module in which a delegated turn runs in a container
that is stopped under it; `service.py`'s locked registry file; pure operators
(delegation limits, `resolve_staff`, the merge of configurations).

## 3. Modules

Every specification `M` has an `MCM` that instantiates it for TLC and an
`MProofs` with its theorems (`Orchestration` has four).  The two abstract
specifications of one actor, `ReplyStream` and `Interception`, say what is
promised; a property `Implements...` of the detailed module is the refinement.

### 3.1 Orchestration

`TaskStates` holds the states and the transition table; `TopicQueue` is the
abstract specification; `Orchestration` is the detailed one.

**One topic is the system, the others are its environment.** The lock, the
queue, the prompts and the staged rows are per topic.  Tasks are not:
`answer_question` and `accept_result` find a task by its id alone
(`orchestrate_api.py:872-884`, `:933-945`) and check only that the caller's
staff is its dispatcher, and a staff may have turns in several topics with one
session.  So a turn may name a task of another topic, and `accept_result`
releases the lock of the topic it was called in, whichever topic the task is of.
`ForeignTask` is a task of another topic, in flight there, whose dispatcher may
name it in its turns here; `Elsewhere` is what a turn of another topic does to a
task (accept it, ask about it, execute an answer to it, show its result).
`MaxForeign` and `MaxElsewhere` bound the two.

**Grain.** All endpoints and `process_turn_end` are coroutines of one loop.
SQLite calls are synchronous, so a coroutine runs undisturbed from one
suspending await to the next, and only `hub.broadcast` inside
`dispatch_to_staff` suspends.  Each dispatching coroutine is cut there: what
comes before is the action that starts it, which puts a record into `handlers`;
what comes after is `Publish` or, when something raises, `DispatchFails`.
The MQTT thread does run beside the loop: `Respond` (save the response) and
`ProcessTurnEnd` are separate actions.

| Variable | Code |
|---|---|
| `state`, `info` | `tasks.state`, and the columns written once (dispatcher, assignee, parent, root, depth) |
| `topicLock` | `get_topic_lock(topic)`; who took it is bookkeeping, the code's lock has no owner |
| `messages` | prompt rows, with whether the turn has asked the user (`replied`): free, asked (question row awaiting its dispatch), out (committed, not published), running (from publish to response), saved (response row committed), dead |
| `staged` | `staged_dispatches` with `dispatched_at IS NULL` |
| `handlers` | coroutines suspended in the broadcast, and scan jobs not yet started |
| `due` | `process_turn_end` calls scheduled and not started |
| `told` | tasks for which a judgment prompt was committed |
| `roster` | staffs `resolve_staff` finds |
| `phase` | before or after the startup scan |
| `spent` | use of the fault and question budgets |

| Action | Code |
|---|---|
| `UserPrompt` | `messages.send_message` (insert and publish in one step: a lost user prompt changes no task) |
| `DelegateTask` | `delegate_task` and `_dispatch_task_first_prompt` up to the broadcast; `working` is set by `Publish` |
| `AskSender`, `SubmitResult`, `AnswerQuestion` | the endpoints; they stage rows with `_stage_dispatch` |
| `AskUser` | `ask_sender` outside a task: an agent message that replies to the prompt, and nothing staged |
| `AcceptResult` | `accept_result` with `_dispatch_next_queued` up to the broadcast |
| `Respond`, `DupResponse` | response branch of `_on_message` |
| `ProcessTurnEnd`, `Execute`, `ImplicitResult` | `process_turn_end`, `_execute_staged_row` and its three dispatchers, `_apply_implicit_fallback` |
| `Publish`, `DispatchFails` | rest of `dispatch_to_staff` and of its caller |
| `KillTurn` | interrupted turns, or a response published while the master's clean MQTT session is disconnected |
| `Crash`, `StartupScan`, `StartScanJob` | restart of the master, `dispatch_undispatched_staged_rows`, `_startup_execute_and_release` |
| `RemoveStaff` | `_delete_staff` |
| `ForeignTask`, `Elsewhere` | the other topics |

**Abstractions.**  Ids of prompts nobody will read again are given back
(`Recycle`), so that a bounded set of ids serves unboundedly long behaviours.
`created_at` of tasks and of one turn's rows is their order of insertion,
although the column's resolution is a second.  `KillTurn` and `DupResponse`
are allowed at any time within their budgets; a duplicate is scheduled while
the prompt's first turn end may still be at work, and may run much later.
`StartupScan` takes for the response to a prompt what the code takes: any agent
message that replies to it (`Answered`).  A question to the user is one, so the
scan may execute rows of a turn that was killed or still runs; the end of that
turn may have them in hand too, and a result that the turn submits anew replaces
the row under the scan's job (`Restored`).  `MaxKinds` bounds how many of the
six budgets beside that of questions one behaviour uses.  The roles of a turn's tools follow the MCP
server: answers and acceptances come from turns at depth 0, results from deeper
ones, and delegation is offered below `McpDepth`, the server's default, because the agent does not export the
configured limit to it.  As a consequence tasks deeper than 1 do not arise, the
ancestor check of `delegate_task` never refuses anything, and
`_dispatch_free_text_to_staff` is not reached; the guards are modelled all the
same.  `failed` and `master_error` are in the table but no code uses them.

**Careful.**  `answer_question` does not look whether the task has an answer
staged already.  With `Careful = TRUE` no staff answers a task twice for one
question; this is an assumption on the LLM, not a guard of the code, and
`orchestration_late_answer` shows what happens without it.

### 3.2 AgentStream

One agent and the replies it streams.  A turn is one run of `_process_prompt`,
that is one `reply_message_id`.  Four threads interleave: the agent's MQTT
callbacks with its signal handler, its worker threads, the master's MQTT
thread, and the master's background thread.  An action is what one of them does
between two points where another can see or disturb it.

| Variable | Code |
|---|---|
| `seen` | `_seen_prompt_ids_queue` |
| `pool`, `turn` | jobs of `_executor`, and where each worker is |
| `active`, `persisted` | `_active_procs`, and `active_procs.json` |
| `inherited` | `_inherited_already_published` |
| `agent` | the container: up, in the SIGTERM handler, stuck in it on `_active_procs_lock`, down, booting |
| `wire`, `pings` | what is under way to the master, and to the agent |
| `check` | where `_close_stale_streams` is |
| `chunks`, `row` | rows of `chunks`, and the reply's `messages` row |
| `delivered`, `recent` | what the broker gave the agent, and may give again |

| Action | Code |
|---|---|
| `Deliver`, `Redeliver`, `AnswerPing` | `_on_message` of the agent |
| `Begin`, `Register`, `Chunk`, `Exit`, `RetryAsNew`, `Abort`, `Respond`, `Finish` | `_process_prompt`, `_run_claude`, `_run_codex` and their `_stream_..._once` |
| `Sigterm`, `SigtermInsideLock`, `Kill`, `StopEnds`, `Boot`, `Connect` | signal handler, docker, `_on_connect` with `_publish_inherited_interrupts` |
| `Receive`, `ReceiveAndAgain` | `_save_chunk`, `_save_agent_response`, `_handle_structured_response` (`DiscardChunks`), the pong branch; QoS-1 duplicates |
| `Scan`, `Inspect`, `PingTimeout`, `Close` | `_close_stale_streams`, `_ping_for_alive` |
| `MasterCrash` | restart; the clean session loses what was under way |

A prompt's `payload` is fixed: its adapter, and whether it comes from an event
action with structured output.  The response to such a prompt is for the master:
its chunks are deleted, and no `messages` row is saved
(`mqtt_client.py:507-510`, `:346-354`).  An interruption carries no `reply_to`
and makes a row all the same, and so may the stale-stream check.

Each kind of fault happens once at most (`spent`), so that a property can name
the faults that it excepts (`Met`).  `SeenLimit >= Window` is an assumption on
the broker: it redelivers only prompts whose acknowledgement is missing, and
the agent's memory of `_MAX_SEEN_PROMPT_IDS` is longer than that.  A restart
empties the memory; what `NoParallelRun` says is that this leads to a second
run, never to two at a time.

### 3.3 EventGate

The gate that a message passes before it is dispatched, the veto that an
archive request passes before it commits, and the worker that fires the other
actions.  A coroutine is cut wherever it awaits; the MQTT thread is beside it.

| Variable | Code |
|---|---|
| `archived`, `vetoStatus` | columns of `topics` |
| `enabled`, `structured` | rows of `event_actions`, and their `structured_output` |
| `phase`, `ask` | the handler of each request, and its wait for each prompt |
| `registered`, `result` | `gate_futures` and `veto_futures` |
| `scheduled` | `call_soon_threadsafe` calls that wait for the loop |
| `queue`, `current`, `todo` | `event_queue`, and the worker in `_handle_event` |

| Action | Code |
|---|---|
| `Admit`, `Gate`, `GateDecides`, `Post`, `Finish` | `send_message` |
| `Skip`, `Publish`, `Register`, `GateHears` | one row of `run_gate_actions`, or of `veto_dispatch` |
| `Delete`, `VetoFails`, `VetoTimesOut`, `VetoDecides` | `delete_topic` and `veto_dispatch` |
| `Take`, `Resolve` | response and verdict branches of the master's `_on_message` |
| `Edit` | PATCH of an event action |
| `WorkerTakes`, `WorkerFires`, `WorkerDone` | `event_worker`, `_handle_event`, `_dispatch_one` |

`Publish` and `Register` are two steps: the prompt is out before its future is
in the dictionary, so an answer may come first, and is lost.  The queue is not
bounded in the code either; each request emits at most two events.

### 3.4 AgentContainer

The container of one workspace and all who start and stop it.  The threads
share no lock; `pc` holds the next call of each, and docker's unique name is
the only exclusion.

| Variable | Code |
|---|---|
| `ws` | the `workspaces` row; `named` once `container_name` is set |
| `container`, `exit` | what docker says |
| `session`, `connected` | the agent's durable MQTT session |
| `queued`, `turns` | prompts at the broker and at the agent |
| `outstanding`, `row` | `last_dispatched_at > last_responded_at`, and what the loop read of it |
| `due`, `mark`, `emitted` | slots of a cron action, `last_fired_at`, and events emitted |

| Action | Code |
|---|---|
| `Create`, `Name`, `Delete`, `Restart`, `Stop` | `workspaces.py` |
| `Accept`, `Insert` | `send_message`, which reads `archived_at`, and the stamp of the workspace in `dispatch_to_staff` |
| `Post` | `dispatch_to_staff` for an event or a staged row (event worker, turn end, next queued task, startup scan): no stamp, and no look at `archived_at` |
| `Ensure`, `Publish` | the rest of `dispatch_to_staff`, `ensure_agent_running` |
| `SpawnClears`, `SpawnRuns`, `SpawnFails`, `StartIfStopped` | `agent_runner.py`, by every thread that calls it |
| `Wake`, `Slot`, `Emit`, `Read`, `Health`, `Watch`, `Pause` | a tick of `run_background_tasks` with `_scheduler_tick` |
| `Connect`, `Take`, `Respond` | the agent, and `_record_agent_response` |
| `Crash`, `DockerRestarts`, `Vanish`, `MasterDies` | the world, and `_respawn_agents` at startup |

The response to a structured-output prompt is not recorded, so after a posted
prompt `Respond` may leave `outstanding` as it is.

Three variables are history.  `blind` holds the turns that the idle check cannot
know of: those of staffs and events, which stamp nothing; those dispatched
after the loop read the row or in the second of an answer; and those that an
answer of another turn makes look settled.  `raced` says that the workspace was
deleted while another call was in progress, which leaves a container behind.
`late` says that a dispatch began for the workspace after it was archived: a
queued event, the end of a late turn or the startup scan finds the container
gone and creates it again (`dispatch.py:343`), and since the background loop
lists active workspaces only, nothing stops it afterwards.
All three name what the code does, and `IdleStopSparesKnownTurns` and
`ArchivedStaysDown` claim the rest.

### 3.5 Database

The SQLite file of an old installation and the database it may be moved to, the
start of the master on either, and the operator's commands.  A table is
abstracted to the form of its schema and the identities of its rows; four
tables stand for those of `EXPORT_ORDER` (a parent, a child that references it,
and those the fixups rebuild).

| Variable | Code |
|---|---|
| `db` | both databases: `alembic_version`, tables, side tables of rebuilds |
| `dialect` | of the target: SQLite or Postgres |
| `wanted`, `master` | the configured service, and the running one |
| `dir` | the snapshot directory: manifest and files; a digest is the content it was taken of |
| `op` | the process at work: command, statement, stage |
| `exports`, `unsound` | history: contents read whole; a load that went unchecked |
| `exit` | what the import has told the operator |

| Action | Code |
|---|---|
| `Classify`, `Create`, `CreateRest`, `Stamp` | `startup_db`, `db.sh migrate`, the Alembic baseline |
| `Schema`, `CopyTo`, `Copy`, `Drop`, `Rename` | `init_db_sqlite` and its rebuilds (`_prebaseline.py`) |
| `Select`, `WriteFile`, `OpenManifest`, `WriteManifest` | `export_snapshot` |
| `Verify`, `Probe`, `Load`, `LockTimeout`, `Count` | `import_snapshot` |
| `Up`, `Stop`, `Start`, `Crash`, `Write` | compose, restart policy, kill, the running master |

Starts and operator commands wait for each other, and the master only inserts.
`Count` counts one table a step, as the code does, in statements of their own
while the master may insert between them; the first wrong number ends the
import with an error.  What has been counted so far is kept in `op` (`CountedSoFar`).
There is one Alembic revision, so a database is never merely behind.

What the model showed of this code, and the properties except by name:

* The rebuild of `workspaces` copies six columns
  (`src/src/master/db/_prebaseline.py:368-384`) and runs after `_MIGRATIONS`
  has added the others.  A file of the oldest kind is stamped with the head
  without them, and no later start repairs it; `StampedIsLatest` allows that
  form of that table and no other.
* A process killed between `DROP` and `RENAME` (lines 380-381) leaves the
  rows in the side table.  The next start makes an empty table in their place
  and then merges nothing, or finishes the rebuild; the rows are never
  destroyed (`NothingDestroyed` counts the side table), but they may stay aside.
* The rebuild of `staffs` copies with a plain `INSERT` (lines 609-611).
  Killed between copy and drop, every later start fails on it, although
  `startup_db` calls itself idempotent (`src/src/master/db/__init__.py:544`);
  `GetsUp` excepts it.
* `PRAGMA foreign_keys` has no effect inside the open transaction of a load
  (`src/src/master/db/snapshot.py:523-531`): a load that deletes first, with
  `--yes` into SQLite, is unchecked to its end; `NewIsSound` excepts it.

## 4. Runs

| Run | Question | Bounds | Result |
|---|---|---|---|
| `orchestration_safety` | is one task at a time worked on, in order, along the state machine? | 2 staffs, both addressed, 2 tasks, 4 prompts alive, 2 rows per turn, 1 question, no fault | half a million states: holds |
| `orchestration_faults` | is the lock ever leaked, a row dispatched unstamped, more than a fault's share of tasks let in, or, where only a duplicate and a deletion occur, a working task left alone? | one kill, failed dispatch, duplicate, crash, task of another topic and call from another topic, any two of these six in one behaviour; one question, one deletable staff, 3 tasks, 1 row per turn, 2 prompts alive | 2.6 million states: holds |
| `orchestration_turns` | does every turn settle and work end in a result? | 1 task, 1 question, 7 prompts | holds |
| `orchestration_queue` | is a queued task completed? | 2 tasks, 6 prompts | holds |
| `orchestration_late_answer` | is the design's "at most one delegated task in `working` state per topic at any time" (`docs/design/agent-orchestration.md:773`) true when a question is answered twice? | 2 tasks, 1 question | violated |
| `orchestration_kill` | does redelivery recover an interrupted turn (`orchestrate_api.py:1037`)? | 1 task, one kill | violated |
| `orchestration_stamp` | does the startup scan recover a stamped, unpublished row (`orchestrate_api.py:1285`)? | 1 task, one crash | violated |
| `agent_stream_safety` | is a prompt run once at a time, and does a reply only move forward? | 2 prompts, claude and codex, the second with structured output, 1 worker, 3 turns, memory and window of 1, 1 message per turn on the wire, 1 fault of any kind | 1.1 million states: holds |
| `agent_stream_liveness` | does every bubble end, and is every answer shown? | 1 prompt with any payload, structured or not, 1 turn, 3 faults | 0.6 million states: holds |
| `event_gate` | are gate and veto interceptors, and does everything end? | 1 message, 1 archive request, every pair of kinds of rows | 159 thousand states: holds |
| `agent_container` | does the container come back, stay down, and live through its turns? | 1 prompt, of a user or posted, 1 slot or 1 restart, 1 fault | 0.3 million states: holds |
| `database` | is nothing destroyed, and an import whole or refused? | 3 commands, 1 crash, 2 writes, every old file and every kind of target | 0.8 million states: holds |

### Orchestration

Properties of the safety run:

* `AtMostOneInFlight`: no two tasks of the topic are `working` or
  `input-required`.
* `NoQueueBehindFreeLock`: a task waits only behind a lock somebody holds.
* `WorkingHasOwner`: a working task whose dispatcher exists and has seen no
  result has a turn of its assignee under way, ended and due for processing, or
  a result staged, if no turn was killed, no dispatch failed, the master did
  not crash and no other topic has a part in it.  Duplicated responses,
  careless answers and deleted staffs are no exception: the theorem covers all
  three, the faults run duplicates and deletions.
* `ImplementsQueue`: with `state` mapped to itself the whole is a `TopicQueue`.
  The two first-dispatch steps (insert, and `working` at the publish) map to
  `Submit` and `Dispatch`; an acceptance maps to `Accept` or `HandOver`.

Under faults, or when a turn names a task of another topic,
`AtMostOneInFlight`, `NoQueueBehindFreeLock` and
`ImplementsQueue` do not hold, and the project does not claim them: a failed
`_dispatch_next_queued` leaves a task `working` behind a free lock, a
restart forgets the lock of a task in flight, and the acceptance of another
topic's task frees this one's lock.  `InFlightWithinFaults` says what
this costs the shared worktree: with staffs that answer once and no duplicated
response there is never more than one task in flight, and one for each failed
dispatch, two for each restart, one for each task of another topic named here and
one for each call from another topic; killed turns, lost responses and deleted
staffs cost nothing.  A task of another topic counts itself, or, once it was
accepted here, the next one that took the lock it freed.  A restart can cost two
because MQTT is up before the startup scan runs
(`src/src/master/main.py:538` and `:560`): a response that arrives in between
hands the scan and the turn end the same staged answer, and the scan's job does
not look at the stamp again.  The turn need not even have ended before the scan,
if it has asked the user.  In the faults run three tasks show the bound for a
failed dispatch; that a restart costs two takes a fourth, and for every number
of tasks the bound is a theorem (`FaultsCost`).  Duplicated responses are left out of the
bound because each may revive every task a turn answered.

What survives every fault is `LockNotLeaked` (no lock without somebody who
releases it or was given its task), with one exception that is a defect of the
code: a turn of another topic that accepts the holder releases the lock of its
own topic, and this topic's lock stays taken by a completed task until some
other task is accepted in this topic or the master restarts.
`StampedBeforeDispatch` survives too (a suspended dispatch is of a stamped row;
a failed dispatch may clear the stamp of a row another coroutine executes too,
hence its condition).

### The other parts

* `NoParallelRun`: two runs of a prompt are never in progress together.
* `KilledMeansLost`: a reply shown as killed died with its agent: neither a
  reconnect nor an old `active_procs.json` reports a turn that lives or ended.
* `LiveTurnStaysOpen`: the stale-stream check does not close a turn of claude
  that has not answered.  Codex turns leave `_active_procs` before the answer
  is out, and are excepted; so are a late pong, a failed status call and an
  aborted stream.
* `ImplementsReplies`: a reply goes from nothing or streaming to interrupted
  or answered, and from interrupted to answered only.  That to a
  structured-output prompt is never answered, and may be retracted.
* `StreamEnds`, `AnswerShown`: no bubble streams for ever or comes back; it gets
  its row, or is retracted if its prompt was for structured output.  An answer
  that was computed for the user is shown unless the agent or the master died.
* `ImplementsInterception`: a request commits only when all it asked are heard
  of and none said no; a gate fails open on silence, a veto does not.
* `FuturesAreAwaited`, `AskedOnce`: no future is leaked but by an archive
  request that failed between two dispatches; gate and worker never both ask
  the staff of one row, unless it was edited in between.
* `EveryRequestEnds`, `QueueDrains`: though staff may never answer; every wait
  for a staff has a timeout.  (The broadcast before a message's own publish has
  none; that it returns is fairness.)
* `ArchivedStaysDown`: after a delete in peace there is no container until a late
  dispatch begins, and no endpoint, tick or startup ever starts one.
* `IdleStopSparesKnownTurns`, `SlotFiresOnce`: see 3.4.
  A slot that was marked and not emitted is lost; the code promises no more.
* `GoneComesBack`, `QueuedIsTaken`: a container that is gone comes back without
  a message; a prompt at the broker reaches an agent.
* `StampedIsLatest`, `NothingDestroyed`, `ImportsOneExport`, `DoneMeansLoaded`,
  `NewIsSound`, `GetsUp`: the head means the latest schema; no row is lost; an
  import adds one whole export and no mixture; success means that every table
  held exactly the snapshot's rows when it was counted, and holds them still
  (what a master inserted after the count of its table is not noticed);
  references lead to rows; a service gets up again after any kill.

**Why the bounds are enough.**  Two tasks are the least that can compete for a
lock and form a queue behind a task in flight; two rows per turn are the least
whose order matters.  One question shows the whole climb from assignee to
dispatcher and back.  In the safety run a step that needs a fifth prompt is not
taken, which cuts long behaviours and is harmless to safety; in the liveness
runs the prompts never run out (checked by asking TLC whether a state without a
free prompt is reached), so no fair action is disabled by the bound.

Deadlock is not checked: once its budgets are used up and the user stops writing
the system may stop.

In the other modules one fault of each kind suffices for the states that
faults lead to, and the number of turns, slots, commands and crashes is chosen
so that each thing can happen before, during and after each other.  Three turns
let a prompt be forgotten, redelivered and run again beside another; three
commands let an export be overwritten by another half-way and then be imported.
Slots and restart requests of `AgentContainer` share one bound (`MaxEvents`), for
neither reads what the other changes.  The runs of `Database` begin with every
file there may be; how an empty one gets its tables is seen in the target of a
move.  The safety of `AgentContainer` and the idle stop were also checked with two
prompts, no slot and no restart (375 thousand states).  Symmetry is not used.

### Fairness

`Fairness` is what the code's scheduling gives: the agent ends
every turn (it has a timeout), the broker delivers, the loop runs each coroutine
it was given.  It says nothing of the fault actions.  `Cooperation` is an
assumption about the user and the LLM: the user keeps writing, and a task that
can be answered or accepted again and again, in turn after turn, is at some
point; hence strong fairness.  Only `orchestration_queue` assumes it.  No
fairness makes a staff use `submit_result`:
`WorkEndsInResult` relies on the implicit result for that.


* `AgentStream`: command-line tools end, a stopped container goes down and
  comes back (restart policy, health check), the broker delivers what it holds,
  the background loop ticks.  No fault is fair, and the chunks need not come.
* `EventGate`: the loop runs each ready coroutine and its timers fire.  No
  request has to be made, and no staff has to answer.
* `AgentContainer`: threads and docker run on.  Nobody has to send, answer,
  delete or restart; the idle stop may strike at any tick.
* `Database`: a process runs on until it ends or is killed, and the restart
  policy starts a master that is to run.

All of it is weak fairness, except `Cooperation`.

## 5. Theorems

All theorems hold for every value of the constants that satisfies the
assumptions of their module: bounds are naturals, sets that must not overlap do
not (the user is no staff, a prompt is no thread, a send is no delete), the set
of rows of `Database` is finite, and `SeenLimit >= Window >= 1` in
`AgentStream`.  TLC evaluates these assumptions in every run.

### Orchestration

`OrchestrationProofs`, whatever faults occur:

* `TypeCorrect`: `Spec => []TypeOK`.  `TypeOK` is inductive by itself.  There
  is a lemma for each helper (`Recycle`, `Drop`, `Execute`, ...), one per group
  of actions, and a step that joins them.
* `LockSafe`: `Spec => []LockNotLeaked`, for calls across topics too, except that
  a call from another topic may accept the holder.  It is inductive relative to `TypeOK`.
  The argument: a step either leaves the holder where it is (a task in flight
  leaves that state in `accept_result` only, which frees the lock or hands it
  to a task it makes `working`; a first dispatch removes its coroutine in the
  step that makes its task `working`; a scan job leaves its successor coroutine
  behind), or frees the lock.

`OwnerProofs`, with no assumption on the constants:

* `StampFirst`: `Spec => []StampedBeforeDispatch`.  `HeldInv` says that a turn
  that is to end, or whose rows are being executed, is saved, while rows are
  staged by turns that run or are saved.  Hence nobody stages a row that a
  coroutine already holds; a stamp is taken back by a failed dispatch only.
* `Owned`: `Spec => []WorkingHasOwner`.  `OwnerInv` adds, while nothing is
  killed, fails or crashes and no other topic takes part: where ids are kept (`Refs`: a staged question waits
  unasked, it is one row's, the prompts a coroutine has to deal with are not
  given to anybody else, and a first prompt waits in one coroutine only); that rows
  and coroutines are about existing tasks and address the right staff
  (`Known`); and that the turn at work on a task has staged nothing but its
  result (`Worked`).  The last is the heart: the turn end executes the
  turn's rows or falls back to the implicit result, and either way the task is
  told, asked about, or still has an owner.
* `FaultsCost`: `Spec => []InFlightWithinFaults`.  The number of tasks in
  flight is not inductive, so `LoadInv` counts a load: tasks at work (or waiting
  with no answer staged), staged answers, coroutines that took the lock for a
  first dispatch or a startup scan, and a scan's job once more until it starts.
  The load is at most failed dispatches + 2 * crashes + foreign tasks + calls
  from elsewhere, one more while the lock
  is taken, and one less before the startup scan.  Each action trades: an
  answer staged, executed or dropped turns a task into a row or a row into a
  task; a first dispatch turns a coroutine into a task; a delegation pays with
  the lock it takes, an acceptance for the lock it frees or hands over; beyond
  that only a failed dispatch, a scan and another topic add to the load, and their
  shares of the bound pay for them.  That an answer is traded once is
  `ApartInv`: a turn ends once, only its own coroutine executes its rows, and
  nothing is executed after the single row of a scan.  The `Light...` lemmas
  do the counting, for sets of any finite size.
* `Recycle` gives ids back in the very step in which a row or coroutine stops
  needing them.  So each part is an operator of the tables it speaks of: it is
  shown for the tables before `Recycle`, and the `...Recycled` lemmas carry it
  over to the next state.

`OneInFlightProofs`, under `FaultFree`: no dispatch fails, no response is
duplicated, the master does not crash, no turn names a task of another topic,
and `Careful`.  Turns may be killed and
staffs deleted.

* `OneInFlight`: `Spec => []AtMostOneInFlight`.  The invariant alone is not
  inductive; `OneInv` adds why it holds.  Whoever is in flight has the lock
  (`LockOwned`).  A first dispatch still has it when the broadcast is over and
  its task becomes `working` (`FirstHolds`).  An answer sets its task to
  `working` without a look at its state, so the task must still be
  `input-required`: there is one staged answer per task, and its task waits for
  it (`AnswersExpected`); it is executed once because a coroutine's rows are its
  own (`TodoOwned`, `TodoDisjoint`) and a turn ends once (`EndsOnce`).  Each part
  of `FaultFree` is needed by one of these: a duplicate breaks `EndsOnce`, a
  crash `LockOwned`, a failed `_dispatch_next_queued` `LockOwned`, and two
  answers `AnswersExpected` (run `orchestration_late_answer`).

`QueueProofs`, under `FaultFree` and `NobodyLeaves` (no staff is deleted: a
queued task whose assignee is gone blocks the queue):

* `QueueWatched`: `Spec => []NoQueueBehindFreeLock`.
* `Implementation`: `Spec => ImplementsQueue`.  Every step is a step of
  `TopicQueue` or leaves the tasks alone.  `QueueInv` carries the order: tasks
  are numbered as they arrive (`Numbered`); a coroutine with a first dispatch
  has the oldest queued task (`FirstIsOldest`), for it found the lock free, so
  nobody was queued then, and later tasks are younger; and `accept_result`
  comes back empty-handed from an empty queue only (`NextOfQueue`).  The least
  element of a set of task numbers comes from the well-foundedness of `<`.

`OneInv` and `QueueInv` were found to hold by TLC on the instance of the safety
run with one kill before they were proved; the bound of `LoadInv` with three
tasks, one question, one failed dispatch and one crash.

### AgentStreamProofs

* `TypeCorrect`, which includes the bound of the agent's memory.
* `KilledIsLost`: `Spec => []KilledMeansLost`.  `AgentInv` adds why: a pool
  holds waiting turns once each (`PoolWaits`), what was not begun has no
  process and no message (`FreshIsIdle`), and a registered turn has begun
  (`RegisteredIsBegun`).  "agent-killed" is sent at the first connect of a new
  process only, when every registered turn of the old one is lost.
* `OneRun`: `Spec => []NoParallelRun`.  `OneRunInv`: what is seen or alive was
  delivered (`KnownIsDelivered`), and while the agent lives, what the broker
  may still redeliver is remembered (`SeenIsRecent`).  The last uses
  `SeenLimit >= Window`.
* `RepliesMoveForward`: `Spec => ImplementsReplies`, step by step.  It needs from
  `LiveInv` (below) that nothing is shown of a turn nobody has heard of, so that
  a structured-output prompt gets its turn before its bubble.
* `LiveStaysOpen`: `Spec => []LiveTurnStaysOpen`.  `LiveInv` follows each turn
  on its own.  Before its first CLI is registered nobody has heard of it: no
  chunk, no ping, no message, no row (`Unseen`); so the check cannot ask too
  early.  From then on, a retry included, a claude turn stays in
  `_active_procs` until its response is out, and an agent that is up vouches
  for it (`Vouched`): no "dead" is on the wire, the check is not about to close
  it, and if it waits for the turn's pong, the ping or an "alive" is under way.
  This is inductive with `PoolWaits` (who leaves the pool is new) and
  `FreshIsIdle` (a process that has just connected runs nothing).

### EventGateProofs

* `TypeCorrect`; `Awaited`: `Spec => []FuturesAreAwaited`, inductive with types.
* `NeverTwice`: `Spec => []AskedOnce`.  Inductive with the fact that what the
  worker has to fire is no gate unless it was edited (`FiredIsNoGate`).
* `Intercepts`: `Spec => ImplementsInterception`.  `GateInv` says that nobody
  answers before he is asked (`NotAskedEarly`), that a prompt is out only
  while its request waits or failed (`AskedByWaiting`), that a registered
  future is open (`RegisteredIsOpen`), that a request past its gate has no "no"
  (`PassedUnbroken`), and that verdicts of a veto come with its end
  (`VerdictsAtTheEnd`).

### AgentContainerProofs

* `TypeCorrect`.
* `FiresOnce`: `Spec => []SlotFiresOnce`.  `Marked`: only marked slots were
  emitted, and the one about to be emitted was not.
* `StaysDown`: `Spec => []ArchivedStaysDown`.  `Peace`: after a delete that met
  nobody, only dispatches that began later have a call left that starts a
  container, and before the first of them there is none.
* `StopSpares`: `Spec => IdleStopSparesKnownTurns`.  `Known`: a turn that is not
  blind makes the workspace look busy, and the loop has read so.

### DatabaseProofs

* `TypeCorrect`, with where each command may be (`OpInv`).
* `Stamped`: `Spec => []StampedIsLatest`.  `Good` describes the schema of a
  database wherever a run before was killed: no table is beyond its latest
  form, an absent table has no rows, and a side table left behind has the
  form that is due next (`SideFits`).  `Progress` describes the running
  process: before rebuild n the tables have the forms of the rebuilds before it
  (`Least`), between copy and drop the side table holds the rows, between drop
  and rename the table is gone.  After the last rebuild that is `Low`, the forms
  a stamp stands for.
* `NothingLost`: `Spec => NothingDestroyed`: each step keeps the rows of table
  and side table together (`Keeps`), but for a load, and a load without `--yes`
  deletes nothing (`LoadAdds`).
* `NewSound`: `Spec => []NewIsSound`.
* `OneExport`: `Spec => ImportsOneExport`.  `ImportInv`: a written manifest
  records what an export read whole, and from the verification on the files are
  those of the manifest, since nobody else writes while an import runs.
* `Done`: `Spec => DoneMeansLoaded`: at its count a table of the target includes
  the rows of the manifest (nothing deletes them after the commit), and a finite
  set of the same size that includes another is the other (`CountExact`).
  `CountRight` carries this from one table to the next.

`OneInv`, `QueueInv`, `HeldInv`, `OwnerInv`, `LiveInv` and the invariants of
`DatabaseProofs` were checked by TLC before they were proved.

### Only model-checked

All liveness (`TurnsSettle`, `WorkEndsInResult`, `StampedResultArrives`,
`QueuedTaskCompletes`, `StreamEnds`, `AnswerShown`, `EveryRequestEnds`,
`QueueDrains`, `GoneComesBack`, `QueuedIsTaken`, `GetsUp`), which is beyond the
proof system.  Every invariant and every action property that a passing run
checks is also a theorem, and so are the three refinements.

## 6. Not modelled

* `dispatch_guard.py`: its handler blocks the interrupted thread for a bounded
  time and exits whatever the counter says; nothing after it depends on it.
* CRUD without concurrency of its own: notes, runtime configuration, event
  actions but for the edit that matters to a gate, staffs but for deletion,
  topics but for the archive.
* Files and output: attachments, topic export, notifications, `action_runs`
  (which nothing reads back), the web interface, images and scripts.
* The legacy service with its registry file.
* In the modelled parts: texts of prompts, reply silencing and retargeting,
  sessions, the dispatch token (a turn's calls carry the token of that turn);
  worktrees; the refresh of credentials in a container; the encoding of values
  in snapshots and the reset of sequences; the in-place `snapshot-and-migrate`
  of one database; `sqlite_safety_check`, `_refuse_mysql` and the retries of a
  connection; `_migrate_agents_to_staffs` and the migrations that only add an
  index or fill a column.
* Composition: the five specifications are not conjoined into one; a product of
  two of them is already beyond what TLC can enumerate with both having a
  fault to meet.
