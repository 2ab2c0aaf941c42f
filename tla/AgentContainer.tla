--------------------------- MODULE AgentContainer ---------------------------
(***************************************************************************)
(* The agent container of one workspace and everybody who starts or stops  *)
(* it: the workspace endpoints (workspaces.py), the dispatch of a prompt   *)
(* (dispatch_to_staff, ensure_agent_running), the background loop and the  *)
(* startup of the master (main.py), Docker and the faults of the world.    *)
(* The background loop also runs the scheduler of cron actions.            *)
(*                                                                         *)
(* The master's threads share no lock: each reads the container's status   *)
(* and acts on it later.  Docker's name is the only exclusion: a second    *)
(* container of the same name cannot be created.  pc holds, for every      *)
(* thread, the next call it makes.                                         *)
(***************************************************************************)
EXTENDS Naturals, FiniteSets

CONSTANTS
  Prompts,        \* the prompts dispatched to the workspace
  MaxSlots,       \* bound: slots of the cron action
  MaxEvents,      \* bound: slots and restart-agent requests together
  MaxFaults       \* bound: crashes of container and master, removals, errors

ASSUME Bounds ==
  /\ MaxSlots \in Nat
  /\ MaxEvents \in Nat
  /\ MaxFaults \in Nat

Endpoints == {"create", "delete", "restart"}
Master == {"startup", "loop"}
Threads == Endpoints \cup Master \cup Prompts

ASSUME PromptsAreNoThreads == Prompts \cap (Endpoints \cup Master) = {}

VARIABLES
  ws,             \* the workspaces row; "named" once container_name is set
  container,      \* what docker says of the name
  exit,           \* how the container ended, when it has exited
  session,        \* the broker has a session of the agent
  connected,      \* the agent's MQTT loop runs
  pc,             \* the next call of each thread
  queued,         \* prompts the broker holds for the agent
  turns,          \* prompts the agent works on
  outstanding,    \* last_dispatched_at > last_responded_at
  row,            \* what the background loop read of outstanding
  due,            \* slots of the cron action that have come
  mark,           \* last_fired_at: slots that are marked as fired
  emitted,        \* how often each slot was emitted
  spent,          \* restarts and faults so far
  blind,          \* history: prompts the idle check cannot know of
  raced,          \* history: the delete met an operation in progress
  late            \* history: a dispatch began for the archived workspace

world == <<container, exit, session, connected>>
work == <<queued, turns, outstanding>>
cron == <<due, mark, emitted>>
history == <<blind, raced, late>>
vars == <<ws, world, pc, work, row, cron, spent, history>>

Call == {"idle", "accepted", "status", "start", "clear", "run", "publish",
         "name", "stop", "slots", "emit", "read", "health", "watch", "pause"}
Slots == 1 .. MaxSlots

TypeOK ==
  /\ ws \in {"none", "created", "named", "archived"}
  /\ container \in {"absent", "running", "exited"}
  /\ exit \in {"none", "stopped", "killed", "crashed"}
  /\ session \in BOOLEAN
  /\ connected \in BOOLEAN
  /\ pc \in [Threads -> Call]
  /\ queued \subseteq Prompts
  /\ turns \subseteq Prompts
  /\ outstanding \in BOOLEAN
  /\ row \in BOOLEAN
  /\ due \in 0 .. MaxSlots
  /\ mark \in 0 .. MaxSlots
  /\ emitted \in [Slots -> Nat]
  /\ spent \in [restarts : Nat, faults : Nat]
  /\ blind \subseteq Prompts
  /\ raced \in BOOLEAN
  /\ late \in BOOLEAN

Init ==
  /\ ws = "none"
  /\ container = "absent"
  /\ exit = "none"
  /\ session = FALSE
  /\ connected = FALSE
  /\ pc = [t \in Threads |-> "idle"]
  /\ queued = {}
  /\ turns = {}
  /\ outstanding = FALSE
  /\ row = FALSE
  /\ due = 0
  /\ mark = 0
  /\ emitted = [n \in Slots |-> 0]
  /\ spent = [restarts |-> 0, faults |-> 0]
  /\ blind = {}
  /\ raced = FALSE
  /\ late = FALSE

\* Nothing else runs before the lifespan's startup is over.
Serving == pc["startup"] = "idle"

Goes(t, to) == pc' = [pc EXCEPT ![t] = to]

Fault ==
  /\ spent.faults < MaxFaults
  /\ spent' = [spent EXCEPT !.faults = @ + 1]

(***************************************************************************)
(* What docker does to the container.                                      *)
(***************************************************************************)

Starts ==
  /\ container' = "running"
  /\ connected' = FALSE
  /\ exit' = "none"
  /\ UNCHANGED session

\* The turns end with the container.  After a SIGTERM the agent reports
\* them as interrupted, and that is a response; after a SIGKILL it does not.
Ends(to, how) ==
  /\ container' = to
  /\ exit' = IF to = "exited" THEN how ELSE "none"
  /\ connected' = FALSE
  /\ turns' = {}
  /\ UNCHANGED session
  /\ IF how = "stopped" /\ turns # {}
     THEN outstanding' = FALSE
     ELSE UNCHANGED outstanding

\* containers.get(name).remove(force=True), which kills.
Removed ==
  /\ Ends("absent", "killed")
  /\ UNCHANGED queued

Untouched == UNCHANGED <<world, work>>

(***************************************************************************)
(* Calls that several threads make.                                        *)
(***************************************************************************)

\* Where a thread goes on after it has tried to start the container.
After(t) ==
  CASE t \in Prompts -> "publish"
    [] t = "create" -> "name"
    [] t = "loop" -> "watch"
    [] OTHER -> "idle"

\* What an exception does: the dispatch and the loop log it and go on.
AfterError(t) == IF t = "create" THEN "idle" ELSE After(t)

\* start_agent_if_stopped.
StartIfStopped(t) ==
  /\ pc[t] = "start"
  /\ IF container = "exited" THEN Starts ELSE UNCHANGED world
  /\ Goes(t, After(t))
  /\ UNCHANGED <<ws, work, row, cron, spent, history>>

\* spawn_agent, first half: whatever has the name is removed.
SpawnClears(t) ==
  /\ pc[t] = "clear"
  /\ IF container = "absent" THEN Untouched ELSE Removed
  /\ Goes(t, "run")
  /\ UNCHANGED <<ws, row, cron, spent, history>>

\* spawn_agent, second half: a conflict when the name is taken again.
SpawnRuns(t) ==
  /\ pc[t] = "run"
  /\ IF container = "absent"
     THEN Starts /\ Goes(t, After(t))
     ELSE UNCHANGED world /\ Goes(t, AfterError(t))
  /\ UNCHANGED <<ws, work, row, cron, spent, history>>

\* Docker does not answer, or the project's image cannot be built.
SpawnFails(t) ==
  /\ pc[t] \in {"clear", "run"}
  /\ Fault
  /\ Goes(t, AfterError(t))
  /\ UNCHANGED <<ws, world, work, row, cron, history>>

(***************************************************************************)
(* The endpoints of workspaces.py.                                         *)
(***************************************************************************)

Create ==
  /\ ws = "none"
  /\ ws' = "created"
  /\ Goes("create", "clear")
  /\ UNCHANGED <<world, work, row, cron, spent, history>>

\* UPDATE workspaces SET container_name, whatever has become of the row.
Name ==
  /\ pc["create"] = "name"
  /\ ws' = IF ws = "created" THEN "named" ELSE ws
  /\ Goes("create", "idle")
  /\ UNCHANGED <<world, work, row, cron, spent, history>>

\* Commits first, and then stops the container.
Delete ==
  /\ ws \in {"created", "named"}
  /\ Serving
  /\ pc["delete"] = "idle"
  /\ ws' = "archived"
  /\ raced' = \E t \in Threads : pc[t] # "idle"
  /\ Goes("delete", "stop")
  /\ UNCHANGED <<world, work, row, cron, spent, blind, late>>

Restart ==
  /\ ws \in {"created", "named"}
  /\ Serving
  /\ pc["restart"] = "idle"
  /\ due + spent.restarts < MaxEvents
  /\ spent' = [spent EXCEPT !.restarts = @ + 1]
  /\ Goes("restart", "stop")
  /\ UNCHANGED <<ws, world, work, row, cron, history>>

\* stop_agent; its error is logged, and restart-agent spawns all the same.
Stop(t) ==
  /\ t \in {"delete", "restart"}
  /\ pc[t] = "stop"
  /\ Goes(t, IF t = "restart" THEN "clear" ELSE "idle")
  /\ \/ /\ IF container = "absent" THEN Untouched ELSE Removed
        /\ UNCHANGED <<spent, raced>>
     \/ /\ Fault
        /\ raced' = (raced \/ t = "delete")
        /\ Untouched
  /\ UNCHANGED <<ws, row, cron, blind, late>>

(***************************************************************************)
(* Dispatching a prompt.                                                   *)
(***************************************************************************)

\* send_message has checked the workspace; the gate comes before the rest.
Accept(p) ==
  /\ Serving
  /\ pc[p] = "idle"
  /\ p \notin queued \cup turns
  /\ ws \in {"created", "named"}
  /\ Goes(p, "accepted")
  /\ UNCHANGED <<ws, world, work, row, cron, spent, history>>

\* The event loop runs one coroutine at a time: from the status to the
\* publish a dispatch does not suspend, before it there is a broadcast.
LoopIsFree == \A q \in Prompts : pc[q] \in {"idle", "accepted", "status"}

\* While the background loop goes by what it has read, it does not see the
\* new stamp.
LoopHasRead == pc["loop"] \in {"health", "start", "clear", "run", "watch", "pause"}

\* The message's row is committed.  A user's message stamps the workspace;
\* the stamps count in seconds.
Insert(p) ==
  /\ pc[p] = "accepted"
  /\ LoopIsFree
  /\ outstanding' = TRUE
  /\ blind' = IF LoopHasRead THEN blind \cup {p} ELSE blind \ {p}
  /\ Goes(p, "status")
  /\ UNCHANGED <<ws, world, queued, turns, row, cron, spent, raced, late>>

\* dispatch_to_staff for an event or a staged row, called by the event worker,
\* at the end of a turn, for the next queued task or by the startup scan: it
\* stamps nothing, and nobody looks at archived_at.
Post(p) ==
  /\ Serving
  /\ LoopIsFree
  /\ pc[p] = "idle"
  /\ p \notin queued \cup turns
  /\ ws # "none"
  /\ blind' = blind \cup {p}
  /\ late' = (late \/ ws = "archived")
  /\ Goes(p, "status")
  /\ UNCHANGED <<ws, world, work, row, cron, spent, raced>>

\* ensure_agent_running reads the status; an unknown one counts as exited.
Ensure(p) ==
  /\ pc[p] = "status"
  /\ LoopIsFree
  /\ Goes(p, CASE container = "running" -> "publish"
               [] container = "absent" -> "clear"
               [] container = "exited" -> "start")
  /\ UNCHANGED <<ws, world, work, row, cron, spent, history>>

\* Without a session of the agent the broker drops what nobody subscribes.
Publish(p) ==
  /\ pc[p] = "publish"
  /\ queued' = IF session THEN queued \cup {p} ELSE queued
  /\ Goes(p, "idle")
  /\ UNCHANGED <<ws, world, turns, outstanding, row, cron, spent, history>>

(***************************************************************************)
(* The agent.                                                              *)
(***************************************************************************)

Connect ==
  /\ container = "running"
  /\ ~connected
  /\ connected' = TRUE
  /\ session' = TRUE
  /\ UNCHANGED <<ws, container, exit, pc, work, row, cron, spent, history>>

Take(p) ==
  /\ connected
  /\ p \in queued
  /\ queued' = queued \ {p}
  /\ turns' = turns \cup {p}
  /\ UNCHANGED <<ws, world, pc, outstanding, row, cron, spent, history>>

\* _record_agent_response: one answer, and no other prompt is outstanding.
\* The response to an event's structured-output prompt is not recorded.
Respond(p) ==
  /\ p \in turns
  /\ turns' = turns \ {p}
  /\ \/ /\ outstanding' = FALSE
        /\ blind' = blind \cup (turns \ {p}) \cup queued
                      \cup {q \in Prompts : pc[q] \notin {"idle", "accepted"}}
     \/ p \in blind /\ UNCHANGED <<outstanding, blind>>
  /\ UNCHANGED <<ws, world, pc, queued, row, cron, spent, raced, late>>

(***************************************************************************)
(* The background loop.  It runs the scheduler, reads the workspaces once, *)
(* and then looks at the health and the idleness of each.                  *)
(***************************************************************************)

Active == ws = "named"

\* Mutant of Listed: the query without archived_at IS NULL.
ListedForEver == ws \in {"named", "archived"}

\* The WHERE of _active_workspaces and of _respawn_agents.
Listed == Active

SlotComes ==
  /\ due < MaxSlots
  /\ due + spent.restarts < MaxEvents
  /\ due' = due + 1
  /\ UNCHANGED <<ws, world, pc, work, row, mark, emitted, spent, history>>

Wake ==
  /\ Serving
  /\ pc["loop"] = "idle"
  /\ ws # "none"
  /\ Goes("loop", "slots")
  /\ UNCHANGED <<ws, world, work, row, cron, spent, history>>

\* Mutant of SlotIsDue: off by one.
NextSlotIsDue == mark <= due

SlotIsDue == mark < due

\* One slot in a tick, the oldest, and none of an archived topic.  The
\* watermark is committed before the slot is emitted.
Slot ==
  /\ pc["loop"] = "slots"
  /\ IF SlotIsDue /\ ws # "archived"
     THEN mark' = mark + 1 /\ Goes("loop", "emit")
     ELSE UNCHANGED mark /\ Goes("loop", "read")
  /\ UNCHANGED <<ws, world, work, row, due, emitted, spent, history>>

\* emit_event for the slot that was marked.
Emit ==
  /\ pc["loop"] = "emit"
  /\ emitted' = [emitted EXCEPT ![mark] = @ + 1]
  /\ Goes("loop", "read")
  /\ UNCHANGED <<ws, world, work, row, due, mark, spent, history>>

Read ==
  /\ pc["loop"] = "read"
  /\ row' = outstanding
  /\ Goes("loop", IF Listed THEN "health" ELSE "idle")
  /\ UNCHANGED <<ws, world, work, cron, spent, history>>

\* Mutant of Revives: only a container that exists is started again.
RevivesExited == IF container = "exited" /\ exit # "stopped" THEN "start" ELSE "watch"

\* Mutant of Revives: a container that exists is left to docker.
RevivesGone == IF container = "absent" THEN "clear" ELSE "watch"

\* An exit by pause_agent is not undone, unless it had to be killed.
Revives ==
  CASE container = "absent" -> "clear"
    [] container = "exited" /\ exit # "stopped" -> "start"
    [] OTHER -> "watch"

Health ==
  /\ pc["loop"] = "health"
  /\ Goes("loop", Revives)
  /\ UNCHANGED <<ws, world, work, row, cron, spent, history>>

\* Mutant of MayStop: the idle check goes by the clock alone.
MayStopAnyway == TRUE

\* dispatched_ts > responded_ts: the agent is at work.
MayStop == ~row

\* Time passes: the workspace may have been idle for long enough.
Watch ==
  /\ pc["loop"] = "watch"
  /\ \E longIdle \in BOOLEAN :
       Goes("loop", IF MayStop /\ longIdle /\ container = "running" THEN "pause" ELSE "idle")
  /\ row' = FALSE
  /\ UNCHANGED <<ws, world, work, cron, spent, history>>

\* pause_agent; docker kills a container that is too slow.
Pause ==
  /\ pc["loop"] = "pause"
  /\ IF container = "running"
     THEN \E how \in {"stopped", "killed"} : Ends("exited", how) /\ UNCHANGED queued
     ELSE Untouched
  /\ Goes("loop", "idle")
  /\ UNCHANGED <<ws, row, cron, spent, history>>

(***************************************************************************)
(* The faults.                                                             *)
(***************************************************************************)

\* The agent dies, or the machine's memory is short.
Crash ==
  /\ container = "running"
  /\ Fault
  /\ Ends("exited", "crashed")
  /\ UNCHANGED <<ws, pc, queued, row, cron, history>>

\* restart_policy unless-stopped.
DockerRestarts ==
  /\ container = "exited"
  /\ exit = "crashed"
  /\ Starts
  /\ UNCHANGED <<ws, pc, work, row, cron, spent, history>>

\* The container is pruned, or removed by hand.
Vanish ==
  /\ container # "absent"
  /\ Fault
  /\ Removed
  /\ UNCHANGED <<ws, pc, row, cron, history>>

\* Mutant of MarkAfterDeath: the watermark is kept in memory.
NoMark == 0

\* last_fired_at is in the database.
MarkAfterDeath == mark

\* The master dies.  Its startup respawns the container of an active
\* workspace that has none, before the loop and the endpoints run.
MasterDies ==
  /\ ws # "none"
  /\ Fault
  /\ pc' = [t \in Threads |-> IF t = "startup" /\ Listed /\ container = "absent"
                              THEN "clear" ELSE "idle"]
  /\ raced' = (raced \/ pc["delete"] = "stop")
  /\ mark' = MarkAfterDeath
  /\ UNCHANGED <<ws, world, work, row, due, emitted, blind, late>>

LoopStep ==
  \/ Wake \/ Slot \/ Emit \/ Read \/ Health \/ Watch \/ Pause
  \/ StartIfStopped("loop")
  \/ \E t \in Master : SpawnClears(t) \/ SpawnRuns(t)

EndpointStep ==
  \/ Name
  \/ \E t \in Endpoints : Stop(t) \/ SpawnClears(t) \/ SpawnRuns(t)

PromptStep(p) ==
  \/ Insert(p) \/ Ensure(p) \/ Publish(p)
  \/ StartIfStopped(p) \/ SpawnClears(p) \/ SpawnRuns(p)

AgentStep == Connect \/ \E p \in Prompts : Take(p)

Next ==
  \/ LoopStep \/ EndpointStep \/ AgentStep
  \/ Create \/ Delete \/ Restart
  \/ \E p \in Prompts : Accept(p) \/ Post(p) \/ PromptStep(p) \/ Respond(p)
  \/ \E t \in Threads : SpawnFails(t)
  \/ SlotComes \/ Crash \/ DockerRestarts \/ Vanish \/ MasterDies

\* Threads run on, and so does a container that docker started.
Fairness ==
  /\ WF_vars(LoopStep)
  /\ WF_vars(EndpointStep)
  /\ WF_vars(Connect)
  /\ \A p \in Prompts : WF_vars(PromptStep(p)) /\ WF_vars(Take(p))
  /\ WF_vars(DockerRestarts)

Spec == Init /\ [][Next]_vars /\ Fairness

(***************************************************************************)
(* Properties.                                                             *)
(***************************************************************************)

\* The idle stop ends no turn that it could have known of: one of a user,
\* dispatched before the loop read the workspace, with no answer of any
\* other turn since, and not in the second of one (the condition of
\* run_background_tasks).  The others it does end.
IdleStopSparesKnownTurns ==
  [][pc["loop"] = "pause" /\ pc'["loop"] = "idle" /\ turns' = {} => turns \subseteq blind]_vars

\* A workspace that was deleted in peace has no container until a dispatch
\* for it begins after all (a queued event, the end of a late turn, the
\* startup scan: none of them reads archived_at), and neither then nor before
\* does a tick, a restart of the master or an endpoint start one
\* (delete_workspace, _active_workspaces, _respawn_agents).
ArchivedStaysDown ==
  ws = "archived" /\ ~raced /\ pc["delete"] = "idle" =>
    /\ late \/ container = "absent"
    /\ \A t \in Endpoints \cup Master : pc[t] \notin {"start", "clear", "run"}

\* A slot of a cron action is emitted at most once, though the master may
\* die at any point of the tick (the watermark of _scheduler_tick).
SlotFiresOnce == \A n \in Slots : emitted[n] <= 1

\* A container that is gone, or that died, comes back while the workspace
\* is active, without a new message (issue #251).
GoneComesBack ==
  (ws = "named" /\ (container = "absent" \/ exit \in {"killed", "crashed"}))
    ~> (container = "running" \/ ws = "archived")

\* A prompt that the broker holds reaches an agent, unless the idle stop or
\* the end of the workspace comes between (ensure_agent_running, and the
\* agent's durable session).
QueuedIsTaken ==
  \A p \in Prompts :
    p \in queued ~> \/ p \notin queued
                    \/ exit \in {"stopped", "killed"}
                    \/ ws # "named"

=============================================================================
