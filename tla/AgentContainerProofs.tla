------------------------ MODULE AgentContainerProofs ------------------------
(***************************************************************************)
(* Theorems about AgentContainer, for every set of prompts and every       *)
(* bound: type correctness, the scheduler's watermark, the peace of an     *)
(* archived workspace, and what the idle stop may end.                     *)
(***************************************************************************)
EXTENDS AgentContainer, TLAPS

-----------------------------------------------------------------------------
(* Types *)

\* What docker does keeps the types of what it touches.
LEMMA DockerTypes ==
  ASSUME TypeOK
  PROVE  /\ Starts => /\ container' \in {"absent", "running", "exited"}
                      /\ exit' \in {"none", "stopped", "killed", "crashed"}
                      /\ session' \in BOOLEAN /\ connected' \in BOOLEAN
         /\ \A to \in {"absent", "exited"}, how \in {"stopped", "killed", "crashed"} :
              Ends(to, how) => /\ container' \in {"absent", "running", "exited"}
                               /\ exit' \in {"none", "stopped", "killed", "crashed"}
                               /\ session' \in BOOLEAN /\ connected' \in BOOLEAN
                               /\ turns' \subseteq Prompts
                               /\ outstanding' \in BOOLEAN
  BY DEF TypeOK, Starts, Ends

\* Threads go from one call to another.
LEMMA GoesTypes ==
  ASSUME TypeOK, NEW t \in Threads, NEW to \in Call, Goes(t, to)
  PROVE  /\ pc' \in [Threads -> Call]
         /\ pc'[t] = to
         /\ \A u \in Threads \ {t} : pc'[u] = pc[u]
  BY DEF TypeOK, Goes

LEMMA AfterTypes ==
  ASSUME NEW t \in Threads
  PROVE  After(t) \in Call /\ AfterError(t) \in Call
  BY DEF After, AfterError, Call

\* The calls that several threads make.
LEMMA SharedCallTypes ==
  ASSUME TypeOK, NEW t \in Threads,
         StartIfStopped(t) \/ SpawnClears(t) \/ SpawnRuns(t) \/ SpawnFails(t)
  PROVE  TypeOK'
<1>1. CASE StartIfStopped(t)
  <2>1. pc' \in [Threads -> Call]
    BY <1>1, AfterTypes, GoesTypes DEF StartIfStopped
  <2> QED BY <1>1, <2>1, DockerTypes
          DEF StartIfStopped, TypeOK, world, work, cron, history
<1>2. CASE SpawnClears(t)
  <2>1. pc' \in [Threads -> Call]
    BY <1>2, GoesTypes DEF SpawnClears, Call
  <2>2. CASE container = "absent"
    BY <1>2, <2>1, <2>2 DEF SpawnClears, Untouched, TypeOK, world, work, cron, history
  <2>3. CASE container # "absent"
    BY <1>2, <2>1, <2>3, DockerTypes DEF SpawnClears, Removed, TypeOK, cron, history
  <2> QED BY <2>2, <2>3
<1>3. CASE SpawnRuns(t)
  <2>1. pc' \in [Threads -> Call]
    BY <1>3, AfterTypes, GoesTypes DEF SpawnRuns
  <2> QED BY <1>3, <2>1, DockerTypes DEF SpawnRuns, TypeOK, world, work, cron, history
<1>4. CASE SpawnFails(t)
  <2>1. pc' \in [Threads -> Call]
    BY <1>4, AfterTypes, GoesTypes DEF SpawnFails
  <2> QED BY <1>4, <2>1 DEF SpawnFails, Fault, TypeOK, world, work, cron, history
<1> QED BY <1>1, <1>2, <1>3, <1>4

LEMMA EndpointTypes ==
  ASSUME TypeOK, Create \/ Name \/ Delete \/ Restart \/ \E t \in Endpoints : Stop(t)
  PROVE  TypeOK'
<1>1. /\ "create" \in Threads /\ "delete" \in Threads /\ "restart" \in Threads
      /\ Endpoints \subseteq Threads
  BY DEF Threads, Endpoints
<1>2. CASE Create
  BY <1>1, <1>2, GoesTypes DEF Create, TypeOK, Call, world, work, cron, history
<1>3. CASE Name
  BY <1>1, <1>3, GoesTypes DEF Name, TypeOK, Call, world, work, cron, history
<1>4. CASE Delete
  BY <1>1, <1>4, GoesTypes DEF Delete, TypeOK, Call, world, work, cron, history
<1>5. CASE Restart
  BY <1>1, <1>5, GoesTypes DEF Restart, TypeOK, Call, world, work, cron, history
<1>6. ASSUME NEW t \in Endpoints, Stop(t) PROVE TypeOK'
  <2>1. pc' \in [Threads -> Call]
    BY <1>1, <1>6, GoesTypes DEF Stop, Call
  <2>2. ws' = ws /\ row' = row /\ cron' = cron /\ blind' = blind /\ late' = late
    BY <1>6 DEF Stop
  <2>3. spent' \in [restarts : Nat, faults : Nat]
    BY <1>6 DEF Stop, Fault, TypeOK
  <2>4. raced' \in BOOLEAN
    <3>1. raced' = raced \/ raced' = (raced \/ t = "delete")
      BY <1>6 DEF Stop
    <3> QED BY <3>1 DEF TypeOK
  <2>5. CASE Untouched
    BY <2>1, <2>2, <2>3, <2>4, <2>5 DEF Untouched, TypeOK, world, work, cron
  <2>6. CASE Removed
    BY <2>1, <2>2, <2>3, <2>4, <2>6, DockerTypes DEF Removed, TypeOK, cron
  <2> QED BY <1>6, <2>5, <2>6 DEF Stop
<1> QED BY <1>2, <1>3, <1>4, <1>5, <1>6

LEMMA PromptTypes ==
  ASSUME TypeOK, NEW p \in Prompts,
         Accept(p) \/ Post(p) \/ Insert(p) \/ Ensure(p) \/ Publish(p) \/ Take(p) \/ Respond(p)
  PROVE  TypeOK'
<1>1. p \in Threads
  BY DEF Threads
<1>2. CASE Accept(p)
  BY <1>1, <1>2, GoesTypes DEF Accept, TypeOK, Call, world, work, cron, history
<1>3. CASE Insert(p)
  BY <1>1, <1>3, GoesTypes DEF Insert, TypeOK, Call, world, cron
<1>4. CASE Ensure(p)
  <2>1. pc' \in [Threads -> Call]
    <3>1. CASE container = "running"
      BY <1>1, <1>4, <3>1, GoesTypes DEF Ensure, Call
    <3>2. CASE container = "absent"
      BY <1>1, <1>4, <3>2, GoesTypes DEF Ensure, Call
    <3>3. CASE container = "exited"
      BY <1>1, <1>4, <3>3, GoesTypes DEF Ensure, Call
    <3> QED BY <3>1, <3>2, <3>3 DEF TypeOK
  <2> QED BY <1>4, <2>1 DEF Ensure, TypeOK, world, work, cron, history
<1>5. CASE Publish(p)
  BY <1>1, <1>5, GoesTypes DEF Publish, TypeOK, Call, world, cron, history
<1>6. CASE Take(p)
  BY <1>6 DEF Take, TypeOK, world, cron, history
<1>7. CASE Respond(p)
  <2>1. turns' \subseteq Prompts /\ outstanding' \in BOOLEAN /\ blind' \subseteq Prompts
    BY <1>7 DEF Respond, TypeOK
  <2> QED BY <1>7, <2>1 DEF Respond, TypeOK, world, cron
<1>8. CASE Post(p)
  BY <1>1, <1>8, GoesTypes DEF Post, TypeOK, Call, world, work, cron
<1> QED BY <1>2, <1>3, <1>4, <1>5, <1>6, <1>7, <1>8

LEMMA LoopTypes ==
  ASSUME TypeOK, Wake \/ Slot \/ Emit \/ Read \/ Health \/ Watch \/ Pause
  PROVE  TypeOK'
<1>1. "loop" \in Threads
  BY DEF Threads, Master
<1>2. CASE Wake
  BY <1>1, <1>2, GoesTypes DEF Wake, TypeOK, Call, world, work, cron, history
<1>3. CASE Slot
  <2>1. pc' \in [Threads -> Call]
    BY <1>1, <1>3, GoesTypes DEF Slot, Call
  <2>2. mark' \in 0 .. MaxSlots
    BY <1>3, Bounds DEF Slot, SlotIsDue, TypeOK
  <2> QED BY <1>3, <2>1, <2>2 DEF Slot, TypeOK, world, work, history
<1>4. CASE Emit
  <2>1. emitted' \in [Slots -> Nat]
    <3>1. emitted' = [n \in Slots |-> IF n = mark THEN emitted[n] + 1 ELSE emitted[n]]
      BY <1>4 DEF Emit, TypeOK
    <3> QED BY <3>1 DEF TypeOK
  <2> QED BY <1>1, <1>4, <2>1, GoesTypes DEF Emit, TypeOK, Call, world, work, history
<1>5. CASE Read
  BY <1>1, <1>5, GoesTypes DEF Read, TypeOK, Call, world, work, cron, history
<1>6. CASE Health
  <2>1. Revives \in Call
    BY DEF Revives, Call
  <2> QED BY <1>1, <1>6, <2>1, GoesTypes DEF Health, TypeOK, world, work, cron, history
<1>7. CASE Watch
  <2>1. pc' \in [Threads -> Call]
    BY <1>1, <1>7, GoesTypes DEF Watch, Call
  <2> QED BY <1>7, <2>1 DEF Watch, TypeOK, world, work, cron, history
<1>8. CASE Pause
  <2>1. pc' \in [Threads -> Call]
    BY <1>1, <1>8, GoesTypes DEF Pause, Call
  <2>2. CASE container = "running"
    BY <1>8, <2>1, <2>2, DockerTypes DEF Pause, TypeOK, cron, history
  <2>3. CASE container # "running"
    BY <1>8, <2>1, <2>3 DEF Pause, Untouched, TypeOK, world, work, cron, history
  <2> QED BY <2>2, <2>3
<1> QED BY <1>2, <1>3, <1>4, <1>5, <1>6, <1>7, <1>8

LEMMA WorldTypes ==
  ASSUME TypeOK, Connect \/ SlotComes \/ Crash \/ DockerRestarts \/ Vanish \/ MasterDies
  PROVE  TypeOK'
<1>1. CASE Connect
  BY <1>1 DEF Connect, TypeOK, work, cron, history
<1>2. CASE SlotComes
  BY <1>2, Bounds DEF SlotComes, TypeOK, world, work, history
<1>3. CASE Crash
  BY <1>3, DockerTypes DEF Crash, Fault, TypeOK, cron, history
<1>4. CASE DockerRestarts
  BY <1>4, DockerTypes DEF DockerRestarts, TypeOK, work, cron, history
<1>5. CASE Vanish
  BY <1>5, DockerTypes DEF Vanish, Fault, Removed, TypeOK, cron, history
<1>6. CASE MasterDies
  BY <1>6 DEF MasterDies, Fault, MarkAfterDeath, TypeOK, Call, world, work
<1> QED BY <1>1, <1>2, <1>3, <1>4, <1>5, <1>6

\* The steps of Next, by who takes them.
LEMMA NextCases ==
  ASSUME Next
  PROVE  \/ \E t \in Threads : \/ StartIfStopped(t) \/ SpawnClears(t)
                               \/ SpawnRuns(t) \/ SpawnFails(t)
         \/ Create \/ Name \/ Delete \/ Restart \/ (\E t \in Endpoints : Stop(t))
         \/ \E p \in Prompts : \/ Accept(p) \/ Post(p) \/ Insert(p) \/ Ensure(p)
                               \/ Publish(p) \/ Take(p) \/ Respond(p)
         \/ Wake \/ Slot \/ Emit \/ Read \/ Health \/ Watch \/ Pause
         \/ Connect \/ SlotComes \/ Crash \/ DockerRestarts \/ Vanish \/ MasterDies
<1>1. /\ "loop" \in Threads /\ Master \subseteq Threads
      /\ Endpoints \subseteq Threads /\ Prompts \subseteq Threads
  BY DEF Threads, Master
<1>2. CASE LoopStep
  BY <1>1, <1>2 DEF LoopStep
<1>3. CASE EndpointStep
  BY <1>1, <1>3 DEF EndpointStep
<1>4. CASE \E p \in Prompts : Accept(p) \/ Post(p) \/ PromptStep(p) \/ Respond(p)
  BY <1>1, <1>4 DEF PromptStep
<1>5. CASE AgentStep
  BY <1>5 DEF AgentStep
<1>6. CASE \/ Create \/ Delete \/ Restart \/ (\E t \in Threads : SpawnFails(t))
           \/ SlotComes \/ Crash \/ DockerRestarts \/ Vanish \/ MasterDies
  BY <1>6
<1> QED BY <1>2, <1>3, <1>4, <1>5, <1>6 DEF Next

\* A step that changes nothing.
LEMMA StutterTypes == ASSUME TypeOK, UNCHANGED vars PROVE TypeOK'
  BY DEF TypeOK, vars, world, work, cron, history

\* Every reachable state is well formed: the workspace's row, what docker
\* says, the next call of each thread, the prompts and the cron slots.
THEOREM TypeCorrect == Spec => []TypeOK
<1>1. ASSUME Init PROVE TypeOK
  <2>1. /\ due \in 0 .. MaxSlots /\ mark \in 0 .. MaxSlots
        /\ emitted \in [Slots -> Nat]
        /\ spent \in [restarts : Nat, faults : Nat]
    BY <1>1, Bounds DEF Init
  <2>2. pc \in [Threads -> Call]
    BY <1>1 DEF Init, Call
  <2> QED BY <1>1, <2>1, <2>2 DEF Init, TypeOK
<1>2. TypeOK /\ [Next]_vars => TypeOK'
  BY NextCases, SharedCallTypes, EndpointTypes, PromptTypes, LoopTypes, WorldTypes, StutterTypes
<1> QED BY <1>1, <1>2, PTL DEF Spec

-----------------------------------------------------------------------------
(* The scheduler's watermark *)

\* A slot that was emitted is below the watermark, and the one about to be
\* emitted is the watermark itself, and new.
Marked ==
  /\ \A n \in Slots : emitted[n] <= 1 /\ (emitted[n] = 1 => n <= mark)
  /\ pc["loop"] = "emit" => emitted[mark] = 0 /\ mark \in Slots

\* Only Slot sends the background loop to emit a slot.
LEMMA OnlySlotEmits ==
  ASSUME TypeOK, Next
  PROVE  \/ Slot \/ Emit
         \/ UNCHANGED <<mark, emitted>> /\ (pc'["loop"] = "emit" => pc["loop"] = "emit")
<1>1. "loop" \in Threads /\ Endpoints \subseteq Threads /\ Prompts \subseteq Threads
  BY DEF Threads, Master
<1>2. ASSUME NEW t \in Threads, StartIfStopped(t) \/ SpawnClears(t) \/ SpawnRuns(t) \/ SpawnFails(t)
      PROVE  UNCHANGED <<mark, emitted>> /\ (pc'["loop"] = "emit" => pc["loop"] = "emit")
  <2>1. \E to \in Call : Goes(t, to) /\ to # "emit"
    BY <1>2, AfterTypes
       DEF StartIfStopped, SpawnClears, SpawnRuns, SpawnFails, After, AfterError, Call
  <2> QED BY <1>1, <1>2, <2>1, GoesTypes
          DEF StartIfStopped, SpawnClears, SpawnRuns, SpawnFails, cron
<1>3. ASSUME Create \/ Name \/ Delete \/ Restart \/ \E t \in Endpoints : Stop(t)
      PROVE  UNCHANGED <<mark, emitted>> /\ (pc'["loop"] = "emit" => pc["loop"] = "emit")
  <2>1. \E t \in Endpoints, to \in Call : Goes(t, to) /\ to # "emit"
    BY <1>3 DEF Create, Name, Delete, Restart, Stop, Endpoints, Call
  <2> QED BY <1>1, <1>3, <2>1, GoesTypes DEF Create, Name, Delete, Restart, Stop, cron
<1>4. ASSUME NEW p \in Prompts,
             Accept(p) \/ Post(p) \/ Insert(p) \/ Ensure(p) \/ Publish(p) \/ Take(p) \/ Respond(p)
      PROVE  UNCHANGED <<mark, emitted>> /\ (pc'["loop"] = "emit" => pc["loop"] = "emit")
  <2>1. UNCHANGED pc \/ \E to \in Call : Goes(p, to) /\ to # "emit"
    BY <1>4 DEF Accept, Post, Insert, Ensure, Publish, Take, Respond, Call, TypeOK
  <2> QED BY <1>1, <1>4, <2>1, GoesTypes
          DEF Accept, Post, Insert, Ensure, Publish, Take, Respond, cron
<1>5. ASSUME Wake \/ Read \/ Health \/ Watch \/ Pause
      PROVE  UNCHANGED <<mark, emitted>> /\ (pc'["loop"] = "emit" => pc["loop"] = "emit")
  <2>1. \E to \in Call : Goes("loop", to) /\ to # "emit"
    BY <1>5 DEF Wake, Read, Health, Watch, Pause, Revives, Call
  <2> QED BY <1>1, <1>5, <2>1, GoesTypes DEF Wake, Read, Health, Watch, Pause, cron
<1>6. ASSUME Connect \/ SlotComes \/ Crash \/ DockerRestarts \/ Vanish
      PROVE  UNCHANGED <<mark, emitted>> /\ (pc'["loop"] = "emit" => pc["loop"] = "emit")
  BY <1>6 DEF Connect, SlotComes, Crash, DockerRestarts, Vanish, cron
<1>7. ASSUME MasterDies
      PROVE  UNCHANGED <<mark, emitted>> /\ (pc'["loop"] = "emit" => pc["loop"] = "emit")
  BY <1>1, <1>7 DEF MasterDies, MarkAfterDeath
<1> QED BY <1>2, <1>3, <1>4, <1>5, <1>6, <1>7, NextCases

LEMMA MarkedStep ==
  ASSUME TypeOK, Marked, Next
  PROVE  Marked'
<1>1. "loop" \in Threads
  BY DEF Threads, Master
<1>2. CASE Slot
  <2>1. CASE SlotIsDue /\ ws # "archived"
    <3>1. /\ mark' = mark + 1 /\ emitted' = emitted
          /\ mark \in Nat /\ mark' \in Slots
      BY <1>2, <2>1, Bounds DEF Slot, SlotIsDue, Slots, TypeOK
    <3>2. emitted[mark'] = 0
      BY <3>1 DEF Marked, TypeOK, Slots
    <3> QED BY <3>1, <3>2 DEF Marked, Slots
  <2>2. CASE ~ (SlotIsDue /\ ws # "archived")
    <3>1. mark' = mark /\ emitted' = emitted /\ pc'["loop"] = "read"
      BY <1>1, <1>2, <2>2 DEF Slot, Goes, TypeOK
    <3> QED BY <3>1 DEF Marked
  <2> QED BY <2>1, <2>2
<1>3. CASE Emit
  <2>1. /\ pc["loop"] = "emit" /\ pc'["loop"] = "read" /\ mark' = mark
        /\ \A n \in Slots : emitted'[n] = IF n = mark THEN emitted[n] + 1 ELSE emitted[n]
    BY <1>1, <1>3 DEF Emit, Goes, TypeOK
  <2> QED BY <2>1 DEF Marked, Slots, TypeOK
<1>4. CASE UNCHANGED <<mark, emitted>> /\ (pc'["loop"] = "emit" => pc["loop"] = "emit")
  BY <1>4 DEF Marked
<1> QED BY <1>2, <1>3, <1>4, OnlySlotEmits

\* A slot of a cron action is emitted at most once, though the master may
\* die at any point of the tick.
THEOREM FiresOnce == Spec => []SlotFiresOnce
<1>1. Init => Marked
  BY DEF Init, Marked, Threads, Master
<1>2. TypeOK /\ Marked /\ [Next]_vars => Marked'
  BY MarkedStep DEF vars, cron, Marked
<1>3. Marked => SlotFiresOnce
  BY DEF Marked, SlotFiresOnce
<1> QED BY <1>1, <1>2, <1>3, TypeCorrect, PTL DEF Spec

-----------------------------------------------------------------------------
(* The peace of an archived workspace *)

\* An archived workspace whose delete met nobody has only the delete itself,
\* an empty round of the background loop and late dispatches at work, and
\* until the first of those no container once the delete is over.
Peace ==
  /\ pc["delete"] \in {"idle", "stop"}
  /\ ws = "archived" /\ ~raced =>
       /\ \A t \in {"create", "restart", "startup"} : pc[t] = "idle"
       /\ pc["loop"] \in {"idle", "slots", "read"}
       /\ ~late => \A p \in Prompts : pc[p] = "idle"
       /\ ~late /\ pc["delete"] = "idle" => container = "absent"

LEMMA NamedThreads ==
  /\ Threads = {"create", "delete", "restart", "startup", "loop"} \cup Prompts
  /\ \A p \in Prompts : p \notin {"create", "delete", "restart", "startup", "loop"}
  BY PromptsAreNoThreads DEF Threads, Endpoints, Master

LEMMA PeaceShared ==
  ASSUME TypeOK, Peace, NEW t \in Threads,
         StartIfStopped(t) \/ SpawnClears(t) \/ SpawnRuns(t) \/ SpawnFails(t)
  PROVE  Peace'
<1>1. /\ "delete" \in Threads
      /\ pc[t] \in {"start", "clear", "run"} /\ t # "delete"
  BY NamedThreads DEF StartIfStopped, SpawnClears, SpawnRuns, SpawnFails, Peace
<1>2. UNCHANGED <<ws, raced, late>>
  BY DEF StartIfStopped, SpawnClears, SpawnRuns, SpawnFails, history
<1>3. \A u \in Threads \ {t} : pc'[u] = pc[u]
  <2>1. \E to \in Call : Goes(t, to)
    BY AfterTypes DEF StartIfStopped, SpawnClears, SpawnRuns, SpawnFails, Call
  <2> QED BY <2>1, GoesTypes
<1>4. CASE ~ (ws = "archived" /\ ~raced)
  BY <1>1, <1>2, <1>3, <1>4 DEF Peace
<1>5. CASE ws = "archived" /\ ~raced
  <2>1. t \in Prompts /\ late
    BY <1>1, <1>5, NamedThreads DEF Peace
  <2> QED BY <1>2, <1>3, <2>1, NamedThreads DEF Peace
<1> QED BY <1>4, <1>5

LEMMA PeaceEndpoints ==
  ASSUME TypeOK, Peace, Create \/ Name \/ Delete \/ Restart \/ \E t \in Endpoints : Stop(t)
  PROVE  Peace'
<1>1. /\ {"create", "delete", "restart", "startup", "loop"} \cup Prompts = Threads
      /\ \A p \in Prompts : p \notin {"create", "delete", "restart"}
  BY NamedThreads
<1>2. CASE Create
  BY <1>1, <1>2 DEF Create, Goes, Peace, TypeOK
<1>3. CASE Name
  <2>1. ~ (ws = "archived" /\ ~raced)
    BY <1>1, <1>3 DEF Name, Peace
  <2> QED BY <1>1, <1>3, <2>1 DEF Name, Goes, Peace, TypeOK, history
<1>4. CASE Delete
  <2>1. /\ ws' = "archived" /\ pc'["delete"] = "stop"
        /\ \A u \in Threads \ {"delete"} : pc'[u] = pc[u]
    BY <1>1, <1>4 DEF Delete, Goes, TypeOK
  <2>2. ~raced' => \A u \in Threads : pc[u] = "idle"
    BY <1>4 DEF Delete
  <2> QED BY <1>1, <2>1, <2>2 DEF Peace
<1>5. CASE Restart
  BY <1>1, <1>5 DEF Restart, Goes, Peace, TypeOK, history
<1>6. ASSUME Stop("delete") PROVE Peace'
  <2>1. /\ ws' = ws /\ late' = late /\ pc'["delete"] = "idle"
        /\ \A u \in Threads \ {"delete"} : pc'[u] = pc[u]
    BY <1>1, <1>6 DEF Stop, Goes, TypeOK
  <2>2. ~raced' => raced' = raced /\ container' = "absent"
    BY <1>6 DEF Stop, Removed, Untouched, Ends, world
  <2> QED BY <1>1, <2>1, <2>2 DEF Peace
<1>7. ASSUME Stop("restart") PROVE Peace'
  <2>1. ~ (ws = "archived" /\ ~raced)
    BY <1>1, <1>7 DEF Stop, Peace
  <2>2. ws' = ws /\ pc'["delete"] = pc["delete"]
    BY <1>1, <1>7 DEF Stop, Goes, TypeOK
  <2>3. raced => raced'
    BY <1>7 DEF Stop
  <2> QED BY <2>1, <2>2, <2>3 DEF Peace
<1> QED BY <1>2, <1>3, <1>4, <1>5, <1>6, <1>7 DEF Stop

LEMMA PeacePrompts ==
  ASSUME TypeOK, Peace, NEW p \in Prompts,
         Accept(p) \/ Post(p) \/ Insert(p) \/ Ensure(p) \/ Publish(p) \/ Take(p) \/ Respond(p)
  PROVE  Peace'
<1>1. /\ {"create", "delete", "restart", "startup", "loop"} \cup Prompts = Threads
      /\ p \notin {"create", "delete", "restart", "startup", "loop"}
  BY NamedThreads
<1>2. UNCHANGED <<ws, raced, container>>
  BY DEF Accept, Post, Insert, Ensure, Publish, Take, Respond, history, world
<1>3. \A u \in Threads \ {p} : pc'[u] = pc[u]
  BY <1>1 DEF Accept, Post, Insert, Ensure, Publish, Take, Respond, Goes, TypeOK
<1>4. CASE Take(p) \/ Respond(p)
  BY <1>2, <1>4 DEF Take, Respond, Peace, history
<1>5. CASE Accept(p)
  BY <1>1, <1>2, <1>3, <1>5 DEF Accept, Peace
<1>6. CASE Insert(p) \/ Ensure(p) \/ Publish(p)
  <2>1. late' = late /\ pc[p] # "idle"
    BY <1>6 DEF Insert, Ensure, Publish, history
  <2>2. ws = "archived" /\ ~raced => late
    BY <2>1 DEF Peace
  <2> QED BY <1>1, <1>2, <1>3, <2>1, <2>2 DEF Peace
<1>7. CASE Post(p)
  <2>1. ws = "archived" => late'
    BY <1>7 DEF Post
  <2> QED BY <1>1, <1>2, <1>3, <2>1 DEF Peace
<1> QED BY <1>4, <1>5, <1>6, <1>7

LEMMA PeaceLoop ==
  ASSUME TypeOK, Peace, Wake \/ Slot \/ Emit \/ Read \/ Health \/ Watch \/ Pause
  PROVE  Peace'
<1>1. /\ {"create", "delete", "restart", "startup", "loop"} \cup Prompts = Threads
      /\ "loop" \notin Prompts
  BY NamedThreads
<1>2. /\ UNCHANGED <<ws, raced, late>>
      /\ \A u \in Threads \ {"loop"} : pc'[u] = pc[u]
  BY <1>1 DEF Wake, Slot, Emit, Read, Health, Watch, Pause, Goes, TypeOK, history
<1>3. CASE Wake \/ Slot \/ Read
  <2>1. container' = container
    BY <1>3 DEF Wake, Slot, Read, world
  <2>2. ws = "archived" => pc'["loop"] \in {"idle", "slots", "read"}
    BY <1>1, <1>3 DEF Wake, Slot, Read, Listed, Active, Goes, TypeOK
  <2> QED BY <1>1, <1>2, <2>1, <2>2 DEF Peace
<1>4. CASE Emit \/ Health \/ Watch \/ Pause
  <2>1. ~ (ws = "archived" /\ ~raced)
    BY <1>4 DEF Emit, Health, Watch, Pause, Peace
  <2> QED BY <1>1, <1>2, <2>1 DEF Peace
<1> QED BY <1>3, <1>4

LEMMA PeaceWorld ==
  ASSUME TypeOK, Peace, Connect \/ SlotComes \/ Crash \/ DockerRestarts \/ Vanish \/ MasterDies
  PROVE  Peace'
<1>1. {"create", "delete", "restart", "startup", "loop"} \cup Prompts = Threads
  BY NamedThreads
<1>2. CASE MasterDies
  <2>1. /\ UNCHANGED <<ws, container, late>> /\ pc'["delete"] = "idle"
        /\ ws = "archived" => \A u \in Threads : pc'[u] = "idle"
    BY <1>1, <1>2 DEF MasterDies, Listed, Active, world
  <2>2. ~raced' => ~raced /\ pc["delete"] # "stop"
    BY <1>2 DEF MasterDies
  <2> QED BY <1>1, <2>1, <2>2 DEF Peace
<1>3. CASE Connect \/ SlotComes
  BY <1>3 DEF Connect, SlotComes, Peace, world, history
<1>4. CASE Crash \/ DockerRestarts \/ Vanish
  <2>1. UNCHANGED <<ws, pc, raced, late>> /\ (container = "absent" => container' = "absent")
    BY <1>4 DEF Crash, DockerRestarts, Vanish, Removed, Ends, history
  <2> QED BY <2>1 DEF Peace
<1> QED BY <1>2, <1>3, <1>4

\* A workspace that was deleted in peace has no container until somebody
\* dispatches for it after all, and no tick, endpoint or restart of the master
\* starts one, then or before.
THEOREM StaysDown == Spec => []ArchivedStaysDown
<1>1. Init => Peace
  BY NamedThreads DEF Init, Peace
<1>2. TypeOK /\ Peace /\ [Next]_vars => Peace'
  <2>1. TypeOK /\ Peace /\ Next => Peace'
    BY NextCases, PeaceShared, PeaceEndpoints, PeacePrompts, PeaceLoop, PeaceWorld
  <2>2. Peace /\ UNCHANGED vars => Peace'
    BY DEF Peace, vars, world, history
  <2> QED BY <2>1, <2>2
<1>3. Peace => ArchivedStaysDown
  BY DEF Peace, ArchivedStaysDown, Endpoints, Master
<1> QED BY <1>1, <1>2, <1>3, TypeCorrect, PTL DEF Spec

-----------------------------------------------------------------------------
(* What the idle stop may end *)

\* Prompts whose row is committed and whose turn is not over.
Busy == queued \cup turns \cup {p \in Prompts : pc[p] \notin {"idle", "accepted"}}
Unseen == Busy \ blind

\* What the background loop is about to do, it does for what it has read:
\* a turn it could know of was outstanding then.
Deciding == {"health", "start", "clear", "run", "watch"}
Known ==
  /\ Unseen # {} => outstanding
  /\ pc["loop"] \in Deciding /\ Unseen # {} => row
  /\ pc["loop"] = "pause" => Unseen = {}

LEMMA KnownShared ==
  ASSUME TypeOK, Known, NEW t \in Threads,
         StartIfStopped(t) \/ SpawnClears(t) \/ SpawnRuns(t) \/ SpawnFails(t)
  PROVE  Known'
<1>1. /\ "loop" \in Threads /\ Prompts \subseteq Threads
      /\ pc[t] \in {"start", "clear", "run"}
  BY DEF Threads, Master, StartIfStopped, SpawnClears, SpawnRuns, SpawnFails
<1>2. /\ UNCHANGED <<row, blind, queued, outstanding>> /\ turns' \subseteq turns
  BY DEF StartIfStopped, SpawnClears, SpawnRuns, SpawnFails, Untouched, Removed, Ends,
         work, history
<1>3. \E to \in Call : /\ Goes(t, to)
                       /\ t = "loop" => to \in Deciding
  <2>1. t = "loop" => After(t) = "watch" /\ AfterError(t) = "watch"
    BY PromptsAreNoThreads DEF After, AfterError, Master
  <2> QED BY <2>1, AfterTypes
          DEF StartIfStopped, SpawnClears, SpawnRuns, SpawnFails, Call, Deciding
<1>4. Unseen' \subseteq Unseen
  BY <1>1, <1>2, <1>3, GoesTypes DEF Unseen, Busy
<1>5. /\ pc'["loop"] \in Deciding => pc["loop"] \in Deciding
      /\ pc'["loop"] = "pause" => pc["loop"] = "pause"
  BY <1>1, <1>3, GoesTypes DEF Deciding
<1> QED BY <1>2, <1>4, <1>5 DEF Known

LEMMA KnownEndpoints ==
  ASSUME TypeOK, Known, Create \/ Name \/ Delete \/ Restart \/ \E t \in Endpoints : Stop(t)
  PROVE  Known'
<1>1. /\ "loop" \in Threads /\ Prompts \subseteq Threads /\ Endpoints \subseteq Threads
      /\ \A p \in Prompts \cup {"loop"} : p \notin Endpoints
  BY PromptsAreNoThreads DEF Threads, Master, Endpoints
<1>2. UNCHANGED <<row, blind, queued, outstanding>> /\ turns' \subseteq turns
  BY DEF Create, Name, Delete, Restart, Stop, Untouched, Removed, Ends, work, history
<1>3. \E t \in Endpoints, to \in Call : Goes(t, to)
  BY DEF Create, Name, Delete, Restart, Stop, Endpoints, Call
<1>4. \A u \in Prompts \cup {"loop"} : pc'[u] = pc[u]
  BY <1>1, <1>3, GoesTypes
<1>5. Unseen' \subseteq Unseen
  BY <1>2, <1>4 DEF Unseen, Busy
<1> QED BY <1>2, <1>4, <1>5 DEF Known

LEMMA KnownPrompts ==
  ASSUME TypeOK, Known, NEW p \in Prompts,
         Accept(p) \/ Post(p) \/ Insert(p) \/ Ensure(p) \/ Publish(p) \/ Take(p) \/ Respond(p)
  PROVE  Known'
<1>1. /\ p \in Threads /\ "loop" \in Threads /\ p # "loop" /\ Prompts \subseteq Threads
  BY PromptsAreNoThreads DEF Threads, Master
<1>2. pc'["loop"] = pc["loop"] /\ row' = row
  BY <1>1 DEF Accept, Post, Insert, Ensure, Publish, Take, Respond, Goes, TypeOK
<1>3. ASSUME Accept(p) \/ Ensure(p) \/ Publish(p) \/ Take(p) PROVE Known'
  <2>1. UNCHANGED <<blind, outstanding>>
    BY <1>3 DEF Accept, Ensure, Publish, Take, work, history
  <2>2. Busy' \subseteq Busy
    <3>1. CASE Accept(p)
      BY <1>1, <3>1 DEF Accept, Goes, Busy, TypeOK, work
    <3>2. CASE Ensure(p)
      BY <1>1, <3>2 DEF Ensure, Goes, Busy, TypeOK, work
    <3>3. CASE Publish(p)
      BY <1>1, <3>3 DEF Publish, Goes, Busy, TypeOK
    <3>4. CASE Take(p)
      BY <3>4 DEF Take, Busy
    <3> QED BY <1>3, <3>1, <3>2, <3>3, <3>4
  <2> QED BY <1>2, <2>1, <2>2 DEF Known, Unseen
<1>4. ASSUME Insert(p) PROVE Known'
  <2>1. Busy' \subseteq Busy \cup {p}
    BY <1>1, <1>4 DEF Insert, Goes, Busy, TypeOK
  <2>2. CASE LoopHasRead
    <3>1. blind' = blind \cup {p} /\ outstanding'
      BY <1>4, <2>2 DEF Insert
    <3> QED BY <1>2, <2>1, <3>1 DEF Known, Unseen
  <2>3. CASE ~LoopHasRead
    <3>1. pc["loop"] \notin Deciding \cup {"pause"}
      BY <2>3 DEF LoopHasRead, Deciding
    <3>2. outstanding'
      BY <1>4 DEF Insert
    <3> QED BY <1>2, <2>1, <3>1, <3>2 DEF Known, Unseen
  <2> QED BY <2>2, <2>3
<1>5. ASSUME Respond(p) PROVE Known'
  <2>1. CASE UNCHANGED <<outstanding, blind>>
    <3>1. Busy' \subseteq Busy
      BY <1>5 DEF Respond, Busy
    <3> QED BY <1>2, <2>1, <3>1 DEF Known, Unseen
  <2>2. CASE ~ UNCHANGED <<outstanding, blind>>
    <3>1. Unseen' = {}
      BY <1>5, <2>2 DEF Respond, Unseen, Busy
    <3> QED BY <1>2, <3>1 DEF Known
  <2> QED BY <2>1, <2>2
<1>6. ASSUME Post(p) PROVE Known'
  <2>1. UNCHANGED <<queued, turns, outstanding>> /\ blind' = blind \cup {p}
    BY <1>6 DEF Post, work
  <2>2. Busy' \subseteq Busy \cup {p}
    BY <1>1, <1>6, <2>1 DEF Post, Goes, Busy, TypeOK
  <2> QED BY <1>2, <2>1, <2>2 DEF Known, Unseen
<1> QED BY <1>3, <1>4, <1>5, <1>6

LEMMA KnownLoop ==
  ASSUME TypeOK, Known, Wake \/ Slot \/ Emit \/ Read \/ Health \/ Watch \/ Pause
  PROVE  Known'
<1>1. /\ "loop" \in Threads /\ Prompts \subseteq Threads /\ "loop" \notin Prompts
  BY PromptsAreNoThreads DEF Threads, Master
<1>2. \A u \in Prompts : pc'[u] = pc[u]
  BY <1>1 DEF Wake, Slot, Emit, Read, Health, Watch, Pause, Goes, TypeOK
<1>3. CASE Wake \/ Slot \/ Emit
  <2>1. UNCHANGED <<work, blind>> /\ pc'["loop"] \notin Deciding \cup {"pause"}
    BY <1>1, <1>3 DEF Wake, Slot, Emit, Goes, TypeOK, Deciding, history
  <2> QED BY <1>2, <2>1 DEF Known, Unseen, Busy, work
<1>4. CASE Read
  <2>1. UNCHANGED <<work, blind>> /\ row' = outstanding /\ pc'["loop"] # "pause"
    BY <1>1, <1>4 DEF Read, Goes, TypeOK, history
  <2> QED BY <1>2, <2>1 DEF Known, Unseen, Busy, work
<1>5. CASE Health
  <2>1. UNCHANGED <<work, blind, row>> /\ pc["loop"] \in Deciding /\ pc'["loop"] # "pause"
    BY <1>1, <1>5 DEF Health, Revives, Goes, TypeOK, Deciding, history
  <2> QED BY <1>2, <2>1 DEF Known, Unseen, Busy, work
<1>6. CASE Watch
  <2>1. /\ UNCHANGED <<work, blind>> /\ pc["loop"] \in Deciding
        /\ pc'["loop"] = "idle" \/ (pc'["loop"] = "pause" /\ ~row)
    BY <1>1, <1>6 DEF Watch, MayStop, Goes, TypeOK, Deciding, history
  <2> QED BY <1>2, <2>1 DEF Known, Unseen, Busy, work, Deciding
<1>7. CASE Pause
  <2>1. /\ UNCHANGED <<blind, queued>> /\ turns' \subseteq turns
        /\ pc["loop"] = "pause" /\ pc'["loop"] = "idle"
    BY <1>1, <1>7 DEF Pause, Untouched, Ends, Goes, TypeOK, history, work
  <2>2. Unseen' = {}
    BY <1>2, <2>1 DEF Known, Unseen, Busy
  <2> QED BY <2>1, <2>2 DEF Known, Deciding
<1> QED BY <1>3, <1>4, <1>5, <1>6, <1>7

LEMMA KnownWorld ==
  ASSUME TypeOK, Known, Connect \/ SlotComes \/ Crash \/ DockerRestarts \/ Vanish \/ MasterDies
  PROVE  Known'
<1>1. "loop" \in Threads /\ Prompts \subseteq Threads
  BY DEF Threads, Master
<1>2. CASE MasterDies
  <2>1. /\ UNCHANGED <<work, blind>> /\ pc'["loop"] = "idle"
        /\ \A p \in Prompts : pc'[p] \in {"idle", pc[p]}
    BY <1>1, <1>2, PromptsAreNoThreads DEF MasterDies, Master
  <2>2. Unseen' \subseteq Unseen
    BY <2>1 DEF Unseen, Busy, work
  <2> QED BY <2>1, <2>2 DEF Known, Deciding, work
<1>3. CASE Connect \/ SlotComes \/ Crash \/ DockerRestarts \/ Vanish
  <2>1. UNCHANGED <<pc, row, blind, queued, outstanding>> /\ turns' \subseteq turns
    BY <1>3 DEF Connect, SlotComes, Crash, DockerRestarts, Vanish, Removed, Ends, work, history
  <2>2. Unseen' \subseteq Unseen
    BY <2>1 DEF Unseen, Busy
  <2> QED BY <2>1, <2>2 DEF Known
<1> QED BY <1>2, <1>3

\* The idle stop ends no turn that it could have known of, for every number
\* of prompts on their way at once.
THEOREM StopSpares == Spec => IdleStopSparesKnownTurns
<1>1. Init => Known
  BY DEF Init, Known, Unseen, Busy, Deciding, Threads, Master
<1>2. TypeOK /\ Known /\ [Next]_vars => Known'
  <2>1. TypeOK /\ Known /\ Next => Known'
    BY NextCases, KnownShared, KnownEndpoints, KnownPrompts, KnownLoop, KnownWorld
  <2>2. Known /\ UNCHANGED vars => Known'
    BY DEF Known, Unseen, Busy, Deciding, vars, work, history
  <2> QED BY <2>1, <2>2
<1>3. Known /\ pc["loop"] = "pause" => turns \subseteq blind
  BY DEF Known, Unseen, Busy
<1>4. Known /\ [Next]_vars =>
        [pc["loop"] = "pause" /\ pc'["loop"] = "idle" /\ turns' = {} => turns \subseteq blind]_vars
  BY <1>3
<1> QED BY <1>1, <1>2, <1>4, TypeCorrect, PTL DEF Spec, IdleStopSparesKnownTurns

=============================================================================
