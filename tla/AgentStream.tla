---------------------------- MODULE AgentStream ----------------------------
(***************************************************************************)
(* One agent container and the replies it streams to the master: the MQTT  *)
(* intake, the turn loop and the two LLM adapters of                       *)
(* src/src/agent/mqtt_loop.py; _save_chunk, _save_agent_response,          *)
(* _discard_chunks and the pong branch of master/mqtt_client.py;           *)
(* _ping_for_alive and _close_stale_streams of master/main.py.             *)
(*                                                                         *)
(* A turn is one run of _process_prompt, that is one reply_message_id.     *)
(* The agent's main thread (MQTT callbacks, signal handlers), its worker   *)
(* threads, the master's MQTT thread and the master's background thread    *)
(* run side by side; an action is what one of them does between two points *)
(* where another can see or disturb it.                                    *)
(***************************************************************************)
EXTENDS Naturals, Sequences, FiniteSets

CONSTANTS
  Prompt,      \* prompts the master publishes to this agent
  Payloads,    \* what their payloads may ask for, see Payload
  Threads,     \* max_workers of _executor
  SeenLimit,   \* _MAX_SEEN_PROMPT_IDS
  Window,      \* prompts the broker may still redeliver
  \* bounds of the model
  MaxTurns,    \* runs of _process_prompt
  MaxWire,     \* messages of one turn on their way to the master
  MaxFaults    \* faults over a whole behaviour, each of its own kind

\* The adapter that runs the prompt, or a prompt without text; and whether the
\* prompt is that of an event action with structured_output, whose response is
\* an answer to the master and not to the user.
Payload == [adapter : {"claude", "codex", "empty"}, structured : BOOLEAN]

ASSUME StreamAssumption ==
  /\ Payloads \subseteq [Prompt -> Payload]
  /\ \A b \in {MaxTurns, MaxWire, MaxFaults} : b \in Nat
  /\ Threads \in Nat \ {0}
  /\ Window \in Nat \ {0}
  /\ SeenLimit \in Nat
  /\ SeenLimit >= Window

Turn == 1 .. MaxTurns

VARIABLES
  delivered,  \* prompts the broker has delivered to the agent
  payload,    \* what each prompt asks for
  recent,     \* the last Window prompts it delivered
  agent,      \* the container: see AgentState
  seen,       \* _seen_prompt_ids_queue (the set _seen_prompt_ids is its range)
  pool,       \* turns submitted to _executor and not begun
  turn,       \* what each turn's worker is doing
  active,     \* keys of _active_procs and _active_contexts
  persisted,  \* keys in active_procs.json
  inherited,  \* _inherited_already_published
  wire,       \* per turn, what the agent published and the master has not seen
  pings,      \* pings on their way to the agent
  check,      \* where the master's _close_stale_streams is
  chunks,     \* turns with rows in the chunks table
  row,        \* the messages row whose id is the turn's reply_message_id
  spent       \* the faults so far

agentVars == <<agent, seen, pool, turn, active, persisted, inherited>>
masterVars == <<check, chunks, row>>
vars == <<payload, delivered, recent, agentVars, wire, pings, masterVars, spent>>

-----------------------------------------------------------------------------
(* Data *)

(***************************************************************************)
(* "booting": the process runs and has not connected; "stopping": the      *)
(* SIGTERM handler has run and sleeps before SystemExit; "stuck": the      *)
(* handler interrupted the main thread inside a `with _active_procs_lock`  *)
(* and waits for that lock.                                                *)
(***************************************************************************)
AgentState == {"up", "stopping", "stuck", "down", "booting"}
Running == agent # "down"

(***************************************************************************)
(* A worker's turn: "queued"; "spawned" (the CLI runs and is not           *)
(* registered); "running" (registered, its stdout is being read); "exited" *)
(* (the CLI is gone, its output in hand); "responded"; "done"; "lost" (the *)
(* agent process died under it).  `retried`: this is the second CLI,       *)
(* started because the session was not found.                              *)
(***************************************************************************)
Phase == {"unused", "queued", "spawned", "running", "exited", "responded", "done", "lost"}
TurnRecord == [phase : Phase, prompt : Prompt \cup {"none"}, retried : BOOLEAN]
Unused == [phase |-> "unused", prompt |-> "none", retried |-> FALSE]

InPhase(p) == {t \in Turn : turn[t].phase = p}
Alive == {"queued", "spawned", "running", "exited", "responded"}
Working == {"spawned", "running", "exited", "responded"}

\* Turns of structured-output prompts (_get_structured_output_action).
Structured == {t \in Turn : turn[t].phase # "unused" /\ payload[turn[t].prompt].structured}

Interruption == {"agent-killed", "agent-shutdown"}       \* interrupt_reason of a response
Wire == {"chunk", "answer", "alive", "dead"} \cup Interruption

(***************************************************************************)
(* A reply row.  Its transcript is the one the agent sent, or put together *)
(* from the chunks, or missing.                                            *)
(***************************************************************************)
Reason == {"none", "ping-timeout", "container-gone"} \cup Interruption
Row == [text : {"none", "answer", "interrupted"}, reason : Reason,
        transcript : {"none", "chunks", "agent"}]
NoRow == [text |-> "none", reason |-> "none", transcript |-> "none"]
Answered == [text |-> "answer", reason |-> "none", transcript |-> "agent"]
Interrupted(t, reason) ==
  [text |-> "interrupted", reason |-> reason,
   transcript |-> IF t \in chunks THEN "chunks" ELSE "none"]

Nobody == 0
Check == [at : {"next", "ping", "close"}, turn : Turn \cup {Nobody},
          todo : SUBSET Turn, reason : Reason]
Idle == [at |-> "next", turn |-> Nobody, todo |-> {}, reason |-> "none"]

(***************************************************************************)
(* What can go wrong: SIGKILL and SIGTERM of the container, an exception   *)
(* in the middle of a stream, a QoS-1 message delivered twice, a crash and *)
(* restart of the master, a pong later than _PING_TIMEOUT_SECONDS, a       *)
(* get_container_status call that fails ("unknown").                       *)
(***************************************************************************)
Fault == {"kill", "stop", "abort", "dup", "crash", "late", "misread"}
Spend(f) ==
  /\ f \notin spent
  /\ Cardinality(spent) < MaxFaults
  /\ spent' = spent \cup {f}
Met(F) == spent \cap F # {}

Send(t, m) == wire' = [wire EXCEPT ![t] = Append(@, m)]
SendAll(T, m) ==
  wire' = [t \in Turn |-> IF t \in T THEN Append(wire[t], m) ELSE wire[t]]

-----------------------------------------------------------------------------
Init ==
  /\ payload \in Payloads
  /\ delivered = {}
  /\ recent = << >>
  /\ agent = "up"
  /\ seen = << >>
  /\ pool = << >>
  /\ turn = [t \in Turn |-> Unused]
  /\ active = {}
  /\ persisted = {}
  /\ inherited = TRUE
  /\ wire = [t \in Turn |-> << >>]
  /\ pings = {}
  /\ check = Idle
  /\ chunks = {}
  /\ row = [t \in Turn |-> NoRow]
  /\ spent = {}

-----------------------------------------------------------------------------
(* The agent's main thread: MQTT callbacks *)

Lasts(s, n) == IF Len(s) > n THEN Tail(s) ELSE s
In(x, s) == \E i \in 1 .. Len(s) : s[i] = x

\* Mutant of Remember: the newest id is dropped instead of the oldest.
ForgetNewest(p) == IF Len(seen) < SeenLimit THEN Append(seen, p) ELSE seen

\* Another: the queue is cut before the id is added, not after.
CutFirst(p) == Append(Lasts(seen, SeenLimit), p)

\* _seen_prompt_ids after prompt p.
Remember(p) == Lasts(Append(seen, p), SeenLimit)

\* _on_message, prompt branch: a prompt seen before is dropped.
ReceivePrompt(p) ==
  /\ agent = "up"
  /\ IF In(p, seen)
     THEN UNCHANGED <<seen, pool, turn>>
     ELSE \E t \in InPhase("unused") :
            /\ \A u \in InPhase("unused") : t <= u
            /\ seen' = Remember(p)
            /\ pool' = Append(pool, t)
            /\ turn' = [turn EXCEPT ![t].phase = "queued", ![t].prompt = p]
  /\ UNCHANGED <<payload, agent, active, persisted, inherited, wire, pings, masterVars>>

\* A prompt the broker held for the agent's persistent session.
Deliver(p) ==
  /\ p \notin delivered
  /\ ReceivePrompt(p)
  /\ delivered' = delivered \cup {p}
  /\ recent' = Lasts(Append(recent, p), Window)
  /\ UNCHANGED spent

\* The broker redelivers a prompt whose acknowledgement it has not seen.
Redeliver(p) ==
  /\ In(p, recent)
  /\ Spend("dup")
  /\ ReceivePrompt(p)
  /\ UNCHANGED <<delivered, recent>>

\* _on_message, ping branch: is the turn in _active_procs?
AnswerPing(t) ==
  /\ agent = "up"
  /\ t \in pings
  /\ pings' = pings \ {t}
  /\ Send(t, IF t \in active THEN "alive" ELSE "dead")
  /\ UNCHANGED <<payload, delivered, recent, agentVars, masterVars, spent>>

-----------------------------------------------------------------------------
(* The agent's worker threads: _process_prompt *)

WorkerRuns == agent \in {"up", "stopping"}
\* What a worker never touches.  (A worker that needs _active_procs_lock
\* waits for ever while the agent is stuck; see WorkerRuns.)
outside == <<payload, delivered, recent, agent, seen, inherited, pings, masterVars>>

Goes(t, phase) == turn' = [turn EXCEPT ![t].phase = phase]

\* Up to Popen; a prompt without text ends here, with no response at all.
Begin ==
  /\ WorkerRuns
  /\ pool # << >>
  /\ Cardinality({t \in Turn : turn[t].phase \in Working}) < Threads
  /\ pool' = Tail(pool)
  /\ LET t == Head(pool) IN Goes(t, IF payload[turn[t].prompt].adapter = "empty" THEN "done" ELSE "spawned")
  /\ UNCHANGED <<outside, active, persisted, wire, spent>>

\* The CLI enters _active_procs, which is saved.
Register(t) ==
  /\ WorkerRuns
  /\ turn[t].phase = "spawned"
  /\ active' = active \cup {t}
  /\ persisted' = active'
  /\ Goes(t, "running")
  /\ UNCHANGED <<outside, pool, wire, spent>>

\* One line of its stdout.
Chunk(t) ==
  /\ Running
  /\ turn[t].phase = "running"
  /\ Len(wire[t]) < MaxWire
  /\ Send(t, "chunk")
  /\ UNCHANGED <<outside, pool, turn, active, persisted, spent>>

\* Mutant of ActiveAfterExit: both adapters pop the process.
NoneAfterExit(t) == active \ {t}

\* _stream_codex_once pops the process as soon as it has exited, and does
\* not save the rest; _stream_claude_once leaves it in.
ActiveAfterExit(t) == IF payload[turn[t].prompt].adapter = "codex" THEN active \ {t} ELSE active

\* The CLI has ended, by itself, or killed: by a cancel (cancel_message, and
\* the cancel branch of _on_message) or by the SIGTERM handler.
Exit(t) ==
  /\ WorkerRuns
  /\ turn[t].phase = "running"
  /\ active' = ActiveAfterExit(t)
  /\ Goes(t, "exited")
  /\ UNCHANGED <<outside, pool, persisted, wire, spent>>

\* _run_claude and _run_codex: the session is not known, so the CLI is
\* started once more with a new one; the chunks start again with a "retry".
RetryAsNew(t) ==
  /\ WorkerRuns
  /\ turn[t].phase = "running"
  /\ ~ turn[t].retried
  /\ Len(wire[t]) < MaxWire
  /\ active' = ActiveAfterExit(t)
  /\ Send(t, "chunk")
  /\ turn' = [turn EXCEPT ![t].phase = "spawned", ![t].retried = TRUE]
  /\ UNCHANGED <<outside, pool, persisted, spent>>

\* The except branches: kill, pop, save, and answer with the error.
Abort(t) ==
  /\ WorkerRuns
  /\ turn[t].phase = "running"
  /\ Spend("abort")
  /\ active' = active \ {t}
  /\ persisted' = active'
  /\ Goes(t, "exited")
  /\ UNCHANGED <<outside, pool, wire>>

\* The response is published.
Respond(t) ==
  /\ Running
  /\ turn[t].phase = "exited"
  /\ Send(t, "answer")
  /\ Goes(t, "responded")
  /\ UNCHANGED <<outside, pool, active, persisted, spent>>

\* The finally branch of _process_prompt.
Finish(t) ==
  /\ WorkerRuns
  /\ turn[t].phase = "responded"
  /\ active' = active \ {t}
  /\ persisted' = active'
  /\ Goes(t, "done")
  /\ UNCHANGED <<outside, pool, wire, spent>>

-----------------------------------------------------------------------------
(* The container stops, dies and comes back *)

\* _sigterm_handler with _publish_interrupted_all.
Sigterm ==
  /\ agent = "up"
  /\ Spend("stop")
  /\ agent' = "stopping"
  /\ SendAll(active, "agent-shutdown")
  /\ persisted' = {}
  /\ UNCHANGED <<payload, delivered, recent, seen, pool, turn, active, inherited, pings, masterVars>>

\* The same while a ping is being answered, in the lock's scope.
SigtermInsideLock ==
  /\ agent = "up"
  /\ pings # {}
  /\ Spend("stop")
  /\ agent' = "stuck"
  /\ UNCHANGED <<payload, delivered, recent, seen, pool, turn, active, persisted, inherited,
                 wire, pings, masterVars>>

\* The process is gone, and with it what it had in memory.
Die ==
  /\ agent' = "down"
  /\ turn' = [t \in Turn |-> IF turn[t].phase \in Alive
                             THEN [turn[t] EXCEPT !.phase = "lost"] ELSE turn[t]]
  /\ pool' = << >>
  /\ active' = {}
  /\ seen' = << >>
  /\ pings' = {}
  /\ UNCHANGED <<payload, delivered, recent, persisted, inherited, wire, masterVars>>

Kill == agent \in {"up", "booting"} /\ Spend("kill") /\ Die
StopEnds == agent \in {"stopping", "stuck"} /\ Die /\ UNCHANGED spent

\* The same container starts again, or a new one without active_procs.json.
Boot ==
  /\ agent = "down"
  /\ agent' = "booting"
  /\ inherited' = FALSE
  /\ persisted' \in {persisted, {}}
  /\ UNCHANGED <<payload, delivered, recent, seen, pool, turn, active, wire, pings, masterVars, spent>>

\* Mutant of Connect: the leftovers are reported at every connect.
ConnectAlwaysReports ==
  /\ agent \in {"booting", "up"}
  /\ agent' = "up"
  /\ inherited' = TRUE
  /\ SendAll(persisted, "agent-killed")
  /\ persisted' = {}
  /\ UNCHANGED <<payload, delivered, recent, seen, pool, turn, active, pings, masterVars, spent>>

\* _on_connect, at the start and at every reconnect, with
\* _publish_inherited_interrupts.
Connect ==
  /\ agent \in {"booting", "up"}
  /\ agent' = "up"
  /\ inherited' = TRUE
  /\ IF inherited
     THEN UNCHANGED <<persisted, wire>>
     ELSE SendAll(persisted, "agent-killed") /\ persisted' = {}
  /\ UNCHANGED <<payload, delivered, recent, seen, pool, turn, active, pings, masterVars, spent>>

-----------------------------------------------------------------------------
(* The master's MQTT thread *)

\* _save_chunk.
SaveChunk(t) == chunks' = chunks \cup {t} /\ UNCHANGED <<row, check>>

\* Mutants of SaveResponse: the UPDATE does not look at the text, or is missing.
OverwriteResponse(t, new) ==
  /\ row' = [row EXCEPT ![t] = new]
  /\ chunks' = chunks \ {t}
  /\ UNCHANGED check

InsertResponse(t, new) ==
  /\ row' = IF row[t].text = "none" THEN [row EXCEPT ![t] = new] ELSE row
  /\ chunks' = chunks \ {t}
  /\ UNCHANGED check

(***************************************************************************)
(* _save_agent_response: the UPDATE replaces a row whose text is           *)
(* "(message interrupted)", the insert-or-ignore makes one if there is     *)
(* none.                                                                   *)
(***************************************************************************)
SaveResponse(t, new) ==
  /\ row' = IF row[t].text \in {"none", "interrupted"} THEN [row EXCEPT ![t] = new] ELSE row
  /\ chunks' = chunks \ {t}
  /\ UNCHANGED check

\* _handle_structured_response: the chunks go, and no row is made.
DiscardChunks(t) ==
  /\ chunks' = chunks \ {t}
  /\ UNCHANGED <<row, check>>

\* Mutant of SavesAnswer: the question is asked by the reply's own id, which
\* links to no event action.
SavesEvery(t) == TRUE

\* The response's prompt (its reply_to) decides; an interruption carries none.
SavesAnswer(t) == t \notin Structured

Skip(c) == [c EXCEPT !.at = "next", !.todo = @ \ {c.turn}, !.turn = Nobody]

\* Mutant of TakePong: any pong will do.
AnyPongIsAlive(t, m) ==
  /\ check' = IF check.at = "ping" /\ check.turn = t THEN Skip(check) ELSE check
  /\ UNCHANGED <<chunks, row>>

\* The pong branch; only a pending ping is resolved.
TakePong(t, m) ==
  /\ check' = IF ~ (check.at = "ping" /\ check.turn = t) THEN check
              ELSE IF m = "alive" THEN Skip(check)
              ELSE [check EXCEPT !.at = "close", !.reason = "ping-timeout"]
  /\ UNCHANGED <<chunks, row>>

Handle(t, m) ==
  \/ m = "chunk" /\ SaveChunk(t)
  \/ m = "answer" /\ SavesAnswer(t) /\ SaveResponse(t, Answered)
  \/ m = "answer" /\ ~ SavesAnswer(t) /\ DiscardChunks(t)
  \/ m \in Interruption /\ SaveResponse(t, Interrupted(t, m))
  \/ m \in {"alive", "dead"} /\ TakePong(t, m)

Receive(t) ==
  /\ wire[t] # << >>
  /\ Handle(t, Head(wire[t]))
  /\ wire' = [wire EXCEPT ![t] = Tail(@)]
  /\ UNCHANGED <<payload, delivered, recent, agentVars, pings, spent>>

\* A QoS-1 message that will arrive once more.
ReceiveAndAgain(t) ==
  /\ wire[t] # << >>
  /\ Head(wire[t]) \in {"answer"} \cup Interruption
  /\ Spend("dup")
  /\ Handle(t, Head(wire[t]))
  /\ wire' = [wire EXCEPT ![t] = Append(Tail(@), Head(@))]
  /\ UNCHANGED <<payload, delivered, recent, agentVars, pings>>

-----------------------------------------------------------------------------
(* The master's background thread: _close_stale_streams *)

Orphaned == {t \in chunks : row[t].text = "none"}

Scan ==
  /\ check.at = "next"
  /\ check.todo = {}
  /\ Orphaned # {}
  /\ check' = [check EXCEPT !.todo = Orphaned]
  /\ UNCHANGED <<payload, delivered, recent, agentVars, wire, pings, chunks, row, spent>>

\* get_container_status, and _ping_for_alive if the container is running.
Inspect(t) ==
  /\ check.at = "next"
  /\ t \in check.todo
  /\ \/ /\ Running
        /\ pings' = pings \cup {t}
        /\ check' = [check EXCEPT !.at = "ping", !.turn = t]
        /\ UNCHANGED spent
     \/ /\ \/ ~ Running /\ UNCHANGED spent
           \/ Running /\ Spend("misread")
        /\ check' = [check EXCEPT !.at = "close", !.turn = t, !.reason = "container-gone"]
        /\ UNCHANGED pings
  /\ UNCHANGED <<payload, delivered, recent, agentVars, wire, chunks, row>>

\* Nobody answers: the ping or the pong is gone (an agent that is not
\* connected never sees a QoS-0 ping), or the answer takes too long.
PingTimeout ==
  /\ check.at = "ping"
  /\ LET t == check.turn
         coming == t \in pings \/ In("alive", wire[t]) \/ In("dead", wire[t])
     IN IF coming /\ agent = "up"
        THEN Spend("late") /\ UNCHANGED pings
        ELSE pings' = pings \ {t} /\ UNCHANGED spent
  /\ check' = [check EXCEPT !.at = "close", !.reason = "ping-timeout"]
  /\ UNCHANGED <<payload, delivered, recent, agentVars, wire, chunks, row>>

\* The insert-or-ignore of the interrupted row, and the end of its chunks.
Close ==
  /\ check.at = "close"
  /\ LET t == check.turn IN
       /\ row' = IF row[t].text = "none"
                 THEN [row EXCEPT ![t] = Interrupted(t, check.reason)] ELSE row
       /\ chunks' = chunks \ {t}
  /\ check' = [Skip(check) EXCEPT !.reason = "none"]
  /\ UNCHANGED <<payload, delivered, recent, agentVars, wire, pings, spent>>

\* The master restarts; its clean session loses what it has not received.
MasterCrash ==
  /\ Spend("crash")
  /\ check' = Idle
  /\ wire' = [t \in Turn |-> << >>]
  /\ UNCHANGED <<payload, delivered, recent, agentVars, pings, chunks, row>>

-----------------------------------------------------------------------------
Work(t) == Register(t) \/ Exit(t) \/ Respond(t) \/ Finish(t)
Stale == Scan \/ (\E t \in Turn : Inspect(t)) \/ PingTimeout \/ Close

Next ==
  \/ \E p \in Prompt : Deliver(p) \/ Redeliver(p)
  \/ \E t \in Turn : AnswerPing(t)
  \/ Begin
  \/ \E t \in Turn : Work(t) \/ Chunk(t) \/ RetryAsNew(t) \/ Abort(t)
  \/ Sigterm \/ SigtermInsideLock \/ Kill \/ StopEnds \/ Boot \/ Connect
  \/ \E t \in Turn : Receive(t) \/ ReceiveAndAgain(t)
  \/ Stale
  \/ MasterCrash

(***************************************************************************)
(* Every thread that can take a step takes one in the end: CLIs end, a     *)
(* stopped container goes down and comes back (restart policy, health      *)
(* check), the broker delivers, the background loop ticks.                 *)
(***************************************************************************)
Fairness ==
  /\ WF_vars(Begin)
  /\ \A t \in Turn : WF_vars(Work(t)) /\ WF_vars(AnswerPing(t)) /\ WF_vars(Receive(t))
  /\ WF_vars(StopEnds) /\ WF_vars(Boot) /\ WF_vars(agent = "booting" /\ Connect)
  /\ WF_vars(Stale)

Spec == Init /\ [][Next]_vars /\ Fairness

-----------------------------------------------------------------------------
(* Properties *)

TypeOK ==
  /\ payload \in [Prompt -> Payload]
  /\ delivered \subseteq Prompt
  /\ recent \in Seq(Prompt)
  /\ agent \in AgentState
  /\ seen \in Seq(Prompt) /\ Len(seen) <= SeenLimit
  /\ pool \in Seq(Turn)
  /\ turn \in [Turn -> TurnRecord]
  /\ active \subseteq Turn
  /\ persisted \subseteq Turn
  /\ inherited \in BOOLEAN
  /\ wire \in [Turn -> Seq(Wire)]
  /\ pings \subseteq Turn
  /\ check \in Check
  /\ chunks \subseteq Turn
  /\ row \in [Turn -> Row]
  /\ spent \subseteq Fault

(***************************************************************************)
(* Two runs of one prompt are never in progress together, however often    *)
(* the broker delivers it, although the memory of prompts seen is bounded  *)
(* (mqtt_loop.py, "two streaming bubbles").                                *)
(***************************************************************************)
NoParallelRun ==
  \A t, u \in Turn :
    t # u /\ turn[t].phase \in Alive /\ turn[u].phase \in Alive
      => turn[t].prompt # turn[u].prompt

(***************************************************************************)
(* A reply shown as killed belongs to a turn that died with its agent: no  *)
(* reconnect, and no leftover of active_procs.json, reports a turn that is *)
(* alive or has been finished.                                             *)
(***************************************************************************)
KilledMeansLost ==
  \A t \in Turn :
    In("agent-killed", wire[t]) \/ row[t].reason = "agent-killed"
      => turn[t].phase = "lost"

(***************************************************************************)
(* The stale-stream check never closes a claude turn whose response is not *)
(* published yet, unless a pong was late, a status call failed or the      *)
(* turn's stream was aborted (mqtt_loop.py: "Keep proc in _active_procs    *)
(* until the response is queued so that the stale-stream ping returns      *)
(* alive=True").                                                           *)
(***************************************************************************)
LiveTurnStaysOpen ==
  \A t \in Turn :
    (/\ agent = "up"
     /\ turn[t].phase \in {"spawned", "running", "exited"}
     /\ payload[turn[t].prompt].adapter = "claude"
     /\ row[t].reason \in {"ping-timeout", "container-gone"})
    => Met({"late", "misread", "abort"})

reply == [t \in Turn |->
            CASE row[t].text = "answer" -> "answered"
              [] row[t].text = "interrupted" -> "interrupted"
              [] t \in Orphaned -> "streaming"
              [] OTHER -> "none"]

Replies == INSTANCE ReplyStream WITH Turn <- Turn, reply <- reply, structured <- Structured

(***************************************************************************)
(* The replies are a ReplyStream: late, duplicated and racing responses,   *)
(* interruptions and stale-stream closings never undo an answer, nor turn  *)
(* a closed reply back into a streaming one; a bubble without a row goes   *)
(* away only for a structured-output prompt, whose raw answer is never     *)
(* shown as a message.                                                     *)
(***************************************************************************)
ImplementsReplies == Replies!Spec

(***************************************************************************)
(* No bubble streams for ever, and none comes back: a reply with saved     *)
(* chunks gets its row, whatever was killed, lost or restarted on the way, *)
(* and that of a structured-output prompt gets it or is retracted for good.*)
(***************************************************************************)
StreamEnds ==
  \A t \in Turn :
    t \in Orphaned ~> [](t \notin Orphaned /\ (row[t].text # "none" \/ t \in Structured))

(***************************************************************************)
(* A response that is computed is shown: the stale-stream check may close  *)
(* the reply first, but the answer replaces the interruption.  Only the    *)
(* death of the agent or of the master's session can lose it.  (The        *)
(* response to a structured-output prompt is not for the reply's row.)     *)
(***************************************************************************)
AnswerShown ==
  \A t \in Turn :
    turn[t].phase = "exited" /\ t \notin Structured
      ~> \/ row[t].text = "answer"
         \/ Met({"kill", "stop", "crash"})

=============================================================================
