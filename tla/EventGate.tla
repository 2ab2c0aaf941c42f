----------------------------- MODULE EventGate ------------------------------
(***************************************************************************)
(* Event actions around one topic: the gate that a user's message passes   *)
(* before it is dispatched, the veto that an archive request passes before *)
(* it is committed, and the worker that fires the other actions            *)
(* (event_dispatcher.py, send_message of messages.py, delete_topic of      *)
(* topics.py, the response and verdict branches of mqtt_client.py).        *)
(*                                                                         *)
(* Two threads of the master meet here: the event loop runs the requests   *)
(* and the worker, the MQTT thread takes the staff's answers.  A coroutine *)
(* can be interleaved wherever it awaits; between two awaits it is one     *)
(* action.  The staff are the environment: they answer once, or never.     *)
(***************************************************************************)
EXTENDS Sequences

CONSTANTS
  Sends,          \* POST .../messages requests
  Deletes,        \* DELETE .../topics/{id} requests
  Gates,          \* topic_message_sent actions with timing=before
  Vetoes,         \* topic_archiving actions
  Hooks,          \* the actions of the other events
  Setups          \* bound: the sets of actions that may be enabled

ASSUME RequestsAreApart ==
  /\ Sends \cap Deletes = {}
  /\ Gates \cap Hooks = {}
  /\ Setups \subseteq SUBSET (Gates \cup Vetoes \cup Hooks)

Actions == Gates \cup Vetoes \cup Hooks
Requests == Sends \cup Deletes

\* A prompt is known by the request that sends it and the action's row.
Prompts == (Sends \X Gates) \cup (Deletes \X Vetoes)
Of(r) == {p \in Prompts : p[1] = r}

VARIABLES
  archived,       \* topics.archived_at IS NOT NULL
  vetoStatus,     \* topics.veto_status
  enabled,        \* the actions that are enabled
  structured,     \* the gate actions that have structured_output
  phase,          \* where each request's handler is
  ask,            \* where the handler's wait for each prompt is
  registered,     \* the keys of app.state.gate_futures and veto_futures
  result,         \* the result each future was given
  answer,         \* what the staff said
  scheduled,      \* answers that the MQTT thread passed to the event loop
  queue,          \* app.state.event_queue
  current,        \* the event the worker handles, at most one
  todo,           \* the actions it has yet to fire for it
  fired           \* the worker's prompts about messages not yet dispatched

topic == <<archived, vetoStatus>>
rows == <<enabled, structured>>
futures == <<registered, result>>
worker == <<queue, current, todo, fired>>
vars == <<topic, rows, phase, ask, futures, answer, scheduled, worker>>

Phase == {"new", "admitted", "asking", "passed", "posted", "queued",
          "blocked", "archived", "vetoed", "timeout", "missing", "failed"}
Ended == {"queued", "blocked", "archived", "vetoed", "timeout", "missing", "failed"}
Asking == {"idle", "loaded", "sent", "open", "yes", "no", "late", "skipped"}
Event == ({"before", "after"} \X Sends) \cup ({"archived"} \X Deletes)

TypeOK ==
  /\ archived \in BOOLEAN
  /\ vetoStatus \in {"none", "timeout", "vetoed"}
  /\ enabled \subseteq Actions
  /\ structured \subseteq Gates
  /\ phase \in [Requests -> Phase]
  /\ ask \in [Prompts -> Asking]
  /\ registered \subseteq Prompts
  /\ result \in [Prompts -> {"none", "yes", "no"}]
  /\ answer \in [Prompts -> {"none", "yes", "no"}]
  /\ scheduled \subseteq Prompts
  /\ queue \in Seq(Event)
  /\ current \subseteq Event
  /\ todo \subseteq Gates \cup Hooks
  /\ fired \subseteq Sends \X Gates

Init ==
  /\ archived = FALSE
  /\ vetoStatus = "none"
  /\ enabled \in Setups
  /\ structured = Gates
  /\ phase = [r \in Requests |-> "new"]
  /\ ask = [p \in Prompts |-> "idle"]
  /\ registered = {}
  /\ result = [p \in Prompts |-> "none"]
  /\ answer = [p \in Prompts |-> "none"]
  /\ scheduled = {}
  /\ queue = <<>>
  /\ current = {}
  /\ todo = {}
  /\ fired = {}

\* emit_event: never blocks, and keeps the order.
Emit(type, r) == queue' = Append(queue, <<type, r>>)

Goes(r, to) == phase' = [phase EXCEPT ![r] = to]
Becomes(p, to) == ask' = [ask EXCEPT ![p] = to]

(***************************************************************************)
(* Sending a message.                                                      *)
(***************************************************************************)

\* send_message looks the topic up; 404 when it is archived.
Admit(s) ==
  /\ phase[s] = "new"
  /\ Goes(s, IF archived THEN "missing" ELSE "admitted")
  /\ UNCHANGED <<topic, rows, ask, futures, answer, scheduled, worker>>

\* The files are read: the "before" event goes to the worker, and
\* run_gate_actions selects the rows that gate this message.
Gate(s) ==
  /\ phase[s] = "admitted"
  /\ Emit("before", s)
  /\ ask' = [p \in Prompts |->
               IF p[1] = s /\ p[2] \in enabled \cap structured THEN "loaded" ELSE ask[p]]
  /\ Goes(s, "asking")
  /\ UNCHANGED <<topic, rows, futures, answer, scheduled, current, todo, fired>>

\* The rows of a gate are dispatched in parallel, those of a veto in turn.
MySlot(p) == p[1] \in Sends \/ \A q \in Of(p[1]) : ask[q] # "sent"

\* The staff is missing, the template does not render, the dispatch fails
\* or takes more than DISPATCH_TIMEOUT_S: the row does not block.
Skip(p) ==
  /\ phase[p[1]] = "asking"
  /\ ask[p] = "loaded"
  /\ MySlot(p)
  /\ Becomes(p, "skipped")
  /\ UNCHANGED <<topic, rows, phase, futures, answer, scheduled, worker>>

\* dispatch_to_staff has published the prompt: the staff may answer.
Publish(p) ==
  /\ phase[p[1]] = "asking"
  /\ ask[p] = "loaded"
  /\ MySlot(p)
  /\ Becomes(p, "sent")
  /\ UNCHANGED <<topic, rows, phase, futures, answer, scheduled, worker>>

\* wait_for returns the message's id in a later turn of the loop, and only
\* then does the future go into the dictionary.
Register(p) ==
  /\ ask[p] = "sent"
  /\ registered' = registered \cup {p}
  /\ Becomes(p, "open")
  /\ UNCHANGED <<topic, rows, phase, result, answer, scheduled, worker>>

\* A gate's wait ends by itself; shield() keeps the future as it is.
GateHears(p) ==
  /\ p[1] \in Sends
  /\ ask[p] = "open"
  /\ Becomes(p, IF result[p] = "none" THEN "late" ELSE result[p])
  /\ registered' = registered \ {p}
  /\ UNCHANGED <<topic, rows, phase, result, answer, scheduled, worker>>

\* Mutant of Settled: waits for an answer of every row.
SettledByAnswers(r) == \A p \in Of(r) : ask[p] \in {"idle", "yes", "no"}

Settled(r) == \A p \in Of(r) : ask[p] \notin {"loaded", "sent", "open"}

\* Mutant of Passes: the message is blocked only by all rows together.
PassesUnlessAllBreak(s) == \E p \in Of(s) : ask[p] # "no"

\* The results of gather(): one FALSE blocks, an exception does not.
Passes(s) == \A p \in Of(s) : ask[p] # "no"

GateDecides(s) ==
  /\ s \in Sends
  /\ phase[s] = "asking"
  /\ Settled(s)
  /\ Goes(s, IF Passes(s) THEN "passed" ELSE "blocked")
  /\ UNCHANGED <<topic, rows, ask, futures, answer, scheduled, worker>>

\* dispatch_to_staff for the message itself, which may raise.
Post(s) ==
  /\ phase[s] = "passed"
  /\ \E to \in {"posted", "failed"} : Goes(s, to)
  /\ UNCHANGED <<topic, rows, ask, futures, answer, scheduled, worker>>

\* The attachments' rows are inserted and the "after" event goes out.
Finish(s) ==
  /\ phase[s] = "posted"
  /\ Emit("after", s)
  /\ Goes(s, "queued")
  /\ UNCHANGED <<topic, rows, ask, futures, answer, scheduled, current, todo, fired>>

(***************************************************************************)
(* Archiving the topic.                                                    *)
(***************************************************************************)

\* Commits the archive, whatever the topic's state has become, and emits.
Archives(d) ==
  /\ archived' = TRUE
  /\ vetoStatus' = "none"
  /\ Emit("archived", d)
  /\ Goes(d, "archived")

\* delete_topic: 404, no await at all with ?override=true, or the rows of
\* veto_dispatch.
Delete(d) ==
  /\ phase[d] = "new"
  /\ \/ /\ archived
        /\ Goes(d, "missing")
        /\ UNCHANGED <<topic, ask, queue>>
     \/ /\ ~archived
        /\ Archives(d)
        /\ UNCHANGED ask
     \/ /\ ~archived
        /\ ask' = [p \in Prompts |-> IF p[1] = d /\ p[2] \in enabled THEN "loaded" ELSE ask[p]]
        /\ Goes(d, "asking")
        /\ UNCHANGED <<topic, queue>>
  /\ UNCHANGED <<rows, futures, answer, scheduled, current, todo, fired>>

\* An exception of the second dispatch leaves the loop over the rows: the
\* request fails, and the futures registered so far stay in the dictionary.
VetoFails(d) ==
  /\ d \in Deletes
  /\ phase[d] = "asking"
  /\ \E p \in Of(d) : ask[p] = "loaded"
  /\ \A p \in Of(d) : ask[p] # "sent"
  /\ Goes(d, "failed")
  /\ UNCHANGED <<topic, rows, ask, futures, answer, scheduled, worker>>

Dispatched(d) == \A p \in Of(d) : ask[p] \notin {"loaded", "sent"}
Pending(d) == {p \in Of(d) : ask[p] = "open"}

\* Mutant of Unregister: only the futures that are done are popped.
UnregisterHeard(d) == registered' = registered \ {p \in Pending(d) : result[p] # "none"}

Unregister(d) == registered' = registered \ Pending(d)

\* The timed-out set of asyncio.wait.
Unheard(d) == {p \in Pending(d) : result[p] = "none"}

\* The caller maps timed_out to 504, also when another staff has denied.
VetoTimesOut(d) ==
  /\ d \in Deletes
  /\ phase[d] = "asking"
  /\ Dispatched(d)
  /\ Unheard(d) # {}
  /\ ask' = [p \in Prompts |-> IF p \notin Pending(d) THEN ask[p]
                               ELSE IF p \in Unheard(d) THEN "late" ELSE result[p]]
  /\ Unregister(d)
  /\ vetoStatus' = "timeout"
  /\ Goes(d, "timeout")
  /\ UNCHANGED <<archived, rows, result, answer, scheduled, worker>>

\* Every verdict is in (or nobody was asked): the first deny wins.
VetoDecides(d) ==
  /\ d \in Deletes
  /\ phase[d] = "asking"
  /\ Dispatched(d)
  /\ Unheard(d) = {}
  /\ ask' = [p \in Prompts |-> IF p \in Pending(d) THEN result[p] ELSE ask[p]]
  /\ Unregister(d)
  /\ IF \E p \in Pending(d) : result[p] = "no"
     THEN /\ vetoStatus' = "vetoed"
          /\ Goes(d, "vetoed")
          /\ UNCHANGED <<archived, queue>>
     ELSE Archives(d)
  /\ UNCHANGED <<rows, result, answer, scheduled, current, todo, fired>>

(***************************************************************************)
(* The answers.                                                            *)
(***************************************************************************)

\* The agent publishes its structured response, or its verdict.  A gate's
\* answer says {"break": true} ("no") or anything else, or is no JSON.
Answer(p) ==
  /\ ask[p] \notin {"idle", "loaded", "skipped"}
  /\ answer[p] = "none"
  /\ \E said \in {"yes", "no"} : answer' = [answer EXCEPT ![p] = said]
  /\ UNCHANGED <<topic, rows, phase, ask, futures, scheduled, worker>>

\* For a response, the future must be registered, and the row still be
\* structured, when the MQTT thread looks; for a verdict the loop looks.
Finds(p) ==
  \/ p[1] \in Deletes
  \/ p \in registered /\ result[p] = "none" /\ p[2] \in structured

\* The MQTT thread takes a response or a verdict.  QoS 1 delivers it once
\* or more; one that finds no future is gone, until it is delivered again.
Take(p) ==
  /\ answer[p] # "none"
  /\ scheduled' = scheduled \cup {q \in {p} : Finds(q)}
  /\ UNCHANGED <<topic, rows, phase, ask, futures, answer, worker>>

\* call_soon_threadsafe: set_result raises on a future that is done.
Resolve(p) ==
  /\ p \in scheduled
  /\ scheduled' = scheduled \ {p}
  /\ IF result[p] = "none" /\ (p[1] \in Sends \/ p \in registered)
     THEN result' = [result EXCEPT ![p] = answer[p]]
     ELSE UNCHANGED result
  /\ UNCHANGED <<topic, rows, phase, ask, registered, answer, worker>>

\* PATCH of an event action turns structured_output off.
Edit(a) ==
  /\ a \in structured \cap enabled
  /\ structured' = structured \ {a}
  /\ UNCHANGED <<topic, enabled, phase, ask, futures, answer, scheduled, worker>>

(***************************************************************************)
(* The worker.                                                             *)
(***************************************************************************)

\* Mutant of Matching: without the exclusion of the rows that gate.
AllMatching(e) == IF e[1] = "before" THEN enabled \cap Gates ELSE enabled \cap Hooks

\* Mutant of Matching: a query without the event's type.
AllEnabled(e) == enabled

\* The rows of the event; those that gate were asked by run_gate_actions.
Matching(e) == enabled \cap (IF e[1] = "before" THEN Gates \ structured ELSE Hooks)

WorkerTakes ==
  /\ current = {}
  /\ queue # <<>>
  /\ current' = {Head(queue)}
  /\ queue' = Tail(queue)
  /\ todo' = Matching(Head(queue))
  /\ UNCHANGED <<topic, rows, phase, ask, futures, answer, scheduled, fired>>

\* _dispatch_one: its prompt is published, or it fails within its timeout.
WorkerFires(a) ==
  /\ a \in todo
  /\ todo' = todo \ {a}
  /\ \E sent \in BOOLEAN :
       fired' = IF sent THEN fired \cup {<<e[2], a>> : e \in {f \in current : f[1] = "before"}}
                ELSE fired
  /\ UNCHANGED <<topic, rows, phase, ask, futures, answer, scheduled, queue, current>>

\* Mutant of Handled: one prompt that failed keeps the event.
AllSent ==
  /\ todo = {}
  /\ \A e \in current, a \in Gates \cap enabled :
       e[1] = "before" /\ a \notin structured => <<e[2], a>> \in fired

Handled == todo = {}

WorkerDone ==
  /\ current # {}
  /\ Handled
  /\ current' = {}
  /\ UNCHANGED <<topic, rows, phase, ask, futures, answer, scheduled, queue, todo, fired>>

SendStep(s) == Gate(s) \/ GateDecides(s) \/ Post(s) \/ Finish(s)
DeleteStep(d) == VetoFails(d) \/ VetoTimesOut(d) \/ VetoDecides(d)
PromptStep(p) == Skip(p) \/ Publish(p) \/ Register(p) \/ GateHears(p)
WorkerStep == WorkerTakes \/ WorkerDone \/ \E a \in Gates \cup Hooks : WorkerFires(a)

Next ==
  \/ \E s \in Sends : Admit(s) \/ SendStep(s)
  \/ \E d \in Deletes : Delete(d) \/ DeleteStep(d)
  \/ \E p \in Prompts : PromptStep(p) \/ Answer(p) \/ Take(p) \/ Resolve(p)
  \/ \E a \in Gates : Edit(a)
  \/ WorkerStep

\* What the event loop does is done in the end, and its timers fire.  No
\* request has to be made, and no staff has to answer.
Fairness ==
  /\ \A s \in Sends : WF_vars(SendStep(s))
  /\ \A d \in Deletes : WF_vars(DeleteStep(d))
  /\ \A p \in Prompts : WF_vars(PromptStep(p)) /\ WF_vars(Resolve(p))
  /\ WF_vars(WorkerStep)

Spec == Init /\ [][Next]_vars /\ Fairness

(***************************************************************************)
(* Properties.                                                             *)
(***************************************************************************)

\* What a prompt has come to, seen from its request.
HeardOf(p) ==
  CASE ask[p] \in {"idle", "loaded", "skipped"} -> "unasked"
    [] ask[p] \in {"yes", "no"} -> ask[p]
    [] ask[p] = "late" -> "lost"
    [] ask[p] = "open" /\ result[p] # "none" -> result[p]
    [] OTHER -> "asked"

OutcomeOf(r) ==
  CASE phase[r] \in {"posted", "queued", "archived"} -> "committed"
    [] phase[r] \in {"blocked", "vetoed", "timeout"} -> "refused"
    [] phase[r] \in {"missing", "failed"} -> "failed"
    [] OTHER -> "open"

\* The gate and the veto are interceptors.  A message is dispatched only
\* when each staff it asked has let it pass or was given up, a topic is
\* archived only when each staff that the request asked has allowed it,
\* whatever the threads, the timers and the redeliveries do; a refusal that
\* was heard is never lost (run_gate_actions, veto_dispatch).
Promise == INSTANCE Interception WITH
  FailOpen <- Sends,
  heard <- [p \in Prompts |-> HeardOf(p)],
  outcome <- [r \in Requests |-> OutcomeOf(r)]

ImplementsInterception == Promise!Spec

\* A future stays registered only while its handler waits for it; the one
\* exception is an archive request that failed between two dispatches
\* (the pops of gate_futures and veto_futures).
FuturesAreAwaited ==
  \A p \in registered :
    /\ ask[p] = "open"
    /\ phase[p[1]] = "asking" \/ (p[1] \in Deletes /\ phase[p[1]] = "failed")

\* The staff of an action is asked once about a message: a row that gates
\* is not also fired by the worker, unless it was edited in between (the
\* exclusion in _handle_event).
AskedOnce ==
  \A s \in Sends, a \in structured :
    ask[<<s, a>>] # "idle" => <<s, a>> \notin fired

\* Every request gets its response, though a staff may never answer and an
\* answer may be lost: every wait for a staff has its timeout.
EveryRequestEnds ==
  \A r \in Requests : phase[r] # "new" ~> phase[r] \in Ended

\* The queue is drained: an event never holds up those behind it for good.
QueueDrains == []<>(queue = <<>> /\ current = {})

=============================================================================
