--------------------------- MODULE EventGateProofs ---------------------------
(***************************************************************************)
(* Theorems about EventGate, for every set of requests and actions: types, *)
(* the registered futures, no action asked twice, and that the gate and    *)
(* the veto are interceptors.                                              *)
(***************************************************************************)
EXTENDS EventGate, TLAPS

\* What TypeOK needs to be inductive: the worker fires rows that gate for
\* "before" events only.
Typed ==
  /\ TypeOK
  /\ \A e \in current : e[1] = "before" => todo \subseteq Gates

LEMMA RequestsOfPrompts ==
  ASSUME NEW p \in Prompts
  PROVE  /\ p[1] \in Requests
         /\ p[1] \in Sends => p[1] \notin Deletes
         /\ p = <<p[1], p[2]>>
  BY RequestsAreApart DEF Prompts, Requests

LEMMA GoesTypes ==
  ASSUME TypeOK, NEW r \in Requests, NEW to \in Phase, Goes(r, to)
  PROVE  /\ phase' \in [Requests -> Phase]
         /\ phase'[r] = to
         /\ \A q \in Requests \ {r} : phase'[q] = phase[q]
  BY DEF TypeOK, Goes

LEMMA BecomesTypes ==
  ASSUME TypeOK, NEW p \in Prompts, NEW to \in Asking, Becomes(p, to)
  PROVE  /\ ask' \in [Prompts -> Asking]
         /\ ask'[p] = to
         /\ \A q \in Prompts \ {p} : ask'[q] = ask[q]
  BY DEF TypeOK, Becomes

LEMMA EmitTypes ==
  ASSUME TypeOK, NEW type, NEW r, <<type, r>> \in Event, Emit(type, r)
  PROVE  queue' \in Seq(Event)
  BY DEF TypeOK, Emit

\* The steps of a message.
LEMMA SendTyped ==
  ASSUME Typed, NEW s \in Sends, Admit(s) \/ Gate(s) \/ GateDecides(s) \/ Post(s) \/ Finish(s)
  PROVE  Typed'
<1>1. s \in Requests
  BY DEF Requests
<1>2. CASE Admit(s)
  BY <1>1, <1>2, GoesTypes DEF Admit, Typed, TypeOK, Phase, topic, rows, futures, worker
<1>3. CASE Gate(s)
  <2>1. phase' \in [Requests -> Phase]
    BY <1>1, <1>3, GoesTypes DEF Gate, Phase, Typed
  <2>2. ask' \in [Prompts -> Asking]
    BY <1>3 DEF Gate, Asking, Typed, TypeOK
  <2>3. queue' \in Seq(Event)
    BY <1>3, EmitTypes DEF Gate, Event, Typed
  <2> QED BY <1>3, <2>1, <2>2, <2>3 DEF Gate, Typed, TypeOK, topic, rows, futures
<1>4. CASE GateDecides(s)
  BY <1>1, <1>4, GoesTypes DEF GateDecides, Typed, TypeOK, Phase, topic, rows, futures, worker
<1>5. CASE Post(s)
  BY <1>1, <1>5, GoesTypes DEF Post, Typed, TypeOK, Phase, topic, rows, futures, worker
<1>6. CASE Finish(s)
  <2>1. phase' \in [Requests -> Phase]
    BY <1>1, <1>6, GoesTypes DEF Finish, Phase, Typed
  <2>2. queue' \in Seq(Event)
    BY <1>6, EmitTypes DEF Finish, Event, Typed
  <2> QED BY <1>6, <2>1, <2>2 DEF Finish, Typed, TypeOK, topic, rows, futures
<1> QED BY <1>2, <1>3, <1>4, <1>5, <1>6

LEMMA ArchivesTypes ==
  ASSUME TypeOK, NEW d \in Deletes, Archives(d)
  PROVE  /\ phase' \in [Requests -> Phase]
         /\ queue' \in Seq(Event)
         /\ archived' = TRUE /\ vetoStatus' = "none"
<1>1. d \in Requests
  BY DEF Requests
<1> QED BY <1>1, GoesTypes, EmitTypes DEF Archives, Phase, Event

\* The steps of an archive request.
LEMMA DeleteTyped ==
  ASSUME Typed, NEW d \in Deletes,
         Delete(d) \/ VetoFails(d) \/ VetoTimesOut(d) \/ VetoDecides(d)
  PROVE  Typed'
<1>1. d \in Requests
  BY DEF Requests
<1>2. CASE Delete(d)
  <2>1. /\ phase' \in [Requests -> Phase] /\ ask' \in [Prompts -> Asking]
        /\ queue' \in Seq(Event)
        /\ archived' \in BOOLEAN /\ vetoStatus' \in {"none", "timeout", "vetoed"}
    <3>1. CASE Archives(d) /\ UNCHANGED ask
      BY <3>1, ArchivesTypes DEF Typed, TypeOK
    <3>2. CASE Goes(d, "missing") /\ UNCHANGED <<topic, ask, queue>>
      BY <1>1, <3>2, GoesTypes DEF Phase, Typed, TypeOK, topic
    <3>3. CASE /\ ask' = [p \in Prompts |-> IF p[1] = d /\ p[2] \in enabled THEN "loaded" ELSE ask[p]]
               /\ Goes(d, "asking")
               /\ UNCHANGED <<topic, queue>>
      BY <1>1, <3>3, GoesTypes DEF Phase, Asking, Typed, TypeOK, topic
    <3> QED BY <1>2, <3>1, <3>2, <3>3 DEF Delete
  <2> QED BY <1>2, <2>1 DEF Delete, Typed, TypeOK, rows, futures
<1>3. CASE VetoFails(d)
  BY <1>1, <1>3, GoesTypes DEF VetoFails, Typed, TypeOK, Phase, topic, rows, futures, worker
<1>4. CASE VetoTimesOut(d)
  <2>1. ask' \in [Prompts -> Asking]
    BY <1>4 DEF VetoTimesOut, Unheard, Pending, Asking, Typed, TypeOK
  <2>2. phase' \in [Requests -> Phase]
    BY <1>1, <1>4, GoesTypes DEF VetoTimesOut, Phase, Typed
  <2> QED BY <1>4, <2>1, <2>2 DEF VetoTimesOut, Unregister, Typed, TypeOK, rows, worker
<1>5. CASE VetoDecides(d)
  <2>1. ask' \in [Prompts -> Asking]
    BY <1>5 DEF VetoDecides, Unheard, Pending, Asking, Typed, TypeOK
  <2>2. /\ phase' \in [Requests -> Phase]
        /\ queue' \in Seq(Event)
        /\ archived' \in BOOLEAN /\ vetoStatus' \in {"none", "timeout", "vetoed"}
    <3>1. CASE Archives(d)
      BY <3>1, ArchivesTypes DEF Typed
    <3>2. CASE vetoStatus' = "vetoed" /\ Goes(d, "vetoed") /\ UNCHANGED <<archived, queue>>
      BY <1>1, <3>2, GoesTypes DEF Phase, Typed, TypeOK
    <3> QED BY <1>5, <3>1, <3>2 DEF VetoDecides
  <2> QED BY <1>5, <2>1, <2>2 DEF VetoDecides, Unregister, Typed, TypeOK, rows
<1> QED BY <1>2, <1>3, <1>4, <1>5

\* The steps of a prompt and of its answer.
LEMMA PromptTyped ==
  ASSUME Typed, NEW p \in Prompts,
         Skip(p) \/ Publish(p) \/ Register(p) \/ GateHears(p) \/ Answer(p) \/ Take(p) \/ Resolve(p)
  PROVE  Typed'
<1>1. CASE Skip(p)
  BY <1>1, BecomesTypes DEF Skip, Asking, Typed, TypeOK, topic, rows, futures, worker
<1>2. CASE Publish(p)
  BY <1>2, BecomesTypes DEF Publish, Asking, Typed, TypeOK, topic, rows, futures, worker
<1>3. CASE Register(p)
  BY <1>3, BecomesTypes DEF Register, Asking, Typed, TypeOK, topic, rows, worker
<1>4. CASE GateHears(p)
  <2>1. ask' \in [Prompts -> Asking]
    BY <1>4, BecomesTypes DEF GateHears, Asking, Typed, TypeOK
  <2> QED BY <1>4, <2>1 DEF GateHears, Typed, TypeOK, topic, rows, worker
<1>5. CASE Answer(p)
  BY <1>5 DEF Answer, Typed, TypeOK, topic, rows, futures, worker
<1>6. CASE Take(p)
  BY <1>6 DEF Take, Typed, TypeOK, topic, rows, futures, worker
<1>7. CASE Resolve(p)
  BY <1>7 DEF Resolve, Typed, TypeOK, topic, rows, worker
<1> QED BY <1>1, <1>2, <1>3, <1>4, <1>5, <1>6, <1>7

LEMMA WorkerTyped ==
  ASSUME Typed, WorkerStep \/ \E a \in Gates : Edit(a)
  PROVE  Typed'
<1>1. ASSUME NEW a \in Gates, Edit(a) PROVE Typed'
  BY <1>1 DEF Edit, Typed, TypeOK, topic, futures, worker
<1>2. CASE WorkerTakes
  <2>1. /\ Head(queue) \in Event /\ Tail(queue) \in Seq(Event)
    BY <1>2 DEF WorkerTakes, Typed, TypeOK
  <2>2. /\ todo' \subseteq Gates \cup Hooks
        /\ Head(queue)[1] = "before" => todo' \subseteq Gates
    BY <1>2 DEF WorkerTakes, Matching
  <2> QED BY <1>2, <2>1, <2>2 DEF WorkerTakes, Typed, TypeOK, topic, rows, futures
<1>3. ASSUME NEW a \in Gates \cup Hooks, WorkerFires(a) PROVE Typed'
  <2>1. \A e \in current : e[1] = "before" => <<e[2], a>> \in Sends \X Gates
    BY <1>3 DEF WorkerFires, Typed, TypeOK, Event
  <2>2. fired' \subseteq Sends \X Gates
    BY <1>3, <2>1 DEF WorkerFires, Typed, TypeOK
  <2> QED BY <1>3, <2>2 DEF WorkerFires, Typed, TypeOK, topic, rows, futures
<1>4. CASE WorkerDone
  BY <1>4 DEF WorkerDone, Typed, TypeOK, topic, rows, futures
<1> QED BY <1>1, <1>2, <1>3, <1>4 DEF WorkerStep

\* Every reachable state is well formed: the topic, the rows, the phases of
\* the requests and prompts, the futures, the queue and the worker.
THEOREM TypeCorrect == Spec => []TypeOK
<1>1. ASSUME Init PROVE Typed
  <2>1. enabled \subseteq Actions
    BY <1>1, RequestsAreApart DEF Init, Actions
  <2>2. phase \in [Requests -> Phase] /\ ask \in [Prompts -> Asking]
    BY <1>1 DEF Init, Phase, Asking
  <2>3. /\ result \in [Prompts -> {"none", "yes", "no"}]
        /\ answer \in [Prompts -> {"none", "yes", "no"}]
    BY <1>1 DEF Init
  <2>4. queue \in Seq(Event)
    BY <1>1 DEF Init
  <2> QED BY <1>1, <2>1, <2>2, <2>3, <2>4 DEF Init, Typed, TypeOK
<1>2. Typed /\ [Next]_vars => Typed'
  <2>1. Typed /\ Next => Typed'
    BY SendTyped, DeleteTyped, PromptTyped, WorkerTyped
       DEF Next, SendStep, DeleteStep, PromptStep
  <2>2. Typed /\ UNCHANGED vars => Typed'
    BY DEF Typed, TypeOK, vars, topic, rows, futures, worker
  <2> QED BY <2>1, <2>2
<1>3. Typed => TypeOK
  BY DEF Typed
<1> QED BY <1>1, <1>2, <1>3, PTL DEF Spec

-----------------------------------------------------------------------------
(* Where prompts and futures are, seen from their requests *)

\* A request that is not started has asked nobody.
NotAskedEarly ==
  \A p \in Prompts : phase[p[1]] \in {"new", "admitted"} => ask[p] = "idle"

\* What is under way belongs to a request that waits for it, or to an
\* archive request that failed between two dispatches.
AskedByWaiting ==
  \A p \in Prompts :
    /\ ask[p] = "sent" => phase[p[1]] = "asking"
    /\ ask[p] \in {"loaded", "open"} =>
         \/ phase[p[1]] = "asking"
         \/ p[1] \in Deletes /\ phase[p[1]] = "failed"

RegisteredIsOpen == \A p \in registered : ask[p] = "open"

\* A message that passed its gate heard no refusal.
PassedUnbroken ==
  \A p \in Prompts : p[1] \in Sends /\ phase[p[1]] = "passed" => ask[p] # "no"

\* An archive request hears its verdicts when it decides, not before.
VerdictsAtTheEnd ==
  \A p \in Prompts : p[1] \in Deletes /\ phase[p[1]] = "asking" => ask[p] \notin {"yes", "no", "late"}

GateInv ==
  /\ NotAskedEarly
  /\ AskedByWaiting
  /\ RegisteredIsOpen
  /\ PassedUnbroken
  /\ VerdictsAtTheEnd

\* The invariant is about these variables only.
LEMMA GateInvKept ==
  ASSUME GateInv, UNCHANGED <<phase, ask, registered>>
  PROVE  GateInv'
  BY DEF GateInv, NotAskedEarly, AskedByWaiting, RegisteredIsOpen, PassedUnbroken, VerdictsAtTheEnd

LEMMA SendInv ==
  ASSUME TypeOK, GateInv, NEW s \in Sends,
         Admit(s) \/ Gate(s) \/ GateDecides(s) \/ Post(s) \/ Finish(s)
  PROVE  GateInv'
<1>1. s \in Requests /\ s \notin Deletes /\ registered' = registered
  BY RequestsAreApart DEF Requests, Admit, Gate, GateDecides, Post, Finish, futures
<1>2. \A p \in Prompts : p[1] \in Requests
  BY RequestsOfPrompts
<1>3. CASE Admit(s)
  <2>1. /\ ask' = ask /\ phase[s] = "new" /\ phase'[s] \in {"missing", "admitted"}
        /\ \A q \in Requests \ {s} : phase'[q] = phase[q]
    BY <1>1, <1>3, GoesTypes DEF Admit, Phase
  <2> QED BY <1>1, <1>2, <2>1 DEF GateInv, NotAskedEarly, AskedByWaiting,
             RegisteredIsOpen, PassedUnbroken, VerdictsAtTheEnd
<1>4. CASE Gate(s)
  <2>1. /\ phase[s] = "admitted" /\ phase'[s] = "asking"
        /\ \A q \in Requests \ {s} : phase'[q] = phase[q]
    BY <1>1, <1>4, GoesTypes DEF Gate, Phase
  <2>2. \A p \in Prompts : IF p[1] = s THEN ask[p] = "idle" /\ ask'[p] \in {"idle", "loaded"}
                                       ELSE ask'[p] = ask[p]
    BY <1>4, <2>1 DEF Gate, GateInv, NotAskedEarly
  <2> QED BY <1>1, <1>2, <2>1, <2>2 DEF GateInv, NotAskedEarly, AskedByWaiting,
             RegisteredIsOpen, PassedUnbroken, VerdictsAtTheEnd, TypeOK
<1>5. CASE GateDecides(s)
  <2>1. /\ ask' = ask /\ phase[s] = "asking"
        /\ \A q \in Requests \ {s} : phase'[q] = phase[q]
    BY <1>1, <1>5, GoesTypes DEF GateDecides, Phase
  <2>2. \/ phase'[s] = "passed" /\ Passes(s)
        \/ phase'[s] = "blocked"
    BY <1>1, <1>5, GoesTypes DEF GateDecides, Phase
  <2>3. \A p \in Prompts : p[1] = s =>
          ask[p] \notin {"loaded", "sent", "open"} /\ (phase'[s] = "passed" => ask[p] # "no")
    BY <1>5, <2>2 DEF GateDecides, Settled, Passes, Of
  <2> QED BY <1>1, <1>2, <2>1, <2>2, <2>3 DEF GateInv, NotAskedEarly, AskedByWaiting,
             RegisteredIsOpen, PassedUnbroken, VerdictsAtTheEnd
<1>6. CASE Post(s) \/ Finish(s)
  <2>1. /\ ask' = ask /\ phase[s] \in {"passed", "posted"}
        /\ phase'[s] \in {"posted", "failed", "queued"}
        /\ \A q \in Requests \ {s} : phase'[q] = phase[q]
    BY <1>1, <1>6, GoesTypes DEF Post, Finish, Phase
  <2> QED BY <1>1, <1>2, <2>1 DEF GateInv, NotAskedEarly, AskedByWaiting,
             RegisteredIsOpen, PassedUnbroken, VerdictsAtTheEnd
<1> QED BY <1>3, <1>4, <1>5, <1>6

LEMMA DeleteInv ==
  ASSUME TypeOK, GateInv, NEW d \in Deletes,
         Delete(d) \/ VetoFails(d) \/ VetoTimesOut(d) \/ VetoDecides(d)
  PROVE  GateInv'
<1>1. d \in Requests /\ d \notin Sends
  BY RequestsAreApart DEF Requests
<1>2. \A p \in Prompts : p[1] \in Requests
  BY RequestsOfPrompts
<1>3. CASE Delete(d)
  <2>1. /\ phase[d] = "new" /\ phase'[d] \in {"missing", "archived", "asking"}
        /\ \A q \in Requests \ {d} : phase'[q] = phase[q]
        /\ registered' = registered
    BY <1>1, <1>3, GoesTypes DEF Delete, Archives, Phase, futures
  <2>2. \A p \in Prompts : IF p[1] = d THEN ask[p] = "idle" /\ ask'[p] \in {"idle", "loaded"}
                                       ELSE ask'[p] = ask[p]
    BY <1>3, <2>1 DEF Delete, GateInv, NotAskedEarly
  <2>3. phase'[d] # "asking" => ask' = ask
    BY <1>1, <1>3, GoesTypes DEF Delete, Archives, Phase
  <2> QED BY <1>1, <1>2, <2>1, <2>2, <2>3 DEF GateInv, NotAskedEarly, AskedByWaiting,
             RegisteredIsOpen, PassedUnbroken, VerdictsAtTheEnd, TypeOK
<1>4. CASE VetoFails(d)
  <2>1. /\ ask' = ask /\ registered' = registered
        /\ phase[d] = "asking" /\ phase'[d] = "failed"
        /\ \A q \in Requests \ {d} : phase'[q] = phase[q]
        /\ \A p \in Prompts : p[1] = d => ask[p] # "sent"
    BY <1>1, <1>4, GoesTypes DEF VetoFails, Phase, futures, Of
  <2> QED BY <1>1, <1>2, <2>1 DEF GateInv, NotAskedEarly, AskedByWaiting,
             RegisteredIsOpen, PassedUnbroken, VerdictsAtTheEnd
<1>5. CASE VetoTimesOut(d) \/ VetoDecides(d)
  <2>1. /\ phase[d] = "asking" /\ phase'[d] \in {"timeout", "vetoed", "archived"}
        /\ \A q \in Requests \ {d} : phase'[q] = phase[q]
    BY <1>1, <1>5, GoesTypes DEF VetoTimesOut, VetoDecides, Archives, Phase
  <2>2. /\ registered' = registered \ Pending(d)
        /\ \A p \in Prompts : p[1] = d => ask[p] \notin {"loaded", "sent"}
    BY <1>5 DEF VetoTimesOut, VetoDecides, Unregister, Dispatched, Of
  <2>3. \A p \in Prompts : IF p \in Pending(d) THEN ask'[p] \in {"yes", "no", "late"}
                                               ELSE ask'[p] = ask[p]
    <3>1. CASE VetoTimesOut(d)
      BY <3>1 DEF VetoTimesOut, Unheard, Pending, TypeOK
    <3>2. CASE VetoDecides(d)
      BY <3>2 DEF VetoDecides, Unheard, Pending, TypeOK
    <3> QED BY <1>5, <3>1, <3>2
  <2>4. Pending(d) = {p \in Prompts : p[1] = d /\ ask[p] = "open"}
    BY DEF Pending, Of
  <2> QED BY <1>1, <1>2, <2>1, <2>2, <2>3, <2>4 DEF GateInv, NotAskedEarly, AskedByWaiting,
             RegisteredIsOpen, PassedUnbroken, VerdictsAtTheEnd, TypeOK
<1> QED BY <1>3, <1>4, <1>5

LEMMA PromptInv ==
  ASSUME TypeOK, GateInv, NEW p \in Prompts,
         Skip(p) \/ Publish(p) \/ Register(p) \/ GateHears(p)
  PROVE  GateInv'
<1>1. /\ phase' = phase /\ p[1] \in Requests
      /\ p[1] \in Sends => p[1] \notin Deletes
  BY RequestsOfPrompts DEF Skip, Publish, Register, GateHears
<1>2. ask[p] \in {"loaded", "sent", "open"} /\ \A q \in Prompts \ {p} : ask'[q] = ask[q]
  BY BecomesTypes DEF Skip, Publish, Register, GateHears, Asking, TypeOK
<1>3. CASE Skip(p) \/ Publish(p)
  <2>1. /\ registered' = registered /\ phase[p[1]] = "asking" /\ ask[p] = "loaded"
        /\ ask'[p] \in {"skipped", "sent"}
    BY <1>3, BecomesTypes DEF Skip, Publish, Asking, futures
  <2> QED BY <1>1, <1>2, <2>1 DEF GateInv, NotAskedEarly, AskedByWaiting,
             RegisteredIsOpen, PassedUnbroken, VerdictsAtTheEnd, TypeOK
<1>4. CASE Register(p)
  <2>1. registered' = registered \cup {p} /\ ask[p] = "sent" /\ ask'[p] = "open"
    BY <1>4, BecomesTypes DEF Register, Asking
  <2> QED BY <1>1, <1>2, <2>1 DEF GateInv, NotAskedEarly, AskedByWaiting,
             RegisteredIsOpen, PassedUnbroken, VerdictsAtTheEnd, TypeOK
<1>5. CASE GateHears(p)
  <2>1. /\ registered' = registered \ {p} /\ ask[p] = "open" /\ p[1] \in Sends
        /\ ask'[p] \in {"yes", "no", "late"}
    BY <1>5, BecomesTypes DEF GateHears, Asking, TypeOK
  <2>2. phase[p[1]] = "asking"
    BY <1>1, <2>1 DEF GateInv, AskedByWaiting
  <2> QED BY <1>1, <1>2, <2>1, <2>2 DEF GateInv, NotAskedEarly, AskedByWaiting,
             RegisteredIsOpen, PassedUnbroken, VerdictsAtTheEnd, TypeOK
<1> QED BY <1>3, <1>4, <1>5

LEMMA InvStep ==
  ASSUME TypeOK, GateInv, [Next]_vars
  PROVE  GateInv'
<1>1. ASSUME NEW p \in Prompts, Answer(p) \/ Take(p) \/ Resolve(p) PROVE GateInv'
  BY <1>1, GateInvKept DEF Answer, Take, Resolve, futures
<1>2. ASSUME WorkerStep \/ \E a \in Gates : Edit(a) PROVE GateInv'
  BY <1>2, GateInvKept DEF WorkerStep, WorkerTakes, WorkerFires, WorkerDone, Edit, futures
<1>3. ASSUME UNCHANGED vars PROVE GateInv'
  BY <1>3, GateInvKept DEF vars, futures
<1> QED BY <1>1, <1>2, <1>3, SendInv, DeleteInv, PromptInv
        DEF Next, SendStep, DeleteStep, PromptStep

LEMMA InvHolds == Spec => []GateInv
<1>1. Init => GateInv
  BY RequestsOfPrompts DEF Init, GateInv, NotAskedEarly, AskedByWaiting, RegisteredIsOpen,
     PassedUnbroken, VerdictsAtTheEnd
<1>2. TypeOK /\ GateInv /\ [Next]_vars => GateInv'
  BY InvStep
<1> QED BY <1>1, <1>2, TypeCorrect, PTL DEF Spec

\* A future stays registered only while its handler waits for it, or in an
\* archive request that failed between two dispatches.
THEOREM Awaited == Spec => []FuturesAreAwaited
<1>1. TypeOK /\ GateInv => FuturesAreAwaited
  BY DEF TypeOK, GateInv, AskedByWaiting, RegisteredIsOpen, FuturesAreAwaited
<1> QED BY <1>1, InvHolds, TypeCorrect, PTL

-----------------------------------------------------------------------------
(* Nobody is asked twice *)

\* The worker fires, and has yet to fire, no row that gates: such a row
\* stops gating by an edit, and never begins to.
FiredIsNoGate ==
  /\ \A f \in fired : f[2] \notin structured
  /\ \A e \in current : e[1] = "before" => todo \cap structured = {}

LEMMA FiredStep ==
  ASSUME TypeOK, FiredIsNoGate, [Next]_vars
  PROVE  FiredIsNoGate'
<1>1. CASE WorkerTakes
  BY <1>1 DEF WorkerTakes, Matching, FiredIsNoGate, rows
<1>2. ASSUME NEW a \in Gates \cup Hooks, WorkerFires(a) PROVE FiredIsNoGate'
  <2>1. \A f \in fired' : f \in fired \/ (f[2] = a /\ \E e \in current : e[1] = "before")
    BY <1>2 DEF WorkerFires
  <2> QED BY <1>2, <2>1 DEF WorkerFires, FiredIsNoGate, rows
<1>3. CASE WorkerDone
  BY <1>3 DEF WorkerDone, FiredIsNoGate, rows
<1>4. ASSUME NEW a \in Gates, Edit(a) PROVE FiredIsNoGate'
  BY <1>4 DEF Edit, FiredIsNoGate, worker
<1>5. ASSUME UNCHANGED <<rows, current, todo, fired>> PROVE FiredIsNoGate'
  BY <1>5 DEF FiredIsNoGate, rows
<1>6. ASSUME NEW s \in Sends, Admit(s) \/ SendStep(s) PROVE FiredIsNoGate'
  BY <1>5, <1>6 DEF Admit, SendStep, Gate, GateDecides, Post, Finish, worker
<1>7. ASSUME NEW d \in Deletes, Delete(d) \/ DeleteStep(d) PROVE FiredIsNoGate'
  BY <1>5, <1>7 DEF Delete, DeleteStep, VetoFails, VetoTimesOut, VetoDecides, worker
<1>8. ASSUME NEW p \in Prompts, PromptStep(p) \/ Answer(p) \/ Take(p) \/ Resolve(p)
      PROVE  FiredIsNoGate'
  BY <1>5, <1>8 DEF PromptStep, Skip, Publish, Register, GateHears, Answer, Take, Resolve, worker
<1>9. ASSUME UNCHANGED vars PROVE FiredIsNoGate'
  BY <1>5, <1>9 DEF vars, worker
<1> QED BY <1>1, <1>2, <1>3, <1>4, <1>6, <1>7, <1>8, <1>9 DEF Next, WorkerStep

\* The staff of an action is asked once about a message, unless the action
\* was edited in between.
THEOREM NeverTwice == Spec => []AskedOnce
<1>1. Init => FiredIsNoGate
  BY DEF Init, FiredIsNoGate
<1>2. TypeOK /\ FiredIsNoGate /\ [Next]_vars => FiredIsNoGate'
  BY FiredStep
<1>3. FiredIsNoGate => AskedOnce
  BY DEF FiredIsNoGate, AskedOnce
<1> QED BY <1>1, <1>2, <1>3, TypeCorrect, PTL DEF Spec

-----------------------------------------------------------------------------
(* The gate and the veto are interceptors *)

\* A step that the interceptor does not see.
LEMMA Unseen ==
  ASSUME \A p \in Prompts : HeardOf(p)' = HeardOf(p),
         \A r \in Requests : OutcomeOf(r)' = OutcomeOf(r)
  PROVE  UNCHANGED Promise!vars
  BY DEF Promise!vars

LEMMA SameHeard ==
  ASSUME NEW p \in Prompts, ask'[p] = ask[p], ask[p] = "open" => result'[p] = result[p]
  PROVE  HeardOf(p)' = HeardOf(p)
  BY DEF HeardOf

LEMMA SameOutcome ==
  ASSUME NEW r \in Requests, phase'[r] = phase[r]
  PROVE  OutcomeOf(r)' = OutcomeOf(r)
  BY DEF OutcomeOf

LEMMA HeardTypes ==
  ASSUME TypeOK, NEW p \in Prompts
  PROVE  HeardOf(p) \in {"unasked", "asked", "yes", "no", "lost"}
  BY DEF HeardOf, TypeOK, Asking

\* Of request r, the interceptor has heard what its prompts are.
LEMMA IsHeard ==
  ASSUME NEW r \in Requests, NEW what
  PROVE  Promise!Is([p \in Prompts |-> HeardOf(p)], r, what)
           <=> \E p \in Prompts : p[1] = r /\ HeardOf(p) = what
  BY DEF Promise!Is

LEMMA PublishRefines ==
  ASSUME TypeOK, GateInv, NEW p \in Prompts, Publish(p)
  PROVE  Promise!Ask(p)
<1>1. p[1] \in Requests
  BY RequestsOfPrompts
<1>2. /\ ask[p] = "loaded" /\ ask'[p] = "sent" /\ phase[p[1]] = "asking"
      /\ UNCHANGED <<phase, result>>
      /\ \A q \in Prompts \ {p} : ask'[q] = ask[q]
  BY BecomesTypes DEF Publish, Asking, futures
<1>3. \A q \in Prompts : HeardOf(q)' = IF q = p THEN "asked" ELSE HeardOf(q)
  <2>1. HeardOf(p)' = "asked"
    BY <1>2 DEF HeardOf
  <2>2. \A q \in Prompts \ {p} : HeardOf(q)' = HeardOf(q)
    BY <1>2, SameHeard
  <2> QED BY <2>1, <2>2
<1>4. \A r \in Requests : OutcomeOf(r)' = OutcomeOf(r)
  BY <1>2, SameOutcome
<1>5. HeardOf(p) = "unasked" /\ OutcomeOf(p[1]) = "open"
  BY <1>2 DEF HeardOf, OutcomeOf
<1> QED BY <1>1, <1>3, <1>4, <1>5 DEF Promise!Ask

\* A prompt is heard of, or nothing is seen.
LEMMA Hearing ==
  ASSUME TypeOK, GateInv, NEW p \in Prompts, phase' = phase,
         \A q \in Prompts \ {p} : HeardOf(q)' = HeardOf(q),
         \/ HeardOf(p)' = HeardOf(p)
         \/ /\ ask[p] \in {"sent", "open"} /\ HeardOf(p) = "asked"
            /\ HeardOf(p)' \in {"yes", "no", "lost"}
  PROVE  Promise!Hear(p) \/ UNCHANGED Promise!vars
<1>1. p[1] \in Requests
  BY RequestsOfPrompts
<1>2. \A r \in Requests : OutcomeOf(r)' = OutcomeOf(r)
  BY SameOutcome
<1>3. CASE HeardOf(p)' = HeardOf(p)
  BY <1>2, <1>3, Unseen
<1>4. CASE /\ ask[p] \in {"sent", "open"} /\ HeardOf(p) = "asked"
           /\ HeardOf(p)' \in {"yes", "no", "lost"}
  <2>1. phase[p[1]] \in {"asking", "failed"}
    BY <1>4 DEF GateInv, AskedByWaiting
  <2>2. OutcomeOf(p[1]) \in {"open", "failed"}
    BY <2>1 DEF OutcomeOf
  <2> QED BY <1>1, <1>2, <1>4, <2>2 DEF Promise!Hear
<1> QED BY <1>3, <1>4

LEMMA AnswersRefine ==
  ASSUME TypeOK, GateInv, NEW p \in Prompts,
         Register(p) \/ GateHears(p) \/ Resolve(p)
  PROVE  Promise!Hear(p) \/ UNCHANGED Promise!vars
<1>1. phase' = phase
  BY DEF Register, GateHears, Resolve
<1>2. \A q \in Prompts \ {p} : HeardOf(q)' = HeardOf(q)
  <2>1. \A q \in Prompts \ {p} : ask'[q] = ask[q] /\ result'[q] = result[q]
    BY BecomesTypes DEF Register, GateHears, Resolve, Asking, TypeOK
  <2> QED BY <2>1, SameHeard
<1>3. \/ HeardOf(p)' = HeardOf(p)
      \/ /\ ask[p] \in {"sent", "open"} /\ HeardOf(p) = "asked"
         /\ HeardOf(p)' \in {"yes", "no", "lost"}
  <2>1. CASE Register(p)
    <3>1. ask[p] = "sent" /\ ask'[p] = "open" /\ result'[p] = result[p]
      BY <2>1, BecomesTypes DEF Register, Asking
    <3> QED BY <3>1 DEF HeardOf, TypeOK
  <2>2. CASE GateHears(p)
    <3>1. /\ ask[p] = "open" /\ result'[p] = result[p]
          /\ ask'[p] = IF result[p] = "none" THEN "late" ELSE result[p]
      BY <2>2, BecomesTypes DEF GateHears, Asking, TypeOK
    <3> QED BY <3>1 DEF HeardOf, TypeOK
  <2>3. CASE Resolve(p)
    <3>1. /\ ask'[p] = ask[p]
          /\ result'[p] = result[p] \/ (result[p] = "none" /\ result'[p] \in {"yes", "no"})
      BY <2>3 DEF Resolve, TypeOK
    <3> QED BY <3>1 DEF HeardOf
  <2> QED BY <2>1, <2>2, <2>3
<1> QED BY <1>1, <1>2, <1>3, Hearing

\* A request is decided by what it has heard, without giving anything up.
LEMMA Deciding ==
  ASSUME TypeOK, NEW r \in Requests, NEW to \in Phase, Goes(r, to),
         OutcomeOf(r) = "open",
         \A p \in Prompts : HeardOf(p)' = HeardOf(p),
         \/ /\ to \in {"posted", "archived"}
            /\ \A p \in Prompts : p[1] = r => /\ HeardOf(p) \notin {"no", "asked"}
                                              /\ HeardOf(p) = "lost" => r \in Sends
         \/ /\ to \in {"blocked", "vetoed"}
            /\ \E p \in Prompts : p[1] = r /\ HeardOf(p) = "no"
  PROVE  Promise!Decide(r)
<1> DEFINE h == [p \in Prompts |-> HeardOf(p)]
<1>1. \A q \in Requests : OutcomeOf(q)' =
        IF q = r THEN IF to \in {"posted", "archived"} THEN "committed" ELSE "refused"
        ELSE OutcomeOf(q)
  <2>1. phase'[r] = to /\ \A q \in Requests \ {r} : phase'[q] = phase[q]
    BY GoesTypes
  <2>2. OutcomeOf(r)' = IF to \in {"posted", "archived"} THEN "committed" ELSE "refused"
    BY <2>1 DEF OutcomeOf
  <2> QED BY <2>1, <2>2, SameOutcome
<1>2. h' = h
  OBVIOUS
<1>3. CASE to \in {"posted", "archived"}
  <2>1. Promise!MayCommit(h, r)
    BY <1>3, IsHeard DEF Promise!MayCommit
  <2> QED BY <1>1, <1>2, <1>3, <2>1 DEF Promise!Decide
<1>4. CASE to \notin {"posted", "archived"}
  <2>1. Promise!MayRefuse(h, r)
    BY <1>4, IsHeard DEF Promise!MayRefuse
  <2> QED BY <1>1, <1>2, <1>4, <2>1 DEF Promise!Decide
<1> QED BY <1>3, <1>4

LEMMA Failing ==
  ASSUME TypeOK, NEW r \in Requests, NEW to \in {"missing", "failed"}, Goes(r, to),
         OutcomeOf(r) = "open", \A p \in Prompts : HeardOf(p)' = HeardOf(p)
  PROVE  Promise!Fail(r)
<1>1. phase'[r] = to /\ \A q \in Requests \ {r} : phase'[q] = phase[q]
  BY GoesTypes DEF Phase
<1>2. \A q \in Requests : OutcomeOf(q)' = IF q = r THEN "failed" ELSE OutcomeOf(q)
  BY <1>1, SameOutcome DEF OutcomeOf
<1> QED BY <1>2 DEF Promise!Fail

\* The phases that the interceptor does not tell apart.
LEMMA SamePhase ==
  ASSUME TypeOK, NEW r \in Requests, NEW to \in Phase, Goes(r, to),
         \/ {phase[r], to} \subseteq {"new", "admitted", "asking", "passed"}
         \/ {phase[r], to} \subseteq {"posted", "queued"},
         \A p \in Prompts : HeardOf(p)' = HeardOf(p)
  PROVE  UNCHANGED Promise!vars
<1>1. phase'[r] = to /\ \A q \in Requests \ {r} : phase'[q] = phase[q]
  BY GoesTypes
<1>2. OutcomeOf(r)' = OutcomeOf(r)
  BY <1>1 DEF OutcomeOf
<1> QED BY <1>1, <1>2, SameOutcome, Unseen

LEMMA SendRefines ==
  ASSUME TypeOK, GateInv, NEW s \in Sends,
         Admit(s) \/ Gate(s) \/ GateDecides(s) \/ Post(s) \/ Finish(s)
  PROVE  Promise!Decide(s) \/ Promise!Fail(s) \/ UNCHANGED Promise!vars
<1>1. s \in Requests /\ s \notin Deletes /\ result' = result
  BY RequestsAreApart DEF Requests, Admit, Gate, GateDecides, Post, Finish, futures
<1>2. \A p \in Prompts : HeardOf(p)' = HeardOf(p)
  <2>1. CASE Gate(s)
    <3>1. \A p \in Prompts : \/ ask'[p] = ask[p]
                             \/ ask[p] = "idle" /\ ask'[p] = "loaded"
      BY <2>1 DEF Gate, GateInv, NotAskedEarly
    <3> QED BY <1>1, <3>1 DEF HeardOf
  <2>2. CASE Admit(s) \/ GateDecides(s) \/ Post(s) \/ Finish(s)
    BY <1>1, <2>2, SameHeard DEF Admit, GateDecides, Post, Finish
  <2> QED BY <2>1, <2>2
<1>3. CASE Admit(s)
  <2>1. phase[s] = "new" /\ OutcomeOf(s) = "open"
    BY <1>3 DEF Admit, OutcomeOf
  <2>2. CASE Goes(s, "missing")
    BY <1>1, <1>2, <2>1, <2>2, Failing
  <2>3. CASE Goes(s, "admitted")
    BY <1>1, <1>2, <2>1, <2>3, SamePhase DEF Phase
  <2> QED BY <1>3, <2>2, <2>3 DEF Admit
<1>4. CASE Gate(s)
  <2>1. phase[s] = "admitted" /\ Goes(s, "asking")
    BY <1>4 DEF Gate
  <2> QED BY <1>1, <1>2, <2>1, SamePhase DEF Phase
<1>5. CASE GateDecides(s)
  <2>1. phase[s] = "asking" /\ OutcomeOf(s) = "open"
    BY <1>5 DEF GateDecides, OutcomeOf
  <2>2. CASE Goes(s, "passed")
    BY <1>1, <1>2, <2>1, <2>2, SamePhase DEF Phase
  <2>3. CASE Goes(s, "blocked") /\ ~Passes(s)
    <3>1. \E p \in Prompts : p[1] = s /\ HeardOf(p) = "no"
      BY <2>3 DEF Passes, Of, HeardOf
    <3> QED BY <1>1, <1>2, <2>1, <2>3, <3>1, Deciding DEF Phase
  <2> QED BY <1>5, <2>2, <2>3 DEF GateDecides
<1>6. CASE Post(s)
  <2>1. phase[s] = "passed" /\ OutcomeOf(s) = "open"
    BY <1>6 DEF Post, OutcomeOf
  <2>2. CASE Goes(s, "posted")
    <3>1. \A p \in Prompts : p[1] = s => ask[p] \notin {"sent", "open", "loaded", "no"}
      BY <1>1, <2>1 DEF GateInv, AskedByWaiting, PassedUnbroken
    <3>2. \A p \in Prompts : p[1] = s => HeardOf(p) \notin {"no", "asked"}
      BY <3>1 DEF HeardOf, TypeOK, Asking
    <3> QED BY <1>1, <1>2, <2>1, <2>2, <3>2, Deciding DEF Phase
  <2>3. CASE Goes(s, "failed")
    BY <1>1, <1>2, <2>1, <2>3, Failing
  <2> QED BY <1>6, <2>2, <2>3 DEF Post
<1>7. CASE Finish(s)
  <2>1. phase[s] = "posted" /\ Goes(s, "queued")
    BY <1>7 DEF Finish
  <2> QED BY <1>1, <1>2, <2>1, SamePhase DEF Phase
<1> QED BY <1>3, <1>4, <1>5, <1>6, <1>7

\* The request is looked up, and commits at once if it overrides.
LEMMA DeleteRefines ==
  ASSUME TypeOK, GateInv, NEW d \in Deletes, Delete(d)
  PROVE  Promise!Decide(d) \/ Promise!Fail(d) \/ UNCHANGED Promise!vars
<1>1. d \in Requests /\ phase[d] = "new" /\ OutcomeOf(d) = "open" /\ result' = result
  BY DEF Requests, Delete, OutcomeOf, futures
<1>2. \A p \in Prompts : p[1] = d => ask[p] = "idle"
  BY <1>1 DEF GateInv, NotAskedEarly
<1>3. \A p \in Prompts : HeardOf(p)' = HeardOf(p)
  <2>1. \A p \in Prompts : \/ ask'[p] = ask[p]
                           \/ ask[p] = "idle" /\ ask'[p] = "loaded"
    BY <1>2 DEF Delete
  <2> QED BY <1>1, <2>1 DEF HeardOf
<1>4. CASE Goes(d, "missing")
  BY <1>1, <1>3, <1>4, Failing
<1>5. CASE Goes(d, "archived")
  <2>1. \A p \in Prompts : p[1] = d => HeardOf(p) = "unasked"
    BY <1>2 DEF HeardOf
  <2> QED BY <1>1, <1>3, <1>5, <2>1, Deciding DEF Phase
<1>6. CASE Goes(d, "asking")
  BY <1>1, <1>3, <1>6, SamePhase DEF Phase
<1> QED BY <1>4, <1>5, <1>6 DEF Delete, Archives

\* The first denial refuses, and silence refuses too.
LEMMA VetoRefines ==
  ASSUME TypeOK, GateInv, NEW d \in Deletes,
         VetoFails(d) \/ VetoTimesOut(d) \/ VetoDecides(d)
  PROVE  Promise!Decide(d) \/ Promise!Fail(d)
<1>1. /\ d \in Requests /\ d \notin Sends /\ result' = result
      /\ phase[d] = "asking" /\ OutcomeOf(d) = "open"
  BY RequestsAreApart DEF Requests, VetoFails, VetoTimesOut, VetoDecides, OutcomeOf, futures
<1>2. CASE VetoFails(d)
  <2>1. \A p \in Prompts : HeardOf(p)' = HeardOf(p)
    BY <1>1, <1>2, SameHeard DEF VetoFails
  <2> QED BY <1>1, <1>2, <2>1, Failing DEF VetoFails
<1>3. ASSUME Dispatched(d)
      PROVE  \A p \in Prompts : p[1] = d /\ HeardOf(p) = "asked" => p \in Unheard(d)
  BY <1>3 DEF Dispatched, Of, HeardOf, Unheard, Pending, TypeOK, Asking
<1>4. CASE VetoTimesOut(d)
  <2> DEFINE h == [p \in Prompts |-> HeardOf(p)]
             given == [p \in Prompts |-> IF p[1] = d /\ h[p] = "asked" THEN "lost" ELSE h[p]]
  <2>1. \A p \in Prompts : HeardOf(p)' = IF p \in Unheard(d) THEN "lost" ELSE HeardOf(p)
    <3> TAKE p \in Prompts
    <3>1. CASE p \in Unheard(d)
      <4>1. ask'[p] = "late"
        BY <1>4, <3>1 DEF VetoTimesOut, Unheard
      <4> QED BY <3>1, <4>1 DEF HeardOf
    <3>2. CASE p \in Pending(d) /\ p \notin Unheard(d)
      <4>1. ask'[p] = result[p] /\ result[p] \in {"yes", "no"} /\ ask[p] = "open"
        BY <1>4, <3>2 DEF VetoTimesOut, Unheard, Pending, TypeOK
      <4> QED BY <3>2, <4>1 DEF HeardOf
    <3>3. CASE p \notin Pending(d)
      <4>1. ask'[p] = ask[p] /\ p \notin Unheard(d)
        BY <1>4, <3>3 DEF VetoTimesOut, Unheard
      <4> QED BY <1>1, <4>1, SameHeard
    <3> QED BY <3>1, <3>2, <3>3
  <2>2. \A p \in Prompts : p \in Unheard(d) <=> (p[1] = d /\ HeardOf(p) = "asked")
    BY <1>3, <1>4 DEF VetoTimesOut, Unheard, Pending, Of, HeardOf
  <2>3. h' = given
    BY <2>1, <2>2
  <2>4. \E p \in Prompts : p[1] = d /\ HeardOf(p) = "asked"
    BY <1>4, <2>2 DEF VetoTimesOut, Unheard, Pending, Of
  <2>5. Promise!MayRefuse(given, d)
    BY <1>1, <2>4 DEF Promise!MayRefuse, Promise!Is
  <2>6. \A q \in Requests : OutcomeOf(q)' = IF q = d THEN "refused" ELSE OutcomeOf(q)
    <3>1. phase'[d] = "timeout" /\ \A q \in Requests \ {d} : phase'[q] = phase[q]
      BY <1>1, <1>4, GoesTypes DEF VetoTimesOut, Phase
    <3>2. OutcomeOf(d)' = "refused"
      BY <3>1 DEF OutcomeOf
    <3> QED BY <3>1, <3>2, SameOutcome
  <2>7. Promise!GivenUp(d) = given
    BY DEF Promise!GivenUp
  <2>8. [r \in Requests |-> OutcomeOf(r)]' = [[r \in Requests |-> OutcomeOf(r)] EXCEPT ![d] = "refused"]
    BY <2>6
  <2> HIDE DEF h, given
  <2> QED BY <1>1, <2>3, <2>5, <2>7, <2>8 DEF Promise!Decide, h
<1>5. CASE VetoDecides(d)
  <2>1. \A p \in Pending(d) : result[p] \in {"yes", "no"} /\ ask[p] = "open" /\ ask'[p] = result[p]
    BY <1>5 DEF VetoDecides, Unheard, Pending, Of, TypeOK
  <2>2. \A p \in Prompts : HeardOf(p)' = HeardOf(p)
    <3> TAKE p \in Prompts
    <3>1. CASE p \in Pending(d)
      BY <2>1, <3>1 DEF HeardOf
    <3>2. CASE p \notin Pending(d)
      <4>1. ask'[p] = ask[p]
        BY <1>5, <3>2 DEF VetoDecides
      <4> QED BY <1>1, <4>1, SameHeard
    <3> QED BY <3>1, <3>2
  <2>3. CASE Goes(d, "vetoed") /\ \E p \in Pending(d) : result[p] = "no"
    <3>1. \E p \in Prompts : p[1] = d /\ HeardOf(p) = "no"
      BY <2>1, <2>3 DEF Pending, Of, HeardOf
    <3> QED BY <1>1, <2>2, <2>3, <3>1, Deciding DEF Phase
  <2>4. CASE Goes(d, "archived") /\ ~\E p \in Pending(d) : result[p] = "no"
    <3>1. \A p \in Prompts : p[1] = d => HeardOf(p) # "asked"
      BY <1>3, <1>5 DEF VetoDecides
    <3>2. \A p \in Prompts : p[1] = d => ask[p] \notin {"yes", "no", "late"}
      BY <1>1 DEF GateInv, VerdictsAtTheEnd
    <3>3. \A p \in Prompts : p[1] = d => HeardOf(p) \notin {"no", "lost"}
      BY <2>4, <3>2 DEF HeardOf, Pending, Of, TypeOK
    <3> QED BY <1>1, <2>2, <2>4, <3>1, <3>3, Deciding DEF Phase
  <2> QED BY <1>5, <2>3, <2>4 DEF VetoDecides, Archives
<1> QED BY <1>2, <1>4, <1>5

\* The rest happens behind the interceptor's back.
LEMMA RestUnseen ==
  ASSUME \/ \E p \in Prompts : Answer(p) \/ Take(p)
         \/ \E a \in Gates : Edit(a)
         \/ WorkerStep
         \/ UNCHANGED vars
  PROVE  UNCHANGED Promise!vars
<1>1. UNCHANGED <<phase, ask, result>>
  BY DEF Answer, Take, Edit, WorkerStep, WorkerTakes, WorkerFires, WorkerDone, vars, futures
<1> QED BY <1>1, SameHeard, SameOutcome, Unseen

LEMMA SkipUnseen ==
  ASSUME TypeOK, NEW p \in Prompts, Skip(p)
  PROVE  UNCHANGED Promise!vars
<1>1. /\ UNCHANGED <<phase, result>> /\ ask[p] = "loaded" /\ ask'[p] = "skipped"
      /\ \A q \in Prompts \ {p} : ask'[q] = ask[q]
  BY BecomesTypes DEF Skip, Asking, futures
<1>2. HeardOf(p)' = HeardOf(p)
  BY <1>1 DEF HeardOf
<1> QED BY <1>1, <1>2, SameHeard, SameOutcome, Unseen

LEMMA StepRefines ==
  ASSUME TypeOK, GateInv, [Next]_vars
  PROVE  [Promise!Next]_(Promise!vars)
<1>1. ASSUME NEW s \in Sends, Admit(s) \/ SendStep(s)
      PROVE  Promise!Next \/ UNCHANGED Promise!vars
  BY <1>1, SendRefines DEF SendStep, Requests, Promise!Next
<1>2. ASSUME NEW d \in Deletes, Delete(d) \/ DeleteStep(d)
      PROVE  Promise!Next \/ UNCHANGED Promise!vars
  BY <1>2, DeleteRefines, VetoRefines DEF DeleteStep, Requests, Promise!Next
<1>3. ASSUME NEW p \in Prompts, PromptStep(p) \/ Answer(p) \/ Take(p) \/ Resolve(p)
      PROVE  Promise!Next \/ UNCHANGED Promise!vars
  BY <1>3, SkipUnseen, PublishRefines, AnswersRefine, RestUnseen DEF PromptStep, Promise!Next
<1> QED BY <1>1, <1>2, <1>3, RestUnseen DEF Next

LEMMA InitRefines ==
  ASSUME Init
  PROVE  Promise!Init
<1>1. \A p \in Prompts : HeardOf(p) = "unasked"
  BY DEF Init, HeardOf
<1>2. \A r \in Requests : OutcomeOf(r) = "open"
  BY DEF Init, OutcomeOf
<1> QED BY <1>1, <1>2 DEF Promise!Init

\* The gate and the veto implement an interceptor: every step of the two
\* threads and of the timers is a step of Interception or hidden from it.
THEOREM Intercepts == Spec => ImplementsInterception
<1>1. Init => Promise!Init
  BY InitRefines
<1>2. TypeOK /\ GateInv /\ [Next]_vars => [Promise!Next]_(Promise!vars)
  BY StepRefines
<1> QED BY <1>1, <1>2, InvHolds, TypeCorrect, PTL DEF Spec, ImplementsInterception, Promise!Spec

=============================================================================
