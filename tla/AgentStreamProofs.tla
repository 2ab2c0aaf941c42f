-------------------------- MODULE AgentStreamProofs --------------------------
(***************************************************************************)
(* Theorems about AgentStream, for every number of prompts, turns and      *)
(* threads: types, that a reply shown as killed died with its agent, that  *)
(* a prompt is not run twice at a time, that the replies only move         *)
(* forward, and that the stale-stream check closes no turn that still runs.*)
(***************************************************************************)
EXTENDS AgentStream, TLAPS

LEMMA LastsTypes ==
  ASSUME NEW S, NEW s \in Seq(S), NEW n \in Nat, Len(s) <= n + 1
  PROVE  Lasts(s, n) \in Seq(S) /\ Len(Lasts(s, n)) <= n
  BY DEF Lasts

LEMMA LastsSeq ==
  ASSUME NEW S, NEW s \in Seq(S), NEW n \in Nat
  PROVE  Lasts(s, n) \in Seq(S)
<1>1. CASE Len(s) > n
  BY <1>1 DEF Lasts
<1>2. CASE ~ (Len(s) > n)
  BY <1>2 DEF Lasts
<1> QED BY <1>1, <1>2

LEMMA RememberTypes ==
  ASSUME TypeOK, NEW p \in Prompt
  PROVE  Remember(p) \in Seq(Prompt) /\ Len(Remember(p)) <= SeenLimit
<1>1. /\ Append(seen, p) \in Seq(Prompt) /\ Len(Append(seen, p)) <= SeenLimit + 1
      /\ SeenLimit \in Nat
  BY StreamAssumption DEF TypeOK
<1> QED BY <1>1, LastsTypes DEF Remember

LEMMA SendTypes ==
  ASSUME TypeOK, NEW t \in Turn, NEW m \in Wire, Send(t, m)
  PROVE  wire' \in [Turn -> Seq(Wire)]
  BY DEF TypeOK, Send

LEMMA SendAllTypes ==
  ASSUME TypeOK, NEW T, NEW m \in Wire, SendAll(T, m)
  PROVE  wire' \in [Turn -> Seq(Wire)]
<1>1. \A t \in Turn : wire[t] \in Seq(Wire) /\ Append(wire[t], m) \in Seq(Wire)
  BY DEF TypeOK
<1> QED BY <1>1 DEF SendAll

LEMMA GoesTypes ==
  ASSUME TypeOK, NEW t \in Turn, NEW phase \in Phase, Goes(t, phase)
  PROVE  turn' \in [Turn -> TurnRecord]
  BY DEF TypeOK, Goes, TurnRecord

LEMMA ReceivePromptTypes ==
  ASSUME TypeOK, NEW p \in Prompt, ReceivePrompt(p)
  PROVE  /\ seen' \in Seq(Prompt) /\ Len(seen') <= SeenLimit
         /\ pool' \in Seq(Turn)
         /\ turn' \in [Turn -> TurnRecord]
<1>1. CASE UNCHANGED <<seen, pool, turn>>
  BY <1>1 DEF TypeOK
<1>2. ASSUME NEW t \in Turn, seen' = Remember(p), pool' = Append(pool, t),
             turn' = [turn EXCEPT ![t].phase = "queued", ![t].prompt = p]
      PROVE  /\ seen' \in Seq(Prompt) /\ Len(seen') <= SeenLimit
             /\ pool' \in Seq(Turn)
             /\ turn' \in [Turn -> TurnRecord]
  <2>1. turn' \in [Turn -> TurnRecord]
    BY <1>2 DEF TypeOK, TurnRecord, Phase
  <2>2. pool' \in Seq(Turn)
    BY <1>2 DEF TypeOK
  <2> QED BY <1>2, <2>1, <2>2, RememberTypes
<1> QED BY <1>1, <1>2 DEF ReceivePrompt, InPhase

LEMMA IntakeTyped ==
  ASSUME TypeOK, NEW p \in Prompt, Deliver(p) \/ Redeliver(p)
  PROVE  TypeOK'
<1>1. /\ seen' \in Seq(Prompt) /\ Len(seen') <= SeenLimit
      /\ pool' \in Seq(Turn) /\ turn' \in [Turn -> TurnRecord]
  BY ReceivePromptTypes DEF Deliver, Redeliver
<1>2. delivered' \subseteq Prompt /\ recent' \in Seq(Prompt) /\ spent' \subseteq Fault
  <2>1. CASE Deliver(p)
    <3>1. Append(recent, p) \in Seq(Prompt) /\ Window \in Nat
      BY StreamAssumption DEF TypeOK
    <3> QED BY <2>1, <3>1, LastsSeq DEF Deliver, TypeOK
  <2>2. CASE Redeliver(p)
    BY <2>2 DEF Redeliver, Spend, Fault, TypeOK
  <2> QED BY <2>1, <2>2
<1> QED BY <1>1, <1>2 DEF Deliver, Redeliver, ReceivePrompt, TypeOK, masterVars

LEMMA PingTyped ==
  ASSUME TypeOK, NEW t \in Turn, AnswerPing(t)
  PROVE  TypeOK'
<1>1. wire' \in [Turn -> Seq(Wire)]
  BY SendTypes DEF AnswerPing, Wire
<1> QED BY <1>1 DEF AnswerPing, TypeOK, agentVars, masterVars

\* The workers leave the rest of the state alone.
LEMMA OutsideTyped ==
  ASSUME TypeOK, UNCHANGED outside,
         pool' \in Seq(Turn), turn' \in [Turn -> TurnRecord], active' \subseteq Turn,
         persisted' \subseteq Turn, wire' \in [Turn -> Seq(Wire)], spent' \subseteq Fault
  PROVE  TypeOK'
  BY DEF TypeOK, outside, masterVars

LEMMA WorkTyped ==
  ASSUME TypeOK, NEW t \in Turn, Work(t) \/ Chunk(t) \/ RetryAsNew(t) \/ Abort(t)
  PROVE  TypeOK'
<1> USE DEF TypeOK
<1>1. CASE Register(t)
  BY <1>1, GoesTypes, OutsideTyped DEF Register, Phase
<1>2. CASE Exit(t)
  BY <1>2, GoesTypes, OutsideTyped DEF Exit, ActiveAfterExit, Phase
<1>3. CASE Respond(t)
  BY <1>3, GoesTypes, SendTypes, OutsideTyped DEF Respond, Phase, Wire
<1>4. CASE Finish(t)
  BY <1>4, GoesTypes, OutsideTyped DEF Finish, Phase
<1>5. CASE Chunk(t)
  BY <1>5, SendTypes, OutsideTyped DEF Chunk, Wire
<1>6. CASE RetryAsNew(t)
  <2>1. turn' \in [Turn -> TurnRecord]
    BY <1>6 DEF RetryAsNew, TurnRecord, Phase
  <2> QED BY <1>6, <2>1, SendTypes, OutsideTyped DEF RetryAsNew, ActiveAfterExit, Wire
<1>7. CASE Abort(t)
  BY <1>7, GoesTypes, OutsideTyped DEF Abort, Spend, Fault, Phase
<1> QED BY <1>1, <1>2, <1>3, <1>4, <1>5, <1>6, <1>7 DEF Work

LEMMA BeginGoes ==
  ASSUME TypeOK, Begin
  PROVE  /\ Head(pool) \in Turn /\ pool' = Tail(pool) /\ pool' \in Seq(Turn)
         /\ pool # << >> /\ pool \in Seq(Turn)
         /\ Goes(Head(pool), "done") \/ Goes(Head(pool), "spawned")
<1>1. pool \in Seq(Turn) /\ pool # << >>
  BY DEF Begin, TypeOK
<1>2. Head(pool) \in Turn /\ Tail(pool) \in Seq(Turn)
  BY <1>1
<1>3. Goes(Head(pool), "done") \/ Goes(Head(pool), "spawned")
  BY DEF Begin
<1> QED BY <1>1, <1>2, <1>3 DEF Begin

LEMMA BeginTyped ==
  ASSUME TypeOK, Begin
  PROVE  TypeOK'
<1>1. turn' \in [Turn -> TurnRecord]
  BY BeginGoes, GoesTypes DEF Phase
<1>2. UNCHANGED <<outside, active, persisted, wire, spent>>
  BY DEF Begin
<1> QED BY <1>1, <1>2, BeginGoes, OutsideTyped DEF TypeOK

LEMMA ContainerTyped ==
  ASSUME TypeOK,
         Sigterm \/ SigtermInsideLock \/ Kill \/ StopEnds \/ Boot \/ Connect
  PROVE  TypeOK'
<1>1. CASE Sigterm
  <2>1. wire' \in [Turn -> Seq(Wire)]
    BY <1>1, SendAllTypes DEF Sigterm, Wire, Interruption
  <2> QED BY <1>1, <2>1 DEF Sigterm, Spend, Fault, AgentState, TypeOK, masterVars
<1>2. CASE SigtermInsideLock
  BY <1>2 DEF SigtermInsideLock, Spend, Fault, AgentState, TypeOK, masterVars
<1>3. CASE Kill \/ StopEnds
  <2>1. Die /\ spent' \subseteq Fault
    BY <1>3 DEF Kill, StopEnds, Spend, Fault, TypeOK
  <2>2. \A t \in Turn : [turn[t] EXCEPT !.phase = "lost"] \in TurnRecord
    BY DEF TypeOK, TurnRecord, Phase
  <2>3. turn' \in [Turn -> TurnRecord]
    BY <2>1, <2>2 DEF Die, TypeOK
  <2>4. seen' \in Seq(Prompt) /\ Len(seen') <= SeenLimit /\ pool' \in Seq(Turn)
    BY <2>1, StreamAssumption DEF Die
  <2> QED BY <2>1, <2>3, <2>4 DEF Die, AgentState, TypeOK, masterVars
<1>4. CASE Boot
  BY <1>4 DEF Boot, AgentState, TypeOK, masterVars
<1>5. CASE Connect
  <2>1. wire' \in [Turn -> Seq(Wire)] /\ persisted' \subseteq Turn
    BY <1>5, SendAllTypes DEF Connect, Wire, Interruption, TypeOK
  <2> QED BY <1>5, <2>1 DEF Connect, AgentState, TypeOK, masterVars
<1> QED BY <1>1, <1>2, <1>3, <1>4, <1>5

LEMMA InterruptedTypes ==
  ASSUME NEW t, NEW reason \in Reason
  PROVE  Interrupted(t, reason) \in Row
  BY DEF Interrupted, Row

LEMMA HandleTypes ==
  ASSUME TypeOK, NEW t \in Turn, NEW m \in Wire, Handle(t, m)
  PROVE  /\ chunks' \subseteq Turn
         /\ row' \in [Turn -> Row]
         /\ check' \in Check
<1>1. CASE SaveChunk(t)
  BY <1>1 DEF SaveChunk, TypeOK
<1>2. ASSUME NEW new \in Row, SaveResponse(t, new)
      PROVE  chunks' \subseteq Turn /\ row' \in [Turn -> Row] /\ check' \in Check
  BY <1>2 DEF SaveResponse, TypeOK
<1>3. CASE TakePong(t, m)
  BY <1>3 DEF TakePong, Skip, Check, Reason, Nobody, TypeOK
<1>4. Answered \in Row
  BY DEF Answered, Row, Reason
<1>5. \A reason \in Interruption : Interrupted(t, reason) \in Row
  BY InterruptedTypes DEF Reason
<1>6. CASE DiscardChunks(t)
  BY <1>6 DEF DiscardChunks, TypeOK
<1> QED BY <1>1, <1>2, <1>3, <1>4, <1>5, <1>6 DEF Handle

LEMMA ReceiveTyped ==
  ASSUME TypeOK, NEW t \in Turn, Receive(t) \/ ReceiveAndAgain(t)
  PROVE  TypeOK'
<1>1. wire[t] \in Seq(Wire) /\ Head(wire[t]) \in Wire /\ Tail(wire[t]) \in Seq(Wire)
  BY DEF Receive, ReceiveAndAgain, TypeOK
<1>2. chunks' \subseteq Turn /\ row' \in [Turn -> Row] /\ check' \in Check
  BY <1>1, HandleTypes DEF Receive, ReceiveAndAgain
<1>3. wire' \in [Turn -> Seq(Wire)]
  <2>1. Append(Tail(wire[t]), Head(wire[t])) \in Seq(Wire)
    BY <1>1
  <2> QED BY <1>1, <2>1 DEF Receive, ReceiveAndAgain, TypeOK
<1> QED BY <1>2, <1>3 DEF Receive, ReceiveAndAgain, Spend, Fault, TypeOK, agentVars

LEMMA StaleTyped ==
  ASSUME TypeOK, Stale \/ MasterCrash
  PROVE  TypeOK'
<1>1. CASE Scan
  BY <1>1 DEF Scan, Orphaned, Check, TypeOK, agentVars
<1>2. ASSUME NEW t \in Turn, Inspect(t) PROVE TypeOK'
  BY <1>2 DEF Inspect, Spend, Fault, Check, Reason, TypeOK, agentVars
<1>3. CASE PingTimeout
  BY <1>3 DEF PingTimeout, Spend, Fault, Check, Reason, TypeOK, agentVars
<1>4. CASE Close
  <2>1. row' \in [Turn -> Row]
    BY <1>4, InterruptedTypes DEF Close, Check, TypeOK
  <2>2. check' \in Check
    BY <1>4 DEF Close, Skip, Check, Reason, Nobody, TypeOK
  <2> QED BY <1>4, <2>1, <2>2 DEF Close, TypeOK, agentVars
<1>5. CASE MasterCrash
  BY <1>5 DEF MasterCrash, Spend, Fault, Idle, Check, Reason, Nobody, TypeOK, agentVars
<1> QED BY <1>1, <1>2, <1>3, <1>4, <1>5 DEF Stale

LEMMA InitTyped ==
  ASSUME Init
  PROVE  TypeOK
<1>1. turn \in [Turn -> TurnRecord] /\ row \in [Turn -> Row] /\ check \in Check
  BY DEF Init, Unused, TurnRecord, Phase, NoRow, Row, Idle, Check, Reason, Nobody
<1>2. seen \in Seq(Prompt) /\ Len(seen) <= SeenLimit /\ pool \in Seq(Turn) /\ recent \in Seq(Prompt)
  BY StreamAssumption DEF Init
<1>3. wire \in [Turn -> Seq(Wire)] /\ payload \in [Prompt -> Payload]
  BY StreamAssumption DEF Init
<1> QED BY <1>1, <1>2, <1>3 DEF Init, AgentState, TypeOK

\* Every reachable state is well formed: the agent and its turns, what is on
\* the wire, the master's check, the reply rows; the memory of prompts seen
\* is never longer than its limit.
THEOREM TypeCorrect == Spec => []TypeOK
<1>1. TypeOK /\ Next => TypeOK'
  BY IntakeTyped, PingTyped, BeginTyped, WorkTyped, ContainerTyped, ReceiveTyped, StaleTyped
     DEF Next
<1>2. TypeOK /\ UNCHANGED vars => TypeOK'
  BY DEF TypeOK, vars, agentVars, masterVars
<1> QED BY <1>1, <1>2, InitTyped, PTL DEF Spec

-----------------------------------------------------------------------------
(* Who is alive, and what active_procs.json may name *)

\* Turns whose CLI has been started, and turns that died under it.
Begun == InPhase("lost") \cup {t \in Turn : turn[t].phase \in Working}

\* Each submitted turn waits, once, for a worker.
PoolWaits ==
  \A i, j \in 1 .. Len(pool) :
    /\ turn[pool[i]].phase = "queued"
    /\ pool[i] = pool[j] => i = j

\* A process that has not connected runs no turn, and only one that has not
\* connected has yet to report what it inherited.
FreshIsIdle ==
  /\ agent \in {"down", "booting"} => \A t \in Turn : turn[t].phase \notin Alive
  /\ ~ inherited => agent \in {"down", "booting"}

\* Only turns that were begun are registered, in memory or in the file.
RegisteredIsBegun == active \cup persisted \subseteq Begun

AgentInv ==
  /\ PoolWaits
  /\ FreshIsIdle
  /\ RegisteredIsBegun
  /\ KilledMeansLost

\* A turn that is lost stays lost.
LostStays == \A t \in Turn : turn[t].phase = "lost" => turn'[t].phase = "lost"

\* A step that adds no report of a killed turn, and forgets none that is lost.
LEMMA NoNewReport ==
  ASSUME KilledMeansLost, LostStays,
         \A t \in Turn :
           \/ ~ In("agent-killed", wire'[t])
           \/ In("agent-killed", wire[t]),
         \A t \in Turn : row'[t].reason = "agent-killed" =>
           row[t].reason = "agent-killed" \/ In("agent-killed", wire[t])
  PROVE  KilledMeansLost'
  BY DEF KilledMeansLost, LostStays, In

LEMMA InAppend ==
  ASSUME NEW S, NEW s \in Seq(S), NEW m \in S, NEW x, In(x, Append(s, m))
  PROVE  In(x, s) \/ x = m
<1>1. PICK i \in 1 .. Len(Append(s, m)) : Append(s, m)[i] = x
  BY DEF In
<1>2. CASE i = Len(s) + 1
  BY <1>1, <1>2
<1>3. CASE i # Len(s) + 1
  <2>1. i \in 1 .. Len(s) /\ s[i] = x
    BY <1>1, <1>3
  <2> QED BY <2>1 DEF In
<1> QED BY <1>2, <1>3

LEMMA InTail ==
  ASSUME NEW S, NEW s \in Seq(S), s # << >>, NEW x, In(x, Tail(s))
  PROVE  In(x, s)
<1>1. PICK i \in 1 .. Len(Tail(s)) : Tail(s)[i] = x
  BY DEF In
<1>2. i + 1 \in 1 .. Len(s) /\ s[i + 1] = x
  BY <1>1
<1> QED BY <1>2 DEF In

LEMMA InHead ==
  ASSUME NEW S, NEW s \in Seq(S), s # << >>
  PROVE  In(Head(s), s)
<1>1. 1 \in 1 .. Len(s) /\ s[1] = Head(s)
  OBVIOUS
<1> QED BY <1>1 DEF In

\* No report of a killed turn appears by sending something else.
LEMMA NoReport ==
  ASSUME NEW s \in Seq(Wire), NEW m \in Wire \ {"agent-killed"}, In("agent-killed", Append(s, m))
  PROVE  In("agent-killed", s)
  BY InAppend

LEMMA NoReportSent ==
  ASSUME TypeOK, NEW T, NEW m \in Wire \ {"agent-killed"},
         Send(T, m) \/ SendAll(T, m)
  PROVE  \A u \in Turn : ~ In("agent-killed", wire'[u]) \/ In("agent-killed", wire[u])
<1> TAKE u \in Turn
<1>1. wire[u] \in Seq(Wire)
  BY DEF TypeOK
<1>2. CASE wire'[u] = wire[u]
  BY <1>2
<1>3. CASE wire'[u] = Append(wire[u], m)
  BY <1>1, <1>3, NoReport
<1>4. wire'[u] = wire[u] \/ wire'[u] = Append(wire[u], m)
  BY DEF Send, SendAll, TypeOK
<1> QED BY <1>2, <1>3, <1>4

LEMMA IntakeInv ==
  ASSUME TypeOK, AgentInv, NEW p \in Prompt, Deliver(p) \/ Redeliver(p)
  PROVE  AgentInv'
<1>1. /\ agent = "up" /\ ReceivePrompt(p)
      /\ UNCHANGED <<agent, active, persisted, inherited, wire, row>>
  BY DEF Deliver, Redeliver, ReceivePrompt, masterVars
<1>2. CASE UNCHANGED <<pool, turn>>
  <2>1. LostStays
    BY <1>2 DEF LostStays, AgentInv
  <2>2. PoolWaits' /\ FreshIsIdle' /\ RegisteredIsBegun'
    BY <1>1, <1>2 DEF AgentInv, PoolWaits, FreshIsIdle, RegisteredIsBegun, Begun, InPhase
  <2> QED BY <1>1, <2>1, <2>2, NoNewReport DEF AgentInv
<1>3. ASSUME NEW t \in Turn, turn[t].phase = "unused", pool' = Append(pool, t),
             turn' = [turn EXCEPT ![t].phase = "queued", ![t].prompt = p]
      PROVE  AgentInv'
  <2>1. /\ turn'[t].phase = "queued"
        /\ \A u \in Turn \ {t} : turn'[u] = turn[u]
    BY <1>3 DEF TypeOK, TurnRecord
  <2>2. LostStays
    BY <1>3, <2>1 DEF LostStays
  <2>3. PoolWaits'
    <3>1. pool \in Seq(Turn) /\ Len(pool') = Len(pool) + 1 /\ pool'[Len(pool')] = t
      BY <1>3 DEF TypeOK
    <3>2. \A i \in 1 .. Len(pool) : /\ pool'[i] = pool[i] /\ pool[i] \in Turn
                                    /\ pool[i] # t
      BY <1>3, <3>1 DEF AgentInv, PoolWaits
    <3> SUFFICES ASSUME NEW i \in 1 .. Len(pool'), NEW j \in 1 .. Len(pool')
                 PROVE  turn'[pool'[i]].phase = "queued" /\ (pool'[i] = pool'[j] => i = j)
      BY DEF PoolWaits
    <3>3. \A k \in 1 .. Len(pool') : k = Len(pool') \/ k \in 1 .. Len(pool)
      BY <3>1
    <3>4. turn'[pool'[i]].phase = "queued"
      BY <2>1, <3>1, <3>2, <3>3 DEF AgentInv, PoolWaits
    <3>5. pool'[i] = pool'[j] => i = j
      BY <3>1, <3>2, <3>3 DEF AgentInv, PoolWaits
    <3> QED BY <3>4, <3>5
  <2>4. FreshIsIdle'
    BY <1>1 DEF AgentInv, FreshIsIdle
  <2>5. RegisteredIsBegun'
    BY <1>1, <1>3, <2>1 DEF AgentInv, RegisteredIsBegun, Begun, InPhase, Working
  <2> QED BY <1>1, <2>2, <2>3, <2>4, <2>5, NoNewReport DEF AgentInv
<1> QED BY <1>1, <1>2, <1>3 DEF ReceivePrompt, InPhase

LEMMA WorkInv ==
  ASSUME TypeOK, AgentInv, NEW t \in Turn,
         Work(t) \/ Chunk(t) \/ RetryAsNew(t) \/ Abort(t)
  PROVE  AgentInv'
<1>1. /\ turn[t].phase \in Working
      /\ turn'[t].phase \in Working \cup {"done"}
      /\ turn'[t].phase = "done" => t \notin active' /\ t \notin persisted'
      /\ \A u \in Turn \ {t} : turn'[u] = turn[u]
  BY DEF Work, Register, Exit, Respond, Finish, Chunk, RetryAsNew, Abort, Goes, Working,
         TypeOK, TurnRecord
<1>2. /\ active' \subseteq active \cup {t}
      /\ persisted' \subseteq active' \cup persisted
      /\ UNCHANGED <<agent, inherited, pool, row>>
  BY DEF Work, Register, Exit, Respond, Finish, Chunk, RetryAsNew, Abort, ActiveAfterExit,
         outside, masterVars
<1>3. \A u \in Turn : ~ In("agent-killed", wire'[u]) \/ In("agent-killed", wire[u])
  <2>1. {"chunk", "answer"} \subseteq Wire \ {"agent-killed"}
    BY DEF Wire
  <2>2. CASE Send(t, "chunk") \/ Send(t, "answer")
    BY <2>1, <2>2, NoReportSent
  <2>3. CASE UNCHANGED wire
    BY <2>3
  <2> QED BY <2>2, <2>3 DEF Work, Register, Exit, Respond, Finish, Chunk, RetryAsNew, Abort
<1>4. LostStays
  BY <1>1 DEF LostStays, Working
<1>5. PoolWaits'
  <2>1. \A i \in 1 .. Len(pool) : pool[i] \in Turn
    BY DEF TypeOK
  <2>2. \A i \in 1 .. Len(pool) : pool[i] # t
    BY <1>1 DEF AgentInv, PoolWaits, Working
  <2> QED BY <1>1, <1>2, <2>1, <2>2 DEF AgentInv, PoolWaits
<1>6. FreshIsIdle'
  BY <1>1, <1>2 DEF AgentInv, FreshIsIdle, Working, Alive
<1>7. RegisteredIsBegun'
  BY <1>1, <1>2 DEF AgentInv, RegisteredIsBegun, Begun, InPhase, TypeOK
<1> QED BY <1>2, <1>3, <1>4, <1>5, <1>6, <1>7, NoNewReport DEF AgentInv

LEMMA BeginInv ==
  ASSUME TypeOK, AgentInv, Begin
  PROVE  AgentInv'
<1> DEFINE t == Head(pool)
<1>1. /\ t \in Turn /\ pool \in Seq(Turn) /\ pool # << >> /\ pool' = Tail(pool)
      /\ t = pool[1] /\ turn[t].phase = "queued"
  BY BeginGoes DEF AgentInv, PoolWaits
<1>2. /\ turn'[t].phase \in {"done", "spawned"}
      /\ \A u \in Turn \ {t} : turn'[u] = turn[u]
  BY BeginGoes DEF Goes, TypeOK, TurnRecord
<1>3. /\ agent \notin {"down", "booting"}
      /\ UNCHANGED <<agent, inherited, active, persisted, wire, row>>
  BY DEF Begin, WorkerRuns, outside, masterVars
<1>4. LostStays
  BY <1>1, <1>2 DEF LostStays
<1>5. PoolWaits'
  <2>1. \A i \in 1 .. Len(pool') : /\ i + 1 \in 1 .. Len(pool) /\ pool'[i] = pool[i + 1]
                                   /\ pool'[i] \in Turn /\ pool'[i] # t
    BY <1>1 DEF AgentInv, PoolWaits
  <2> QED BY <1>2, <2>1 DEF AgentInv, PoolWaits
<1>6. FreshIsIdle'
  BY <1>3 DEF AgentInv, FreshIsIdle
<1>7. RegisteredIsBegun'
  BY <1>1, <1>2, <1>3 DEF AgentInv, RegisteredIsBegun, Begun, InPhase, Working, TypeOK
<1> QED BY <1>3, <1>4, <1>5, <1>6, <1>7, NoNewReport DEF AgentInv

LEMMA PingInv ==
  ASSUME TypeOK, AgentInv, NEW t \in Turn, AnswerPing(t)
  PROVE  AgentInv'
<1>1. UNCHANGED <<agent, inherited, pool, turn, active, persisted, row>>
  BY DEF AnswerPing, agentVars, masterVars
<1>2. \A u \in Turn : ~ In("agent-killed", wire'[u]) \/ In("agent-killed", wire[u])
  <2>1. {"alive", "dead"} \subseteq Wire \ {"agent-killed"}
    BY DEF Wire
  <2>2. Send(t, "alive") \/ Send(t, "dead")
    BY DEF AnswerPing
  <2> QED BY <2>1, <2>2, NoReportSent
<1>3. PoolWaits' /\ FreshIsIdle' /\ RegisteredIsBegun' /\ LostStays
  BY <1>1 DEF AgentInv, PoolWaits, FreshIsIdle, RegisteredIsBegun, Begun, InPhase, LostStays
<1> QED BY <1>1, <1>2, <1>3, NoNewReport DEF AgentInv

LEMMA ContainerInv ==
  ASSUME TypeOK, AgentInv, Sigterm \/ SigtermInsideLock \/ Boot \/ Connect
  PROVE  AgentInv'
<1>1. UNCHANGED <<pool, turn, active, row>> /\ persisted' \subseteq persisted
  BY DEF Sigterm, SigtermInsideLock, Boot, Connect, masterVars
<1>2. PoolWaits' /\ RegisteredIsBegun' /\ LostStays
  BY <1>1 DEF AgentInv, PoolWaits, RegisteredIsBegun, Begun, InPhase, LostStays
<1>3. FreshIsIdle'
  BY <1>1 DEF AgentInv, FreshIsIdle, Sigterm, SigtermInsideLock, Boot, Connect
<1>4. KilledMeansLost'
  <2>1. CASE \A u \in Turn : ~ In("agent-killed", wire'[u]) \/ In("agent-killed", wire[u])
    BY <1>1, <1>2, <2>1, NoNewReport DEF AgentInv
  <2>2. CASE Sigterm
    <3>1. "agent-shutdown" \in Wire \ {"agent-killed"} /\ SendAll(active, "agent-shutdown")
      BY <2>2 DEF Wire, Interruption, Sigterm
    <3> QED BY <2>1, <3>1, NoReportSent
  <2>3. CASE Connect /\ ~ inherited
    <3>1. agent \in {"down", "booting"} /\ SendAll(persisted, "agent-killed")
      BY <2>3 DEF Connect, AgentInv, FreshIsIdle
    <3>2. \A u \in persisted : turn[u].phase = "lost"
      BY <3>1 DEF AgentInv, FreshIsIdle, RegisteredIsBegun, Begun, InPhase, Working, Alive
    <3>3. \A u \in Turn : u \notin persisted => wire'[u] = wire[u]
      BY <3>1 DEF SendAll
    <3> QED BY <1>1, <3>2, <3>3 DEF AgentInv, KilledMeansLost, In
  <2>4. CASE UNCHANGED wire
    BY <2>1, <2>4
  <2> QED BY <2>2, <2>3, <2>4 DEF SigtermInsideLock, Boot, Connect
<1> QED BY <1>2, <1>3, <1>4 DEF AgentInv

LEMMA DieInv ==
  ASSUME TypeOK, AgentInv, Kill \/ StopEnds
  PROVE  AgentInv'
<1>1. Die
  BY DEF Kill, StopEnds
<1>2. \A t \in Turn : turn'[t].phase = IF turn[t].phase \in Alive THEN "lost" ELSE turn[t].phase
  BY <1>1 DEF Die, TypeOK, TurnRecord
<1>3. PoolWaits'
  BY <1>1 DEF Die, PoolWaits
<1>4. FreshIsIdle'
  BY <1>1, <1>2 DEF Die, FreshIsIdle, Alive
<1>5. RegisteredIsBegun'
  BY <1>1, <1>2 DEF Die, AgentInv, RegisteredIsBegun, Begun, InPhase, Working, Alive
<1>6. LostStays /\ UNCHANGED <<wire, row>>
  BY <1>1, <1>2 DEF LostStays, Die, masterVars
<1> QED BY <1>3, <1>4, <1>5, <1>6, NoNewReport DEF AgentInv

\* What the master writes depends on what the agent sent.
LEMMA HandleReports ==
  ASSUME TypeOK, NEW t \in Turn, NEW m \in Wire, Handle(t, m)
  PROVE  \A u \in Turn : row'[u].reason = "agent-killed" =>
           row[u].reason = "agent-killed" \/ (u = t /\ m = "agent-killed")
<1>1. ASSUME NEW new, SaveResponse(t, new),
             new.reason = "agent-killed" => m = "agent-killed"
      PROVE  \A u \in Turn : row'[u].reason = "agent-killed" =>
               row[u].reason = "agent-killed" \/ (u = t /\ m = "agent-killed")
  BY <1>1 DEF SaveResponse, TypeOK
<1>2. UNCHANGED row =>
        \A u \in Turn : row'[u].reason = "agent-killed" => row[u].reason = "agent-killed"
  OBVIOUS
<1> QED BY <1>1, <1>2 DEF Handle, SaveChunk, DiscardChunks, TakePong, Answered, Interrupted

LEMMA ReceiveInv ==
  ASSUME TypeOK, AgentInv, NEW t \in Turn, Receive(t) \/ ReceiveAndAgain(t)
  PROVE  AgentInv'
<1>1. /\ UNCHANGED <<agent, inherited, pool, turn, active, persisted>>
      /\ wire[t] # << >> /\ Handle(t, Head(wire[t]))
      /\ wire[t] \in Seq(Wire)
  BY DEF Receive, ReceiveAndAgain, agentVars, TypeOK
<1>2. /\ Head(wire[t]) \in Wire /\ Tail(wire[t]) \in Seq(Wire)
      /\ In(Head(wire[t]), wire[t])
  BY <1>1, InHead
<1>3. \A u \in Turn : ~ In("agent-killed", wire'[u]) \/ In("agent-killed", wire[u])
  <2> TAKE u \in Turn
  <2>1. CASE u # t
    BY <2>1 DEF Receive, ReceiveAndAgain, TypeOK
  <2>2. CASE u = t
    <3>1. ASSUME In("agent-killed", Tail(wire[t])) PROVE In("agent-killed", wire[t])
      BY <1>1, <3>1, InTail
    <3>2. CASE wire'[t] = Tail(wire[t])
      BY <2>2, <3>1, <3>2
    <3>3. CASE wire'[t] = Append(Tail(wire[t]), Head(wire[t]))
      <4>1. CASE Head(wire[t]) = "agent-killed"
        BY <1>2, <2>2, <4>1
      <4>2. CASE Head(wire[t]) # "agent-killed"
        BY <1>2, <2>2, <3>1, <3>3, <4>2, NoReport
      <4> QED BY <4>1, <4>2
    <3>4. \/ wire'[t] = Tail(wire[t])
          \/ wire'[t] = Append(Tail(wire[t]), Head(wire[t]))
      BY DEF Receive, ReceiveAndAgain, TypeOK
    <3> QED BY <3>2, <3>3, <3>4
  <2> QED BY <2>1, <2>2
<1>4. \A u \in Turn : row'[u].reason = "agent-killed" =>
        row[u].reason = "agent-killed" \/ In("agent-killed", wire[u])
  BY <1>1, <1>2, HandleReports
<1>5. PoolWaits' /\ FreshIsIdle' /\ RegisteredIsBegun' /\ LostStays
  BY <1>1 DEF AgentInv, PoolWaits, FreshIsIdle, RegisteredIsBegun, Begun, InPhase, LostStays
<1> QED BY <1>3, <1>4, <1>5, NoNewReport DEF AgentInv

LEMMA StaleInv ==
  ASSUME TypeOK, AgentInv, check.reason # "agent-killed", Stale \/ MasterCrash
  PROVE  AgentInv'
<1>1. UNCHANGED <<agent, inherited, pool, turn, active, persisted>>
  BY DEF Stale, Scan, Inspect, PingTimeout, Close, MasterCrash, agentVars
<1>2. \A u \in Turn : ~ In("agent-killed", wire'[u]) \/ In("agent-killed", wire[u])
  <2>1. UNCHANGED wire \/ \A u \in Turn : wire'[u] = << >>
    BY DEF Stale, Scan, Inspect, PingTimeout, Close, MasterCrash
  <2>2. ~ In("agent-killed", << >>)
    BY DEF In
  <2> QED BY <2>1, <2>2
<1>3. \A u \in Turn : row'[u].reason = "agent-killed" => row[u].reason = "agent-killed"
  <2>1. CASE Close
    BY <2>1 DEF Close, Interrupted, TypeOK
  <2>2. CASE UNCHANGED row
    BY <2>2
  <2> QED BY <2>1, <2>2 DEF Stale, Scan, Inspect, PingTimeout, MasterCrash
<1>4. PoolWaits' /\ FreshIsIdle' /\ RegisteredIsBegun' /\ LostStays
  BY <1>1 DEF AgentInv, PoolWaits, FreshIsIdle, RegisteredIsBegun, Begun, InPhase, LostStays
<1> QED BY <1>2, <1>3, <1>4, NoNewReport DEF AgentInv

\* The master's check has its own reasons to close a stream.
LEMMA OwnReason ==
  ASSUME TypeOK, check.reason # "agent-killed", [Next]_vars
  PROVE  check'.reason # "agent-killed"
<1>1. UNCHANGED check => check'.reason # "agent-killed"
  OBVIOUS
<1>2. ASSUME NEW t \in Turn, Receive(t) \/ ReceiveAndAgain(t)
      PROVE  check'.reason # "agent-killed"
  <2>1. Handle(t, Head(wire[t]))
    BY <1>2 DEF Receive, ReceiveAndAgain
  <2>2. check \in Check
    BY DEF TypeOK
  <2>3. ASSUME NEW m, TakePong(t, m) PROVE check'.reason # "agent-killed"
    BY <2>2, <2>3 DEF TakePong, Skip, Check
  <2> QED BY <1>1, <2>1, <2>3 DEF Handle, SaveChunk, SaveResponse, DiscardChunks
<1>3. CASE Stale \/ MasterCrash
  <2> USE DEF TypeOK, Check
  <2>1. CASE Scan
    BY <2>1 DEF Scan
  <2>2. ASSUME NEW t \in Turn, Inspect(t) PROVE check'.reason # "agent-killed"
    BY <2>2 DEF Inspect
  <2>3. CASE PingTimeout
    BY <2>3 DEF PingTimeout
  <2>4. CASE Close
    BY <2>4 DEF Close, Skip
  <2>5. CASE MasterCrash
    BY <2>5 DEF MasterCrash, Idle
  <2> QED BY <1>3, <2>1, <2>2, <2>3, <2>4, <2>5 DEF Stale
<1>4. ASSUME NEW p \in Prompt, Deliver(p) \/ Redeliver(p) PROVE UNCHANGED check
  BY <1>4 DEF Deliver, Redeliver, ReceivePrompt, masterVars
<1>5. ASSUME NEW t \in Turn,
             AnswerPing(t) \/ Work(t) \/ Chunk(t) \/ RetryAsNew(t) \/ Abort(t)
      PROVE  UNCHANGED check
  BY <1>5 DEF AnswerPing, Work, Register, Exit, Respond, Finish, Chunk, RetryAsNew, Abort,
              outside, masterVars
<1>6. CASE Begin
  BY <1>6 DEF Begin, outside, masterVars
<1>7. CASE Sigterm \/ SigtermInsideLock \/ Kill \/ StopEnds \/ Boot \/ Connect
  BY <1>7 DEF Sigterm, SigtermInsideLock, Kill, StopEnds, Die, Boot, Connect, masterVars
<1>8. CASE UNCHANGED vars
  BY <1>8 DEF vars, masterVars
<1> QED BY <1>1, <1>2, <1>3, <1>4, <1>5, <1>6, <1>7, <1>8 DEF Next

LEMMA AgentInvHolds == Spec => [](AgentInv /\ check.reason # "agent-killed")
<1> DEFINE IInv == AgentInv /\ check.reason # "agent-killed"
<1>1. Init => IInv
  <2> SUFFICES ASSUME Init PROVE IInv
    OBVIOUS
  <2>1. PoolWaits /\ FreshIsIdle /\ RegisteredIsBegun
    BY DEF Init, PoolWaits, FreshIsIdle, RegisteredIsBegun
  <2>2. KilledMeansLost
    BY DEF Init, KilledMeansLost, NoRow, In
  <2>3. check.reason # "agent-killed"
    BY DEF Init, Idle
  <2> QED BY <2>1, <2>2, <2>3 DEF AgentInv
<1>2. TypeOK /\ IInv /\ [Next]_vars => IInv'
  <2> SUFFICES ASSUME TypeOK, AgentInv, check.reason # "agent-killed", [Next]_vars
               PROVE  AgentInv'
    BY OwnReason
  <2>1. CASE UNCHANGED vars
    BY <2>1, NoNewReport DEF vars, agentVars, masterVars, AgentInv, PoolWaits, FreshIsIdle,
       RegisteredIsBegun, Begun, InPhase, LostStays
  <2>2. CASE Next
    BY <2>2, IntakeInv, PingInv, BeginInv, WorkInv, ContainerInv, DieInv, ReceiveInv, StaleInv
       DEF Next
  <2> QED BY <2>1, <2>2
<1> QED BY <1>1, <1>2, TypeCorrect, PTL DEF Spec

\* A reply is shown as killed only if its turn died with its agent: a
\* reconnect, an old active_procs.json and the master's check do not do it.
THEOREM KilledIsLost == Spec => []KilledMeansLost
<1>1. AgentInv => KilledMeansLost
  BY DEF AgentInv
<1> QED BY <1>1, AgentInvHolds, PTL

-----------------------------------------------------------------------------
(* No prompt is run twice at a time *)

NoneAlive(p) == \A t \in Turn : turn[t].phase \in Alive => turn[t].prompt # p

\* What the agent knows of was delivered.
KnownIsDelivered ==
  /\ \A i \in 1 .. Len(seen) : seen[i] \in delivered
  /\ \A i \in 1 .. Len(recent) : recent[i] \in delivered
  /\ \A t \in Turn : turn[t].phase \in Alive => turn[t].prompt \in delivered

\* Counted from the newest, the prompts seen are those delivered; the agent
\* forgets earlier than the broker only by dying, and then nothing runs.
SeenIsRecent ==
  /\ \A k \in Nat : k < Len(seen) /\ k < Len(recent) =>
       seen[Len(seen) - k] = recent[Len(recent) - k]
  /\ \A k \in Nat : Len(seen) <= k /\ k < Len(recent) =>
       NoneAlive(recent[Len(recent) - k])

OneRunInv ==
  /\ KnownIsDelivered
  /\ "dup" \notin spent => SeenIsRecent
  /\ NoParallelRun
  /\ Len(recent) <= Window

\* All but the intake of prompts.
Aside ==
  /\ UNCHANGED <<delivered, recent>>
  /\ spent \subseteq spent'
  /\ \A t \in Turn : turn'[t].phase \in Alive =>
       turn[t].phase \in Alive /\ turn'[t].prompt = turn[t].prompt
  /\ \/ UNCHANGED seen
     \/ seen' = << >> /\ \A t \in Turn : turn'[t].phase \notin Alive

LEMMA AsideKeeps ==
  ASSUME TypeOK, OneRunInv, Aside
  PROVE  OneRunInv'
<1>1. KnownIsDelivered' /\ NoParallelRun'
  BY DEF Aside, OneRunInv, KnownIsDelivered, NoParallelRun
<1>2. ASSUME "dup" \notin spent' PROVE SeenIsRecent'
  <2>1. SeenIsRecent
    BY <1>2 DEF Aside, OneRunInv
  <2>2. \A p : NoneAlive(p) => NoneAlive(p)'
    BY DEF Aside, NoneAlive
  <2>3. CASE UNCHANGED seen
    BY <2>1, <2>2, <2>3 DEF Aside, SeenIsRecent
  <2>4. CASE seen' = << >> /\ \A t \in Turn : turn'[t].phase \notin Alive
    BY <2>4 DEF SeenIsRecent, NoneAlive
  <2> QED BY <2>3, <2>4 DEF Aside
<1> QED BY <1>1, <1>2 DEF Aside, OneRunInv

LEMMA WorkAside ==
  ASSUME TypeOK, NEW t \in Turn, Work(t) \/ Chunk(t) \/ RetryAsNew(t) \/ Abort(t)
  PROVE  Aside
<1>1. /\ turn[t].phase \in Alive /\ turn'[t].prompt = turn[t].prompt
      /\ \A u \in Turn \ {t} : turn'[u] = turn[u]
  BY DEF Work, Register, Exit, Respond, Finish, Chunk, RetryAsNew, Abort, Goes, Alive,
         TypeOK, TurnRecord
<1>2. UNCHANGED <<delivered, recent, seen>> /\ spent \subseteq spent'
  BY DEF Work, Register, Exit, Respond, Finish, Chunk, RetryAsNew, Abort, Spend, outside
<1> QED BY <1>1, <1>2 DEF Aside

LEMMA BeginAside ==
  ASSUME TypeOK, AgentInv, Begin
  PROVE  Aside
<1> DEFINE t == Head(pool)
<1>1. t \in Turn /\ turn[t].phase \in Alive
  BY BeginGoes DEF AgentInv, PoolWaits, Alive
<1>2. /\ turn'[t].prompt = turn[t].prompt
      /\ \A u \in Turn \ {t} : turn'[u] = turn[u]
  BY BeginGoes DEF Goes, TypeOK, TurnRecord
<1>3. UNCHANGED <<delivered, recent, seen, spent>>
  BY DEF Begin, outside
<1> QED BY <1>1, <1>2, <1>3 DEF Aside

LEMMA OtherAside ==
  ASSUME TypeOK,
         \/ \E t \in Turn : AnswerPing(t) \/ Receive(t) \/ ReceiveAndAgain(t)
         \/ Sigterm \/ SigtermInsideLock \/ Boot \/ Connect
         \/ Kill \/ StopEnds
         \/ Stale \/ MasterCrash
         \/ UNCHANGED vars
  PROVE  Aside
<1>1. CASE Kill \/ StopEnds
  <2>1. Die /\ spent \subseteq spent'
    BY <1>1 DEF Kill, StopEnds, Spend
  <2>2. \A t \in Turn : turn'[t].phase \notin Alive
    BY <2>1 DEF Die, TypeOK, TurnRecord, Alive
  <2> QED BY <2>1, <2>2 DEF Die, Aside
<1>2. ASSUME NEW t \in Turn, AnswerPing(t) \/ Receive(t) \/ ReceiveAndAgain(t)
      PROVE  UNCHANGED <<delivered, recent, seen, turn>> /\ spent \subseteq spent'
  BY <1>2 DEF AnswerPing, Receive, ReceiveAndAgain, Spend, agentVars
<1>3. CASE Sigterm \/ SigtermInsideLock \/ Boot \/ Connect
  BY <1>3 DEF Sigterm, SigtermInsideLock, Boot, Connect, Spend, Aside
<1>4. CASE Stale \/ MasterCrash
  BY <1>4 DEF Stale, Scan, Inspect, PingTimeout, Close, MasterCrash, Spend, agentVars, Aside
<1>5. CASE UNCHANGED vars
  BY <1>5 DEF vars, agentVars, Aside
<1> QED BY <1>1, <1>2, <1>3, <1>4, <1>5 DEF Aside

\* r is s with x pushed, cut to its last n entries, counted from the newest.
Pushed(r, s, x, n, S) ==
  /\ r \in Seq(S)
  /\ Len(r) = IF Len(s) = n THEN n ELSE Len(s) + 1
  /\ \A k \in Nat : k < Len(r) =>
       r[Len(r) - k] = IF k = 0 THEN x ELSE s[Len(s) - (k - 1)]

\* A bounded queue, counted from its newest element.
LEMMA Kept ==
  ASSUME NEW S, NEW s \in Seq(S), NEW x \in S, NEW n \in Nat \ {0}, Len(s) <= n,
         NEW r, r = Lasts(Append(s, x), n)
  PROVE  Pushed(r, s, x, n, S)
<1> DEFINE a == Append(s, x)
<1>1. /\ a \in Seq(S) /\ Len(a) = Len(s) + 1
      /\ \A i \in 1 .. Len(a) : a[i] = IF i = Len(a) THEN x ELSE s[i]
  OBVIOUS
<1>2. /\ r \in Seq(S)
      /\ Len(r) = IF Len(s) = n THEN n ELSE Len(s) + 1
      /\ \A k \in Nat : k < Len(r) => r[Len(r) - k] = a[Len(a) - k]
  <2>1. CASE Len(s) = n
    <3>1. r = Tail(a)
      BY <1>1, <2>1 DEF Lasts
    <3>2. r \in Seq(S) /\ Len(r) = n /\ \A i \in 1 .. Len(r) : r[i] = a[i + 1]
      BY <1>1, <2>1, <3>1
    <3> HIDE DEF a
    <3>3. \A k \in Nat : k < Len(r) => Len(r) - k \in 1 .. Len(r) /\ Len(r) - k + 1 = Len(a) - k
      BY <1>1, <2>1, <3>2
    <3> QED BY <2>1, <3>2, <3>3
  <2>2. CASE Len(s) # n
    <3>1. r = a
      BY <1>1, <2>2 DEF Lasts
    <3> HIDE DEF a
    <3> QED BY <1>1, <2>2, <3>1
  <2> QED BY <2>1, <2>2
<1>3. ASSUME NEW k \in Nat, k < Len(r)
      PROVE  r[Len(r) - k] = IF k = 0 THEN x ELSE s[Len(s) - (k - 1)]
  <2> HIDE DEF a
  <2>1. Len(a) - k \in 1 .. Len(a) /\ (k # 0 => Len(a) - k = Len(s) - (k - 1) /\ Len(a) - k # Len(a))
    BY <1>1, <1>2, <1>3
  <2> QED BY <1>1, <1>2, <1>3, <2>1
<1> QED BY <1>2, <1>3 DEF Pushed

LEMMA InIndex ==
  ASSUME NEW S, NEW s \in Seq(S), NEW i \in 1 .. Len(s)
  PROVE  /\ Len(s) - i \in Nat /\ Len(s) - i < Len(s)
         /\ s[i] = s[Len(s) - (Len(s) - i)]
<1>1. Len(s) - (Len(s) - i) = i
  OBVIOUS
<1> QED BY <1>1

\* A prompt of which no run is alive is run.
LEMMA NewRun ==
  ASSUME TypeOK, NoParallelRun, NEW p \in Prompt, NoneAlive(p), NEW t \in Turn,
         turn' = [turn EXCEPT ![t].phase = "queued", ![t].prompt = p]
  PROVE  /\ NoParallelRun'
         /\ \A u \in Turn : turn'[u].phase \in Alive =>
              turn'[u].prompt = p \/ (turn[u].phase \in Alive /\ turn'[u] = turn[u])
<1>1. /\ turn'[t].prompt = p
      /\ \A u \in Turn \ {t} : turn'[u] = turn[u]
  BY DEF TypeOK, TurnRecord
<1> QED BY <1>1 DEF NoParallelRun, NoneAlive

LEMMA DeliverKeeps ==
  ASSUME TypeOK, OneRunInv, NEW p \in Prompt, Deliver(p)
  PROVE  OneRunInv'
<1>1. /\ p \notin delivered /\ delivered' = delivered \cup {p}
      /\ recent' = Lasts(Append(recent, p), Window) /\ spent' = spent
  BY DEF Deliver
<1>2. ~ In(p, seen) /\ NoneAlive(p)
  BY <1>1 DEF OneRunInv, KnownIsDelivered, In, NoneAlive
<1>3. PICK t \in Turn : /\ seen' = Lasts(Append(seen, p), SeenLimit)
                        /\ turn' = [turn EXCEPT ![t].phase = "queued", ![t].prompt = p]
  BY <1>2 DEF Deliver, ReceivePrompt, InPhase, Remember
<1>4. /\ seen \in Seq(Prompt) /\ recent \in Seq(Prompt)
      /\ SeenLimit \in Nat \ {0} /\ Window \in Nat \ {0} /\ SeenLimit >= Window
      /\ Len(seen) <= SeenLimit /\ Len(recent) <= Window
  BY StreamAssumption DEF TypeOK, OneRunInv
<1>5. /\ seen' \in Seq(Prompt)
      /\ Len(seen') = IF Len(seen) = SeenLimit THEN SeenLimit ELSE Len(seen) + 1
      /\ \A k \in Nat : k < Len(seen') =>
           seen'[Len(seen') - k] = IF k = 0 THEN p ELSE seen[Len(seen) - (k - 1)]
  <2>1. Pushed(seen', seen, p, SeenLimit, Prompt)
    BY <1>3, <1>4, Kept
  <2> QED BY <2>1 DEF Pushed
<1>6. /\ recent' \in Seq(Prompt)
      /\ Len(recent') = IF Len(recent) = Window THEN Window ELSE Len(recent) + 1
      /\ \A k \in Nat : k < Len(recent') =>
           recent'[Len(recent') - k] = IF k = 0 THEN p ELSE recent[Len(recent) - (k - 1)]
  <2>1. Pushed(recent', recent, p, Window, Prompt)
    BY <1>1, <1>4, Kept
  <2> QED BY <2>1 DEF Pushed
<1>7. Len(seen) \in Nat /\ Len(recent) \in Nat
  BY <1>4
<1>8. /\ NoParallelRun'
      /\ \A u \in Turn : turn'[u].phase \in Alive =>
           turn'[u].prompt = p \/ (turn[u].phase \in Alive /\ turn'[u] = turn[u])
  BY <1>2, <1>3, NewRun DEF OneRunInv
<1>9. KnownIsDelivered'
  <2>1. ASSUME NEW i \in 1 .. Len(seen') PROVE seen'[i] \in delivered'
    <3> DEFINE k == Len(seen') - i
    <3>1. k \in Nat /\ k < Len(seen') /\ seen'[i] = seen'[Len(seen') - k]
      BY <1>5, InIndex
    <3>2. k # 0 => Len(seen) - (k - 1) \in 1 .. Len(seen)
      BY <1>4, <1>5, <1>7, <3>1
    <3> QED BY <1>1, <1>5, <3>1, <3>2 DEF OneRunInv, KnownIsDelivered
  <2>2. ASSUME NEW i \in 1 .. Len(recent') PROVE recent'[i] \in delivered'
    <3> DEFINE k == Len(recent') - i
    <3>1. k \in Nat /\ k < Len(recent') /\ recent'[i] = recent'[Len(recent') - k]
      BY <1>6, InIndex
    <3>2. k # 0 => Len(recent) - (k - 1) \in 1 .. Len(recent)
      BY <1>4, <1>6, <1>7, <3>1
    <3> QED BY <1>1, <1>6, <3>1, <3>2 DEF OneRunInv, KnownIsDelivered
  <2>3. ASSUME NEW u \in Turn, turn'[u].phase \in Alive PROVE turn'[u].prompt \in delivered'
    BY <1>1, <1>8, <2>3 DEF OneRunInv, KnownIsDelivered
  <2> QED BY <2>1, <2>2, <2>3 DEF KnownIsDelivered
<1>10. ASSUME "dup" \notin spent' PROVE SeenIsRecent'
  <2>1. SeenIsRecent
    BY <1>1, <1>10 DEF OneRunInv
  <2>2. ASSUME NEW k \in Nat, k < Len(seen'), k < Len(recent')
        PROVE  seen'[Len(seen') - k] = recent'[Len(recent') - k]
    <3>1. k # 0 => k - 1 \in Nat /\ k - 1 < Len(seen) /\ k - 1 < Len(recent)
      BY <1>4, <1>5, <1>6, <1>7, <2>2
    <3> QED BY <1>5, <1>6, <2>1, <2>2, <3>1 DEF SeenIsRecent
  <2>3. ASSUME NEW k \in Nat, Len(seen') <= k, k < Len(recent')
        PROVE  NoneAlive(recent[Len(recent) - k])'
    <3>1. k - 1 \in Nat /\ Len(seen) <= k - 1 /\ k - 1 < Len(recent) /\ k # 0
      BY <1>4, <1>5, <1>6, <1>7, <2>3
    <3>2. PICK q : q = recent[Len(recent) - (k - 1)]
      OBVIOUS
    <3>6. recent'[Len(recent') - k] = q
      BY <1>6, <2>3, <3>1, <3>2
    <3>7. NoneAlive(q)
      BY <2>1, <3>1, <3>2 DEF SeenIsRecent
    <3>3. Len(recent) - (k - 1) \in 1 .. Len(recent)
      BY <1>7, <3>1
    <3>4. q # p
      BY <1>1, <3>2, <3>3 DEF OneRunInv, KnownIsDelivered
    <3>5. \A u \in Turn : turn'[u].phase \in Alive => turn'[u].prompt # q
      BY <1>8, <3>4, <3>7 DEF NoneAlive
    <3> QED BY <3>5, <3>6 DEF NoneAlive
  <2> QED BY <2>2, <2>3 DEF SeenIsRecent
<1>11. Len(recent') <= Window
  BY <1>4, <1>6, <1>7
<1> QED BY <1>8, <1>9, <1>10, <1>11 DEF OneRunInv

\* A message that comes again is one of the last delivered, and it comes
\* again once; if it has been forgotten, its run has died.
LEMMA RedeliverKeeps ==
  ASSUME TypeOK, OneRunInv, NEW p \in Prompt, Redeliver(p)
  PROVE  OneRunInv'
<1>1. /\ In(p, recent) /\ UNCHANGED <<delivered, recent>>
      /\ "dup" \notin spent /\ spent' = spent \cup {"dup"}
  BY DEF Redeliver, Spend
<1>2. recent \in Seq(Prompt) /\ seen \in Seq(Prompt) /\ SeenLimit \in Nat \ {0} /\ Len(seen) <= SeenLimit
  BY StreamAssumption DEF TypeOK
<1>3. PICK i \in 1 .. Len(recent) : recent[i] = p
  BY <1>1 DEF In
<1>4. p \in delivered
  BY <1>3 DEF OneRunInv, KnownIsDelivered
<1>5. CASE In(p, seen)
  <2>1. UNCHANGED <<seen, turn>>
    BY <1>5 DEF Redeliver, ReceivePrompt
  <2> QED BY <1>1, <2>1 DEF OneRunInv, KnownIsDelivered, NoParallelRun
<1>6. CASE ~ In(p, seen)
  <2> DEFINE k == Len(recent) - i
  <2>1. k \in Nat /\ k < Len(recent) /\ p = recent[Len(recent) - k]
    BY <1>2, <1>3, InIndex
  <2>2. Len(seen) <= k
    <3> SUFFICES ASSUME k < Len(seen) PROVE FALSE
      BY <1>2, <2>1
    <3>1. seen[Len(seen) - k] = p /\ Len(seen) - k \in 1 .. Len(seen)
      BY <1>1, <1>2, <2>1 DEF OneRunInv, SeenIsRecent
    <3> QED BY <1>6, <3>1 DEF In
  <2>3. NoneAlive(p)
    BY <1>1, <2>1, <2>2 DEF OneRunInv, SeenIsRecent
  <2>4. PICK t \in Turn : /\ seen' = Lasts(Append(seen, p), SeenLimit)
                          /\ turn' = [turn EXCEPT ![t].phase = "queued", ![t].prompt = p]
    BY <1>6 DEF Redeliver, ReceivePrompt, InPhase, Remember
  <2>5. /\ NoParallelRun'
        /\ \A u \in Turn : turn'[u].phase \in Alive =>
             turn'[u].prompt = p \/ (turn[u].phase \in Alive /\ turn'[u] = turn[u])
    BY <2>3, <2>4, NewRun DEF OneRunInv
  <2>6. \A u \in Turn : turn'[u].phase \in Alive => turn'[u].prompt \in delivered'
    BY <1>1, <1>4, <2>5 DEF OneRunInv, KnownIsDelivered
  <2>7. /\ seen' \in Seq(Prompt)
        /\ Len(seen') = IF Len(seen) = SeenLimit THEN SeenLimit ELSE Len(seen) + 1
        /\ \A j \in Nat : j < Len(seen') =>
             seen'[Len(seen') - j] = IF j = 0 THEN p ELSE seen[Len(seen) - (j - 1)]
    <3>1. Pushed(seen', seen, p, SeenLimit, Prompt)
      BY <1>2, <2>4, Kept
    <3> QED BY <3>1 DEF Pushed
  <2>8. ASSUME NEW j \in 1 .. Len(seen') PROVE seen'[j] \in delivered'
    <3> DEFINE m == Len(seen') - j
    <3>1. m \in Nat /\ m < Len(seen') /\ seen'[j] = seen'[Len(seen') - m]
      BY <2>7, InIndex
    <3>2. Len(seen) \in Nat
      BY <1>2
    <3>3. m # 0 => Len(seen) - (m - 1) \in 1 .. Len(seen)
      BY <1>2, <2>7, <3>1, <3>2
    <3> QED BY <1>1, <1>4, <2>7, <3>1, <3>3 DEF OneRunInv, KnownIsDelivered
  <2> QED BY <1>1, <2>5, <2>6, <2>8 DEF OneRunInv, KnownIsDelivered
<1> QED BY <1>5, <1>6

\* A prompt is never run twice at a time, however many prompts come and go,
\* as long as the agent remembers as many as the broker may redeliver.
THEOREM OneRun == Spec => []NoParallelRun
<1>1. Init => OneRunInv
  <2> SUFFICES ASSUME Init PROVE OneRunInv
    OBVIOUS
  <2>1. KnownIsDelivered /\ NoParallelRun
    BY DEF Init, Unused, KnownIsDelivered, NoParallelRun, Alive
  <2>2. SeenIsRecent
    BY DEF Init, SeenIsRecent
  <2>3. Len(recent) <= Window
    BY StreamAssumption DEF Init
  <2> QED BY <2>1, <2>2, <2>3 DEF OneRunInv
<1>2. TypeOK /\ AgentInv /\ OneRunInv /\ [Next]_vars => OneRunInv'
  BY DeliverKeeps, RedeliverKeeps, AsideKeeps, WorkAside, BeginAside, OtherAside DEF Next
<1>3. OneRunInv => NoParallelRun
  BY DEF OneRunInv
<1> QED BY <1>1, <1>2, <1>3, TypeCorrect, AgentInvHolds, PTL DEF Spec

-----------------------------------------------------------------------------
(* The stale-stream check and the turns that still run *)

\* The turn's first CLI is not registered yet.
Unstarted(t) ==
  \/ turn[t].phase \in {"unused", "queued"}
  \/ turn[t].phase = "spawned" /\ ~ turn[t].retried

\* Nobody has heard of the turn.
Unseen(t) ==
  /\ ~ turn[t].retried
  /\ t \notin active \cup persisted \cup pings \cup chunks \cup check.todo
  /\ check.turn # t
  /\ wire[t] = << >>
  /\ row[t] = NoRow

\* A claude turn whose CLI is started and whose response is not published.
Open(t) ==
  /\ turn[t].phase \in {"spawned", "running", "exited"}
  /\ payload[turn[t].prompt].adapter = "claude"

\* The check has not closed the turn, is not about to, and if it waits for
\* the turn's pong, the pong will say that the turn is alive.
Vouched(t) ==
  /\ row[t].reason \notin {"ping-timeout", "container-gone"}
  /\ ~ In("dead", wire[t])
  /\ check.turn = t => /\ check.at # "close"
                       /\ check.at = "ping" => t \in pings \/ In("alive", wire[t])

Clean == ~ Met({"late", "misread", "abort"})

\* While nothing was late, misread or aborted, an open turn stays registered
\* from its first CLI on, a retry included, and an agent that is up vouches for it.
LiveTurn(t) ==
  /\ Unstarted(t) => Unseen(t)
  /\ Clean /\ Open(t) =>
       /\ ~ Unstarted(t) => t \in active
       /\ agent = "up" => Vouched(t)

LiveInv == \A t \in Turn : LiveTurn(t)

LEMMA InAppended ==
  ASSUME NEW S, NEW s \in Seq(S), NEW m \in S
  PROVE  /\ In(m, Append(s, m))
         /\ \A x : In(x, s) => In(x, Append(s, m))
<1>1. Len(s) + 1 \in 1 .. Len(Append(s, m)) /\ Append(s, m)[Len(s) + 1] = m
  OBVIOUS
<1>2. \A i \in 1 .. Len(s) : i \in 1 .. Len(Append(s, m)) /\ Append(s, m)[i] = s[i]
  OBVIOUS
<1> QED BY <1>1, <1>2 DEF In

LEMMA InRest ==
  ASSUME NEW S, NEW s \in Seq(S), s # << >>, NEW x, x # Head(s), In(x, s)
  PROVE  In(x, Tail(s))
<1>1. PICK i \in 1 .. Len(s) : s[i] = x
  BY DEF In
<1>2. i # 1
  BY <1>1
<1>3. i - 1 \in 1 .. Len(Tail(s)) /\ Tail(s)[i - 1] = x
  BY <1>1, <1>2
<1> QED BY <1>3 DEF In

LEMMA NobodyIsNoTurn == Nobody \notin Turn
  BY StreamAssumption DEF Nobody, Turn

\* What keeps a turn's part of the invariant: nobody learns of it, its reports
\* and its row stay, and the check comes no closer to closing it.
LEMMA Untouched ==
  ASSUME NEW t \in Turn, LiveTurn(t),
         turn'[t] = turn[t], payload' = payload, spent \subseteq spent',
         agent' = "up" => agent = "up",
         t \in active' <=> t \in active,
         t \in persisted' => t \in persisted \cup active,
         t \in pings' <=> t \in pings,
         t \in chunks' => t \in chunks,
         t \in check'.todo => t \in check.todo \cup chunks,
         wire'[t] = wire[t], row'[t] = row[t],
         check'.turn = t => check.turn = t /\ check'.at = check.at
  PROVE  LiveTurn(t)'
<1>1. Unstarted(t)' => Unstarted(t)
  BY DEF Unstarted
<1>2. Unseen(t) => Unseen(t)'
  BY DEF Unseen
<1>3. Open(t)' => Open(t)
  BY DEF Open
<1>4. Clean' => Clean
  BY DEF Clean, Met
<1>5. Vouched(t) => Vouched(t)'
  BY DEF Vouched, In
<1>6. Unstarted(t) => Unstarted(t)'
  BY DEF Unstarted
<1> QED BY <1>1, <1>2, <1>3, <1>4, <1>5, <1>6 DEF LiveTurn

\* A turn nobody has heard of is vouched for.
LEMMA UnseenIsVouched ==
  ASSUME NEW t \in Turn, Unseen(t)
  PROVE  Vouched(t)
  BY DEF Unseen, Vouched, NoRow, In

LEMMA IntakeLive ==
  ASSUME TypeOK, LiveInv, NEW p \in Prompt, Deliver(p) \/ Redeliver(p)
  PROVE  LiveInv'
<1>1. /\ UNCHANGED <<payload, agent, active, persisted, wire, pings, check, chunks, row>>
      /\ spent \subseteq spent' /\ ReceivePrompt(p)
  BY DEF Deliver, Redeliver, ReceivePrompt, Spend, masterVars
<1>2. ASSUME NEW u \in Turn, turn'[u] = turn[u] PROVE LiveTurn(u)'
  BY <1>1, <1>2, Untouched DEF LiveInv
<1>3. CASE UNCHANGED turn
  BY <1>2, <1>3 DEF LiveInv
<1>4. ASSUME NEW t \in Turn, turn[t].phase = "unused",
             turn' = [turn EXCEPT ![t].phase = "queued", ![t].prompt = p]
      PROVE  LiveInv'
  <2>1. /\ turn'[t].phase = "queued" /\ turn'[t].retried = turn[t].retried
        /\ \A u \in Turn \ {t} : turn'[u] = turn[u]
    BY <1>4 DEF TypeOK, TurnRecord
  <2>2. Unseen(t)
    BY <1>4 DEF LiveInv, LiveTurn, Unstarted
  <2>3. Unseen(t)' /\ ~ Open(t)'
    BY <1>1, <2>1, <2>2 DEF Unseen, Open
  <2> QED BY <1>2, <2>1, <2>3 DEF LiveInv, LiveTurn
<1> QED BY <1>1, <1>3, <1>4 DEF ReceivePrompt, InPhase

LEMMA BeginLive ==
  ASSUME TypeOK, PoolWaits, LiveInv, Begin
  PROVE  LiveInv'
<1>1. PICK t \in Turn : /\ turn[t].phase = "queued"
                        /\ Goes(t, "done") \/ Goes(t, "spawned")
  <2>1. 1 \in 1 .. Len(pool) /\ pool[1] = Head(pool)
    BY BeginGoes
  <2> QED BY <2>1, BeginGoes DEF PoolWaits
<1>2. UNCHANGED <<payload, agent, active, persisted, wire, pings, check, chunks, row, spent>>
  BY DEF Begin, outside, masterVars
<1>3. /\ turn'[t].phase \in {"done", "spawned"} /\ turn'[t].retried = turn[t].retried
      /\ \A u \in Turn \ {t} : turn'[u] = turn[u]
  BY <1>1 DEF Goes, TypeOK, TurnRecord
<1>4. \A u \in Turn \ {t} : LiveTurn(u)'
  BY <1>2, <1>3, Untouched DEF LiveInv
<1>5. Unseen(t)
  <2>1. Unstarted(t)
    BY <1>1 DEF Unstarted
  <2> QED BY <2>1 DEF LiveInv, LiveTurn
<1>6. Unseen(t)'
  BY <1>2, <1>3, <1>5 DEF Unseen
<1>7. Vouched(t)'
  BY <1>2, <1>5, UnseenIsVouched DEF Vouched
<1>8. Open(t)' => Unstarted(t)'
  BY <1>3, <1>6 DEF Open, Unstarted, Unseen
<1> QED BY <1>4, <1>6, <1>7, <1>8 DEF LiveInv, LiveTurn

\* A message of the worker, or a pong, other than "dead".
LEMMA SentVouched ==
  ASSUME TypeOK, NEW t \in Turn, NEW m \in Wire \ {"dead"}, Vouched(t), Send(t, m),
         UNCHANGED <<row, check>>, t \in pings' \/ t \notin pings \/ m = "alive"
  PROVE  Vouched(t)'
<1>1. wire[t] \in Seq(Wire) /\ wire'[t] = Append(wire[t], m)
  BY DEF Send, TypeOK
<1>2. ~ In("dead", wire'[t])
  BY <1>1, InAppend DEF Vouched
<1>3. (In("alive", wire[t]) => In("alive", wire'[t])) /\ (m = "alive" => In("alive", wire'[t]))
  BY <1>1, InAppended
<1> QED BY <1>2, <1>3 DEF Vouched

LEMMA WorkLive ==
  ASSUME TypeOK, LiveInv, NEW t \in Turn,
         Work(t) \/ Chunk(t) \/ RetryAsNew(t) \/ Abort(t)
  PROVE  LiveInv'
<1>1. /\ UNCHANGED <<payload, agent, pings, check, chunks, row>>
      /\ spent \subseteq spent' /\ (Clean' => ~ Abort(t))
      /\ \A u \in Turn \ {t} :
           /\ turn'[u] = turn[u] /\ wire'[u] = wire[u]
           /\ u \in active' <=> u \in active
           /\ u \in persisted' => u \in persisted \cup active
  BY DEF Work, Register, Exit, Respond, Finish, Chunk, RetryAsNew, Abort, ActiveAfterExit,
         Goes, Send, Spend, Clean, Met, outside, masterVars, TypeOK
<1>2. \A u \in Turn \ {t} : LiveTurn(u)'
  BY <1>1, Untouched DEF LiveInv
<1>3. Clean' => Clean
  BY <1>1 DEF Clean, Met
<1>4. CASE Register(t)
  <2>1. /\ turn'[t].phase = "running" /\ turn'[t].prompt = turn[t].prompt
        /\ turn[t].phase = "spawned" /\ t \in active' /\ wire' = wire
    BY <1>4 DEF Register, Goes, TypeOK, TurnRecord
  <2>2. ~ Unstarted(t)' /\ (Open(t)' => Open(t))
    BY <1>1, <2>1 DEF Unstarted, Open
  <2>3. Vouched(t) => Vouched(t)'
    BY <1>1, <2>1 DEF Vouched
  <2> QED BY <1>1, <1>2, <1>3, <2>1, <2>2, <2>3, UnseenIsVouched DEF LiveInv, LiveTurn
<1>5. CASE Exit(t) \/ RetryAsNew(t) \/ Chunk(t)
  <2>1. turn[t].phase = "running" /\ (active' = active \/ active' = ActiveAfterExit(t))
    BY <1>5 DEF Exit, RetryAsNew, Chunk
  <2>2. /\ turn'[t].prompt = turn[t].prompt
        /\ \/ turn'[t].phase \in {"running", "exited"}
           \/ turn'[t].phase = "spawned" /\ turn'[t].retried
    BY <1>5 DEF Exit, RetryAsNew, Chunk, Goes, TypeOK, TurnRecord
  <2>3. /\ ~ Unstarted(t)' /\ ~ Unstarted(t)
        /\ Open(t)' => Open(t) /\ active' = active
    BY <1>1, <2>1, <2>2 DEF ActiveAfterExit, Unstarted, Open
  <2>4. Vouched(t) => Vouched(t)'
    <3>1. CASE wire' = wire
      BY <1>1, <3>1 DEF Vouched
    <3>2. CASE Send(t, "chunk")
      BY <1>1, <3>2, SentVouched DEF Wire
    <3> QED BY <1>5, <3>1, <3>2 DEF Exit, RetryAsNew, Chunk
  <2> QED BY <1>1, <1>2, <1>3, <2>3, <2>4 DEF LiveInv, LiveTurn
<1>6. CASE Respond(t) \/ Finish(t)
  <2>1. turn'[t].phase \in {"responded", "done"}
    BY <1>6 DEF Respond, Finish, Goes, TypeOK, TurnRecord
  <2>2. ~ Unstarted(t)' /\ ~ Open(t)'
    BY <2>1 DEF Unstarted, Open
  <2> QED BY <1>2, <2>2 DEF LiveInv, LiveTurn
<1>7. CASE Abort(t)
  <2>1. turn'[t].phase = "exited"
    BY <1>7 DEF Abort, Goes, TypeOK, TurnRecord
  <2>2. ~ Unstarted(t)' /\ ~ Clean'
    BY <1>1, <1>7, <2>1 DEF Unstarted
  <2> QED BY <1>2, <2>2 DEF LiveInv, LiveTurn
<1> QED BY <1>4, <1>5, <1>6, <1>7 DEF Work

\* The pong of an open turn says that it is alive.
LEMMA PingLive ==
  ASSUME TypeOK, LiveInv, NEW t \in Turn, AnswerPing(t)
  PROVE  LiveInv'
<1>1. /\ UNCHANGED <<payload, agent, turn, active, persisted, check, chunks, row, spent>>
      /\ t \in pings /\ pings' = pings \ {t} /\ agent = "up"
      /\ Send(t, IF t \in active THEN "alive" ELSE "dead")
  BY DEF AnswerPing, agentVars, masterVars
<1>2. \A u \in Turn \ {t} : wire'[u] = wire[u]
  BY <1>1 DEF Send, TypeOK
<1>3. \A u \in Turn \ {t} : LiveTurn(u)'
  BY <1>1, <1>2, Untouched DEF LiveInv
<1>4. ~ Unstarted(t) /\ ~ Unstarted(t)'
  BY <1>1 DEF LiveInv, LiveTurn, Unseen, Unstarted
<1>5. ASSUME Clean', Open(t)' PROVE t \in active' /\ Vouched(t)'
  <2>1. Clean /\ Open(t)
    BY <1>1, <1>5 DEF Clean, Met, Open
  <2>2. t \in active /\ Vouched(t)
    BY <1>1, <1>4, <2>1 DEF LiveInv, LiveTurn
  <2>3. Send(t, "alive") /\ "alive" \in Wire \ {"dead"}
    BY <1>1, <2>2 DEF Wire
  <2> QED BY <1>1, <2>2, <2>3, SentVouched
<1> QED BY <1>3, <1>4, <1>5 DEF LiveInv, LiveTurn

\* The container's life: the check vouches for nothing while the agent is
\* not up, and a turn does not outlive its process.
LEMMA ContainerLive ==
  ASSUME TypeOK, FreshIsIdle, LiveInv,
         Sigterm \/ SigtermInsideLock \/ Kill \/ StopEnds \/ Boot \/ Connect
  PROVE  LiveInv'
<1>1. UNCHANGED <<payload, check, chunks, row>> /\ spent \subseteq spent'
  BY DEF Sigterm, SigtermInsideLock, Kill, StopEnds, Die, Boot, Connect, Spend, masterVars
<1>2. Clean' => Clean
  BY <1>1 DEF Clean, Met
<1>3. CASE Sigterm
  <2>1. /\ UNCHANGED <<turn, active, pings>> /\ persisted' = {} /\ agent' # "up"
        /\ \A u \in Turn : u \notin active => wire'[u] = wire[u]
    BY <1>3 DEF Sigterm, SendAll
  <2>2. ASSUME NEW u \in Turn PROVE LiveTurn(u)'
    <3>1. Unseen(u) => Unseen(u)'
      BY <1>1, <2>1 DEF Unseen
    <3>2. (Unstarted(u)' <=> Unstarted(u)) /\ (Open(u)' <=> Open(u))
      BY <1>1, <2>1 DEF Unstarted, Open
    <3> QED BY <1>2, <2>1, <3>1, <3>2 DEF LiveInv, LiveTurn
  <2> QED BY <2>2 DEF LiveInv
<1>4. CASE SigtermInsideLock
  BY <1>1, <1>4, Untouched DEF SigtermInsideLock, LiveInv
<1>5. CASE Kill \/ StopEnds
  <2>1. Die
    BY <1>5 DEF Kill, StopEnds
  <2>2. ASSUME NEW u \in Turn PROVE LiveTurn(u)'
    <3>1. /\ turn'[u].phase \notin {"queued", "spawned", "running", "exited"}
          /\ turn'[u].phase = "unused" => turn'[u] = turn[u]
      BY <2>1 DEF Die, Alive, TypeOK, TurnRecord
    <3>2. ~ Open(u)' /\ (Unstarted(u)' => Unstarted(u) /\ turn'[u] = turn[u])
      BY <3>1 DEF Unstarted, Open
    <3>3. UNCHANGED <<persisted, wire>> /\ active' = {} /\ pings' = {}
      BY <2>1 DEF Die
    <3>4. Unseen(u) /\ turn'[u] = turn[u] => Unseen(u)'
      BY <1>1, <3>3 DEF Unseen
    <3> QED BY <3>2, <3>4 DEF LiveInv, LiveTurn
  <2> QED BY <2>2 DEF LiveInv
<1>6. CASE Boot
  <2>1. UNCHANGED <<turn, active, wire, pings>> /\ agent' # "up" /\ persisted' \subseteq persisted
    BY <1>6 DEF Boot
  <2> QED BY <1>1, <2>1, Untouched DEF LiveInv
<1>7. CASE Connect /\ inherited
  <2>1. UNCHANGED <<turn, active, wire, pings, persisted>>
    BY <1>7 DEF Connect
  <2>2. ASSUME NEW u \in Turn, agent # "up" PROVE LiveTurn(u)'
    <3>1. turn'[u] = turn[u] /\ turn[u].phase \notin Alive
      BY <1>7, <2>1, <2>2 DEF Connect, FreshIsIdle
    <3>2. ~ Open(u)' /\ (Unstarted(u)' => Unstarted(u))
      BY <3>1 DEF Open, Unstarted, Alive
    <3>3. Unseen(u) => Unseen(u)'
      BY <1>1, <2>1 DEF Unseen
    <3> QED BY <3>2, <3>3 DEF LiveInv, LiveTurn
  <2> QED BY <1>1, <2>1, <2>2, Untouched DEF LiveInv
<1>8. CASE Connect /\ ~ inherited
  <2>1. /\ UNCHANGED <<turn, active, pings>> /\ persisted' = {}
        /\ \A u \in Turn : u \notin persisted => wire'[u] = wire[u]
    BY <1>8 DEF Connect, SendAll
  <2>2. ASSUME NEW u \in Turn PROVE LiveTurn(u)'
    <3>1. turn'[u] = turn[u] /\ turn[u].phase \notin Alive
      BY <1>8, <2>1 DEF Connect, FreshIsIdle
    <3>2. ~ Open(u)' /\ (Unstarted(u)' => Unstarted(u))
      BY <3>1 DEF Open, Unstarted, Alive
    <3>3. Unseen(u) => Unseen(u)'
      BY <1>1, <2>1 DEF Unseen
    <3> QED BY <3>2, <3>3 DEF LiveInv, LiveTurn
  <2> QED BY <2>2 DEF LiveInv
<1> QED BY <1>3, <1>4, <1>5, <1>6, <1>7, <1>8

\* What the master's MQTT thread does with a message of an open turn that is
\* not "dead" leaves it vouched for.
LEMMA HandleVouched ==
  ASSUME TypeOK, NEW t \in Turn, NEW m \in Wire \ {"dead"}, Handle(t, m), Vouched(t)
  PROVE  /\ row'[t].reason \notin {"ping-timeout", "container-gone"}
         /\ check'.turn = t =>
              check' = check /\ (m = "alive" => check.at # "ping")
<1>1. CASE m = "chunk"
  BY <1>1 DEF Handle, SaveChunk, SaveResponse, Interruption, Vouched
<1>2. ASSUME NEW new, new.reason \notin {"ping-timeout", "container-gone"}, SaveResponse(t, new)
      PROVE  row'[t].reason \notin {"ping-timeout", "container-gone"} /\ check' = check
  BY <1>2 DEF SaveResponse, Vouched, TypeOK
<1>3. CASE m \in {"answer"} \cup Interruption
  <2>1. /\ Answered.reason = "none"
        /\ Interrupted(t, m).reason = m
    BY DEF Answered, Interrupted
  <2>2. \/ SaveResponse(t, Answered)
        \/ m \in Interruption /\ SaveResponse(t, Interrupted(t, m))
        \/ DiscardChunks(t)
    BY <1>3 DEF Handle, Interruption
  <2>3. DiscardChunks(t) => row' = row /\ check' = check
    BY DEF DiscardChunks
  <2> QED BY <1>2, <1>3, <2>1, <2>2, <2>3 DEF Interruption, Vouched
<1>4. CASE m = "alive"
  <2>1. TakePong(t, m)
    BY <1>4 DEF Handle, Interruption
  <2> QED BY <1>4, <2>1, NobodyIsNoTurn DEF TakePong, Skip, Vouched, TypeOK, Check
<1> QED BY <1>1, <1>3, <1>4 DEF Wire

\* A message about one turn says nothing of another.
LEMMA HandleAside ==
  ASSUME TypeOK, NEW t \in Turn, NEW m, Handle(t, m), NEW u \in Turn \ {t}
  PROVE  /\ row'[u] = row[u]
         /\ u \in chunks' => u \in chunks
         /\ u \in check'.todo => u \in check.todo
         /\ check'.turn = u => check.turn = u /\ check'.at = check.at
<1>1. CASE SaveChunk(t)
  BY <1>1 DEF SaveChunk
<1>2. ASSUME NEW new, SaveResponse(t, new) \/ DiscardChunks(t)
      PROVE  row'[u] = row[u] /\ (u \in chunks' => u \in chunks) /\ check' = check
  BY <1>2 DEF SaveResponse, DiscardChunks, TypeOK
<1>3. CASE TakePong(t, m)
  <2>1. check' = check \/ (check.turn = t /\ check' = Skip(check))
          \/ (check.turn = t /\ check' = [check EXCEPT !.at = "close", !.reason = "ping-timeout"])
    BY <1>3 DEF TakePong
  <2> QED BY <1>3, <2>1, NobodyIsNoTurn DEF TakePong, Skip, TypeOK, Check
<1> QED BY <1>1, <1>2, <1>3 DEF Handle

LEMMA ReceiveLive ==
  ASSUME TypeOK, LiveInv, NEW t \in Turn, Receive(t) \/ ReceiveAndAgain(t)
  PROVE  LiveInv'
<1> DEFINE m == Head(wire[t])
<1>1. /\ UNCHANGED <<payload, agent, turn, active, persisted, pings>>
      /\ spent \subseteq spent' /\ Handle(t, m)
  BY DEF Receive, ReceiveAndAgain, Spend, agentVars
<1>2. /\ wire[t] \in Seq(Wire) /\ wire[t] # << >> /\ m \in Wire
      /\ Tail(wire[t]) \in Seq(Wire)
  BY DEF Receive, ReceiveAndAgain, TypeOK
<1>3. /\ \A u \in Turn \ {t} : wire'[u] = wire[u]
      /\ \/ wire'[t] = Tail(wire[t])
         \/ wire'[t] = Append(Tail(wire[t]), m) /\ m \notin {"alive", "dead"}
  BY DEF Receive, ReceiveAndAgain, TypeOK, Interruption
<1>4. ASSUME NEW u \in Turn \ {t} PROVE LiveTurn(u)'
  BY <1>1, <1>3, HandleAside, Untouched DEF LiveInv
<1>5. ~ Unstarted(t) /\ ~ Unstarted(t)'
  BY <1>1, <1>2 DEF LiveInv, LiveTurn, Unseen, Unstarted
<1>6. ASSUME Clean', Open(t)' PROVE t \in active' /\ (agent' = "up" => Vouched(t)')
  <2>1. Clean /\ Open(t)
    BY <1>1, <1>6 DEF Clean, Met, Open
  <2>2. t \in active /\ (agent = "up" => Vouched(t))
    BY <1>5, <2>1 DEF LiveInv, LiveTurn
  <2>3. ASSUME Vouched(t) PROVE Vouched(t)'
    <3>1. m # "dead"
      BY <1>2, <2>3, InHead DEF Vouched
    <3>2. /\ row'[t].reason \notin {"ping-timeout", "container-gone"}
          /\ check'.turn = t => check' = check /\ (m = "alive" => check.at # "ping")
      BY <1>1, <1>2, <2>3, <3>1, HandleVouched
    <3>3. ~ In("dead", Tail(wire[t])) /\ (m # "alive" /\ In("alive", wire[t]) => In("alive", Tail(wire[t])))
      BY <1>2, <2>3, InTail, InRest DEF Vouched
    <3>4. ~ In("dead", wire'[t]) /\ (m # "alive" /\ In("alive", wire[t]) => In("alive", wire'[t]))
      <4>1. CASE wire'[t] = Tail(wire[t])
        BY <3>3, <4>1
      <4>2. CASE wire'[t] = Append(Tail(wire[t]), m) /\ m \notin {"alive", "dead"}
        <5> HIDE DEF m
        <5>1. ~ In("dead", wire'[t])
          <6>1. In("dead", Append(Tail(wire[t]), m)) => In("dead", Tail(wire[t])) \/ m = "dead"
            BY <1>2, InAppend
          <6> QED BY <3>1, <3>3, <4>2, <6>1
        <5>2. In("alive", Tail(wire[t])) => In("alive", wire'[t])
          BY <1>2, <4>2, InAppended
        <5> QED BY <3>3, <5>1, <5>2
      <4> QED BY <1>3, <4>1, <4>2
    <3> QED BY <1>1, <2>3, <3>2, <3>4 DEF Vouched
  <2> QED BY <1>1, <2>2, <2>3
<1> QED BY <1>4, <1>5, <1>6 DEF LiveInv, LiveTurn

\* The check: it asks about turns with chunks, and closes one only if its
\* pong is late or its agent is not up.
LEMMA StaleLive ==
  ASSUME TypeOK, LiveInv, Stale \/ MasterCrash
  PROVE  LiveInv'
<1>1. /\ UNCHANGED <<payload, agent, turn, active, persisted>>
      /\ spent \subseteq spent'
  BY DEF Stale, Scan, Inspect, PingTimeout, Close, MasterCrash, Spend, agentVars
<1>2. Clean' => Clean
  BY <1>1 DEF Clean, Met
<1>3. CASE Scan
  <2>1. /\ UNCHANGED <<wire, pings, chunks, row>>
        /\ check'.turn = check.turn /\ check'.at = check.at
        /\ check'.todo \subseteq chunks
    BY <1>3 DEF Scan, Orphaned, TypeOK, Check
  <2> QED BY <1>1, <2>1, Untouched DEF LiveInv
<1>4. ASSUME NEW t \in Turn, Inspect(t) PROVE LiveInv'
  <2>1. /\ UNCHANGED <<wire, chunks, row>> /\ t \in check.todo
        /\ pings' \in {pings, pings \cup {t}}
        /\ check'.turn = t /\ check'.todo = check.todo
        /\ \/ check'.at = "ping" /\ t \in pings'
           \/ agent = "down"
           \/ "misread" \in spent'
    BY <1>4 DEF Inspect, Running, Spend, TypeOK, Check
  <2>2. ASSUME NEW u \in Turn \ {t} PROVE LiveTurn(u)'
    BY <1>1, <2>1, Untouched DEF LiveInv
  <2>3. ~ Unstarted(t) /\ ~ Unstarted(t)'
    BY <1>1, <2>1 DEF LiveInv, LiveTurn, Unseen, Unstarted
  <2>4. ASSUME Clean', Open(t)' PROVE t \in active' /\ (agent' = "up" => Vouched(t)')
    <3>1. Clean /\ Open(t)
      BY <1>1, <1>2, <2>4 DEF Open
    <3>2. t \in active /\ (agent = "up" => Vouched(t))
      BY <2>3, <3>1 DEF LiveInv, LiveTurn
    <3>3. "misread" \notin spent'
      BY <2>4 DEF Clean, Met
    <3> QED BY <1>1, <2>1, <3>2, <3>3 DEF Vouched, In
  <2> QED BY <2>2, <2>3, <2>4 DEF LiveInv, LiveTurn
<1>5. CASE PingTimeout
  <2>1. /\ UNCHANGED <<wire, chunks, row>>
        /\ \A u \in Turn \ {check.turn} : u \in pings' <=> u \in pings
        /\ check.at = "ping" /\ check'.turn = check.turn /\ check'.todo = check.todo
    BY <1>5 DEF PingTimeout, TypeOK, Check
  <2>2. ASSUME NEW u \in Turn, u # check.turn PROVE LiveTurn(u)'
    BY <1>1, <2>1, <2>2, Untouched DEF LiveInv
  <2>3. ASSUME NEW u \in Turn, u = check.turn PROVE LiveTurn(u)'
    <3>1. ~ Unstarted(u) /\ ~ Unstarted(u)'
      BY <1>1, <2>3 DEF LiveInv, LiveTurn, Unseen, Unstarted
    <3>2. ASSUME Clean', Open(u)' PROVE u \in active' /\ agent' # "up"
      <4>1. Clean /\ Open(u)
        BY <1>1, <1>2, <3>2 DEF Open
      <4>2. u \in active /\ (agent = "up" => Vouched(u))
        BY <3>1, <4>1 DEF LiveInv, LiveTurn
      <4>3. agent = "up" => u \in pings \/ In("alive", wire[u])
        BY <2>1, <2>3, <4>2 DEF Vouched
      <4>4. agent = "up" => "late" \in spent'
        BY <1>5, <2>3, <4>3 DEF PingTimeout, Spend
      <4>5. "late" \notin spent'
        BY <3>2 DEF Clean, Met
      <4> QED BY <1>1, <4>2, <4>4, <4>5
    <3> QED BY <3>1, <3>2 DEF LiveTurn
  <2> QED BY <2>2, <2>3 DEF LiveInv
<1>6. CASE Close
  <2>1. /\ UNCHANGED <<wire, pings>> /\ check.at = "close"
        /\ \A u \in Turn : u # check.turn => row'[u] = row[u]
        /\ chunks' \subseteq chunks
    BY <1>6 DEF Close, TypeOK
  <2>2. check'.turn = Nobody /\ check'.todo \subseteq check.todo
    BY <1>6 DEF Close, Skip, TypeOK, Check
  <2>3. ASSUME NEW u \in Turn, u # check.turn PROVE LiveTurn(u)'
    BY <1>1, <2>1, <2>2, <2>3, NobodyIsNoTurn, Untouched DEF LiveInv
  <2>4. ASSUME NEW u \in Turn, u = check.turn PROVE LiveTurn(u)'
    <3>1. ~ Unstarted(u) /\ ~ Unstarted(u)'
      BY <1>1, <2>4 DEF LiveInv, LiveTurn, Unseen, Unstarted
    <3>2. ASSUME Clean', Open(u)' PROVE u \in active' /\ agent' # "up"
      <4>1. Clean /\ Open(u)
        BY <1>1, <1>2, <3>2 DEF Open
      <4> QED BY <1>1, <2>1, <2>4, <3>1, <4>1 DEF LiveInv, LiveTurn, Vouched
    <3> QED BY <3>1, <3>2 DEF LiveTurn
  <2> QED BY <2>3, <2>4 DEF LiveInv
<1>7. CASE MasterCrash
  <2>1. /\ UNCHANGED <<pings, chunks, row>> /\ check' = Idle
        /\ \A u \in Turn : wire'[u] = << >>
    BY <1>7 DEF MasterCrash
  <2>2. ASSUME NEW u \in Turn PROVE LiveTurn(u)'
    <3>1. /\ Unseen(u) => Unseen(u)'
          /\ Vouched(u) => Vouched(u)'
      BY <1>1, <2>1, NobodyIsNoTurn DEF Unseen, Vouched, Idle, In
    <3>2. (Unstarted(u)' <=> Unstarted(u)) /\ (Open(u)' <=> Open(u))
      BY <1>1 DEF Unstarted, Open
    <3> QED BY <1>1, <1>2, <3>1, <3>2 DEF LiveInv, LiveTurn
  <2> QED BY <2>2 DEF LiveInv
<1> QED BY <1>3, <1>4, <1>5, <1>6, <1>7 DEF Stale

LEMMA LiveInvHolds == Spec => []LiveInv
<1>1. Init => LiveInv
  <2> SUFFICES ASSUME Init, NEW t \in Turn PROVE LiveTurn(t)
    BY DEF LiveInv
  <2>1. turn[t].phase = "unused" /\ ~ turn[t].retried
    BY DEF Init, Unused
  <2>2. Unseen(t) /\ ~ Open(t)
    BY <2>1, NobodyIsNoTurn DEF Init, Unseen, Open, Idle
  <2> QED BY <2>2 DEF LiveTurn
<1>2. TypeOK /\ AgentInv /\ LiveInv /\ [Next]_vars => LiveInv'
  <2>1. TypeOK /\ LiveInv /\ UNCHANGED vars => LiveInv'
    BY Untouched DEF LiveInv, vars, agentVars, masterVars
  <2>2. AgentInv => PoolWaits /\ FreshIsIdle
    BY DEF AgentInv
  <2> QED BY <2>1, <2>2, IntakeLive, PingLive, BeginLive, WorkLive, ContainerLive, ReceiveLive, StaleLive
          DEF Next
<1> QED BY <1>1, <1>2, TypeCorrect, AgentInvHolds, PTL DEF Spec

\* The stale-stream check closes no claude turn whose response is still to
\* come while its agent is up, if no pong was late, no status misread and no
\* stream aborted, for any number of turns, pings, retries and restarts.
THEOREM LiveStaysOpen == Spec => []LiveTurnStaysOpen
<1>1. LiveInv => LiveTurnStaysOpen
  BY DEF LiveInv, LiveTurn, LiveTurnStaysOpen, Open, Clean, Vouched
<1> QED BY <1>1, LiveInvHolds, PTL

-----------------------------------------------------------------------------
(* The replies only move forward *)

LEMMA ReplyFacts ==
  ASSUME TypeOK, NEW t \in Turn
  PROVE  /\ reply[t] = "answered" <=> row[t].text = "answer"
         /\ reply[t] = "interrupted" <=> row[t].text = "interrupted"
         /\ reply[t] = "streaming" <=> (row[t].text = "none" /\ t \in chunks)
         /\ reply[t] = "none" <=> (row[t].text = "none" /\ t \notin chunks)
<1>1. row[t].text \in {"none", "answer", "interrupted"}
  BY DEF TypeOK, Row
<1>2. reply[t] = CASE row[t].text = "answer" -> "answered"
                   [] row[t].text = "interrupted" -> "interrupted"
                   [] t \in Orphaned -> "streaming"
                   [] OTHER -> "none"
  BY DEF reply
<1>3. t \in Orphaned <=> (row[t].text = "none" /\ t \in chunks)
  BY DEF Orphaned, TypeOK
<1> QED BY <1>1, <1>2, <1>3

\* Which turns answer a structured-output prompt is settled when they get it.
LEMMA SettledTurns ==
  ASSUME TypeOK, UNCHANGED payload,
         \A t \in Turn : /\ turn'[t].prompt = turn[t].prompt
                         /\ turn'[t].phase = "unused" <=> turn[t].phase = "unused"
  PROVE  UNCHANGED Structured
  BY DEF Structured

\* A step that touches one reply, and moves it forward if at all.
LEMMA OneMoves ==
  ASSUME TypeOK, TypeOK', NEW t \in Turn, UNCHANGED Structured,
         \A u \in Turn \ {t} : row'[u] = row[u] /\ (u \in chunks' <=> u \in chunks),
         \/ row'[t].text = row[t].text /\ (row[t].text = "none" => t \in chunks' \/ t \notin chunks)
         \/ row'[t].text = row[t].text /\ t \in Structured
         \/ row[t].text # "answer" /\ row'[t].text = "answer" /\ t \notin Structured
         \/ row[t].text = "none" /\ row'[t].text = "interrupted"
  PROVE  [Replies!Next]_<<reply, Structured>>
<1>1. \A u \in Turn \ {t} : reply'[u] = reply[u]
  <2> TAKE u \in Turn \ {t}
  <2>1. row'[u].text = row[u].text /\ (u \in chunks' <=> u \in chunks)
    OBVIOUS
  <2> QED BY <2>1 DEF reply, Orphaned, TypeOK
<1>2. \A to : reply'[t] = to => reply' = [reply EXCEPT ![t] = to]
  <2>1. /\ reply = [u \in Turn |-> reply[u]]
        /\ reply' = [u \in Turn |-> reply'[u]]
    BY DEF reply
  <2> HIDE DEF reply
  <2> QED BY <1>1, <2>1
<1>3. reply[t] \in {"none", "streaming", "interrupted", "answered"}
  BY DEF reply
<1>4. CASE row'[t].text = row[t].text /\ (row[t].text = "none" => t \in chunks' \/ t \notin chunks)
  <2>1. reply'[t] = reply[t] \/ (reply[t] = "none" /\ reply'[t] = "streaming")
    BY <1>4 DEF reply, Orphaned, TypeOK
  <2>2. reply'[t] = reply[t] => reply' = reply
    BY <1>1 DEF reply
  <2> QED BY <1>2, <2>1, <2>2 DEF Replies!Next, Replies!Stream, Replies!Move
<1>5. CASE row[t].text # "answer" /\ row'[t].text = "answer" /\ t \notin Structured
  <2>1. reply[t] \in {"none", "streaming", "interrupted"}
    BY <1>3, <1>5, ReplyFacts
  <2>2. reply'[t] = "answered"
    BY <1>5 DEF reply, Orphaned
  <2> QED BY <1>2, <1>5, <2>1, <2>2 DEF Replies!Next, Replies!Answer, Replies!Move
<1>6. CASE row[t].text = "none" /\ row'[t].text = "interrupted"
  <2>1. reply[t] \in {"none", "streaming"}
    BY <1>3, <1>6, ReplyFacts
  <2>2. reply'[t] = "interrupted"
    BY <1>6 DEF reply, Orphaned
  <2> QED BY <1>2, <2>1, <2>2 DEF Replies!Next, Replies!Interrupt, Replies!Move
<1>7. CASE row'[t].text = row[t].text /\ t \in Structured
  <2>1. \/ reply'[t] = reply[t]
        \/ reply[t] = "none" /\ reply'[t] = "streaming"
        \/ reply[t] = "streaming" /\ reply'[t] = "none"
    BY <1>7 DEF reply, Orphaned, TypeOK
  <2>2. reply'[t] = reply[t] => reply' = reply
    BY <1>1 DEF reply
  <2> QED BY <1>2, <1>7, <2>1, <2>2
          DEF Replies!Next, Replies!Stream, Replies!Retract, Replies!Move
<1> QED BY <1>4, <1>5, <1>6, <1>7

LEMMA HandleMoves ==
  ASSUME TypeOK, TypeOK', NEW t \in Turn, NEW m, Handle(t, m), UNCHANGED Structured
  PROVE  [Replies!Next]_<<reply, Structured>>
<1>1. CASE SaveChunk(t)
  BY <1>1, OneMoves DEF SaveChunk
<1>2. ASSUME NEW new, SaveResponse(t, new),
             \/ new.text = "answer" /\ t \notin Structured
             \/ new.text = "interrupted"
      PROVE  [Replies!Next]_<<reply, Structured>>
  <2>1. \A u \in Turn \ {t} : row'[u] = row[u] /\ (u \in chunks' <=> u \in chunks)
    BY <1>2 DEF SaveResponse, TypeOK
  <2>2. \/ row[t].text \in {"none", "interrupted"} /\ row'[t] = new
        \/ row[t].text = "answer" /\ row'[t] = row[t]
    BY <1>2 DEF SaveResponse, TypeOK, Row
  <2> QED BY <1>2, <2>1, <2>2, OneMoves
<1>3. CASE TakePong(t, m)
  BY <1>3, OneMoves DEF TakePong
<1>4. Answered.text = "answer" /\ \A r : Interrupted(t, r).text = "interrupted"
  BY DEF Answered, Interrupted
<1>5. CASE DiscardChunks(t) /\ t \in Structured
  <2>1. \A u \in Turn \ {t} : row'[u] = row[u] /\ (u \in chunks' <=> u \in chunks)
    BY <1>5 DEF DiscardChunks
  <2>2. row'[t].text = row[t].text
    BY <1>5 DEF DiscardChunks
  <2> QED BY <1>5, <2>1, <2>2, OneMoves
<1> QED BY <1>1, <1>2, <1>3, <1>4, <1>5 DEF Handle, SavesAnswer

LEMMA CloseMoves ==
  ASSUME TypeOK, TypeOK', Close, UNCHANGED Structured
  PROVE  [Replies!Next]_<<reply, Structured>>
<1> DEFINE t == check.turn
<1>1. t \in Turn \cup {Nobody}
  BY DEF TypeOK, Check
<1>2. CASE t \in Turn
  <2>1. \A u \in Turn \ {t} : row'[u] = row[u] /\ (u \in chunks' <=> u \in chunks)
    BY DEF Close, TypeOK
  <2>2. \/ row[t].text = "none" /\ row'[t].text = "interrupted"
        \/ row[t].text # "none" /\ row'[t] = row[t]
    BY <1>2 DEF Close, Interrupted, TypeOK
  <2> QED BY <1>2, <2>1, <2>2, OneMoves
<1>3. CASE t \notin Turn
  <2>1. row' = row /\ chunks' = chunks
    BY <1>3 DEF Close, TypeOK
  <2> QED BY <2>1 DEF reply, Orphaned
<1> QED BY <1>2, <1>3

\* A prompt gets a turn of which nothing is shown yet.
LEMMA IntakeAsks ==
  ASSUME TypeOK, LiveInv, NEW p \in Prompt, Deliver(p) \/ Redeliver(p)
  PROVE  [Replies!Next]_<<reply, Structured>>
<1>1. UNCHANGED <<payload, chunks, row>> /\ ReceivePrompt(p)
  BY DEF Deliver, Redeliver, ReceivePrompt, masterVars
<1>2. UNCHANGED reply
  BY <1>1 DEF reply, Orphaned
<1>3. CASE UNCHANGED turn
  BY <1>1, <1>2, <1>3 DEF Structured
<1>4. ASSUME NEW t \in Turn, turn[t].phase = "unused",
             turn' = [turn EXCEPT ![t].phase = "queued", ![t].prompt = p]
      PROVE  [Replies!Next]_<<reply, Structured>>
  <2>1. /\ turn'[t].phase = "queued"
        /\ \A u \in Turn \ {t} : turn'[u] = turn[u]
    BY <1>4 DEF TypeOK, TurnRecord
  <2>2. reply[t] = "none"
    <3>1. Unseen(t)
      BY <1>4 DEF LiveInv, LiveTurn, Unstarted
    <3> QED BY <3>1, ReplyFacts DEF Unseen, NoRow
  <2>3. Structured' = Structured \/ Structured' = Structured \cup {t}
    BY <1>1, <1>4, <2>1 DEF Structured
  <2> QED BY <1>2, <2>2, <2>3 DEF Replies!Next, Replies!Ask
<1> QED BY <1>1, <1>3, <1>4 DEF ReceivePrompt, InPhase

\* No other step changes which turns answer a structured-output prompt.
LEMMA OthersSettled ==
  ASSUME TypeOK, AgentInv, Next, ~ \E p \in Prompt : Deliver(p) \/ Redeliver(p)
  PROVE  UNCHANGED Structured
<1>1. UNCHANGED <<payload, turn>> => UNCHANGED Structured
  BY DEF Structured
<1>2. ASSUME NEW t \in Turn, NEW phase \in Phase \ {"unused"}, Goes(t, phase),
             turn[t].phase # "unused", UNCHANGED payload
      PROVE  UNCHANGED Structured
  <2>1. \A u \in Turn : /\ turn'[u].prompt = turn[u].prompt
                        /\ turn'[u].phase = "unused" <=> turn[u].phase = "unused"
    BY <1>2 DEF Goes, TypeOK, TurnRecord
  <2> QED BY <1>2, <2>1, SettledTurns
<1>3. ASSUME NEW t \in Turn, Work(t) \/ Chunk(t) \/ RetryAsNew(t) \/ Abort(t)
      PROVE  UNCHANGED Structured
  <2>1. CASE Work(t) \/ Abort(t)
    BY <1>2, <2>1 DEF Work, Register, Exit, Respond, Finish, Abort, outside, Phase
  <2>2. CASE Chunk(t)
    BY <1>1, <2>2 DEF Chunk, outside
  <2>3. CASE RetryAsNew(t)
    <3>1. \A u \in Turn : /\ turn'[u].prompt = turn[u].prompt
                          /\ turn'[u].phase = "unused" <=> turn[u].phase = "unused"
      BY <2>3 DEF RetryAsNew, TypeOK, TurnRecord
    <3>2. UNCHANGED payload
      BY <2>3 DEF RetryAsNew, outside
    <3> QED BY <3>1, <3>2, SettledTurns
  <2> QED BY <1>3, <2>1, <2>2, <2>3
<1>4. CASE Begin
  <2>1. 1 \in 1 .. Len(pool) /\ pool[1] = Head(pool) /\ Head(pool) \in Turn
    BY <1>4, BeginGoes
  <2>2. turn[Head(pool)].phase = "queued"
    BY <2>1 DEF AgentInv, PoolWaits
  <2>3. UNCHANGED payload
    BY <1>4 DEF Begin, outside
  <2> QED BY <1>2, <1>4, <2>1, <2>2, <2>3, BeginGoes DEF Phase
<1>5. CASE Kill \/ StopEnds
  <2>1. Die
    BY <1>5 DEF Kill, StopEnds
  <2>2. \A u \in Turn : /\ turn'[u].prompt = turn[u].prompt
                        /\ turn'[u].phase = "unused" <=> turn[u].phase = "unused"
    BY <2>1 DEF Die, Alive, TypeOK, TurnRecord
  <2> QED BY <2>1, <2>2, SettledTurns DEF Die
<1>6. CASE Sigterm \/ SigtermInsideLock \/ Boot \/ Connect
  BY <1>1, <1>6 DEF Sigterm, SigtermInsideLock, Boot, Connect
<1>7. ASSUME NEW t \in Turn, AnswerPing(t) \/ Receive(t) \/ ReceiveAndAgain(t)
      PROVE  UNCHANGED Structured
  BY <1>1, <1>7 DEF AnswerPing, Receive, ReceiveAndAgain, agentVars
<1>8. CASE Stale \/ MasterCrash
  BY <1>1, <1>8 DEF Stale, Scan, Inspect, PingTimeout, Close, MasterCrash, agentVars
<1> QED BY <1>3, <1>4, <1>5, <1>6, <1>7, <1>8 DEF Next

\* The replies that the master stores are a ReplyStream: whatever is late,
\* duplicated, killed or closed by the check, an answer stays an answer, and
\* only a structured-output prompt's bubble goes away without a row.
THEOREM RepliesMoveForward == Spec => ImplementsReplies
<1>1. Init => Replies!Init
  BY DEF Init, Replies!Init, reply, NoRow, Orphaned, Structured, Unused
<1>2. TypeOK /\ TypeOK' /\ AgentInv /\ LiveInv /\ [Next]_vars
        => [Replies!Next]_<<reply, Structured>>
  <2> SUFFICES ASSUME TypeOK, TypeOK', AgentInv, LiveInv, [Next]_vars
               PROVE  [Replies!Next]_<<reply, Structured>>
    OBVIOUS
  <2>1. CASE UNCHANGED vars
    BY <2>1 DEF reply, Orphaned, Structured, vars, agentVars, masterVars
  <2>2. ASSUME NEW p \in Prompt, Deliver(p) \/ Redeliver(p)
        PROVE  [Replies!Next]_<<reply, Structured>>
    BY <2>2, IntakeAsks
  <2>3. CASE Next /\ ~ \E p \in Prompt : Deliver(p) \/ Redeliver(p)
    <3>1. UNCHANGED Structured
      BY <2>3, OthersSettled
    <3>2. CASE UNCHANGED <<chunks, row>>
      BY <3>1, <3>2 DEF reply, Orphaned
    <3>3. ASSUME NEW t \in Turn, Receive(t) \/ ReceiveAndAgain(t)
          PROVE  [Replies!Next]_<<reply, Structured>>
      BY <3>1, <3>3, HandleMoves DEF Receive, ReceiveAndAgain
    <3>4. CASE Close
      BY <3>1, <3>4, CloseMoves
    <3>5. CASE Stale \/ MasterCrash
      BY <3>2, <3>4, <3>5 DEF Stale, Scan, Inspect, PingTimeout, MasterCrash
    <3>6. ASSUME NEW t \in Turn,
                 AnswerPing(t) \/ Work(t) \/ Chunk(t) \/ RetryAsNew(t) \/ Abort(t)
          PROVE  UNCHANGED <<chunks, row>>
      BY <3>6 DEF AnswerPing, Work, Register, Exit, Respond, Finish, Chunk, RetryAsNew, Abort,
                  outside, masterVars
    <3>7. CASE Begin
      BY <3>2, <3>7 DEF Begin, outside, masterVars
    <3>8. CASE Sigterm \/ SigtermInsideLock \/ Kill \/ StopEnds \/ Boot \/ Connect
      BY <3>2, <3>8 DEF Sigterm, SigtermInsideLock, Kill, StopEnds, Die, Boot, Connect, masterVars
    <3> QED BY <2>3, <3>2, <3>3, <3>5, <3>6, <3>7, <3>8 DEF Next
  <2> QED BY <2>1, <2>2, <2>3
<1> QED BY <1>1, <1>2, TypeCorrect, AgentInvHolds, LiveInvHolds, PTL
        DEF Spec, ImplementsReplies, Replies!Spec

=============================================================================
