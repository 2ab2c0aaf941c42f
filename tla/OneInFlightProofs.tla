------------------------- MODULE OneInFlightProofs -------------------------
(***************************************************************************)
(* At most one task of the topic is in flight, as long as no dispatch      *)
(* fails, no response is duplicated, the master does not crash, no staff   *)
(* answers a question twice and none names the task of another topic.      *)
(* Turns may be killed and staffs deleted.                                 *)
(*                                                                         *)
(* AtMostOneInFlight is not inductive.  The reason it holds is the lock: a *)
(* task in flight has it (LockOwned).  Three steps could break that.  A    *)
(* first dispatch makes its task 'working' only after the broadcast, so it *)
(* must have kept the lock till then (FirstHolds).  An answer makes its    *)
(* task 'working' whatever its state is, so the task must be in flight     *)
(* still when the answer is executed (AnswersExpected), and it is, if the  *)
(* answer is executed once (TodoOwned, TodoDisjoint), which in turn needs  *)
(* each turn to end once (EndsOnce).                                       *)
(***************************************************************************)
EXTENDS OrchestrationProofs

FaultFree ==
  /\ MaxFails = 0 /\ MaxDups = 0 /\ MaxCrashes = 0
  /\ MaxForeign = 0 /\ MaxElsewhere = 0
  /\ Careful

LockOwned == \A t \in Task : InFlight(t) => topicLock = t

FirstHolds ==
  /\ \A h \in handlers : h.kind = "first" =>
       /\ h.task \in Task
       /\ topicLock = h.task
       /\ state[h.task] = "submitted"
  /\ \A g, h \in handlers : g.kind = "first" /\ h.kind = "first" => g = h

NoScan == phase = "up" /\ \A h \in handlers : h.kind # "scan"

AnswersExpected ==
  /\ \A r \in staged : r.kind = "answer" => state[r.task] = "input-required"
  /\ \A r, x \in staged : r.kind = "answer" /\ x.kind = "answer" /\ r.task = x.task
                          => r = x

TodoOwned ==
  \A h \in handlers : \A r \in h.todo :
    /\ r \in staged
    /\ messages[r.prompt].st = "saved"
    /\ due[r.prompt] = 0

TodoDisjoint == \A g, h \in handlers : g # h => g.todo \cap h.todo = {}

EndsOnce == \A m \in Message : due[m] > 0 => due[m] = 1 /\ messages[m].st = "saved"

OneInv ==
  /\ LockOwned
  /\ FirstHolds
  /\ NoScan
  /\ AnswersExpected
  /\ TodoOwned
  /\ TodoDisjoint
  /\ EndsOnce

-----------------------------------------------------------------------------
(* Prompts that a coroutine has still to deal with stay 'saved'. *)

\* A saved prompt with a turn end to come or a staged row is not given back.
LEMMA RecycleKeeps ==
  ASSUME NEW base \in Prompts, NEW ends, NEW rows, NEW coroutines,
         NEW p \in Message, base[p].st = "saved",
         ends[p] # 0 \/ \E r \in rows : r.prompt = p
  PROVE  Recycle(base, ends, rows, coroutines)[p].st = "saved"
BY DEF Recycle

\* Dropping rows that nobody will execute touches questions not yet asked only.
LEMMA DropKeeps ==
  ASSUME NEW base \in Prompts, NEW rows, NEW p \in Message, base[p].st = "saved"
  PROVE  Drop(base, rows)[p].st = "saved"
BY DEF Drop

\* Publishing a prompt changes no saved prompt.
LEMMA PublishedKeeps ==
  ASSUME TypeOK, NEW q, NEW p \in Message, messages[p].st = "saved"
  PROVE  Published(q)[p].st = "saved"
BY DEF Published, TypeOK

\* Committing a prompt for a staged row takes a fresh id or the row's question.
LEMMA CarriedKeeps ==
  ASSUME TypeOK, NEW base \in Prompts, NEW r \in Row, NEW q \in Carrier(r),
         NEW p \in Message, messages[p].st = "saved", base[p].st = "saved"
  PROVE  Carried(base, r, q)[p].st = "saved"
<1>1. CASE r.kind = "question"
  BY <1>1 DEF Carried, Prompts
<1>2. CASE r.kind # "question"
  <2>1. q \in Message /\ q # p
    BY <1>2 DEF Carrier, FreshMessage
  <2> QED BY <1>2, <2>1 DEF Carried, Prompts
<1> QED BY <1>1, <1>2

-----------------------------------------------------------------------------
(* The row loop of process_turn_end *)

\* The tasks: an answer is executed while its task still has the lock.
LEMMA OneExecuteTasks ==
  ASSUME TypeOK, LockOwned, FirstHolds, AnswersExpected,
         NEW todo, todo \subseteq staged, NEW ends, NEW base,
         NEW others, others \subseteq handlers,
         Execute("end", todo, ends, others, base)
  PROVE  LockOwned' /\ FirstHolds' /\ AnswersExpected'
<1>1. CASE state' = state /\ staged' \subseteq staged /\ handlers' = others
           /\ topicLock' = topicLock
  BY <1>1 DEF LockOwned, FirstHolds, AnswersExpected, InFlight
<1>2. ASSUME NEW r \in todo, NEW new,
             staged' \subseteq staged \ {r},
             state' = IF r.kind = "answer" THEN [state EXCEPT ![r.task] = "working"]
                      ELSE state,
             new.kind = "end",
             handlers' = others \cup {new},
             topicLock' = topicLock
      PROVE  LockOwned' /\ FirstHolds' /\ AnswersExpected'
  <2>1. r \in staged /\ r.task \in Task
    BY DEF TypeOK, Row
  <2>2. r.kind = "answer" => state[r.task] = "input-required"
    BY <2>1 DEF AnswersExpected
  <2>3. LockOwned'
    BY <1>2, <2>1, <2>2 DEF LockOwned, InFlight, TypeOK
  <2>4. FirstHolds'
    BY <1>2, <2>1, <2>2 DEF FirstHolds, TypeOK
  <2>5. AnswersExpected'
    <3>1. \A x \in staged' : x \in staged /\ x # r /\ x.task \in Task
      BY <1>2 DEF TypeOK, Row
    <3>2. ASSUME NEW x \in staged', x.kind = "answer"
          PROVE state'[x.task] = "input-required"
      <4>1. state[x.task] = "input-required"
        BY <3>1, <3>2 DEF AnswersExpected
      <4>2. r.kind = "answer" => r.task # x.task
        BY <2>1, <3>1, <3>2 DEF AnswersExpected
      <4> QED BY <1>2, <2>1, <3>1, <4>1, <4>2 DEF TypeOK
    <3> QED BY <3>1, <3>2 DEF AnswersExpected
  <2> QED BY <2>3, <2>4, <2>5
<1>3. ASSUME NEW r \in todo, NEW q \in Message,
             staged' = Unstamped({x \in todo : x.n < r.n} \cup {r}),
             state' = IF r.kind = "answer" THEN [state EXCEPT ![r.task] = "working"]
                      ELSE state,
             handlers' = others \cup
               {[kind |-> "end", task |-> r.task, row |-> r,
                 todo |-> {x \in todo : x.n > r.n}, out |-> q]},
             topicLock' = topicLock
      PROVE  LockOwned' /\ FirstHolds' /\ AnswersExpected'
  <2> DEFINE new == [kind |-> "end", task |-> r.task, row |-> r,
                     todo |-> {x \in todo : x.n > r.n}, out |-> q]
  <2>1. new.kind = "end"
    OBVIOUS
  <2> HIDE DEF new
  <2>2. handlers' = others \cup {new}
    BY <1>3 DEF new
  <2>3. staged' \subseteq staged \ {r}
    BY <1>3 DEF Unstamped
  <2> QED BY <1>2, <1>3, <2>1, <2>2, <2>3
<1>4. \/ state' = state /\ staged' \subseteq staged /\ handlers' = others
         /\ topicLock' = topicLock
      \/ \E r \in todo, q \in Message :
           /\ staged' = Unstamped({x \in todo : x.n < r.n} \cup {r})
           /\ state' = IF r.kind = "answer" THEN [state EXCEPT ![r.task] = "working"]
                       ELSE state
           /\ handlers' = others \cup
                {[kind |-> "end", task |-> r.task, row |-> r,
                  todo |-> {x \in todo : x.n > r.n}, out |-> q]}
           /\ topicLock' = topicLock
  BY DEF Execute, Unstamped
<1> QED BY <1>1, <1>3, <1>4

\* The rows: what is left to do is staged still, and no other coroutine's.
LEMMA OneExecuteRows ==
  ASSUME TypeOK,
         NEW todo, todo \subseteq staged, NEW ends, NEW base \in Prompts,
         NEW others, others \subseteq handlers,
         \A g \in others : \A r \in g.todo :
           /\ r \in staged \ todo
           /\ messages[r.prompt].st = "saved"
           /\ ends[r.prompt] = 0,
         \A r \in todo : messages[r.prompt].st = "saved" /\ ends[r.prompt] = 0,
         \A g, h \in others : g # h => g.todo \cap h.todo = {},
         \A p \in Message : ends[p] > 0 => ends[p] = 1 /\ messages[p].st = "saved",
         \A p \in Message : messages[p].st = "saved" => base[p].st = "saved",
         \A p \in Message : ends[p] \in Nat,
         due' = ends,
         Execute("end", todo, ends, others, base)
  PROVE  TodoOwned' /\ TodoDisjoint' /\ EndsOnce'
<1>1. \A r \in staged : r \in Row /\ r.prompt \in Message
  BY DEF TypeOK, Row
<1>2. CASE /\ handlers' = others
           /\ staged' = staged \ todo
           /\ messages' = Recycle(Drop(base, todo), ends, staged \ todo, others)
  <2>1. Drop(base, todo) \in Prompts
    BY DropType
  <2>2. ASSUME NEW p \in Message, messages[p].st = "saved",
               ends[p] # 0 \/ \E r \in staged \ todo : r.prompt = p
        PROVE  messages'[p].st = "saved"
    <3>1. Drop(base, todo)[p].st = "saved"
      BY <2>2, DropKeeps
    <3> QED BY <1>2, <2>1, <2>2, <3>1, RecycleKeeps
  <2>3. TodoOwned'
    BY <1>1, <1>2, <2>2 DEF TodoOwned
  <2>4. TodoDisjoint'
    BY <1>2 DEF TodoDisjoint
  <2>5. EndsOnce'
    BY <2>2 DEF EndsOnce
  <2> QED BY <2>3, <2>4, <2>5
<1>3. ASSUME NEW r \in todo, NEW q \in Carrier(r), NEW new, NEW skipped,
             skipped \subseteq todo,
             new.todo \subseteq todo \ (skipped \cup {r}),
             handlers' = others \cup {new},
             staged' = staged \ (skipped \cup {r}),
             messages' = Recycle(Carried(Drop(base, skipped), r, q), ends, staged',
                                 others \cup {new}),
             q \in Message
      PROVE  TodoOwned' /\ TodoDisjoint' /\ EndsOnce'
  <2> DEFINE carried == Carried(Drop(base, skipped), r, q)
  <2>1. Drop(base, skipped) \in Prompts /\ r \in Row
    BY <1>1, DropType
  <2>2. carried \in Prompts
    BY <1>3, <2>1, CarriedType
  <2>3. ASSUME NEW p \in Message, messages[p].st = "saved",
               ends[p] # 0 \/ \E x \in staged' : x.prompt = p
        PROVE  messages'[p].st = "saved"
    <3>1. Drop(base, skipped)[p].st = "saved"
      BY <2>3, DropKeeps
    <3>2. carried[p].st = "saved"
      BY <2>1, <2>3, <3>1, CarriedKeeps
    <3> HIDE DEF carried
    <3>3. messages' = Recycle(carried, ends, staged', others \cup {new})
      BY <1>3 DEF carried
    <3> QED BY <2>2, <2>3, <3>2, <3>3, RecycleKeeps
  <2>4. TodoOwned'
    <3>1. \A g \in handlers' : \A x \in g.todo :
            x \in staged' /\ messages[x.prompt].st = "saved" /\ ends[x.prompt] = 0
      BY <1>3
    <3> QED BY <1>1, <1>3, <2>3, <3>1 DEF TodoOwned
  <2>5. TodoDisjoint'
    BY <1>3 DEF TodoDisjoint
  <2>6. EndsOnce'
    BY <2>3 DEF EndsOnce
  <2> QED BY <2>4, <2>5, <2>6
<1>4. ASSUME NEW r \in todo, NEW q \in Message, q \in Carrier(r),
             staged' = Unstamped({x \in todo : x.n < r.n} \cup {r}),
             handlers' = others \cup
               {[kind |-> "end", task |-> r.task, row |-> r,
                 todo |-> {x \in todo : x.n > r.n}, out |-> q]},
             messages' = Recycle(Carried(Drop(base, {x \in todo : x.n < r.n}), r, q), ends,
               Unstamped({x \in todo : x.n < r.n} \cup {r}),
               others \cup {[kind |-> "end", task |-> r.task, row |-> r,
                             todo |-> {x \in todo : x.n > r.n}, out |-> q]})
      PROVE  TodoOwned' /\ TodoDisjoint' /\ EndsOnce'
  <2> DEFINE new == [kind |-> "end", task |-> r.task, row |-> r,
                     todo |-> {x \in todo : x.n > r.n}, out |-> q]
             skipped == {x \in todo : x.n < r.n}
  <2>1. new.todo \subseteq todo \ (skipped \cup {r})
    <3>1. \A x \in todo : x.n \in Nat
      BY <1>1 DEF Row
    <3> QED BY <3>1
  <2>2. skipped \subseteq todo
    OBVIOUS
  <2>3. /\ handlers' = others \cup {new}
        /\ staged' = staged \ (skipped \cup {r})
        /\ messages' = Recycle(Carried(Drop(base, skipped), r, q), ends, staged',
                               others \cup {new})
    BY <1>4 DEF Unstamped
  <2> HIDE DEF new, skipped
  <2> QED BY <1>3, <1>4, <2>1, <2>2, <2>3
<1>5. \/ /\ handlers' = others
         /\ staged' = staged \ todo
         /\ messages' = Recycle(Drop(base, todo), ends, staged \ todo, others)
      \/ \E r \in todo, q \in Message :
         /\ q \in Carrier(r)
         /\ staged' = Unstamped({x \in todo : x.n < r.n} \cup {r})
         /\ handlers' = others \cup
               {[kind |-> "end", task |-> r.task, row |-> r,
                 todo |-> {x \in todo : x.n > r.n}, out |-> q]}
         /\ messages' = Recycle(Carried(Drop(base, {x \in todo : x.n < r.n}), r, q), ends,
               Unstamped({x \in todo : x.n < r.n} \cup {r}),
               others \cup {[kind |-> "end", task |-> r.task, row |-> r,
                             todo |-> {x \in todo : x.n > r.n}, out |-> q]})
  BY DEF Execute, Unstamped
<1> QED BY <1>2, <1>4, <1>5

-----------------------------------------------------------------------------
(* The other steps *)

\* A step that starts no row loop, takes no row from one, ends no turn and gives
\* back no prompt of theirs leaves all three facts about rows alone.
LEMMA RowsKept ==
  ASSUME TypeOK, TodoOwned, TodoDisjoint, EndsOnce,
         \A h \in handlers' : h \in handlers \/ h.todo = {},
         \A h \in handlers : \A r \in h.todo : r \in staged',
         \A p \in Message : /\ messages[p].st = "saved"
                            /\ due'[p] # 0 \/ \E r \in staged' : r.prompt = p
                            => messages'[p].st = "saved",
         \A p \in Message : due'[p] = due[p] \/ due'[p] = 0
  PROVE  TodoOwned' /\ TodoDisjoint' /\ EndsOnce'
<1>1. \A h \in handlers : \A r \in h.todo : r.prompt \in Message
  BY DEF TypeOK, Row, TodoOwned
<1>2. TodoOwned'
  BY <1>1 DEF TodoOwned
<1>3. TodoDisjoint'
  BY DEF TodoDisjoint
<1>4. EndsOnce'
  <2>1. \A p \in Message : due[p] \in Nat
    BY DEF TypeOK
  <2> QED BY <2>1 DEF EndsOnce
<1> QED BY <1>2, <1>3, <1>4

\* A step that changes neither the tasks nor the lock nor the set of first
\* dispatches, and stages no answer, leaves the facts about tasks alone.
LEMMA TasksKept ==
  ASSUME LockOwned, FirstHolds, AnswersExpected,
         UNCHANGED <<state, topicLock>>,
         \A h \in handlers' : h \in handlers \/ h.kind # "first",
         \A r \in staged' : r \in staged \/ r.kind # "answer"
  PROVE  LockOwned' /\ FirstHolds' /\ AnswersExpected'
BY DEF LockOwned, FirstHolds, AnswersExpected, InFlight

\* A new prompt takes a free id, so saved prompts stay.
LEMMA FreshKeeps ==
  ASSUME TypeOK, NEW q \in FreshMessage, NEW v, NEW p \in Message,
         messages[p].st = "saved"
  PROVE  [messages EXCEPT ![q] = v][p].st = "saved"
BY DEF FreshMessage, TypeOK

\* A row loop of process_turn_end leaves no startup job behind.
LEMMA ExecuteNoScan ==
  ASSUME NoScan, phase' = phase, NEW todo, NEW ends, NEW base,
         NEW others, others \subseteq handlers,
         Execute("end", todo, ends, others, base)
  PROVE  NoScan'
<1>1. ASSUME NEW r, NEW q,
             handlers' = others \cup
               {[kind |-> "end", task |-> r.task, row |-> r,
                 todo |-> {x \in todo : x.n > r.n}, out |-> q]}
      PROVE  NoScan'
  <2> DEFINE new == [kind |-> "end", task |-> r.task, row |-> r,
                     todo |-> {x \in todo : x.n > r.n}, out |-> q]
  <2>1. new.kind = "end"
    OBVIOUS
  <2> HIDE DEF new
  <2>2. handlers' = others \cup {new}
    BY <1>1 DEF new
  <2> QED BY <2>1, <2>2 DEF NoScan
<1>2. CASE handlers' = others
  BY <1>2 DEF NoScan
<1> QED BY <1>1, <1>2 DEF Execute

\* _stage_dispatch adds one row, of the kind and the task it was asked for.
LEMMA StagedRow ==
  ASSUME NEW m, NEW kept, NEW kind, NEW t, NEW receiver, NEW q,
         StageRow(m, kept, kind, t, receiver, q)
  PROVE  \E new : staged' = kept \cup {new} /\ new.kind = kind /\ new.task = t
<1>1. PICK n : staged' = kept \cup {[prompt |-> m, n |-> n, kind |-> kind, task |-> t,
                                     receiver |-> receiver, question |-> q]}
  BY DEF StageRow
<1> DEFINE new == [prompt |-> m, n |-> n, kind |-> kind, task |-> t,
                   receiver |-> receiver, question |-> q]
<1>2. new.kind = kind /\ new.task = t
  OBVIOUS
<1> HIDE DEF new
<1>3. staged' = kept \cup {new}
  BY <1>1 DEF new
<1> QED BY <1>2, <1>3

\* _stage_dispatch keeps the other rows and adds none of another kind.
LEMMA StagedRows ==
  ASSUME NEW m, NEW kept, NEW kind, NEW t, NEW receiver, NEW q,
         StageRow(m, kept, kind, t, receiver, q)
  PROVE  kept \subseteq staged' /\ \A r \in staged' : r \in kept \/ r.kind = kind
BY StagedRow

\* The end of a turn, and what process_turn_end does with it.
LEMMA OneTurn ==
  ASSUME TypeOK, OneInv, NEW m \in Message, Respond(m) \/ ProcessTurnEnd(m)
  PROVE  OneInv'
<1> USE DEF OneInv
<1>1. CASE Respond(m)
  <2>1. due[m] = 0
    BY <1>1 DEF Respond, EndsOnce, TypeOK
  <2>2. EndsOnce'
    BY <1>1, <2>1 DEF Respond, EndsOnce, TypeOK, Prompt
  <2>3. TodoOwned'
    <3>1. \A h \in handlers : \A r \in h.todo : r.prompt \in Message /\ r.prompt # m
      BY <1>1 DEF Respond, TodoOwned, TypeOK, Row
    <3> QED BY <1>1, <3>1 DEF Respond, TodoOwned, TypeOK
  <2>4. LockOwned' /\ FirstHolds' /\ AnswersExpected' /\ NoScan' /\ TodoDisjoint'
    BY <1>1 DEF Respond, LockOwned, FirstHolds, AnswersExpected, NoScan, TodoDisjoint,
                InFlight
  <2> QED BY <2>2, <2>3, <2>4
<1>2. CASE ProcessTurnEnd(m)
  <2> DEFINE ends == [due EXCEPT ![m] = @ - 1]
             rows == RowsOf(m)
  <2>1. due' = ends /\ phase' = phase
    BY <1>2 DEF ProcessTurnEnd
  <2>2. due[m] = 1 /\ messages[m].st = "saved"
    BY <1>2 DEF ProcessTurnEnd, EndsOnce
  <2>3. /\ \A p \in Message : ends[p] \in Nat
        /\ \A p \in Message : p # m => ends[p] = due[p]
        /\ ends[m] = 0
    BY <2>2 DEF TypeOK
  <2>4. messages \in Prompts
    BY DEF TypeOK, Prompts
  <2>5. CASE Execute("end", rows, ends, handlers, messages)
    <3>1. rows \subseteq staged /\ \A r \in rows : r.prompt = m
      BY DEF RowsOf
    <3>2. \A g \in handlers : \A r \in g.todo :
            /\ r \in staged \ rows
            /\ messages[r.prompt].st = "saved"
            /\ ends[r.prompt] = 0
      <4>1. \A g \in handlers : \A r \in g.todo :
              /\ r \in staged /\ r.prompt \in Message
              /\ messages[r.prompt].st = "saved" /\ due[r.prompt] = 0
        BY DEF TodoOwned, TypeOK, Row
      <4> HIDE DEF ends, rows
      <4> QED BY <2>2, <2>3, <3>1, <4>1
    <3>3. \A r \in rows : messages[r.prompt].st = "saved" /\ ends[r.prompt] = 0
      BY <2>2, <2>3, <3>1
    <3>4. \A p \in Message : ends[p] > 0 => ends[p] = 1 /\ messages[p].st = "saved"
      BY <2>2, <2>3 DEF EndsOnce
    <3> HIDE DEF ends, rows
    <3>5. LockOwned' /\ FirstHolds' /\ AnswersExpected'
      BY <2>5, <3>1, OneExecuteTasks
    <3>6. TodoOwned' /\ TodoDisjoint' /\ EndsOnce'
      <4>1. \A g, h \in handlers : g # h => g.todo \cap h.todo = {}
        BY DEF TodoDisjoint
      <4> QED BY <2>1, <2>3, <2>4, <2>5, <3>1, <3>2, <3>3, <3>4, <4>1, OneExecuteRows
    <3>7. NoScan'
      BY <2>1, <2>5, ExecuteNoScan
    <3> QED BY <3>5, <3>6, <3>7
  <2>6. ASSUME NEW q \in FreshMessage, NEW new, NEW v, v \in Prompt,
               new.kind = "end", new.todo = {},
               handlers' = handlers \cup {new},
               UNCHANGED <<state, topicLock, staged>>,
               messages' = Recycle([messages EXCEPT ![q] = v], ends, staged,
                                   handlers \cup {new})
        PROVE OneInv'
    <3> DEFINE base == [messages EXCEPT ![q] = v]
    <3>1. base \in Prompts
      BY <2>4, <2>6 DEF Prompts
    <3>2. ASSUME NEW p \in Message, messages[p].st = "saved",
                 due'[p] # 0 \/ \E r \in staged' : r.prompt = p
          PROVE messages'[p].st = "saved"
      <4>1. base[p].st = "saved"
        BY <3>2, FreshKeeps
      <4> HIDE DEF base, ends
      <4>2. messages' = Recycle(base, ends, staged, handlers \cup {new})
        BY <2>6 DEF base
      <4> QED BY <2>1, <2>6, <3>1, <3>2, <4>1, <4>2, RecycleKeeps
    <3>3. TodoOwned' /\ TodoDisjoint' /\ EndsOnce'
      <4>1. \A p \in Message : due'[p] = due[p] \/ due'[p] = 0
        BY <2>1, <2>3
      <4>2. /\ \A h \in handlers' : h \in handlers \/ h.todo = {}
            /\ \A h \in handlers : \A r \in h.todo : r \in staged'
        BY <2>6 DEF TodoOwned
      <4> QED BY <3>2, <4>1, <4>2, RowsKept
    <3>4. LockOwned' /\ FirstHolds' /\ AnswersExpected'
      BY <2>6, TasksKept
    <3>5. NoScan'
      BY <2>1, <2>6 DEF NoScan
    <3> QED BY <3>3, <3>4, <3>5
  <2>7. CASE /\ messages' = Recycle(messages, ends, staged, handlers)
             /\ UNCHANGED <<state, topicLock, staged, handlers>>
    <3>1. ASSUME NEW p \in Message, messages[p].st = "saved",
                 due'[p] # 0 \/ \E r \in staged' : r.prompt = p
          PROVE messages'[p].st = "saved"
      <4> HIDE DEF ends
      <4> QED BY <2>1, <2>4, <2>7, <3>1, RecycleKeeps
    <3>2. TodoOwned' /\ TodoDisjoint' /\ EndsOnce'
      <4>1. \A p \in Message : due'[p] = due[p] \/ due'[p] = 0
        BY <2>1, <2>3
      <4>2. /\ \A h \in handlers' : h \in handlers \/ h.todo = {}
            /\ \A h \in handlers : \A r \in h.todo : r \in staged'
        BY <2>7 DEF TodoOwned
      <4> QED BY <3>1, <4>1, <4>2, RowsKept
    <3>3. LockOwned' /\ FirstHolds' /\ AnswersExpected' /\ NoScan'
      BY <2>1, <2>7, TasksKept DEF NoScan
    <3> QED BY <3>2, <3>3
  <2>8. ASSUME NEW q \in FreshMessage, NEW t, t = messages[m].task, ImplicitResult(m),
               handlers' = handlers \cup
                 {[kind |-> "end", task |-> t, row |-> NoRow, todo |-> {}, out |-> q]},
               UNCHANGED <<state, topicLock, staged>>,
               messages' = Recycle([messages EXCEPT ![q] = NewPrompt(info[t].dispatcher, t)],
                 ends, staged, handlers \cup
                 {[kind |-> "end", task |-> t, row |-> NoRow, todo |-> {}, out |-> q]})
        PROVE OneInv'
    <3> DEFINE new == [kind |-> "end", task |-> t, row |-> NoRow, todo |-> {}, out |-> q]
               v == NewPrompt(info[t].dispatcher, t)
    <3>1. new.kind = "end" /\ new.todo = {}
      OBVIOUS
    <3>2. v \in Prompt
      BY <2>8 DEF ImplicitResult, NewPrompt, Prompt, MessageState, TypeOK, Info
    <3> HIDE DEF new, v, ends
    <3>3. /\ handlers' = handlers \cup {new}
          /\ messages' = Recycle([messages EXCEPT ![q] = v], ends, staged,
                                 handlers \cup {new})
      BY <2>8 DEF new, v
    <3> QED BY <2>6, <2>8, <3>1, <3>2, <3>3
  <2> QED BY <1>2, <2>5, <2>7, <2>8 DEF ProcessTurnEnd
<1> QED BY <1>1, <1>2

\* The tool calls of a running turn: delegate_task and accept_result hand the
\* lock on with the task, answer_question stages the only answer of its task.
LEMMA OneTool ==
  ASSUME Careful, TypeOK, OneInv, NEW m \in Message, Tool(m)
  PROVE  OneInv'
<1> USE DEF OneInv
<1>1. ASSUME NEW s \in Staff, DelegateTask(m, s) PROVE OneInv'
  <2>1. PICK t \in Task :
          /\ state[t] = "absent"
          /\ state' = [state EXCEPT ![t] = "submitted"]
          /\ \/ UNCHANGED <<topicLock, messages, handlers>>
             \/ /\ topicLock = Free
                /\ topicLock' = t
                /\ \E q \in FreshMessage :
                     /\ messages' = [messages EXCEPT ![q] = NewPrompt(s, t)]
                     /\ handlers' = handlers \cup
                          {[kind |-> "first", task |-> t, row |-> NoRow,
                            todo |-> {}, out |-> q]}
    BY <1>1 DEF DelegateTask, Available
  <2>2. UNCHANGED <<staged, due, phase>>
    BY <1>1 DEF DelegateTask
  <2>3. AnswersExpected'
    <3>1. \A r \in staged : r.task \in Task
      BY DEF TypeOK, Row
    <3> QED BY <2>1, <2>2, <3>1 DEF AnswersExpected, TypeOK
  <2>4. CASE UNCHANGED <<topicLock, messages, handlers>>
    <3>1. LockOwned' /\ FirstHolds' /\ NoScan'
      BY <2>1, <2>2, <2>4 DEF LockOwned, FirstHolds, NoScan, InFlight, TypeOK
    <3>2. TodoOwned' /\ TodoDisjoint' /\ EndsOnce'
      BY <2>2, <2>4 DEF TodoOwned, TodoDisjoint, EndsOnce
    <3> QED BY <2>3, <3>1, <3>2
  <2>5. ASSUME NEW q \in FreshMessage, NEW new,
               topicLock = Free, topicLock' = t,
               messages' = [messages EXCEPT ![q] = NewPrompt(s, t)],
               new.kind = "first", new.task = t, new.todo = {},
               handlers' = handlers \cup {new}
        PROVE OneInv'
    <3>1. /\ \A u \in Task : ~ InFlight(u)
          /\ \A h \in handlers : h.kind # "first"
      BY <2>5, LockValues DEF LockOwned, FirstHolds
    <3>2. LockOwned' /\ FirstHolds'
      BY <2>1, <2>5, <3>1 DEF LockOwned, FirstHolds, InFlight, TypeOK
    <3>3. NoScan'
      BY <2>2, <2>5 DEF NoScan
    <3>4. \A p \in Message : messages[p].st = "saved" => messages'[p].st = "saved"
      BY <2>5, FreshKeeps
    <3>5. TodoOwned' /\ TodoDisjoint' /\ EndsOnce'
      <4>1. /\ \A h \in handlers' : h \in handlers \/ h.todo = {}
            /\ \A h \in handlers : \A r \in h.todo : r \in staged'
        BY <2>2, <2>5 DEF TodoOwned
      <4> QED BY <2>2, <3>4, <4>1, RowsKept
    <3> QED BY <2>3, <3>2, <3>3, <3>5
  <2>6. ASSUME NEW q \in FreshMessage, topicLock = Free, topicLock' = t,
               messages' = [messages EXCEPT ![q] = NewPrompt(s, t)],
               handlers' = handlers \cup
                 {[kind |-> "first", task |-> t, row |-> NoRow, todo |-> {}, out |-> q]}
        PROVE OneInv'
    <3> DEFINE new == [kind |-> "first", task |-> t, row |-> NoRow, todo |-> {},
                       out |-> q]
    <3>1. new.kind = "first" /\ new.task = t /\ new.todo = {}
      OBVIOUS
    <3> HIDE DEF new
    <3>2. handlers' = handlers \cup {new}
      BY <2>6 DEF new
    <3> QED BY <2>5, <2>6, <3>1, <3>2
  <2> QED BY <2>1, <2>4, <2>6
<1>2. CASE AskSender(m)
  <2> DEFINE t == messages[m].task
  <2>1. /\ t \in Task
        /\ state[t] \in {"working", "input-required"}
        /\ state' = [state EXCEPT ![t] = "input-required"]
        /\ UNCHANGED <<topicLock, handlers, due, phase>>
        /\ \E q \in Message \cup {NoMessage} : \E receiver :
             StageRow(m, staged, "question", t, receiver, q)
        /\ messages' = [messages EXCEPT ![m].replied = TRUE]
           \/ \E q \in FreshMessage : \E v : messages' = [messages EXCEPT ![q] = v]
    <3>1. t \in Task
      BY <1>2 DEF AskSender, TypeOK, Prompt
    <3>2. state[t] \in {"working", "input-required"}
      BY <1>2 DEF AskSender, Legal, Transitions
    <3> QED BY <1>2, <3>1, <3>2, FreshType DEF AskSender
  <2>2. /\ staged \subseteq staged'
        /\ \A r \in staged' : r \in staged \/ r.kind # "answer"
    BY <2>1, StagedRows
  <2>3. AnswersExpected'
    <3>1. \A r \in staged : r.task \in Task
      BY DEF TypeOK, Row
    <3> HIDE DEF t
    <3> QED BY <2>1, <2>2, <3>1 DEF AnswersExpected, TypeOK
  <2>4. LockOwned' /\ FirstHolds' /\ NoScan'
    BY <2>1 DEF LockOwned, FirstHolds, NoScan, InFlight, TypeOK
  <2>5. \A p \in Message : messages[p].st = "saved" => messages'[p].st = "saved"
    <3>1. ASSUME NEW q \in FreshMessage, NEW v, messages' = [messages EXCEPT ![q] = v],
                 NEW p \in Message, messages[p].st = "saved"
          PROVE messages'[p].st = "saved"
      BY <3>1, FreshKeeps
    <3>2. ASSUME messages' = [messages EXCEPT ![m].replied = TRUE],
                 NEW p \in Message, messages[p].st = "saved"
          PROVE messages'[p].st = "saved"
      BY <3>2 DEF TypeOK, Prompt
    <3> HIDE DEF t
    <3> QED BY <2>1, <3>1, <3>2
  <2>6. TodoOwned' /\ TodoDisjoint' /\ EndsOnce'
    <3>1. /\ \A h \in handlers' : h \in handlers \/ h.todo = {}
          /\ \A h \in handlers : \A r \in h.todo : r \in staged'
      BY <2>1, <2>2 DEF TodoOwned
    <3>2. due' = due
      BY <2>1
    <3> QED BY <2>5, <3>1, <3>2, RowsKept
  <2> QED BY <2>3, <2>4, <2>6
<1>3. CASE SubmitResult(m)
  <2> DEFINE kept == {r \in staged : ~(r.prompt = m /\ r.kind = "result_ready")}
  <2>1. /\ messages[m].st = "running"
        /\ UNCHANGED <<state, topicLock, messages, handlers, due, phase>>
        /\ \E t, receiver, q : StageRow(m, kept, "result_ready", t, receiver, q)
    BY <1>3 DEF SubmitResult, ToolCall
  <2>2. /\ kept \subseteq staged'
        /\ \A r \in staged' : r \in kept \/ r.kind # "answer"
    BY <2>1, StagedRows
  <2>3. LockOwned' /\ FirstHolds' /\ AnswersExpected' /\ NoScan'
    BY <2>1, <2>2, TasksKept DEF NoScan
  <2>4. TodoOwned' /\ TodoDisjoint' /\ EndsOnce'
    <3>1. \A h \in handlers : \A r \in h.todo : r \in staged'
      BY <2>1, <2>2 DEF TodoOwned
    <3>2. UNCHANGED <<messages, handlers, due>>
      BY <2>1
    <3> QED BY <3>1, <3>2, RowsKept
  <2> QED BY <2>3, <2>4
<1>4. ASSUME NEW t \in Task, AnswerQuestion(m, t) PROVE OneInv'
  <2>1. /\ state[t] = "input-required"
        /\ \A r \in staged : ~(r.kind = "answer" /\ r.task = t)
        /\ StageRow(m, staged, "answer", t, info[t].assignee, NoMessage)
        /\ UNCHANGED <<state, topicLock, messages, handlers, due, phase>>
    BY <1>4 DEF AnswerQuestion, Waiting
  <2>2. PICK new : staged' = staged \cup {new} /\ new.kind = "answer" /\ new.task = t
    BY <2>1, StagedRow
  <2>3. AnswersExpected'
    BY <2>1, <2>2 DEF AnswersExpected
  <2>4. LockOwned' /\ FirstHolds' /\ NoScan'
    BY <2>1 DEF LockOwned, FirstHolds, NoScan, InFlight
  <2>5. TodoOwned' /\ TodoDisjoint' /\ EndsOnce'
    BY <2>1, <2>2 DEF TodoOwned, TodoDisjoint, EndsOnce
  <2> QED BY <2>3, <2>4, <2>5
<1>5. ASSUME NEW t \in Task, AcceptResult(m, t) PROVE OneInv'
  <2>1. /\ state[t] = "working"
        /\ UNCHANGED <<staged, due, phase>>
        /\ \/ /\ state' = [state EXCEPT ![t] = "completed"]
              /\ topicLock' = Free
              /\ UNCHANGED <<messages, handlers>>
           \/ \E u \in Task, q \in FreshMessage : \E v :
                /\ state[u] = "submitted"
                /\ state' = [state EXCEPT ![t] = "completed", ![u] = "working"]
                /\ topicLock' = u
                /\ messages' = [messages EXCEPT ![q] = v]
                /\ handlers' = handlers \cup
                     {[kind |-> "next", task |-> u, row |-> NoRow,
                       todo |-> {}, out |-> q]}
    <3>1. state[t] = "working"
      BY <1>5 DEF AcceptResult, Legal, Transitions
    <3> QED BY <1>5, <3>1 DEF AcceptResult, NextQueued
  <2>2. \A u \in Task : InFlight(u) => u = t
    BY <2>1 DEF LockOwned, InFlight
  <2>3. \A h \in handlers : h.kind # "first"
    BY <2>1 DEF FirstHolds, LockOwned, InFlight
  <2>4. AnswersExpected'
    <3>1. \A r \in staged : r.task \in Task
      BY DEF TypeOK, Row
    <3>2. \A u \in Task : state[u] = "input-required" => state'[u] = "input-required"
      BY <2>1 DEF TypeOK
    <3> QED BY <2>1, <3>1, <3>2 DEF AnswersExpected
  <2>5. CASE /\ state' = [state EXCEPT ![t] = "completed"]
             /\ topicLock' = Free
             /\ UNCHANGED <<messages, handlers>>
    <3>1. LockOwned' /\ FirstHolds' /\ NoScan'
      BY <2>1, <2>2, <2>3, <2>5 DEF LockOwned, FirstHolds, NoScan, InFlight, TypeOK
    <3>2. TodoOwned' /\ TodoDisjoint' /\ EndsOnce'
      BY <2>1, <2>5 DEF TodoOwned, TodoDisjoint, EndsOnce
    <3> QED BY <2>4, <3>1, <3>2
  <2>6. ASSUME NEW u \in Task, NEW q \in FreshMessage, NEW v, NEW new,
               state[u] = "submitted",
               state' = [state EXCEPT ![t] = "completed", ![u] = "working"],
               topicLock' = u,
               messages' = [messages EXCEPT ![q] = v],
               new.kind = "next", new.todo = {},
               handlers' = handlers \cup {new}
        PROVE OneInv'
    <3>1. LockOwned' /\ FirstHolds' /\ NoScan'
      BY <2>1, <2>2, <2>3, <2>6 DEF LockOwned, FirstHolds, NoScan, InFlight, TypeOK
    <3>2. \A p \in Message : messages[p].st = "saved" => messages'[p].st = "saved"
      BY <2>6, FreshKeeps
    <3>3. TodoOwned' /\ TodoDisjoint' /\ EndsOnce'
      <4>1. /\ \A h \in handlers' : h \in handlers \/ h.todo = {}
            /\ \A h \in handlers : \A r \in h.todo : r \in staged'
        BY <2>1, <2>6 DEF TodoOwned
      <4> QED BY <2>1, <3>2, <4>1, RowsKept
    <3> QED BY <2>4, <3>1, <3>3
  <2>7. ASSUME NEW u \in Task, NEW q \in FreshMessage, NEW v,
               state[u] = "submitted",
               state' = [state EXCEPT ![t] = "completed", ![u] = "working"],
               topicLock' = u,
               messages' = [messages EXCEPT ![q] = v],
               handlers' = handlers \cup
                 {[kind |-> "next", task |-> u, row |-> NoRow, todo |-> {}, out |-> q]}
        PROVE OneInv'
    <3> DEFINE new == [kind |-> "next", task |-> u, row |-> NoRow, todo |-> {},
                       out |-> q]
    <3>1. new.kind = "next" /\ new.todo = {}
      OBVIOUS
    <3> HIDE DEF new
    <3>2. handlers' = handlers \cup {new}
      BY <2>7 DEF new
    <3> QED BY <2>6, <2>7, <3>1, <3>2
  <2> QED BY <2>1, <2>5, <2>7
<1>6. CASE AskUser(m)
  <2>1. UNCHANGED <<state, topicLock, staged, handlers, due, phase>>
    BY <1>6 DEF AskUser
  <2>2. \A p \in Message : messages[p].st = "saved" => messages'[p].st = "saved"
    BY <1>6 DEF AskUser, TypeOK, Prompt
  <2>3. TodoOwned' /\ TodoDisjoint' /\ EndsOnce'
    <3>1. \A h \in handlers : \A r \in h.todo : r \in staged'
      BY <2>1 DEF TodoOwned
    <3> QED BY <2>1, <2>2, <3>1, RowsKept
  <2>4. LockOwned' /\ FirstHolds' /\ AnswersExpected' /\ NoScan'
    BY <2>1, TasksKept DEF NoScan
  <2> QED BY <2>3, <2>4
<1> QED BY <1>1, <1>2, <1>3, <1>4, <1>5, <1>6 DEF Tool

\* A coroutine resumes: a first dispatch had the lock all the time, and a row
\* loop goes on with rows that are its own.
LEMMA OnePublish ==
  ASSUME TypeOK, OneInv, NEW h \in handlers, Publish(h)
  PROVE  OneInv'
<1> USE DEF OneInv
<1> DEFINE others == handlers \ {h}
<1>1. UNCHANGED <<due, phase>> /\ h.kind # "scan"
  BY DEF Publish, NoScan
<1>2. \A p \in Message : messages[p].st = "saved" => Published(h.out)[p].st = "saved"
  BY PublishedKeeps
<1>3. CASE h.kind \in {"first", "next"}
  <2>1. /\ state' = IF h.kind = "first" THEN [state EXCEPT ![h.task] = "working"]
                    ELSE state
        /\ handlers' = others
        /\ messages' = Published(h.out)
        /\ UNCHANGED <<topicLock, staged>>
    BY <1>3 DEF Publish
  <2>2. h.kind = "first" =>
          /\ h.task \in Task
          /\ topicLock = h.task
          /\ state[h.task] = "submitted"
          /\ \A g \in others : g.kind # "first"
    BY DEF FirstHolds
  <2>3. LockOwned' /\ FirstHolds' /\ NoScan'
    BY <1>1, <2>1, <2>2 DEF LockOwned, FirstHolds, NoScan, InFlight, TypeOK
  <2>4. AnswersExpected'
    <3>1. \A r \in staged : r.task \in Task
      BY DEF TypeOK, Row
    <3> QED BY <2>1, <2>2, <3>1 DEF AnswersExpected, TypeOK
  <2>5. TodoOwned' /\ TodoDisjoint' /\ EndsOnce'
    <3>1. /\ \A g \in handlers' : g \in handlers \/ g.todo = {}
          /\ \A g \in handlers : \A r \in g.todo : r \in staged'
      BY <2>1 DEF TodoOwned
    <3>2. \A p \in Message : messages[p].st = "saved" => messages'[p].st = "saved"
      BY <1>2, <2>1
    <3> QED BY <1>1, <3>1, <3>2, RowsKept
  <2> QED BY <2>3, <2>4, <2>5
<1>4. CASE h.kind = "end"
  <2>1. Execute("end", h.todo, due, others, Published(h.out))
    BY <1>4 DEF Publish
  <2>2. h.todo \subseteq staged /\ others \subseteq handlers
    BY DEF TodoOwned
  <2>3. LockOwned' /\ FirstHolds' /\ AnswersExpected'
    BY <2>1, <2>2, OneExecuteTasks
  <2>4. \A g \in others : \A r \in g.todo :
          r \in staged \ h.todo /\ messages[r.prompt].st = "saved" /\ due[r.prompt] = 0
    BY DEF TodoOwned, TodoDisjoint
  <2>5. \A r \in h.todo : messages[r.prompt].st = "saved" /\ due[r.prompt] = 0
    BY DEF TodoOwned
  <2>6. \A f, g \in others : f # g => f.todo \cap g.todo = {}
    BY DEF TodoDisjoint
  <2>7. /\ \A p \in Message : due[p] > 0 => due[p] = 1 /\ messages[p].st = "saved"
        /\ \A p \in Message : due[p] \in Nat
        /\ due' = due
    BY <1>1 DEF EndsOnce, TypeOK
  <2>8. Published(h.out) \in Prompts
    BY PublishedType
  <2>9. TodoOwned' /\ TodoDisjoint' /\ EndsOnce'
    <3> HIDE DEF others
    <3> QED BY <1>2, <2>1, <2>2, <2>4, <2>5, <2>6, <2>7, <2>8, OneExecuteRows
  <2>10. NoScan'
    BY <1>1, <2>1, <2>2, ExecuteNoScan
  <2> QED BY <2>3, <2>9, <2>10
<1>5. h.kind \in {"first", "next", "end"}
  BY <1>1 DEF TypeOK, Handler
<1> QED BY <1>3, <1>4, <1>5

\* A killed turn is a running one: no row loop is at its rows.
LEMMA OneKill ==
  ASSUME TypeOK, OneInv, NEW m \in Message, KillTurn(m)
  PROVE  OneInv'
<1> USE DEF OneInv
<1> DEFINE rows == {r \in staged : r.prompt \in {m} /\ ~ messages[r.prompt].replied}
           ended == [p \in Message |-> IF p \in {m}
                                      THEN [messages[p] EXCEPT !.st = "dead"]
                                      ELSE messages[p]]
<1>1. /\ messages[m].st = "running"
      /\ UNCHANGED <<state, topicLock, handlers, due, phase>>
      /\ staged' = staged \ rows
      /\ messages' = Recycle(Drop(ended, rows), due, staged \ rows, handlers)
  BY DEF KillTurn, Abandon
<1>2. ended \in Prompts
  BY DEF TypeOK, Prompts, Prompt, MessageState
<1>3. ASSUME NEW p \in Message, messages[p].st = "saved",
             due'[p] # 0 \/ \E r \in staged' : r.prompt = p
      PROVE messages'[p].st = "saved"
  <2>1. ended[p].st = "saved"
    BY <1>1, <1>3
  <2> HIDE DEF ended, rows
  <2>2. Drop(ended, rows) \in Prompts /\ Drop(ended, rows)[p].st = "saved"
    BY <1>2, <2>1, DropType, DropKeeps
  <2> QED BY <1>1, <1>3, <2>2, RecycleKeeps
<1>4. TodoOwned' /\ TodoDisjoint' /\ EndsOnce'
  <2>1. \A h \in handlers : \A r \in h.todo : r \in staged'
    BY <1>1 DEF TodoOwned
  <2>2. UNCHANGED <<handlers, due>>
    BY <1>1
  <2> HIDE DEF ended, rows
  <2> QED BY <1>3, <2>1, <2>2, RowsKept
<1>5. LockOwned' /\ FirstHolds' /\ AnswersExpected' /\ NoScan'
  BY <1>1, TasksKept DEF NoScan
<1> QED BY <1>4, <1>5

\* A budget of zero is never spent.
LEMMA NothingToSpend ==
  ASSUME TypeOK, NEW k \in Budget, Spend(k, 0)
  PROVE  FALSE
<1>1. spent[k] \in Nat
  BY DEF TypeOK
<1> QED BY <1>1 DEF Spend

\* OneInv is inductive.
LEMMA OneStep ==
  ASSUME FaultFree, TypeOK, OneInv, [Next]_vars
  PROVE  OneInv'
<1>1. ASSUME NEW s \in Staff, UserPrompt(s) PROVE OneInv'
  <2>1. UNCHANGED <<state, topicLock, staged, handlers, due, phase>>
    BY <1>1 DEF UserPrompt
  <2>2. PICK q \in FreshMessage : \E v : messages' = [messages EXCEPT ![q] = v]
    BY <1>1 DEF UserPrompt
  <2>3. \A p \in Message : messages[p].st = "saved" => messages'[p].st = "saved"
    BY <2>2, FreshKeeps
  <2>4. TodoOwned' /\ TodoDisjoint' /\ EndsOnce'
    <3>1. \A h \in handlers : \A r \in h.todo : r \in staged'
      BY <2>1 DEF OneInv, TodoOwned
    <3> QED BY <2>1, <2>3, <3>1, RowsKept DEF OneInv
  <2>5. LockOwned' /\ FirstHolds' /\ AnswersExpected' /\ NoScan'
    BY <2>1, TasksKept DEF OneInv, NoScan
  <2> QED BY <2>4, <2>5 DEF OneInv
<1>2. ASSUME NEW m \in Message, Tool(m) PROVE OneInv'
  BY <1>2, OneTool DEF FaultFree
<1>3. ASSUME NEW m \in Message, Respond(m) \/ ProcessTurnEnd(m) PROVE OneInv'
  BY <1>3, OneTurn
<1>4. ASSUME NEW h \in handlers, Publish(h) PROVE OneInv'
  BY <1>4, OnePublish
<1>5. ASSUME NEW h \in handlers, StartScanJob(h) PROVE FALSE
  BY <1>5 DEF StartScanJob, OneInv, NoScan
<1>6. ~ StartupScan
  BY DEF StartupScan, OneInv, NoScan
<1>7. CASE Fault
  <2>1. ASSUME NEW m \in Message, KillTurn(m) PROVE OneInv'
    BY <2>1, OneKill
  <2>2. ASSUME NEW m \in Message, DupResponse(m) PROVE FALSE
    BY <2>2, NothingToSpend DEF DupResponse, FaultFree, Budget
  <2>3. ASSUME NEW h \in handlers, DispatchFails(h) PROVE FALSE
    BY <2>3, NothingToSpend DEF DispatchFails, FaultFree, Budget
  <2>4. ASSUME NEW s \in Staff, RemoveStaff(s) PROVE OneInv'
    BY <2>4 DEF RemoveStaff, OneInv, LockOwned, FirstHolds, NoScan, AnswersExpected,
                TodoOwned, TodoDisjoint, EndsOnce, InFlight
  <2>5. ~ Crash
    BY NothingToSpend DEF Crash, FaultFree, Budget
  <2> QED BY <1>7, <2>1, <2>2, <2>3, <2>4, <2>5 DEF Fault
<1>8. ASSUME NEW t \in Task, ForeignTask(t) \/ Elsewhere(t) PROVE FALSE
  BY <1>8, NothingToSpend DEF ForeignTask, Elsewhere, FaultFree, Budget
<1>9. CASE UNCHANGED vars
  BY <1>9 DEF vars, OneInv, LockOwned, FirstHolds, NoScan, AnswersExpected,
              TodoOwned, TodoDisjoint, EndsOnce, InFlight
<1> QED BY <1>1, <1>2, <1>3, <1>4, <1>5, <1>6, <1>7, <1>8, <1>9 DEF Next

\* OneInv holds at the start: nothing is under way.
LEMMA OneInit == Init => OneInv
BY DEF Init, OneInv, LockOwned, FirstHolds, NoScan, AnswersExpected, TodoOwned,
       TodoDisjoint, EndsOnce, InFlight

-----------------------------------------------------------------------------
\* The worktree of a topic is shared, so the design has at most one task of it in
\* flight.  It has, for any number of staffs, tasks and turns, while no dispatch
\* fails, no response comes twice, the master does not crash, no staff answers a
\* question twice and none names the task of another topic: whoever is in flight
\* holds the topic lock, through delegate_task, accept_result and every answer that
\* puts a task back to work.
THEOREM OneInFlight ==
  ASSUME FaultFree
  PROVE  Spec => []AtMostOneInFlight
<1>1. Init => OneInv
  BY OneInit
<1>2. TypeOK /\ OneInv /\ [Next]_vars => OneInv'
  BY OneStep
<1>3. OneInv => AtMostOneInFlight
  BY DEF OneInv, LockOwned, AtMostOneInFlight
<1> QED BY <1>1, <1>2, <1>3, TypeCorrect, PTL DEF Spec

=============================================================================
