---------------------------- MODULE OwnerProofs ----------------------------
(***************************************************************************)
(* Who is at work, with any number of faults: a row that is being          *)
(* dispatched bears its stamp, a task that is 'working' has somebody who   *)
(* works on it, and so many tasks may be in flight as faults let in.       *)
(*                                                                         *)
(* The facts they rest on are stated of a table of prompts, of turn ends,  *)
(* of staged rows and of coroutines, so that they can be shown for the     *)
(* prompts before Recycle gives back the ids nobody needs, and then carry  *)
(* over to the next state (the ...Recycled lemmas).                        *)
(***************************************************************************)
EXTENDS OneInFlightProofs, FiniteSetTheorems

\* Somebody will still read row r: it has no stamp, or a coroutine holds it.
Pending(r, rows, coroutines) == r \in rows \/ \E h \in coroutines : r \in h.todo

\* The startup scan takes the rows of prompt p: it is saved, or was published
\* and has a question to the user for a reply.
Scannable(p) == p.st = "saved" \/ (p.replied /\ p.st \in {"running", "dead"})

\* A turn that is to end, or whose rows its end executes, is saved; the startup
\* scan also executes rows of other turns it takes for ended.  Rows are staged
\* by turns that run, and those of lost turns are kept for the scan only.
Held(msgs, ends, rows, coroutines) ==
  /\ \A m \in Message : ends[m] > 0 => msgs[m].st = "saved"
  /\ \A r \in rows : msgs[r.prompt].st = "running" \/ Scannable(msgs[r.prompt])
  /\ \A h \in coroutines :
       /\ h.row # NoRow => Scannable(msgs[h.row.prompt])
       /\ \A r \in h.todo : Scannable(msgs[r.prompt])
       /\ h.kind = "end" => \A r \in h.todo : msgs[r.prompt].st = "saved"

HeldInv == Held(messages, due, staged, handlers)

-----------------------------------------------------------------------------
(* Giving ids back *)

\* Prompt p is one that Recycle must not give back.
Needed(p, ends, rows, coroutines) ==
  \/ ends[p] > 0
  \/ \E r \in rows : r.prompt = p
  \/ \E h \in coroutines : \/ p \in {h.out, h.row.prompt}
                           \/ \E r \in h.todo : p \in {r.prompt, r.question}

LEMMA RecycleSame ==
  ASSUME NEW base, NEW ends, NEW rows, NEW coroutines, NEW p \in Message,
         base[p].st \notin {"saved", "dead"} \/ Needed(p, ends, rows, coroutines)
  PROVE  Recycle(base, ends, rows, coroutines)[p] = base[p]
<1>1. CASE base[p].st \notin {"saved", "dead"}
  BY <1>1 DEF Recycle
<1>2. CASE Needed(p, ends, rows, coroutines)
  <2>1. CASE ends[p] > 0
    <3>1. ends[p] # 0
      BY <2>1
    <3> QED BY <3>1 DEF Recycle
  <2>2. CASE \E r \in rows : r.prompt = p
    BY <2>2 DEF Recycle
  <2>3. CASE \E h \in coroutines : \/ p \in {h.out, h.row.prompt}
                                   \/ \E r \in h.todo : p \in {r.prompt, r.question}
    BY <2>3 DEF Recycle
  <2> QED BY <1>2, <2>1, <2>2, <2>3 DEF Needed
<1> QED BY <1>1, <1>2

\* What may be held is well formed: rows and turn ends of prompts.
LEMMA HeldRecycled ==
  ASSUME NEW base, NEW ends, NEW rows, rows \subseteq Row,
         NEW coroutines, coroutines \subseteq Handler,
         Held(base, ends, rows, coroutines)
  PROVE  Held(Recycle(base, ends, rows, coroutines), ends, rows, coroutines)
<1> DEFINE after == Recycle(base, ends, rows, coroutines)
<1>1. ASSUME NEW m \in Message, ends[m] > 0 PROVE after[m].st = "saved"
  <2>1. after[m] = base[m]
    BY <1>1, RecycleSame DEF Needed
  <2> QED BY <1>1, <2>1 DEF Held
<1>2. ASSUME NEW r \in rows
      PROVE  after[r.prompt].st = "running" \/ Scannable(after[r.prompt])
  <2>1. r.prompt \in Message
    BY DEF Row
  <2>2. after[r.prompt] = base[r.prompt]
    BY <2>1, RecycleSame DEF Needed
  <2> QED BY <2>2 DEF Held
<1>3. ASSUME NEW h \in coroutines, h.row # NoRow PROVE Scannable(after[h.row.prompt])
  <2>1. h.row.prompt \in Message
    BY <1>3 DEF Handler, Row
  <2>2. after[h.row.prompt] = base[h.row.prompt]
    BY <2>1, RecycleSame DEF Needed
  <2> QED BY <1>3, <2>2 DEF Held
<1>4. ASSUME NEW h \in coroutines, NEW r \in h.todo
      PROVE  /\ Scannable(after[r.prompt])
             /\ h.kind = "end" => after[r.prompt].st = "saved"
  <2>1. r.prompt \in Message
    BY DEF Handler, Row
  <2>2. after[r.prompt] = base[r.prompt]
    BY <2>1, RecycleSame DEF Needed
  <2> QED BY <2>2 DEF Held
<1> HIDE DEF after
<1> QED BY <1>1, <1>2, <1>3, <1>4 DEF Held, after

\* Held is lost by a prompt only.
LEMMA HeldMoves ==
  ASSUME NEW msgs, NEW ends, NEW rows, NEW coroutines, NEW base,
         rows \subseteq Row, coroutines \subseteq Handler,
         Held(msgs, ends, rows, coroutines),
         \A p \in Message : msgs[p].st = "saved" => base[p].st = "saved",
         \A p \in Message : Scannable(msgs[p]) => Scannable(base[p]),
         \A r \in rows : msgs[r.prompt].st = "running"
                           => base[r.prompt].st = "running" \/ Scannable(base[r.prompt])
  PROVE  Held(base, ends, rows, coroutines)
<1>1. /\ \A r \in rows : r.prompt \in Message
      /\ \A h \in coroutines : \A r \in h.todo : r.prompt \in Message
      /\ \A h \in coroutines : h.row # NoRow => h.row.prompt \in Message
  BY DEF Handler, Row
<1> QED BY <1>1 DEF Held

-----------------------------------------------------------------------------
(* The row loop *)

\* The loop suspends at row r, whose prompt q waits in coroutine g for the publish.
Suspends(kind, todo, ends, others, base, r, q, g, skipped) ==
  /\ \A x \in skipped : x \in todo /\ x.receiver \notin roster
  /\ q \in Carrier(r)
  /\ g.kind = kind /\ g.task = r.task /\ g.row = r /\ g.out = q
  /\ g.todo \subseteq todo \ (skipped \cup {r})
  /\ staged' = staged \ (skipped \cup {r})
  /\ state' = IF r.kind = "answer" THEN [state EXCEPT ![r.task] = "working"] ELSE state
  /\ told' = IF r.kind = "result_ready" THEN told \cup {r.task} ELSE told
  /\ topicLock' = topicLock
  /\ handlers' = others \cup {g}
  /\ messages' = Recycle(Carried(Drop(base, skipped), r, q), ends, staged', handlers')

\* The loop comes to its end.
Exhausts(todo, ends, others, base) ==
  /\ \A r \in todo : r.receiver \notin roster
  /\ staged' = staged \ todo
  /\ handlers' = others
  /\ messages' = Recycle(Drop(base, todo), ends, staged', handlers')
  /\ UNCHANGED <<state, told>>

LEMMA ExecuteCases ==
  ASSUME NEW kind, NEW todo, todo \subseteq Row, NEW ends, NEW others, NEW base,
         Execute(kind, todo, ends, others, base)
  PROVE  \/ Exhausts(todo, ends, others, base)
         \/ \E r \in todo, q \in Message : \E g, skipped :
              Suspends(kind, todo, ends, others, base, r, q, g, skipped)
<1> DEFINE waits == {r \in todo : r.receiver \in roster}
<1>1. CASE /\ waits = {}
           /\ staged' = Unstamped(todo)
           /\ handlers' = others
           /\ messages' = Recycle(Drop(base, todo), ends, Unstamped(todo), others)
           /\ UNCHANGED <<state, told>>
  BY <1>1 DEF Exhausts, Unstamped
<1>2. ASSUME NEW r \in waits, NEW q \in Message,
             LET skipped == {x \in todo : x.n < r.n}
                 rows == Unstamped(skipped \cup {r})
                 suspended == [kind |-> kind, task |-> r.task, row |-> r,
                               todo |-> {x \in todo : x.n > r.n}, out |-> q]
             IN /\ \A x \in waits : r.n <= x.n
                /\ q \in Carrier(r)
                /\ staged' = rows
                /\ state' = IF r.kind = "answer"
                            THEN [state EXCEPT ![r.task] = "working"] ELSE state
                /\ told' = IF r.kind = "result_ready" THEN told \cup {r.task} ELSE told
                /\ handlers' = others \cup {suspended}
                /\ messages' = Recycle(Carried(Drop(base, skipped), r, q), ends, rows,
                                       others \cup {suspended})
                /\ UNCHANGED topicLock
      PROVE \E g, skipped : Suspends(kind, todo, ends, others, base, r, q, g, skipped)
  <2> DEFINE skipped == {x \in todo : x.n < r.n}
             g == [kind |-> kind, task |-> r.task, row |-> r,
                   todo |-> {x \in todo : x.n > r.n}, out |-> q]
  <2>1. \A x \in skipped : x \in todo /\ x.receiver \notin roster
    <3>1. \A x \in todo : x.n \in Nat /\ r.n \in Nat
      BY DEF Row
    <3> QED BY <1>2, <3>1
  <2>2. /\ g.kind = kind /\ g.task = r.task /\ g.row = r /\ g.out = q
        /\ g.todo \subseteq todo \ (skipped \cup {r})
    <3>1. \A x \in todo : x.n \in Nat
      BY DEF Row
    <3> QED BY <3>1
  <2>3. /\ q \in Carrier(r)
        /\ staged' = staged \ (skipped \cup {r})
        /\ state' = IF r.kind = "answer" THEN [state EXCEPT ![r.task] = "working"] ELSE state
        /\ told' = IF r.kind = "result_ready" THEN told \cup {r.task} ELSE told
        /\ topicLock' = topicLock
        /\ handlers' = others \cup {g}
        /\ messages' = Recycle(Carried(Drop(base, skipped), r, q), ends, staged', handlers')
    BY <1>2 DEF Unstamped
  <2> HIDE DEF skipped, g
  <2>4. Suspends(kind, todo, ends, others, base, r, q, g, skipped)
    BY <2>1, <2>2, <2>3 DEF Suspends
  <2> QED BY <2>4
<1> QED BY <1>1, <1>2 DEF Execute

\* Who is written by the helpers on prompts: questions not yet asked, the prompt
\* that carries a row, and the prompt that is published.
LEMMA DropSame ==
  ASSUME NEW base, NEW rows, NEW p \in Message, base[p].st # "asked"
  PROVE  Drop(base, rows)[p] = base[p]
BY DEF Drop

LEMMA CarriedSame ==
  ASSUME NEW base \in Prompts, NEW r, NEW q \in Message, NEW p \in Message,
         q \in Carrier(r),
         base[p].st \notin {"free", "asked"},
         \A m \in Message : messages[m].st = "free" => base[m].st = "free"
  PROVE  Carried(base, r, q)[p] = base[p]
<1>1. CASE r.kind = "question"
  BY <1>1 DEF Carried, Prompts
<1>2. CASE r.kind # "question"
  <2>1. base[q].st = "free"
    BY <1>2 DEF Carrier, FreshMessage
  <2> QED BY <1>2, <2>1 DEF Carried, Prompts
<1> QED BY <1>1, <1>2

LEMMA PublishedSame ==
  ASSUME TypeOK, NEW q, NEW p \in Message, messages[p].st # "out"
  PROVE  Published(q)[p] = messages[p]
BY DEF Published, TypeOK

\* A fresh id is none of the prompts in use.
LEMMA FreshSame ==
  ASSUME TypeOK, NEW q \in FreshMessage, NEW v, NEW p \in Message,
         messages[p].st # "free"
  PROVE  [messages EXCEPT ![q] = v][p] = messages[p]
BY DEF FreshMessage, TypeOK

\* No row in hand is lost by a row loop, and it goes on with rows of its own.
LEMMA HeldExecute ==
  ASSUME TypeOK, NEW kind, NEW todo, todo \subseteq Row, NEW ends,
         NEW others, others \subseteq Handler, NEW base \in Prompts,
         Held(base, ends, staged, others),
         \A r \in todo : Scannable(base[r.prompt]),
         kind = "end" => \A r \in todo : base[r.prompt].st = "saved",
         \A p \in Message : messages[p].st = "free" => base[p].st = "free",
         TypeOK', due' = ends,
         Execute(kind, todo, ends, others, base)
  PROVE  HeldInv'
<1>1. \A p \in Message : \A rows : base[p].st # "asked" => Drop(base, rows)[p] = base[p]
  BY DropSame
<1>2. staged' \subseteq Row /\ handlers' \subseteq Handler /\ \A r \in Row : r.prompt \in Message
  BY DEF TypeOK, Row
<1>3. CASE Exhausts(todo, ends, others, base)
  <2>1. /\ staged' = staged \ todo
        /\ handlers' = others
        /\ messages' = Recycle(Drop(base, todo), ends, staged', handlers')
    BY <1>3 DEF Exhausts
  <2>2. Held(base, ends, staged', handlers')
    BY <2>1 DEF Held
  <2>3. Held(Drop(base, todo), ends, staged', handlers')
    BY <1>1, <1>2, <2>2, HeldMoves DEF Scannable
  <2> QED BY <1>2, <2>1, <2>3, HeldRecycled DEF HeldInv
<1>4. ASSUME NEW r \in todo, NEW q \in Message, NEW g, NEW skipped,
             Suspends(kind, todo, ends, others, base, r, q, g, skipped)
      PROVE  HeldInv'
  <2> DEFINE dropped == Drop(base, skipped)
             carried == Carried(dropped, r, q)
  <2>1. /\ q \in Carrier(r) /\ g.row = r /\ g.todo \subseteq todo /\ g.kind = kind
        /\ staged' = staged \ (skipped \cup {r})
        /\ handlers' = others \cup {g}
        /\ messages' = Recycle(carried, ends, staged', handlers')
    BY <1>4 DEF Suspends
  <2>2. Held(base, ends, staged', handlers')
    BY <2>1 DEF Held
  <2>3. dropped \in Prompts /\ \A p \in Message : base[p].st # "asked" => dropped[p] = base[p]
    BY <1>1, DropType
  <2> HIDE DEF dropped
  <2>4. \A p \in Message : base[p].st \notin {"free", "asked"} => carried[p] = base[p]
    <3>1. \A m \in Message : messages[m].st = "free" => dropped[m].st = "free"
      BY <2>3
    <3> QED BY <2>1, <2>3, <3>1, CarriedSame
  <2> HIDE DEF carried
  <2>5. Held(carried, ends, staged', handlers')
    BY <1>2, <2>2, <2>4, HeldMoves DEF Scannable
  <2> QED BY <1>2, <2>1, <2>5, HeldRecycled DEF HeldInv
<1> QED BY <1>3, <1>4, ExecuteCases

-----------------------------------------------------------------------------
(* HeldInv is inductive. *)

\* A step that gives no id back.
LEMMA HeldKept ==
  ASSUME TypeOK, HeldInv, TypeOK',
         \A p \in Message : messages[p].st = "saved" => messages'[p].st = "saved",
         \A p \in Message : messages[p].st = "running" => messages'[p].st \in {"running", "saved"},
         \A p \in Message : Scannable(messages[p]) => Scannable(messages'[p]),
         \A p \in Message : due'[p] > 0 => due[p] > 0 \/ messages'[p].st = "saved",
         \A r \in staged' : r \in staged \/ messages'[r.prompt].st = "running",
         \A h \in handlers' : \/ h \in handlers
                              \/ /\ h.row = NoRow
                                 /\ h.todo # {} => h.kind = "scan"
                                 /\ \A r \in h.todo : Scannable(messages'[r.prompt])
  PROVE  HeldInv'
<1>1. /\ \A r \in staged : r.prompt \in Message
      /\ \A h \in handlers : h.row # NoRow => h.row.prompt \in Message
      /\ \A h \in handlers : \A r \in h.todo : r.prompt \in Message
  BY DEF TypeOK, Handler, Row
<1>2. \A p \in Message : messages'[p].st = "saved" => Scannable(messages'[p])
  BY DEF Scannable
<1> QED BY <1>1, <1>2 DEF HeldInv, Held

\* Turns nobody will answer take their rows with them, unless they asked the user.
LEMMA HeldAbandon ==
  ASSUME TypeOK, TypeOK', NEW base \in Prompts, NEW turns, NEW ends,
         NEW coroutines, coroutines \subseteq Handler,
         Held(base, ends, staged, coroutines),
         \A p \in turns : base[p].st = "running",
         Abandon(base, turns, ends, coroutines)
  PROVE  Held(messages', ends, staged', coroutines)
<1> DEFINE rows == {r \in staged : r.prompt \in turns /\ ~ base[r.prompt].replied}
           ended == [m \in Message |-> IF m \in turns
                                      THEN [base[m] EXCEPT !.st = "dead"]
                                      ELSE base[m]]
           dropped == Drop(ended, rows)
<1>1. /\ staged' = staged \ rows
      /\ messages' = Recycle(dropped, ends, staged', coroutines)
  BY DEF Abandon
<1>2. \A r \in staged' : /\ r \in staged /\ r.prompt \in Message
                         /\ r.prompt \in turns => base[r.prompt].replied
  BY <1>1 DEF TypeOK, Row
<1>3. \A p \in Message : /\ p \notin turns => ended[p] = base[p]
                         /\ p \in turns => /\ ended[p].st = "dead"
                                            /\ ended[p].replied = base[p].replied
  BY DEF Prompts, Prompt
<1> HIDE DEF rows, ended
<1>4. \A p \in Message : /\ p \notin turns /\ base[p].st # "asked" => dropped[p] = base[p]
                         /\ p \in turns => dropped[p] = ended[p]
  <2>1. \A p \in Message : ended[p].st # "asked" => dropped[p] = ended[p]
    BY DropSame
  <2> HIDE DEF dropped
  <2> QED BY <1>3, <2>1
<1> HIDE DEF dropped
<1>5. Held(base, ends, staged', coroutines)
  BY <1>2 DEF Held
<1>6. Held(dropped, ends, staged', coroutines)
  <2>1. \A p \in Message : base[p].st = "saved" => dropped[p].st = "saved"
    BY <1>4
  <2>2. \A p \in Message : Scannable(base[p]) => Scannable(dropped[p])
    BY <1>3, <1>4 DEF Scannable
  <2>3. \A r \in staged' : base[r.prompt].st = "running"
          => dropped[r.prompt].st = "running" \/ Scannable(dropped[r.prompt])
    BY <1>2, <1>3, <1>4 DEF Scannable
  <2>4. staged' \subseteq Row
    BY DEF TypeOK
  <2> QED BY <1>5, <2>1, <2>2, <2>3, <2>4, HeldMoves
<1>7. staged' \subseteq Row
  BY DEF TypeOK
<1> QED BY <1>1, <1>6, <1>7, HeldRecycled

LEMMA HeldTurn ==
  ASSUME TypeOK, HeldInv, TypeOK', NEW m \in Message, Respond(m) \/ ProcessTurnEnd(m)
  PROVE  HeldInv'
<1>1. CASE Respond(m)
  <2>1. /\ messages' = [messages EXCEPT ![m].st = "saved"]
        /\ due' = [due EXCEPT ![m] = @ + 1]
        /\ UNCHANGED <<staged, handlers>>
    BY <1>1 DEF Respond
  <2>2. \A p \in Message : /\ p # m => messages'[p] = messages[p] /\ due'[p] = due[p]
                           /\ messages'[m].st = "saved"
    BY <2>1 DEF TypeOK, Prompt
  <2>3. \A p \in Message : Scannable(messages[p]) => Scannable(messages'[p])
    BY <2>2 DEF Scannable
  <2> QED BY <2>1, <2>2, <2>3, HeldKept
<1>2. CASE ProcessTurnEnd(m)
  <2> DEFINE t == messages[m].task
             ends == [due EXCEPT ![m] = @ - 1]
  <2>1. messages[m].st = "saved" /\ due' = ends
    BY <1>2 DEF ProcessTurnEnd, HeldInv, Held
  <2>2. Held(messages, ends, staged, handlers)
    <3>1. \A p \in Message : ends[p] > 0 => due[p] > 0
      BY DEF TypeOK
    <3> QED BY <3>1 DEF HeldInv, Held
  <2>3. messages \in Prompts /\ handlers \subseteq Handler /\ staged \subseteq Row
    BY DEF TypeOK, Prompts
  <2>4. staged' \subseteq Row /\ handlers' \subseteq Handler
    BY DEF TypeOK
  <2> HIDE DEF ends
  <2>5. CASE Execute("end", RowsOf(m), ends, handlers, messages)
    <3>1. RowsOf(m) \subseteq Row /\ \A r \in RowsOf(m) : messages[r.prompt].st = "saved"
      BY <2>1, <2>3 DEF RowsOf
    <3>2. \A r \in RowsOf(m) : Scannable(messages[r.prompt])
      BY <3>1 DEF Scannable
    <3> QED BY <2>1, <2>2, <2>3, <2>5, <3>1, <3>2, HeldExecute
  <2>6. ASSUME NEW q \in FreshMessage, NEW g, NEW v,
               g.row = NoRow, g.todo = {},
               handlers' = handlers \cup {g},
               staged' = staged,
               messages' = Recycle([messages EXCEPT ![q] = v], ends, staged, handlers \cup {g})
        PROVE  HeldInv'
    <3> DEFINE base == [messages EXCEPT ![q] = v]
    <3>1. Held(messages, ends, staged', handlers')
      BY <2>2, <2>6 DEF Held
    <3>2. \A p \in Message : messages[p].st # "free" => base[p] = messages[p]
      BY FreshSame
    <3> HIDE DEF base
    <3>3. \A r \in staged' : r.prompt \in Message
      BY <2>4 DEF Row
    <3>4. Held(base, ends, staged', handlers')
      BY <2>4, <3>1, <3>2, <3>3, HeldMoves DEF Scannable
    <3>5. messages' = Recycle(base, ends, staged', handlers')
      BY <2>6 DEF base
    <3> QED BY <2>1, <2>4, <3>4, <3>5, HeldRecycled DEF HeldInv
  <2>7. ASSUME NEW q \in FreshMessage,
               LET suspended == [kind |-> "end", task |-> t, row |-> NoRow,
                                 todo |-> {}, out |-> q]
                   judgment == NewPrompt(info[t].dispatcher, t)
               IN /\ handlers' = handlers \cup {suspended}
                  /\ messages' = Recycle([messages EXCEPT ![q] = judgment], ends, staged,
                                         handlers \cup {suspended}),
               staged' = staged
        PROVE  HeldInv'
    <3> DEFINE g == [kind |-> "end", task |-> t, row |-> NoRow, todo |-> {}, out |-> q]
    <3>1. g.row = NoRow /\ g.todo = {}
      OBVIOUS
    <3>2. /\ handlers' = handlers \cup {g}
          /\ messages' = Recycle([messages EXCEPT ![q] = NewPrompt(info[t].dispatcher, t)],
                                 ends, staged, handlers \cup {g})
      BY <2>7
    <3> HIDE DEF g
    <3> QED BY <2>6, <2>7, <3>1, <3>2
  <2>8. CASE /\ messages' = Recycle(messages, ends, staged, handlers)
             /\ UNCHANGED <<staged, handlers>>
    BY <2>1, <2>2, <2>3, <2>8, HeldRecycled DEF HeldInv
  <2> QED BY <1>2, <2>5, <2>7, <2>8 DEF ProcessTurnEnd, ends
<1> QED BY <1>1, <1>2

LEMMA HeldTool ==
  ASSUME TypeOK, HeldInv, TypeOK', NEW m \in Message, Tool(m)
  PROVE  HeldInv'
<1>1. messages[m].st = "running" /\ due' = due
  BY DEF Tool, DelegateTask, AskSender, AskUser, SubmitResult, AnswerQuestion,
         AcceptResult, ToolCall
<1>2. \/ messages' = messages
      \/ messages' = [messages EXCEPT ![m].replied = TRUE]
      \/ \E q \in FreshMessage : \E v : messages' = [messages EXCEPT ![q] = v]
  BY DEF Tool, DelegateTask, AskSender, AskUser, SubmitResult, AnswerQuestion, AcceptResult
<1>3. ASSUME NEW p \in Message, messages[p].st # "free"
      PROVE  /\ messages'[p].st = messages[p].st
             /\ messages[p].replied => messages'[p].replied
  <2>1. ASSUME NEW q \in FreshMessage, NEW v, messages' = [messages EXCEPT ![q] = v]
        PROVE  messages'[p] = messages[p]
    <3>1. [messages EXCEPT ![q] = v][p] = messages[p]
      BY <1>3, FreshSame
    <3> QED BY <2>1, <3>1
  <2>2. CASE messages' = [messages EXCEPT ![m].replied = TRUE]
    BY <2>2 DEF TypeOK, Prompt
  <2> QED BY <1>2, <2>1, <2>2
<1>4. \A r \in staged' : r \in staged \/ r.prompt = m
  BY DEF Tool, DelegateTask, AskSender, AskUser, SubmitResult, AnswerQuestion,
         AcceptResult, StageRow
<1>5. \/ handlers' = handlers
      \/ \E k, t, q : handlers' = handlers \cup
           {[kind |-> k, task |-> t, row |-> NoRow, todo |-> {}, out |-> q]}
  BY DEF Tool, DelegateTask, AskSender, AskUser, SubmitResult, AnswerQuestion, AcceptResult
<1>6. \A h \in handlers' : h \in handlers \/ (h.row = NoRow /\ h.todo = {})
  BY <1>5
<1>7. \A p \in Message : Scannable(messages[p]) => Scannable(messages'[p])
  BY <1>3 DEF Scannable
<1> QED BY <1>1, <1>3, <1>4, <1>6, <1>7, HeldKept

LEMMA HeldHandler ==
  ASSUME TypeOK, HeldInv, TypeOK', NEW h \in handlers, Publish(h) \/ StartScanJob(h)
  PROVE  HeldInv'
<1>1. /\ handlers \ {h} \subseteq Handler /\ h.todo \subseteq Row
      /\ messages \in Prompts /\ Published(h.out) \in Prompts
      /\ \A r \in Row : r.prompt \in Message
      /\ due' = due /\ staged \subseteq Row
  BY PublishedType DEF TypeOK, Handler, Prompts, Row, Publish, StartScanJob
<1>2. \A p \in Message : messages[p].st # "out" => Published(h.out)[p] = messages[p]
  BY PublishedSame
<1>3. /\ \A r \in h.todo : Scannable(messages[r.prompt])
      /\ h.kind = "end" => \A r \in h.todo : messages[r.prompt].st = "saved"
  BY DEF HeldInv, Held
<1>4. Held(messages, due, staged, handlers \ {h})
  BY DEF HeldInv, Held
<1>5. CASE Publish(h) /\ h.kind \in {"first", "next"}
  <2>1. /\ messages' = Published(h.out)
        /\ handlers' = handlers \ {h}
        /\ staged' = staged
    BY <1>5 DEF Publish
  <2> QED BY <1>1, <1>2, <2>1, HeldKept DEF Scannable
<1>6. CASE Publish(h) /\ h.kind \in {"end", "scan"}
  <2>1. Execute(h.kind, h.todo, due, handlers \ {h}, Published(h.out))
    BY <1>6 DEF Publish
  <2>2. Held(Published(h.out), due, staged, handlers \ {h})
    BY <1>1, <1>2, <1>4, HeldMoves DEF Scannable
  <2>3. /\ \A r \in h.todo : Scannable(Published(h.out)[r.prompt])
        /\ h.kind = "end" => \A r \in h.todo : Published(h.out)[r.prompt].st = "saved"
    BY <1>1, <1>2, <1>3 DEF Scannable
  <2> QED BY <1>1, <1>2, <2>1, <2>2, <2>3, HeldExecute
<1>7. CASE StartScanJob(h)
  <2>1. Execute("scan", h.todo, due, handlers \ {h}, messages)
    BY <1>7 DEF StartScanJob
  <2> QED BY <1>1, <1>3, <1>4, <2>1, HeldExecute
<1>8. h.kind \in {"first", "next", "end", "scan"}
  BY DEF TypeOK, Handler
<1> QED BY <1>5, <1>6, <1>7, <1>8 DEF Publish

LEMMA HeldFault ==
  ASSUME TypeOK, HeldInv, TypeOK', Fault
  PROVE  HeldInv'
<1>1. messages \in Prompts /\ handlers \subseteq Handler /\ staged \subseteq Row
  BY DEF TypeOK, Prompts
<1>2. staged' \subseteq Row /\ handlers' \subseteq Handler
  BY DEF TypeOK
<1>3. ASSUME NEW m \in Message, KillTurn(m) PROVE HeldInv'
  <2>1. /\ messages[m].st = "running"
        /\ Abandon(messages, {m}, due, handlers)
        /\ UNCHANGED <<handlers, due>>
    BY <1>3 DEF KillTurn
  <2>2. Held(messages', due, staged', handlers)
    BY <1>1, <2>1, HeldAbandon DEF HeldInv
  <2> QED BY <2>1, <2>2 DEF HeldInv
<1>4. ASSUME NEW m \in Message, DupResponse(m) PROVE HeldInv'
  <2>1. /\ messages[m].st = "saved"
        /\ due' = [due EXCEPT ![m] = @ + 1]
        /\ UNCHANGED <<messages, staged, handlers>>
    BY <1>4 DEF DupResponse
  <2>2. \A p \in Message : p # m => due'[p] = due[p]
    BY <2>1 DEF TypeOK
  <2> QED BY <2>1, <2>2, HeldKept
<1>5. ASSUME NEW h \in handlers, DispatchFails(h) PROVE HeldInv'
  <2> DEFINE unsent == IF h.row # NoRow /\ h.row.kind = "question" THEN "asked" ELSE "dead"
             base == IF messages[h.out].st = "out"
                     THEN [messages EXCEPT ![h.out].st = unsent] ELSE messages
  <2>1. /\ staged' \in Restored(h.row)
        /\ messages' = Recycle(base, due, staged', handlers \ {h})
        /\ handlers' = handlers \ {h}
        /\ due' = due
    BY <1>5 DEF DispatchFails
  <2>2. \A p \in Message : messages[p].st # "out" => base[p] = messages[p]
    BY DEF TypeOK
  <2>3. Held(messages, due, staged', handlers')
    BY <2>1 DEF HeldInv, Held, Restored
  <2> HIDE DEF base
  <2>4. \A r \in staged' : r.prompt \in Message
    BY <1>2 DEF Row
  <2>5. Held(base, due, staged', handlers')
    BY <1>2, <2>2, <2>3, <2>4, HeldMoves DEF Scannable
  <2> QED BY <1>2, <2>1, <2>5, HeldRecycled DEF HeldInv
<1>6. ASSUME NEW s \in Staff, RemoveStaff(s) PROVE HeldInv'
  BY <1>6 DEF RemoveStaff, HeldInv
<1>7. CASE Crash
  <2> DEFINE ends == [m \in Message |-> 0]
  <2>1. /\ handlers' = {} /\ due' = ends
        /\ \E sent, lost :
             /\ lost \subseteq {m \in Message : messages[m].st = "running"}
             /\ Abandon([m \in Message |->
                           IF messages[m].st # "out" THEN messages[m]
                           ELSE [messages[m] EXCEPT
                                   !.st = IF m \in sent THEN "running" ELSE "dead"]],
                        lost, ends, {})
    BY <1>7 DEF Crash
  <2>2. PICK sent, lost :
          /\ lost \subseteq {m \in Message : messages[m].st = "running"}
          /\ Abandon([m \in Message |->
                        IF messages[m].st # "out" THEN messages[m]
                        ELSE [messages[m] EXCEPT
                                !.st = IF m \in sent THEN "running" ELSE "dead"]],
                     lost, ends, {})
    BY <2>1
  <2> DEFINE base == [m \in Message |->
                       IF messages[m].st # "out" THEN messages[m]
                       ELSE [messages[m] EXCEPT
                               !.st = IF m \in sent THEN "running" ELSE "dead"]]
  <2>3. base \in Prompts
    BY DEF TypeOK, Prompts, Prompt, MessageState
  <2>4. \A p \in Message : messages[p].st # "out" => base[p] = messages[p]
    OBVIOUS
  <2>5. \A m \in Message : ~ (ends[m] > 0)
    OBVIOUS
  <2>6. Abandon(base, lost, ends, {})
    BY <2>2
  <2> HIDE DEF base, ends
  <2>7. Held(base, ends, staged, {})
    <3>1. \A r \in staged : r.prompt \in Message
      BY <1>1 DEF Row
    <3> QED BY <2>4, <2>5, <3>1 DEF HeldInv, Held, Scannable
  <2>8. \A p \in lost : base[p].st = "running"
    BY <2>2, <2>4
  <2>9. Held(messages', ends, staged', {})
    BY <2>3, <2>6, <2>7, <2>8, HeldAbandon
  <2> QED BY <2>1, <2>9 DEF HeldInv
<1> QED BY <1>3, <1>4, <1>5, <1>6, <1>7 DEF Fault

LEMMA HeldStep == TypeOK /\ HeldInv /\ TypeOK' /\ [Next]_vars => HeldInv'
<1> SUFFICES ASSUME TypeOK, HeldInv, TypeOK', [Next]_vars PROVE HeldInv'
  OBVIOUS
<1>1. ASSUME NEW s \in Staff, UserPrompt(s) PROVE HeldInv'
  <2>1. /\ \E m \in FreshMessage : \E v : messages' = [messages EXCEPT ![m] = v]
        /\ UNCHANGED <<due, staged, handlers>>
    BY <1>1 DEF UserPrompt
  <2>2. \A p \in Message : messages[p].st # "free" => messages'[p] = messages[p]
    BY <2>1, FreshSame
  <2> QED BY <2>1, <2>2, HeldKept DEF Scannable
<1>2. ASSUME NEW m \in Message, Tool(m) \/ Respond(m) \/ ProcessTurnEnd(m) PROVE HeldInv'
  BY <1>2, HeldTool, HeldTurn
<1>3. ASSUME NEW h \in handlers, Publish(h) \/ StartScanJob(h) PROVE HeldInv'
  BY <1>3, HeldHandler
<1>4. CASE StartupScan
  <2>1. UNCHANGED <<messages, due, staged>>
    BY <1>4 DEF StartupScan
  <2>2. \/ handlers' = handlers
        \/ \E r \in staged : /\ Answered(r)
                             /\ handlers' = handlers \cup
                                  {[kind |-> "scan", task |-> NoTask, row |-> NoRow,
                                    todo |-> {r}, out |-> NoMessage]}
    BY <1>4 DEF StartupScan
  <2>3. \A r \in staged : Answered(r) => Scannable(messages[r.prompt])
    BY DEF HeldInv, Held, Answered, Scannable
  <2>4. \A h \in handlers' : \/ h \in handlers
                             \/ /\ h.row = NoRow /\ h.kind = "scan"
                                /\ \A r \in h.todo : Scannable(messages'[r.prompt])
    BY <2>1, <2>2, <2>3
  <2> QED BY <2>1, <2>4, HeldKept
<1>5. CASE Fault
  BY <1>5, HeldFault
<1>6. CASE UNCHANGED vars
  BY <1>6 DEF vars, HeldInv
<1>7. ASSUME NEW t \in Task, ForeignTask(t) \/ Elsewhere(t) PROVE HeldInv'
  BY <1>7 DEF ForeignTask, Elsewhere, HeldInv
<1> QED BY <1>1, <1>2, <1>3, <1>4, <1>5, <1>6, <1>7 DEF Next

LEMMA HeldInit == Init => HeldInv
BY DEF Init, HeldInv, Held

\* HeldInv is an invariant of every behaviour.
LEMMA TurnsHeld == Spec => []HeldInv
<1>1. Spec => []TypeOK
  BY TypeCorrect
<1>2. TypeOK /\ TypeOK' /\ HeldInv /\ [Next]_vars => HeldInv'
  BY HeldStep
<1> QED BY <1>1, <1>2, HeldInit, PTL DEF Spec

-----------------------------------------------------------------------------
(* The stamp comes first *)

\* A row that is staged is not one that a coroutine dispatches.
LEMMA StampKept ==
  ASSUME TypeOK, StampedBeforeDispatch, TypeOK', spent'["fail"] >= spent["fail"],
         \A r \in staged' : r \in staged \/ \A h \in handlers : h.row # r,
         \A h \in handlers' : h \in handlers \/ h.row \notin staged'
  PROVE  StampedBeforeDispatch'
<1> SUFFICES ASSUME NEW h \in handlers', h.row \in staged' PROVE spent'["fail"] > 0
  BY DEF StampedBeforeDispatch
<1>1. h \in handlers
  OBVIOUS
<1>2. spent["fail"] > 0
  BY <1>1 DEF StampedBeforeDispatch
<1>3. spent["fail"] \in Nat /\ spent'["fail"] \in Nat
  BY DEF TypeOK, Budget
<1> QED BY <1>2, <1>3

\* _stage_dispatch: a row's number is above that of every row of its turn, those
\* that are being dispatched included.
LEMMA StagedIsNew ==
  ASSUME TypeOK, NEW m, NEW kept, kept \subseteq staged, NEW kind, NEW t, NEW receiver,
         NEW q, StageRow(m, kept, kind, t, receiver, q),
         NEW r \in staged', NEW h \in handlers, h.row = r
  PROVE  r \in staged
<1> SUFFICES ASSUME r \notin kept PROVE FALSE
  OBVIOUS
<1>1. PICK n \in 1 .. MaxStaged :
        /\ \A x \in kept \cup ({g.row : g \in handlers} \cup UNION {g.todo : g \in handlers}) :
             x.prompt = m => x.n < n
        /\ staged' = kept \cup {[prompt |-> m, n |-> n, kind |-> kind, task |-> t,
                                 receiver |-> receiver, question |-> q]}
  BY DEF StageRow
<1>2. r.prompt = m /\ r.n = n
  BY <1>1
<1>3. r \in {g.row : g \in handlers}
  OBVIOUS
<1>4. n < n
  BY <1>1, <1>2, <1>3
<1>5. MaxStaged \in Nat
  BY ParamsAssumption
<1> QED BY <1>4, <1>5

\* The row loop stamps a row before it suspends on it.
LEMMA StampExecute ==
  ASSUME TypeOK, StampedBeforeDispatch, TypeOK', spent'["fail"] >= spent["fail"],
         NEW kind, NEW todo, todo \subseteq Row, NEW ends,
         NEW others, others \subseteq handlers, NEW base,
         Execute(kind, todo, ends, others, base)
  PROVE  StampedBeforeDispatch'
<1>1. CASE Exhausts(todo, ends, others, base)
  BY <1>1, StampKept DEF Exhausts
<1>2. ASSUME NEW r \in todo, NEW q \in Message, NEW g, NEW skipped,
             Suspends(kind, todo, ends, others, base, r, q, g, skipped)
      PROVE  StampedBeforeDispatch'
  <2>1. /\ staged' = staged \ (skipped \cup {r})
        /\ handlers' = others \cup {g}
        /\ g.row = r
    BY <1>2 DEF Suspends
  <2> QED BY <2>1, StampKept
<1> QED BY <1>1, <1>2, ExecuteCases

LEMMA StampStep ==
  TypeOK /\ StampedBeforeDispatch /\ TypeOK' /\ [Next]_vars => StampedBeforeDispatch'
<1> SUFFICES ASSUME TypeOK, StampedBeforeDispatch, TypeOK', [Next]_vars
             PROVE  StampedBeforeDispatch'
  OBVIOUS
<1>1. spent'["fail"] >= spent["fail"]
  BY SpentGrows DEF Budget
<1>2. NoRow \notin staged'
  BY DEF TypeOK, Row, NoRow, Message, NoMessage
<1>3. CASE staged' \subseteq staged /\ handlers' \subseteq handlers
  BY <1>1, <1>3, StampKept
<1>4. ASSUME NEW m \in Message, Tool(m) PROVE StampedBeforeDispatch'
  <2>1. \/ staged' = staged
        \/ \E kept \in SUBSET staged : \E kind, t, receiver, q :
             StageRow(m, kept, kind, t, receiver, q)
    BY <1>4 DEF Tool, DelegateTask, AskSender, AskUser, SubmitResult, AnswerQuestion,
                AcceptResult
  <2>2. \A r \in staged' : r \in staged \/ \A h \in handlers : h.row # r
    BY <2>1, StagedIsNew
  <2>3. \/ handlers' = handlers
        \/ \E k, t, q : handlers' = handlers \cup
             {[kind |-> k, task |-> t, row |-> NoRow, todo |-> {}, out |-> q]}
    BY <1>4 DEF Tool, DelegateTask, AskSender, AskUser, SubmitResult, AnswerQuestion,
                AcceptResult
  <2>4. \A h \in handlers' : h \in handlers \/ h.row = NoRow
    BY <2>3
  <2> QED BY <1>1, <1>2, <2>2, <2>4, StampKept
<1>5. ASSUME NEW m \in Message, ProcessTurnEnd(m) PROVE StampedBeforeDispatch'
  <2>1. CASE \E ends : Execute("end", RowsOf(m), ends, handlers, messages)
    <3>1. RowsOf(m) \subseteq Row
      BY DEF RowsOf, TypeOK
    <3> QED BY <1>1, <2>1, <3>1, StampExecute
  <2>2. CASE staged' = staged /\ \E t, q : handlers' = handlers \cup
               {[kind |-> "end", task |-> t, row |-> NoRow, todo |-> {}, out |-> q]}
    <3>1. \A h \in handlers' : h \in handlers \/ h.row = NoRow
      BY <2>2
    <3> QED BY <1>1, <1>2, <2>2, <3>1, StampKept
  <2> QED BY <1>3, <1>5, <2>1, <2>2 DEF ProcessTurnEnd
<1>6. ASSUME NEW h \in handlers, Publish(h) \/ StartScanJob(h) PROVE StampedBeforeDispatch'
  <2>1. h.todo \subseteq Row /\ handlers \ {h} \subseteq handlers
    BY DEF TypeOK, Handler
  <2>2. CASE \E kind, base : Execute(kind, h.todo, due, handlers \ {h}, base)
    BY <1>1, <2>1, <2>2, StampExecute
  <2>3. CASE staged' = staged /\ handlers' = handlers \ {h}
    BY <1>3, <2>3
  <2> QED BY <1>6, <2>2, <2>3 DEF Publish, StartScanJob
<1>7. CASE StartupScan
  <2>1. /\ staged' = staged
        /\ \/ handlers' = handlers
           \/ \E todo : handlers' = handlers \cup
                {[kind |-> "scan", task |-> NoTask, row |-> NoRow,
                  todo |-> todo, out |-> NoMessage]}
    BY <1>7 DEF StartupScan
  <2>2. \A h \in handlers' : h \in handlers \/ h.row = NoRow
    BY <2>1
  <2> QED BY <1>1, <1>2, <2>1, <2>2, StampKept
<1>8. CASE Fault
  <2>1. ASSUME NEW h \in handlers, DispatchFails(h) PROVE StampedBeforeDispatch'
    <3>1. spent'["fail"] = spent["fail"] + 1 /\ spent["fail"] \in Nat
      BY <2>1 DEF DispatchFails, Spend, TypeOK, Budget
    <3> QED BY <3>1 DEF StampedBeforeDispatch
  <2>2. ASSUME NEW m \in Message, KillTurn(m) \/ DupResponse(m) PROVE StampedBeforeDispatch'
    BY <1>3, <2>2 DEF KillTurn, DupResponse, Abandon
  <2>3. ASSUME NEW s \in Staff, RemoveStaff(s) PROVE StampedBeforeDispatch'
    BY <1>3, <2>3 DEF RemoveStaff
  <2>4. CASE Crash
    BY <1>3, <2>4 DEF Crash, Abandon
  <2> QED BY <1>8, <2>1, <2>2, <2>3, <2>4 DEF Fault
<1>9. ASSUME NEW m \in Message, Respond(m) PROVE StampedBeforeDispatch'
  BY <1>3, <1>9 DEF Respond
<1>10. ASSUME NEW s \in Staff, UserPrompt(s) PROVE StampedBeforeDispatch'
  BY <1>3, <1>10 DEF UserPrompt
<1>11. CASE UNCHANGED vars
  BY <1>3, <1>11 DEF vars
<1>12. ASSUME NEW t \in Task, ForeignTask(t) \/ Elsewhere(t) PROVE StampedBeforeDispatch'
  BY <1>3, <1>12 DEF ForeignTask, Elsewhere
<1> QED BY <1>4, <1>5, <1>6, <1>7, <1>8, <1>9, <1>10, <1>11, <1>12 DEF Next

\* The stamp of a staged row is written before its prompt is on its way, and
\* taken back only by a dispatch that failed (_execute_staged_row).
THEOREM StampFirst == Spec => []StampedBeforeDispatch
<1>1. Init => StampedBeforeDispatch
  BY DEF Init, StampedBeforeDispatch
<1>2. Spec => []TypeOK
  BY TypeCorrect
<1>3. TypeOK /\ TypeOK' /\ StampedBeforeDispatch /\ [Next]_vars => StampedBeforeDispatch'
  BY StampStep
<1> QED BY <1>1, <1>2, <1>3, PTL DEF Spec

-----------------------------------------------------------------------------
(* Who owns a task that is working *)

\* No turn was killed, no dispatch failed, the master did not crash, and other
\* topics kept to themselves.
NothingLost == \A k \in {"kill", "fail", "crash", "foreign", "elsewhere"} : spent[k] = 0

\* The question of a staged row waits for the end of the turn.
Asked(msgs, rows) ==
  \A r \in rows : r.question # NoMessage => msgs[r.question].st = "asked"

\* A turn submits results of the task it is a turn of.
OwnResult(msgs, rows) ==
  \A r \in rows : r.kind = "result_ready" => msgs[r.prompt].task = r.task

\* The prompts a coroutine has to deal with are not given to anybody else.
InUse(msgs, coroutines) ==
  \A h \in coroutines :
    /\ h.out # NoMessage => msgs[h.out].st # "free"
    /\ \A r \in h.todo : r.question # NoMessage => msgs[r.question].st # "free"

\* Every question is one row's.
AskedOnce(rows, coroutines) ==
  \A r, x \in Row :
    /\ Pending(r, rows, coroutines)
    /\ Pending(x, rows, coroutines)
    /\ r.question = x.question
    /\ r.question # NoMessage
    => r = x

\* The first prompt of a task waits in delegate_task's coroutine and nowhere else.
FirstWaits(inf, msgs, rows, coroutines) ==
  \A h \in coroutines : h.kind = "first" =>
    /\ h.task \in Task
    /\ h.out \in Message
    /\ msgs[h.out] = NewPrompt(inf[h.task].assignee, h.task)
    /\ \A g \in coroutines : g.out = h.out => g = h
    /\ \A r \in Row : Pending(r, rows, coroutines) => r.question # h.out

Refs(inf, msgs, rows, coroutines) ==
  /\ Asked(msgs, rows)
  /\ OwnResult(msgs, rows)
  /\ InUse(msgs, coroutines)
  /\ AskedOnce(rows, coroutines)
  /\ FirstWaits(inf, msgs, rows, coroutines)

\* Rows and coroutines are about tasks that exist; an answer goes to the
\* assignee, a result to the dispatcher; a task's turns are at depth 1 or more.
Known(st, inf, rows, coroutines) ==
  /\ \A t \in Task : st[t] # "absent" => inf[t].depth >= 1
  /\ \A h \in coroutines : h.kind = "first" => st[h.task] # "absent"
  /\ \A r \in Row : Pending(r, rows, coroutines) =>
       /\ st[r.task] # "absent"
       /\ r.kind = "answer" => r.receiver = inf[r.task].assignee
       /\ r.kind = "result_ready" => r.receiver = inf[r.task].dispatcher

\* Prompt m of task t's assignee is on its way, or its turn end is, and all the
\* turn has staged is t's result.
Owner(m, t, inf, msgs, ends, rows) ==
  /\ msgs[m].task = t
  /\ msgs[m].to = inf[t].assignee
  /\ msgs[m].st \in {"out", "running"} \/ ends[m] > 0
  /\ \A r \in rows : r.prompt = m => r.kind = "result_ready" /\ r.task = t

Submitted(t, rows) == \E r \in rows : r.kind = "result_ready" /\ r.task = t

Worked(st, inf, msgs, ends, rows, seen, staffs) ==
  \A t \in Task :
    st[t] = "working" /\ t \notin seen /\ inf[t].dispatcher \in staffs =>
      Submitted(t, rows) \/ \E m \in Message : Owner(m, t, inf, msgs, ends, rows)

WorkedInv == Worked(state, info, messages, due, staged, told, roster)

Tended ==
  /\ Refs(info, messages, staged, handlers)
  /\ Known(state, info, staged, handlers)
  /\ WorkedInv

OwnerInv == NothingLost => Tended

\* Coroutines without a prompt have none of the prompts.
LEMMA NoPromptNoMessage == NoMessage \notin Message
BY DEF NoMessage, Message

LEMMA RefsRecycled ==
  ASSUME NEW inf, NEW base, NEW ends, NEW rows, rows \subseteq Row,
         NEW coroutines, coroutines \subseteq Handler,
         Refs(inf, base, rows, coroutines)
  PROVE  Refs(inf, Recycle(base, ends, rows, coroutines), rows, coroutines)
<1> DEFINE after == Recycle(base, ends, rows, coroutines)
<1>1. \A p \in Message : base[p].st \notin {"saved", "dead"} \/ Needed(p, ends, rows, coroutines)
                           => after[p] = base[p]
  BY RecycleSame
<1> HIDE DEF after
<1>2. Asked(after, rows)
  <2> SUFFICES ASSUME NEW r \in rows, r.question # NoMessage
               PROVE  after[r.question].st = "asked"
    BY DEF Asked
  <2>1. r.question \in Message
    BY DEF Row
  <2>2. base[r.question].st = "asked"
    BY DEF Refs, Asked
  <2> QED BY <1>1, <2>1, <2>2
<1>3. OwnResult(after, rows)
  <2> SUFFICES ASSUME NEW r \in rows, r.kind = "result_ready"
               PROVE  after[r.prompt].task = r.task
    BY DEF OwnResult
  <2>1. r.prompt \in Message
    BY DEF Row
  <2>2. Needed(r.prompt, ends, rows, coroutines)
    BY DEF Needed
  <2> QED BY <1>1, <2>1, <2>2 DEF Refs, OwnResult
<1>4. InUse(after, coroutines)
  <2> SUFFICES ASSUME NEW h \in coroutines
               PROVE  /\ h.out # NoMessage => after[h.out].st # "free"
                      /\ \A r \in h.todo : r.question # NoMessage
                                             => after[r.question].st # "free"
    BY DEF InUse
  <2>1. ASSUME h.out # NoMessage PROVE after[h.out].st # "free"
    <3>1. h.out \in Message
      BY <2>1 DEF Handler
    <3>2. Needed(h.out, ends, rows, coroutines)
      BY DEF Needed
    <3> QED BY <1>1, <2>1, <3>1, <3>2 DEF Refs, InUse
  <2>2. ASSUME NEW r \in h.todo, r.question # NoMessage PROVE after[r.question].st # "free"
    <3>1. r.question \in Message
      BY <2>2 DEF Handler, Row
    <3>2. Needed(r.question, ends, rows, coroutines)
      BY DEF Needed
    <3> QED BY <1>1, <2>2, <3>1, <3>2 DEF Refs, InUse
  <2> QED BY <2>1, <2>2
<1>5. FirstWaits(inf, after, rows, coroutines)
  <2> SUFFICES ASSUME NEW h \in coroutines, h.kind = "first"
               PROVE  after[h.out] = base[h.out]
    BY DEF Refs, FirstWaits
  <2>1. h.out \in Message /\ base[h.out] = NewPrompt(inf[h.task].assignee, h.task)
    BY DEF Refs, FirstWaits
  <2>2. base[h.out].st = "out"
    BY <2>1 DEF NewPrompt
  <2> QED BY <1>1, <2>1, <2>2
<1> QED BY <1>2, <1>3, <1>4, <1>5 DEF Refs, after

\* Fewer rows and coroutines refer to less.
LEMMA RefsLess ==
  ASSUME NEW inf, NEW msgs, NEW rows, NEW coroutines, NEW fewer, NEW others,
         Refs(inf, msgs, rows, coroutines),
         fewer \subseteq rows, others \subseteq coroutines
  PROVE  Refs(inf, msgs, fewer, others)
<1>1. \A r : Pending(r, fewer, others) => Pending(r, rows, coroutines)
  BY DEF Pending
<1>2. AskedOnce(fewer, others)
  BY <1>1 DEF Refs, AskedOnce
<1>3. FirstWaits(inf, msgs, fewer, others)
  BY <1>1 DEF Refs, FirstWaits
<1> QED BY <1>2, <1>3 DEF Refs, Asked, OwnResult, InUse

LEMMA KnownLess ==
  ASSUME NEW st, NEW inf, NEW rows, NEW coroutines, NEW fewer, NEW others,
         Known(st, inf, rows, coroutines),
         fewer \subseteq rows, others \subseteq coroutines
  PROVE  Known(st, inf, fewer, others)
<1>1. \A r : Pending(r, fewer, others) => Pending(r, rows, coroutines)
  BY DEF Pending
<1> QED BY <1>1 DEF Known

\* Prompts move: none in use is given away, and what is asked or waits to be
\* sent for the first time does not change.
LEMMA RefsMoves ==
  ASSUME NEW inf, NEW new, NEW msgs, NEW base, NEW rows, rows \subseteq Row,
         NEW coroutines, coroutines \subseteq Handler,
         Refs(inf, msgs, rows, coroutines),
         \A p \in Message : msgs[p].st # "free"
           => base[p].st # "free" /\ base[p].task = msgs[p].task,
         \A r \in rows : msgs[r.prompt].st # "free",
         \A r \in rows : r.question # NoMessage => base[r.question].st = "asked",
         \A h \in coroutines : h.kind = "first"
           => base[h.out] = msgs[h.out] /\ new[h.task] = inf[h.task]
  PROVE  Refs(new, base, rows, coroutines)
<1>1. /\ \A r \in rows : r.prompt \in Message
      /\ \A h \in coroutines : h.out # NoMessage => h.out \in Message
      /\ \A h \in coroutines : \A r \in h.todo : r.question # NoMessage => r.question \in Message
  BY DEF Handler, Row
<1>2. Asked(base, rows)
  BY DEF Asked
<1>3. OwnResult(base, rows)
  BY <1>1 DEF Refs, OwnResult
<1>4. InUse(base, coroutines)
  BY <1>1 DEF Refs, InUse
<1>5. FirstWaits(new, base, rows, coroutines)
  BY DEF Refs, FirstWaits
<1> QED BY <1>2, <1>3, <1>4, <1>5 DEF Refs

LEMMA KnownMoves ==
  ASSUME NEW st, NEW inf, NEW now, NEW new, NEW rows, rows \subseteq Row,
         NEW coroutines, coroutines \subseteq Handler,
         Known(st, inf, rows, coroutines),
         \A h \in coroutines : h.kind = "first" => h.task \in Task,
         \A t \in Task : st[t] # "absent" => now[t] # "absent" /\ new[t] = inf[t],
         \A t \in Task : now[t] # "absent" => st[t] # "absent" \/ new[t].depth >= 1
  PROVE  Known(now, new, rows, coroutines)
<1>1. \A r \in Row : r.task \in Task
  BY DEF Row
<1> QED BY <1>1 DEF Known

\* A coroutine more, with a prompt nobody else has.
LEMMA RefsStarted ==
  ASSUME NEW inf, NEW msgs, NEW rows, NEW coroutines, NEW g,
         Refs(inf, msgs, rows, coroutines),
         g.todo = {}, g.out \in Message, msgs[g.out].st # "free",
         \A h \in coroutines : h.out # g.out,
         \A r \in Row : Pending(r, rows, coroutines) => r.question # g.out,
         g.kind = "first" => /\ g.task \in Task
                             /\ msgs[g.out] = NewPrompt(inf[g.task].assignee, g.task)
  PROVE  Refs(inf, msgs, rows, coroutines \cup {g})
<1>1. \A r : Pending(r, rows, coroutines \cup {g}) => Pending(r, rows, coroutines)
  BY DEF Pending
<1>2. InUse(msgs, coroutines \cup {g})
  BY DEF Refs, InUse
<1>3. AskedOnce(rows, coroutines \cup {g})
  BY <1>1 DEF Refs, AskedOnce
<1>4. FirstWaits(inf, msgs, rows, coroutines \cup {g})
  <2> SUFFICES ASSUME NEW h \in coroutines \cup {g}, h.kind = "first"
               PROVE  /\ h.task \in Task
                      /\ h.out \in Message
                      /\ msgs[h.out] = NewPrompt(inf[h.task].assignee, h.task)
                      /\ \A f \in coroutines \cup {g} : f.out = h.out => f = h
                      /\ \A r \in Row : Pending(r, rows, coroutines \cup {g})
                                          => r.question # h.out
    BY DEF FirstWaits
  <2>1. CASE h \in coroutines
    BY <1>1, <2>1 DEF Refs, FirstWaits
  <2>2. CASE h = g
    BY <1>1, <2>2
  <2> QED BY <2>1, <2>2
<1> QED BY <1>2, <1>3, <1>4 DEF Refs

LEMMA KnownStarted ==
  ASSUME NEW st, NEW inf, NEW rows, NEW coroutines, NEW g,
         Known(st, inf, rows, coroutines), g.todo = {},
         g.kind = "first" => st[g.task] # "absent"
  PROVE  Known(st, inf, rows, coroutines \cup {g})
<1>1. \A r : Pending(r, rows, coroutines \cup {g}) => Pending(r, rows, coroutines)
  BY DEF Pending
<1> QED BY <1>1 DEF Known

\* A row more, with no question or a question nobody else has.
LEMMA RefsRow ==
  ASSUME NEW inf, NEW msgs, NEW rows, NEW coroutines, NEW row,
         Refs(inf, msgs, rows, coroutines),
         row.question # NoMessage =>
           /\ msgs[row.question].st = "asked"
           /\ \A h \in coroutines : h.out # row.question
           /\ \A r \in Row : Pending(r, rows, coroutines) => r.question # row.question,
         row.question = NoMessage => \A h \in coroutines : h.kind = "first" => h.out # NoMessage,
         row.kind = "result_ready" => msgs[row.prompt].task = row.task
  PROVE  Refs(inf, msgs, rows \cup {row}, coroutines)
<1>1. \A r : Pending(r, rows \cup {row}, coroutines) => Pending(r, rows, coroutines) \/ r = row
  BY DEF Pending
<1>2. Asked(msgs, rows \cup {row})
  BY DEF Refs, Asked
<1>3. OwnResult(msgs, rows \cup {row})
  BY DEF Refs, OwnResult
<1>4. AskedOnce(rows \cup {row}, coroutines)
  BY <1>1 DEF Refs, AskedOnce
<1>5. FirstWaits(inf, msgs, rows \cup {row}, coroutines)
  BY <1>1 DEF Refs, FirstWaits
<1> QED BY <1>2, <1>3, <1>4, <1>5 DEF Refs

LEMMA KnownRow ==
  ASSUME NEW st, NEW inf, NEW rows, NEW coroutines, NEW row,
         Known(st, inf, rows, coroutines),
         st[row.task] # "absent",
         row.kind = "answer" => row.receiver = inf[row.task].assignee,
         row.kind = "result_ready" => row.receiver = inf[row.task].dispatcher
  PROVE  Known(st, inf, rows \cup {row}, coroutines)
<1>1. \A r : Pending(r, rows \cup {row}, coroutines) => Pending(r, rows, coroutines) \/ r = row
  BY DEF Pending
<1> QED BY <1>1 DEF Known

\* Nobody refers to a fresh id.
LEMMA FreshUnused ==
  ASSUME TypeOK, HeldInv, Refs(info, messages, staged, handlers), NEW q \in FreshMessage
  PROVE  /\ q \in Message /\ messages[q].st = "free"
         /\ \A h \in handlers : h.out # q
         /\ \A r \in Row : Pending(r, staged, handlers) => r.question # q
         /\ \A r \in staged : r.prompt # q
<1>1. q \in Message /\ messages[q].st = "free" /\ q # NoMessage
  BY NoPromptNoMessage DEF FreshMessage
<1>2. \A h \in handlers : h.out # q
  BY <1>1 DEF Refs, InUse
<1>3. ASSUME NEW r \in Row, Pending(r, staged, handlers), r.question = q PROVE FALSE
  BY <1>1, <1>3 DEF Pending, Refs, Asked, InUse
<1>4. \A r \in staged : r.prompt # q
  BY <1>1 DEF HeldInv, Held, Scannable
<1> QED BY <1>1, <1>2, <1>3, <1>4

-----------------------------------------------------------------------------
(* The row loop and the owners *)

\* The prompt of a row leaves only questions that are not yet asked behind.
LEMMA DropMoves ==
  ASSUME NEW base \in Prompts, NEW rows, NEW p \in Message
  PROVE  /\ Drop(base, rows)[p].task = base[p].task
         /\ Drop(base, rows)[p].to = base[p].to
         /\ base[p].st # "free" => Drop(base, rows)[p].st # "free"
         /\ (\A r \in rows : r.question # p) => Drop(base, rows)[p] = base[p]
BY DEF Drop, Prompts, Prompt

\* A prompt that is given a row was free, or is the row's question.
LEMMA CarriedMoves ==
  ASSUME TypeOK, NEW base \in Prompts, NEW r \in Row, NEW q \in Message, q \in Carrier(r),
         \A p \in Message : messages[p].st = "free" => base[p].st = "free",
         NEW p \in Message, base[p].st # "free"
  PROVE  /\ Carried(base, r, q)[p].st # "free"
         /\ Carried(base, r, q)[p].task = base[p].task
         /\ Carried(base, r, q)[p].to = base[p].to
         /\ base[p].st # "asked" => Carried(base, r, q)[p] = base[p]
         /\ p # r.question => Carried(base, r, q)[p] = base[p]
<1>1. CASE r.kind = "question"
  <2>1. q = r.question
    BY <1>1 DEF Carrier
  <2> QED BY <1>1, <2>1 DEF Carried, Prompts, Prompt
<1>2. CASE r.kind # "question"
  <2>1. q # p
    BY <1>2 DEF Carrier, FreshMessage
  <2> QED BY <1>2, <2>1 DEF Carried, Prompts, Prompt
<1> QED BY <1>1, <1>2

LEMMA RefsExecute ==
  ASSUME TypeOK, TypeOK', NEW all, all \subseteq Handler, NEW others, others \subseteq all,
         NEW kind, kind # "first",
         NEW todo, todo \subseteq Row, \A r \in todo : Pending(r, staged, all),
         NEW ends, NEW base \in Prompts,
         \A p \in Message : messages[p].st = "free" => base[p].st = "free",
         \A r \in staged : base[r.prompt].st # "free",
         Refs(info, base, staged, all),
         Execute(kind, todo, ends, others, base)
  PROVE  Refs(info, messages', staged', handlers')
<1>1. staged \subseteq Row /\ staged' \subseteq Row /\ handlers' \subseteq Handler
  BY DEF TypeOK
<1>2. CASE Exhausts(todo, ends, others, base)
  <2> DEFINE dropped == Drop(base, todo)
  <2>1. /\ staged' = staged \ todo
        /\ handlers' = others
        /\ messages' = Recycle(dropped, ends, staged', handlers')
    BY <1>2 DEF Exhausts
  <2>2. Refs(info, base, staged', handlers')
    BY <2>1, RefsLess
  <2>3. \A p \in Message : base[p].st # "free" => dropped[p].st # "free"
                                                  /\ dropped[p].task = base[p].task
    BY DropMoves
  <2>4. ASSUME NEW r \in staged', r.question # NoMessage
        PROVE  dropped[r.question].st = "asked"
    <3>1. r.question \in Message /\ Pending(r, staged, all) /\ r \notin todo
      BY <1>1, <2>1, <2>4 DEF Row, Pending
    <3>2. \A x \in todo : x.question # r.question
      BY <1>1, <2>4, <3>1 DEF Refs, AskedOnce
    <3>3. dropped[r.question] = base[r.question]
      BY <3>1, <3>2, DropMoves
    <3> QED BY <2>2, <2>4, <3>3 DEF Refs, Asked
  <2>5. ASSUME NEW h \in handlers', h.kind = "first" PROVE dropped[h.out] = base[h.out]
    <3>1. h.out \in Message /\ base[h.out] = NewPrompt(info[h.task].assignee, h.task)
      BY <2>2, <2>5 DEF Refs, FirstWaits
    <3>2. base[h.out].st # "asked"
      BY <3>1 DEF NewPrompt
    <3> QED BY <3>1, <3>2, DropSame
  <2>6. \A r \in staged' : base[r.prompt].st # "free"
    BY <2>1
  <2> HIDE DEF dropped
  <2>7. Refs(info, dropped, staged', handlers')
    BY <1>1, <2>2, <2>3, <2>4, <2>5, <2>6, RefsMoves
  <2> QED BY <1>1, <2>1, <2>7, RefsRecycled
<1>3. ASSUME NEW r \in todo, NEW q \in Message, NEW g, NEW skipped,
             Suspends(kind, todo, ends, others, base, r, q, g, skipped)
      PROVE  Refs(info, messages', staged', handlers')
  <2> DEFINE dropped == Drop(base, skipped)
             carried == Carried(dropped, r, q)
  <2>1. /\ q \in Carrier(r) /\ skipped \subseteq todo
        /\ g.kind # "first" /\ g.out = q /\ g.todo \subseteq todo
        /\ staged' = staged \ (skipped \cup {r})
        /\ handlers' = others \cup {g}
        /\ messages' = Recycle(carried, ends, staged', handlers')
    BY <1>3 DEF Suspends
  <2>2. dropped \in Prompts
    BY DropType
  <2>3. \A p \in Message : messages[p].st = "free" => dropped[p].st = "free"
    BY DropSame
  <2>4. ASSUME NEW p \in Message, base[p].st # "free"
        PROVE  /\ carried[p].st # "free"
               /\ carried[p].task = base[p].task
               /\ base[p].st # "asked" => carried[p] = base[p]
               /\ p # r.question /\ (\A x \in skipped : x.question # p) => carried[p] = base[p]
    <3>1. dropped[p].st # "free" /\ dropped[p].task = base[p].task
      BY <2>4, DropMoves
    <3>2. /\ carried[p].st # "free"
          /\ carried[p].task = dropped[p].task
          /\ dropped[p].st # "asked" => carried[p] = dropped[p]
          /\ p # r.question => carried[p] = dropped[p]
      BY <2>1, <2>2, <2>3, <3>1, CarriedMoves
    <3>3. base[p].st # "asked" => dropped[p] = base[p]
      BY DropSame
    <3>4. (\A x \in skipped : x.question # p) => dropped[p] = base[p]
      BY DropMoves
    <3> HIDE DEF carried, dropped
    <3> QED BY <3>1, <3>2, <3>3, <3>4
  <2>5. \A x : Pending(x, staged', handlers') => Pending(x, staged, all)
    BY <2>1 DEF Pending
  <2>6. Pending(r, staged, all) /\ r \in Row
    OBVIOUS
  <2>7. r.kind = "question" => q = r.question
    BY <2>1 DEF Carrier
  <2>8. r.kind # "question" => base[q].st = "free"
    BY <2>1 DEF Carrier, FreshMessage
  <2>9. q # NoMessage
    BY NoPromptNoMessage
  <2>10. Asked(carried, staged')
    <3> SUFFICES ASSUME NEW x \in staged', x.question # NoMessage
                 PROVE  carried[x.question].st = "asked"
      BY DEF Asked
    <3>1. x \in staged /\ x \in Row /\ x.question \in Message
      BY <1>1, <2>1 DEF Row
    <3>2. base[x.question].st = "asked"
      BY <3>1 DEF Refs, Asked
    <3>3. \A y \in skipped \cup {r} : y \in Row /\ y # x /\ Pending(y, staged, all)
      BY <2>1
    <3>4. Pending(x, staged, all)
      BY <3>1 DEF Pending
    <3>5. \A y \in skipped \cup {r} : y.question # x.question
      BY <3>1, <3>3, <3>4 DEF Refs, AskedOnce
    <3> HIDE DEF carried, dropped
    <3>6. carried[x.question] = base[x.question]
      BY <2>4, <3>1, <3>2, <3>5
    <3> QED BY <3>2, <3>6
  <2>11. OwnResult(carried, staged')
    <3> SUFFICES ASSUME NEW x \in staged', x.kind = "result_ready"
                 PROVE  carried[x.prompt].task = x.task
      BY DEF OwnResult
    <3>1. x \in staged /\ x.prompt \in Message
      BY <1>1, <2>1 DEF Row
    <3> HIDE DEF carried, dropped
    <3> QED BY <2>4, <3>1 DEF Refs, OwnResult
  <2>12. InUse(carried, handlers')
    <3>1. ASSUME NEW h \in handlers', h.out # NoMessage PROVE carried[h.out].st # "free"
      <4>1. CASE h \in others
        <5>1. h.out \in Message /\ base[h.out].st # "free"
          BY <1>1, <3>1, <4>1 DEF Handler, Refs, InUse
        <5> HIDE DEF carried, dropped
        <5> QED BY <2>4, <5>1
      <4>2. CASE h = g /\ r.kind = "question"
        <5>1. base[q].st # "free"
          BY <2>6, <2>7, <2>9, <4>2 DEF Pending, Refs, Asked, InUse
        <5> HIDE DEF carried, dropped
        <5> QED BY <2>1, <2>4, <4>2, <5>1
      <4>3. CASE h = g /\ r.kind # "question"
        <5>1. carried[q] = NewPrompt(r.receiver, r.task)
          BY <2>2, <4>3 DEF Carried, Prompts
        <5> HIDE DEF carried, dropped
        <5> QED BY <2>1, <4>3, <5>1 DEF NewPrompt
      <4> QED BY <2>1, <4>1, <4>2, <4>3
    <3>2. ASSUME NEW h \in handlers', NEW x \in h.todo, x.question # NoMessage
          PROVE  carried[x.question].st # "free"
      <4>1. Pending(x, staged, all) /\ x \in Row
        BY <1>1, <2>5 DEF Pending, Handler
      <4>2. x.question \in Message /\ base[x.question].st # "free"
        BY <3>2, <4>1 DEF Row, Pending, Refs, Asked, InUse
      <4> HIDE DEF carried, dropped
      <4> QED BY <2>4, <4>2
    <3> HIDE DEF carried, dropped
    <3> QED BY <3>1, <3>2 DEF InUse
  <2>13. AskedOnce(staged', handlers')
    BY <2>5 DEF Refs, AskedOnce
  <2>14. FirstWaits(info, carried, staged', handlers')
    <3> SUFFICES ASSUME NEW h \in handlers', h.kind = "first"
                 PROVE  /\ h.task \in Task
                        /\ h.out \in Message
                        /\ carried[h.out] = NewPrompt(info[h.task].assignee, h.task)
                        /\ \A f \in handlers' : f.out = h.out => f = h
                        /\ \A x \in Row : Pending(x, staged', handlers') => x.question # h.out
      BY DEF FirstWaits
    <3>1. h \in others /\ h \in all
      BY <2>1
    <3>2. /\ h.task \in Task
          /\ h.out \in Message
          /\ base[h.out] = NewPrompt(info[h.task].assignee, h.task)
          /\ \A f \in all : f.out = h.out => f = h
          /\ \A x \in Row : Pending(x, staged, all) => x.question # h.out
      BY <3>1 DEF Refs, FirstWaits
    <3>3. base[h.out].st = "out"
      BY <3>2 DEF NewPrompt
    <3>4. q # h.out
      BY <2>6, <2>7, <2>8, <3>2, <3>3
    <3> HIDE DEF carried, dropped
    <3>5. carried[h.out] = base[h.out]
      BY <2>4, <3>2, <3>3
    <3>6. \A f \in handlers' : f.out = h.out => f = h
      BY <2>1, <3>2, <3>4
    <3> QED BY <2>5, <3>2, <3>5, <3>6
  <2> HIDE DEF carried, dropped
  <2>15. Refs(info, carried, staged', handlers')
    BY <2>10, <2>11, <2>12, <2>13, <2>14 DEF Refs
  <2> QED BY <1>1, <2>1, <2>15, RefsRecycled
<1> QED BY <1>2, <1>3, ExecuteCases

LEMMA KnownExecute ==
  ASSUME TypeOK, TypeOK', NEW all, all \subseteq Handler, NEW others, others \subseteq all,
         NEW kind, kind # "first",
         NEW todo, todo \subseteq Row, \A r \in todo : Pending(r, staged, all),
         NEW ends, NEW base,
         Known(state, info, staged, all),
         \A h \in all : h.kind = "first" => h.task \in Task,
         Execute(kind, todo, ends, others, base)
  PROVE  Known(state', info, staged', handlers')
<1>1. CASE Exhausts(todo, ends, others, base)
  <2>1. staged' \subseteq staged /\ handlers' = others /\ state' = state
    BY <1>1 DEF Exhausts
  <2> QED BY <2>1, KnownLess
<1>2. ASSUME NEW r \in todo, NEW q \in Message, NEW g, NEW skipped,
             Suspends(kind, todo, ends, others, base, r, q, g, skipped)
      PROVE  Known(state', info, staged', handlers')
  <2>1. /\ g.kind # "first" /\ g.todo \subseteq todo
        /\ staged' \subseteq staged
        /\ handlers' = others \cup {g}
        /\ state' = IF r.kind = "answer" THEN [state EXCEPT ![r.task] = "working"] ELSE state
    BY <1>2 DEF Suspends
  <2>2. \A x : Pending(x, staged', handlers') => Pending(x, staged, all)
    BY <2>1 DEF Pending
  <2>3. state[r.task] # "absent"
    BY DEF Known
  <2>4. \A t \in Task : state'[t] # "absent" <=> state[t] # "absent"
    BY <2>1, <2>3 DEF TypeOK
  <2>5. \A h \in handlers' : h.kind = "first" => h \in all /\ h.task \in Task
    BY <2>1
  <2>6. \A x \in Row : x.task \in Task
    BY DEF Row
  <2> QED BY <2>2, <2>4, <2>5, <2>6 DEF Known
<1> QED BY <1>1, <1>2, ExecuteCases

LEMMA WorkedRecycled ==
  ASSUME NEW st, NEW inf, NEW base, NEW ends, NEW rows, NEW coroutines, NEW seen, NEW staffs,
         Worked(st, inf, base, ends, rows, seen, staffs)
  PROVE  Worked(st, inf, Recycle(base, ends, rows, coroutines), ends, rows, seen, staffs)
<1> DEFINE after == Recycle(base, ends, rows, coroutines)
<1>1. ASSUME NEW m \in Message, base[m].st \in {"out", "running"} \/ ends[m] > 0
      PROVE  after[m] = base[m]
  BY <1>1, RecycleSame DEF Needed
<1> HIDE DEF after
<1>2. \A m \in Message : \A t : Owner(m, t, inf, base, ends, rows)
                                  => Owner(m, t, inf, after, ends, rows)
  BY <1>1 DEF Owner
<1>3. Worked(st, inf, after, ends, rows, seen, staffs)
  BY <1>2 DEF Worked
<1> QED BY <1>3 DEF after

\* An answer brings its task an owner; a result that is dispatched is told; a row
\* that is skipped is nobody's result, for the dispatcher is still there.
LEMMA WorkedExecute ==
  ASSUME TypeOK, TypeOK', NEW all, NEW others,
         NEW kind, NEW todo, todo \subseteq Row, \A r \in todo : Pending(r, staged, all),
         NEW ends, NEW base \in Prompts,
         \A p \in Message : messages[p].st = "free" => base[p].st = "free",
         \A p \in Message : ends[p] > 0 => base[p].st = "saved",
         \A r \in staged : base[r.prompt].st # "free",
         Known(state, info, staged, all),
         Worked(state, info, base, ends, staged, told, roster),
         Execute(kind, todo, ends, others, base)
  PROVE  Worked(state', info, messages', ends, staged', told', roster)
<1>1. staged \subseteq Row
  BY DEF TypeOK
<1>2. ASSUME NEW r \in Row, Pending(r, staged, all), r.kind = "result_ready"
      PROVE  r.receiver = info[r.task].dispatcher
  BY <1>2 DEF Known
<1>3. CASE Exhausts(todo, ends, others, base)
  <2> DEFINE dropped == Drop(base, todo)
  <2>1. /\ \A r \in todo : r.receiver \notin roster
        /\ staged' = staged \ todo
        /\ messages' = Recycle(dropped, ends, staged', handlers')
        /\ UNCHANGED <<state, told>>
    BY <1>3 DEF Exhausts
  <2>2. ASSUME NEW m \in Message, base[m].st \in {"out", "running"} \/ ends[m] > 0
        PROVE  dropped[m] = base[m]
    BY <2>2, DropSame
  <2> HIDE DEF dropped
  <2>3. \A m \in Message : \A t : Owner(m, t, info, base, ends, staged)
                                    => Owner(m, t, info, dropped, ends, staged')
    BY <2>1, <2>2 DEF Owner
  <2>4. ASSUME NEW t \in Task, info[t].dispatcher \in roster, Submitted(t, staged)
        PROVE  Submitted(t, staged')
    <3>1. PICK r \in staged : r.kind = "result_ready" /\ r.task = t
      BY <2>4 DEF Submitted
    <3>2. r.receiver \in roster
      BY <1>1, <1>2, <2>4, <3>1 DEF Pending
    <3> QED BY <2>1, <3>1, <3>2 DEF Submitted
  <2>5. Worked(state', info, dropped, ends, staged', told', roster)
    BY <2>1, <2>3, <2>4 DEF Worked
  <2> QED BY <2>1, <2>5, WorkedRecycled
<1>4. ASSUME NEW r \in todo, NEW q \in Message, NEW g, NEW skipped,
             Suspends(kind, todo, ends, others, base, r, q, g, skipped)
      PROVE  Worked(state', info, messages', ends, staged', told', roster)
  <2> DEFINE dropped == Drop(base, skipped)
             carried == Carried(dropped, r, q)
  <2>1. /\ \A x \in skipped : x \in todo /\ x.receiver \notin roster
        /\ q \in Carrier(r)
        /\ staged' = staged \ (skipped \cup {r})
        /\ state' = IF r.kind = "answer" THEN [state EXCEPT ![r.task] = "working"] ELSE state
        /\ told' = IF r.kind = "result_ready" THEN told \cup {r.task} ELSE told
        /\ messages' = Recycle(carried, ends, staged', handlers')
    BY <1>4 DEF Suspends
  <2>2. dropped \in Prompts
    BY DropType
  <2>3. \A p \in Message : messages[p].st = "free" => dropped[p].st = "free"
    BY DropSame
  <2>4. ASSUME NEW m \in Message, base[m].st \in {"out", "running"} \/ ends[m] > 0
        PROVE  carried[m] = base[m]
    <3>1. base[m].st \in {"out", "running", "saved"}
      BY <2>4
    <3>2. dropped[m] = base[m]
      BY <3>1, DropSame
    <3> QED BY <2>1, <2>2, <2>3, <3>1, <3>2, CarriedSame
  <2>5. ASSUME NEW t \in Task, r.kind = "answer", r.task = t
        PROVE  Owner(q, t, info, carried, ends, staged')
    <3>1. q \in FreshMessage /\ base[q].st = "free"
      BY <2>1, <2>5 DEF Carrier, FreshMessage
    <3>2. carried[q] = NewPrompt(info[t].assignee, t)
      <4>1. r.receiver = info[t].assignee
        BY <2>5 DEF Known
      <4> QED BY <2>2, <2>5, <4>1 DEF Carried, Prompts
    <3>3. \A x \in staged' : x.prompt # q
      BY <2>1, <3>1
    <3> HIDE DEF carried
    <3> QED BY <3>2, <3>3 DEF Owner, NewPrompt
  <2> HIDE DEF carried, dropped
  <2>6. \A m \in Message : \A t : Owner(m, t, info, base, ends, staged)
                                    => Owner(m, t, info, carried, ends, staged')
    BY <2>1, <2>4 DEF Owner
  <2>7. ASSUME NEW t \in Task, t \notin told', info[t].dispatcher \in roster,
               Submitted(t, staged)
        PROVE  Submitted(t, staged')
    <3>1. PICK x \in staged : x.kind = "result_ready" /\ x.task = t
      BY <2>7 DEF Submitted
    <3>2. x.receiver \in roster
      BY <1>1, <1>2, <2>7, <3>1 DEF Pending
    <3>3. x # r
      BY <2>1, <2>7, <3>1
    <3> QED BY <2>1, <3>1, <3>2, <3>3 DEF Submitted
  <2>8. ASSUME NEW t \in Task, state'[t] = "working", t \notin told',
               info[t].dispatcher \in roster
        PROVE  \/ Submitted(t, staged')
               \/ \E m \in Message : Owner(m, t, info, carried, ends, staged')
    <3>1. CASE r.kind = "answer" /\ r.task = t
      BY <2>5, <3>1
    <3>2. CASE ~(r.kind = "answer" /\ r.task = t)
      <4>1. state[t] = "working" /\ t \notin told
        BY <2>1, <2>8, <3>2 DEF TypeOK
      <4>2. \/ Submitted(t, staged)
            \/ \E m \in Message : Owner(m, t, info, base, ends, staged)
        BY <2>8, <4>1 DEF Worked
      <4> QED BY <2>6, <2>7, <2>8, <4>2
    <3> QED BY <3>1, <3>2
  <2>9. Worked(state', info, carried, ends, staged', told', roster)
    BY <2>8 DEF Worked
  <2> QED BY <2>1, <2>9, WorkedRecycled
<1> QED BY <1>3, <1>4, ExecuteCases

-----------------------------------------------------------------------------
(* The steps that lose nothing *)

\* Rows, coroutines and tasks stay; a turn may begin, and a turn may end.
LEMMA TendedKept ==
  ASSUME TypeOK, HeldInv, Tended, TypeOK',
         UNCHANGED <<state, info, staged, handlers, told>>, roster' \subseteq roster,
         \A p \in Message : messages[p].st \notin {"free", "running"}
                              => messages'[p] = messages[p],
         \A p \in Message : messages[p].st = "running" =>
           /\ messages'[p].task = messages[p].task
           /\ messages'[p].to = messages[p].to
           /\ messages'[p].st = "running" \/ (messages'[p].st = "saved" /\ due'[p] > 0),
         \A p \in Message : due[p] > 0 => due'[p] > 0
  PROVE  Tended'
<1>1. staged \subseteq Row /\ handlers \subseteq Handler
  BY DEF TypeOK
<1>2. Refs(info, messages', staged, handlers)
  <2>1. \A p \in Message : messages[p].st # "free"
          => messages'[p].st # "free" /\ messages'[p].task = messages[p].task
    OBVIOUS
  <2>2. \A r \in staged : messages[r.prompt].st # "free"
    BY DEF HeldInv, Held, Scannable
  <2>3. \A r \in staged : r.question # NoMessage => messages'[r.question].st = "asked"
    <3>1. \A r \in staged : r.question # NoMessage => r.question \in Message
      BY <1>1 DEF Row
    <3> QED BY <3>1 DEF Tended, Refs, Asked
  <2>4. ASSUME NEW h \in handlers, h.kind = "first" PROVE messages'[h.out] = messages[h.out]
    <3>1. h.out \in Message /\ messages[h.out] = NewPrompt(info[h.task].assignee, h.task)
      BY <2>4 DEF Tended, Refs, FirstWaits
    <3>2. messages[h.out].st = "out"
      BY <3>1 DEF NewPrompt
    <3> QED BY <3>1, <3>2
  <2>5. Refs(info, messages, staged, handlers)
    BY DEF Tended
  <2> QED BY <1>1, <2>1, <2>2, <2>3, <2>4, <2>5, RefsMoves
<1>3. \A m \in Message : \A t : Owner(m, t, info, messages, due, staged)
                                  => Owner(m, t, info, messages', due', staged)
  <2>1. \A m \in Message : due[m] > 0 => messages[m].st = "saved"
    BY DEF HeldInv, Held, Scannable
  <2> QED BY <2>1 DEF Owner
<1>4. WorkedInv'
  BY <1>3 DEF Tended, WorkedInv, Worked
<1> QED BY <1>2, <1>4 DEF Tended

\* A fresh id is given a prompt.
LEMMA RefsFresh ==
  ASSUME TypeOK, HeldInv, Tended, NEW q \in FreshMessage, NEW v, v.st # "free",
         NEW new, \A t \in Task : state[t] # "absent" => new[t] = info[t]
  PROVE  Refs(new, [messages EXCEPT ![q] = v], staged, handlers)
<1> DEFINE base == [messages EXCEPT ![q] = v]
<1>1. staged \subseteq Row /\ handlers \subseteq Handler
  BY DEF TypeOK
<1>2. Refs(info, messages, staged, handlers)
  BY DEF Tended
<1>3. /\ q \in Message /\ messages[q].st = "free"
      /\ \A h \in handlers : h.out # q
      /\ \A r \in Row : Pending(r, staged, handlers) => r.question # q
  BY <1>2, FreshUnused
<1>4. \A p \in Message : p # q => base[p] = messages[p]
  BY DEF TypeOK
<1>5. \A r \in staged : messages[r.prompt].st # "free"
  BY DEF HeldInv, Held, Scannable
<1> HIDE DEF base
<1>6. \A p \in Message : messages[p].st # "free"
        => base[p].st # "free" /\ base[p].task = messages[p].task
  BY <1>3, <1>4
<1>7. \A r \in staged : r.question # NoMessage => base[r.question].st = "asked"
  <2>1. \A r \in staged : r.question # NoMessage => r.question \in Message /\ r.question # q
    BY <1>1, <1>3 DEF Row, Pending
  <2> QED BY <1>2, <1>4, <2>1 DEF Refs, Asked
<1>8. ASSUME NEW h \in handlers, h.kind = "first"
      PROVE  base[h.out] = messages[h.out] /\ new[h.task] = info[h.task]
  <2>1. h.out \in Message /\ h.task \in Task
    BY <1>2, <1>8 DEF Refs, FirstWaits
  <2>2. state[h.task] # "absent"
    BY <1>8 DEF Tended, Known
  <2> QED BY <1>3, <1>4, <2>1, <2>2
<1>9. Refs(new, base, staged, handlers)
  BY <1>1, <1>2, <1>5, <1>6, <1>7, <1>8, RefsMoves
<1> QED BY <1>9 DEF base

\* ... to a new coroutine.
LEMMA RefsCoroutine ==
  ASSUME TypeOK, HeldInv, Tended, NEW q \in FreshMessage, NEW s, NEW t,
         NEW new, \A u \in Task : state[u] # "absent" => new[u] = info[u],
         NEW g, g.todo = {}, g.out = q,
         g.kind = "first" => g.task = t /\ t \in Task /\ s = new[t].assignee
  PROVE  Refs(new, [messages EXCEPT ![q] = NewPrompt(s, t)], staged, handlers \cup {g})
<1> DEFINE base == [messages EXCEPT ![q] = NewPrompt(s, t)]
<1>1. NewPrompt(s, t).st # "free"
  BY DEF NewPrompt
<1>2. Refs(new, base, staged, handlers)
  BY <1>1, RefsFresh
<1>3. /\ q \in Message
      /\ \A h \in handlers : h.out # q
      /\ \A r \in Row : Pending(r, staged, handlers) => r.question # q
  BY FreshUnused DEF Tended
<1>4. base[q] = NewPrompt(s, t)
  BY <1>3 DEF TypeOK
<1> HIDE DEF base
<1>5. Refs(new, base, staged, handlers \cup {g})
  BY <1>1, <1>2, <1>3, <1>4, RefsStarted
<1> QED BY <1>5 DEF base

\* Who owned a task still does when a fresh id is taken.
LEMMA OwnersFresh ==
  ASSUME TypeOK, HeldInv, NEW q \in FreshMessage, NEW v,
         NEW new, NEW t, new[t] = info[t],
         NEW m \in Message, Owner(m, t, info, messages, due, staged)
  PROVE  Owner(m, t, new, [messages EXCEPT ![q] = v], due, staged)
<1>1. messages[m].st # "free"
  BY DEF Owner, HeldInv, Held, Scannable
<1>2. [messages EXCEPT ![q] = v][m] = messages[m]
  BY <1>1, FreshSame
<1> QED BY <1>2 DEF Owner

LEMMA TendedDelegate ==
  ASSUME TypeOK, HeldInv, Tended, TypeOK', NEW m \in Message, NEW s \in Staff, DelegateTask(m, s)
  PROVE  Tended'
<1>1. PICK t \in Task :
        /\ state[t] = "absent"
        /\ state' = [state EXCEPT ![t] = "submitted"]
        /\ info' = [info EXCEPT ![t] = NewInfo(m, s, t)]
        /\ \/ UNCHANGED <<messages, handlers>>
           \/ \E q \in FreshMessage :
                /\ messages' = [messages EXCEPT ![q] = NewPrompt(s, t)]
                /\ handlers' = handlers \cup
                     {[kind |-> "first", task |-> t, row |-> NoRow,
                       todo |-> {}, out |-> q]}
  BY DEF DelegateTask
<1>2. UNCHANGED <<staged, due, told, roster>>
  BY DEF DelegateTask
<1>3. /\ \A u \in Task : u # t => state'[u] = state[u] /\ info'[u] = info[u]
      /\ state'[t] = "submitted" /\ info'[t] = NewInfo(m, s, t)
  BY <1>1 DEF TypeOK
<1>4. \A u \in Task : state[u] # "absent" => state'[u] # "absent" /\ info'[u] = info[u]
  BY <1>1, <1>3
<1>5. info'[t].depth >= 1 /\ info'[t].assignee = s
  <2> DEFINE p == messages[m].task
  <2>1. p # NoTask => info[p].depth \in Nat
    BY DEF TypeOK, Prompt, Info
  <2> QED BY <1>3, <2>1 DEF NewInfo
<1>6. staged \subseteq Row /\ handlers \subseteq Handler
  BY DEF TypeOK
<1>7. Known(state', info', staged, handlers)
  <2>1. \A h \in handlers : h.kind = "first" => h.task \in Task
    BY DEF Tended, Refs, FirstWaits
  <2>2. \A u \in Task : state'[u] # "absent" => state[u] # "absent" \/ info'[u].depth >= 1
    BY <1>3, <1>5
  <2>3. Known(state, info, staged, handlers)
    BY DEF Tended
  <2> QED BY <1>4, <1>6, <2>1, <2>2, <2>3, KnownMoves
<1>8. \A u \in Task : state'[u] = "working" => state[u] = "working" /\ info'[u] = info[u]
  BY <1>1, <1>3
<1>9. CASE UNCHANGED <<messages, handlers>>
  <2>1. Refs(info, messages, staged, handlers)
    BY DEF Tended
  <2>2. \A r \in staged : messages[r.prompt].st # "free"
    BY DEF HeldInv, Held, Scannable
  <2>3. \A r \in staged : r.question # NoMessage => messages[r.question].st = "asked"
    BY <2>1 DEF Refs, Asked
  <2>4. ASSUME NEW h \in handlers, h.kind = "first" PROVE info'[h.task] = info[h.task]
    <3>1. h.task \in Task /\ state[h.task] # "absent"
      BY <2>4 DEF Tended, Refs, FirstWaits, Known
    <3> QED BY <1>4, <3>1
  <2>5. Refs(info', messages, staged, handlers)
    BY <1>6, <2>1, <2>2, <2>3, <2>4, RefsMoves
  <2>6. WorkedInv'
    BY <1>2, <1>8, <1>9 DEF Tended, WorkedInv, Worked, Owner
  <2> QED BY <1>2, <1>7, <1>9, <2>5, <2>6 DEF Tended
<1>10. ASSUME NEW q \in FreshMessage,
              messages' = [messages EXCEPT ![q] = NewPrompt(s, t)],
              handlers' = handlers \cup
                {[kind |-> "first", task |-> t, row |-> NoRow, todo |-> {}, out |-> q]}
       PROVE  Tended'
  <2> DEFINE g == [kind |-> "first", task |-> t, row |-> NoRow, todo |-> {}, out |-> q]
  <2>1. g.kind = "first" /\ g.task = t /\ g.todo = {} /\ g.out = q
    OBVIOUS
  <2>2. handlers' = handlers \cup {g}
    BY <1>10
  <2> HIDE DEF g
  <2>3. Refs(info', messages', staged, handlers')
    <3>1. s = info'[t].assignee /\ \A u \in Task : state[u] # "absent" => info'[u] = info[u]
      BY <1>4, <1>5
    <3>2. Refs(info', [messages EXCEPT ![q] = NewPrompt(s, t)], staged, handlers \cup {g})
      BY <2>1, <3>1, RefsCoroutine
    <3> QED BY <1>10, <2>2, <3>2
  <2>4. Known(state', info', staged, handlers')
    BY <1>3, <1>7, <2>1, <2>2, KnownStarted
  <2>5. \A u \in Task : \A p \in Message :
          info'[u] = info[u] /\ Owner(p, u, info, messages, due, staged)
            => Owner(p, u, info', messages', due, staged)
    BY <1>10, OwnersFresh
  <2>6. WorkedInv'
    BY <1>2, <1>8, <2>5 DEF Tended, WorkedInv, Worked
  <2> QED BY <1>2, <2>3, <2>4, <2>6 DEF Tended
<1> QED BY <1>1, <1>9, <1>10

\* The row _stage_dispatch adds.
LEMMA RowStaged ==
  ASSUME NEW m, NEW kept, NEW kind, NEW t, NEW receiver, NEW q,
         StageRow(m, kept, kind, t, receiver, q)
  PROVE  \E row : /\ staged' = kept \cup {row}
                  /\ row.prompt = m /\ row.kind = kind /\ row.task = t
                  /\ row.receiver = receiver /\ row.question = q
<1>1. PICK n : staged' = kept \cup {[prompt |-> m, n |-> n, kind |-> kind, task |-> t,
                                     receiver |-> receiver, question |-> q]}
  BY DEF StageRow
<1> DEFINE row == [prompt |-> m, n |-> n, kind |-> kind, task |-> t,
                   receiver |-> receiver, question |-> q]
<1>2. /\ row.prompt = m /\ row.kind = kind /\ row.task = t
      /\ row.receiver = receiver /\ row.question = q
  OBVIOUS
<1> HIDE DEF row
<1>3. staged' = kept \cup {row}
  BY <1>1 DEF row
<1> QED BY <1>2, <1>3

LEMMA TendedAsk ==
  ASSUME TypeOK, HeldInv, Tended, TypeOK', NEW m \in Message, AskSender(m)
  PROVE  Tended'
<1> DEFINE t == messages[m].task
<1>1. /\ t \in Task
      /\ state' = [state EXCEPT ![t] = "input-required"]
      /\ UNCHANGED <<info, handlers, due, told, roster>>
  BY DEF AskSender, TypeOK, Prompt
<1>2. state[t] # "absent"
  BY DEF AskSender, Legal, Transitions
<1>3. /\ \A u \in Task : state[u] # "absent" => state'[u] # "absent"
      /\ \A u \in Task : state'[u] # "absent" => state[u] # "absent"
      /\ \A u \in Task : state'[u] = "working" => state[u] = "working" /\ u # t
  BY <1>1, <1>2 DEF TypeOK
<1>4. /\ Refs(info, messages, staged, handlers)
      /\ Known(state, info, staged, handlers)
      /\ staged \subseteq Row /\ handlers \subseteq Handler
  BY DEF Tended, TypeOK
<1>5. \A h \in handlers : h.kind = "first" => h.task \in Task /\ h.out \in Message
  BY <1>4 DEF Refs, FirstWaits
<1>6. Known(state', info, staged, handlers)
  BY <1>3, <1>4, <1>5, KnownMoves
\* The state after the turn has staged its row.
<1>7. ASSUME NEW row, staged' = staged \cup {row}, row.prompt = m, row.kind = "question",
             row.task = t, Refs(info, messages', staged', handlers),
             \A u \in Task : \A p \in Message :
               Owner(p, u, info, messages, due, staged)
                 => Owner(p, u, info, messages', due, staged)
      PROVE  Tended'
  <2>1. Known(state', info, staged', handlers)
    BY <1>1, <1>2, <1>3, <1>6, <1>7, KnownRow
  <2>2. \A u \in Task : \A p \in Message :
          u # t /\ Owner(p, u, info, messages, due, staged)
            => Owner(p, u, info, messages', due, staged')
    BY <1>7 DEF Owner
  <2>3. \A u \in Task : Submitted(u, staged) => Submitted(u, staged')
    BY <1>7 DEF Submitted
  <2>4. WorkedInv'
    BY <1>1, <1>3, <2>2, <2>3 DEF Tended, WorkedInv, Worked
  <2> QED BY <1>1, <1>7, <2>1, <2>4 DEF Tended
<1>8. CASE /\ StageRow(m, staged, "question", t, User, NoMessage)
           /\ messages' = [messages EXCEPT ![m].replied = TRUE]
  <2>1. PICK row : /\ staged' = staged \cup {row}
                   /\ row.prompt = m /\ row.kind = "question" /\ row.task = t
                   /\ row.question = NoMessage
    BY <1>8, RowStaged
  <2>2. \A h \in handlers : h.kind = "first" => h.out # NoMessage
    BY <1>5, NoPromptNoMessage
  <2>3. messages[m].st = "running"
    BY DEF AskSender, ToolCall
  <2>4. \A p \in Message : /\ p # m => messages'[p] = messages[p]
                           /\ messages'[p].st = messages[p].st
                           /\ messages'[p].task = messages[p].task
                           /\ messages'[p].to = messages[p].to
    BY <1>8 DEF TypeOK, Prompt
  <2>5. Refs(info, messages', staged, handlers)
    <3>1. \A r \in staged : messages[r.prompt].st # "free"
      BY DEF HeldInv, Held, Scannable
    <3>2. \A r \in staged : r.question # NoMessage => messages'[r.question].st = "asked"
      <4>1. \A r \in staged : r.question # NoMessage => r.question \in Message
        BY <1>4 DEF Row
      <4> QED BY <1>4, <2>4, <4>1 DEF Refs, Asked
    <3>3. ASSUME NEW h \in handlers, h.kind = "first" PROVE messages'[h.out] = messages[h.out]
      <4>1. h.out \in Message /\ messages[h.out] = NewPrompt(info[h.task].assignee, h.task)
        BY <1>4, <3>3 DEF Refs, FirstWaits
      <4>2. messages[h.out].st = "out"
        BY <4>1 DEF NewPrompt
      <4> QED BY <2>3, <2>4, <4>1, <4>2
    <3> QED BY <1>4, <2>4, <3>1, <3>2, <3>3, RefsMoves
  <2>6. Refs(info, messages', staged', handlers)
    BY <2>1, <2>2, <2>5, RefsRow
  <2>7. \A u \in Task : \A p \in Message :
          Owner(p, u, info, messages, due, staged)
            => Owner(p, u, info, messages', due, staged)
    BY <2>4 DEF Owner
  <2> QED BY <1>7, <2>1, <2>6, <2>7
<1>9. ASSUME NEW receiver, NEW q \in FreshMessage,
             StageRow(m, staged, "question", t, receiver, q),
             messages' = [messages EXCEPT
                            ![q] = [NewPrompt(receiver, t) EXCEPT !.st = "asked"]]
      PROVE  Tended'
  <2> DEFINE v == [NewPrompt(receiver, t) EXCEPT !.st = "asked"]
  <2>1. PICK row : /\ staged' = staged \cup {row}
                   /\ row.prompt = m /\ row.kind = "question" /\ row.task = t
                   /\ row.question = q
    BY <1>9, RowStaged
  <2>2. v.st = "asked" /\ messages' = [messages EXCEPT ![q] = v]
    BY <1>9 DEF NewPrompt
  <2> HIDE DEF v
  <2>3. Refs(info, messages', staged, handlers)
    BY <2>2, RefsFresh
  <2>4. /\ q \in Message /\ messages'[q].st = "asked"
        /\ \A h \in handlers : h.out # q
        /\ \A r \in Row : Pending(r, staged, handlers) => r.question # q
    BY <1>4, <2>2, FreshUnused DEF TypeOK
  <2>5. q # NoMessage
    BY <2>4, NoPromptNoMessage
  <2>6. Refs(info, messages', staged', handlers)
    BY <2>1, <2>3, <2>4, <2>5, RefsRow
  <2>7. \A u \in Task : \A p \in Message :
          Owner(p, u, info, messages, due, staged)
            => Owner(p, u, info, messages', due, staged)
    BY <2>2, OwnersFresh
  <2> QED BY <1>7, <2>1, <2>6, <2>7
<1> QED BY <1>8, <1>9 DEF AskSender

\* The row of a result or of an answer has no question: nobody refers to more.
LEMMA RefsPlainRow ==
  ASSUME TypeOK, Tended, NEW kept, kept \subseteq staged, NEW row,
         row.question = NoMessage,
         row.kind = "result_ready" => messages[row.prompt].task = row.task
  PROVE  Refs(info, messages, kept \cup {row}, handlers)
<1>1. Refs(info, messages, kept, handlers)
  BY RefsLess DEF Tended
<1>2. \A h \in handlers : h.kind = "first" => h.out # NoMessage
  BY NoPromptNoMessage DEF Tended, Refs, FirstWaits
<1> QED BY <1>1, <1>2, RefsRow

LEMMA TendedSubmit ==
  ASSUME TypeOK, HeldInv, Tended, TypeOK', NEW m \in Message, SubmitResult(m)
  PROVE  Tended'
<1> DEFINE t == messages[m].task
           kept == {r \in staged : ~(r.prompt = m /\ r.kind = "result_ready")}
<1>1. UNCHANGED <<state, info, messages, handlers, due, told, roster>>
  BY DEF SubmitResult
<1>2. state[t] # "absent"
  BY DEF SubmitResult, Legal, Transitions
<1>3. PICK row : /\ staged' = kept \cup {row}
                 /\ row.prompt = m /\ row.kind = "result_ready" /\ row.task = t
                 /\ row.receiver = info[t].dispatcher /\ row.question = NoMessage
  BY RowStaged DEF SubmitResult
<1>4. kept \subseteq staged
  OBVIOUS
<1>5. Refs(info, messages, staged', handlers)
  BY <1>3, <1>4, RefsPlainRow
<1>6. Known(state, info, staged', handlers)
  <2>1. Known(state, info, kept, handlers)
    BY <1>4, KnownLess DEF Tended
  <2> QED BY <1>2, <1>3, <2>1, KnownRow
<1>7. ASSUME NEW u, Submitted(u, staged) PROVE Submitted(u, staged')
  <2>1. PICK r \in staged : r.kind = "result_ready" /\ r.task = u
    BY <1>7 DEF Submitted
  <2>2. CASE r.prompt = m
    <3>1. r.task = t
      BY <2>1, <2>2 DEF Tended, Refs, OwnResult
    <3> QED BY <1>3, <2>1, <3>1 DEF Submitted
  <2>3. CASE r.prompt # m
    BY <1>3, <2>1, <2>3 DEF Submitted
  <2> QED BY <2>2, <2>3
<1>8. \A u : \A p \in Message : Owner(p, u, info, messages, due, staged)
                                  => Owner(p, u, info, messages, due, staged')
  BY <1>3 DEF Owner
<1>9. WorkedInv'
  BY <1>1, <1>7, <1>8 DEF Tended, WorkedInv, Worked
<1> QED BY <1>1, <1>5, <1>6, <1>9 DEF Tended

LEMMA TendedAnswer ==
  ASSUME TypeOK, HeldInv, Tended, TypeOK', NEW m \in Message, NEW t \in Task,
         AnswerQuestion(m, t)
  PROVE  Tended'
<1>1. UNCHANGED <<state, info, messages, handlers, due, told, roster>>
  BY DEF AnswerQuestion
<1>2. state[t] # "absent" /\ TurnDepth(m) = 0
  BY DEF AnswerQuestion, Waiting
<1>3. PICK row : /\ staged' = staged \cup {row}
                 /\ row.prompt = m /\ row.kind = "answer" /\ row.task = t
                 /\ row.receiver = info[t].assignee /\ row.question = NoMessage
  BY RowStaged DEF AnswerQuestion
<1>4. Refs(info, messages, staged', handlers)
  BY <1>3, RefsPlainRow
<1>5. Known(state, info, staged', handlers)
  BY <1>2, <1>3, KnownRow DEF Tended
\* The turn that answers is not one of an assignee: those are deeper.
<1>6. ASSUME NEW u \in Task, state[u] = "working", Owner(m, u, info, messages, due, staged)
      PROVE  FALSE
  <2>1. messages[m].task = u /\ messages[m].to = info[u].assignee
    BY <1>6 DEF Owner
  <2>2. u # NoTask
    BY DEF Task, NoTask
  <2>3. info[u].depth >= 1
    BY <1>6 DEF Tended, Known
  <2>4. TurnDepth(m) = info[u].depth
    BY <2>1, <2>2 DEF TurnDepth
  <2> QED BY <1>2, <2>3, <2>4
<1>7. \A u \in Task : \A p \in Message :
        p # m /\ Owner(p, u, info, messages, due, staged)
          => Owner(p, u, info, messages, due, staged')
  BY <1>3 DEF Owner
<1>8. \A u : Submitted(u, staged) => Submitted(u, staged')
  BY <1>3 DEF Submitted
<1>9. WorkedInv'
  BY <1>1, <1>6, <1>7, <1>8 DEF Tended, WorkedInv, Worked
<1> QED BY <1>1, <1>4, <1>5, <1>9 DEF Tended

LEMMA TendedAccept ==
  ASSUME TypeOK, HeldInv, Tended, TypeOK', NEW m \in Message, NEW t \in Task,
         AcceptResult(m, t)
  PROVE  Tended'
<1>1. UNCHANGED <<info, staged, due, told, roster>>
  BY DEF AcceptResult
<1>2. \A h \in handlers : h.kind = "first" => h.task \in Task
  BY DEF Tended, Refs, FirstWaits
<1>3. /\ Refs(info, messages, staged, handlers)
      /\ Known(state, info, staged, handlers)
      /\ staged \subseteq Row /\ handlers \subseteq Handler
  BY DEF Tended, TypeOK
<1>4. state[t] # "absent"
  BY DEF AcceptResult, Legal, Transitions
<1>5. CASE /\ state' = [state EXCEPT ![t] = "completed"]
           /\ UNCHANGED <<messages, handlers>>
  <2>1. /\ \A u \in Task : state[u] # "absent" <=> state'[u] # "absent"
        /\ \A u \in Task : state'[u] = "working" => state[u] = "working"
    BY <1>4, <1>5 DEF TypeOK
  <2>2. Known(state', info, staged, handlers)
    BY <1>2, <1>3, <2>1, KnownMoves
  <2>3. WorkedInv'
    BY <1>1, <1>5, <2>1 DEF Tended, WorkedInv, Worked
  <2> QED BY <1>1, <1>3, <1>5, <2>2, <2>3 DEF Tended
<1>6. ASSUME NEW u \in NextQueued, NEW q \in FreshMessage,
             state' = [state EXCEPT ![t] = "completed", ![u] = "working"],
             messages' = [messages EXCEPT ![q] = NewPrompt(info[u].assignee, u)],
             handlers' = handlers \cup
               {[kind |-> "next", task |-> u, row |-> NoRow, todo |-> {}, out |-> q]}
      PROVE  Tended'
  <2> DEFINE g == [kind |-> "next", task |-> u, row |-> NoRow, todo |-> {}, out |-> q]
  <2>1. g.kind # "first" /\ g.todo = {} /\ g.out = q
    OBVIOUS
  <2>2. handlers' = handlers \cup {g}
    BY <1>6
  <2> HIDE DEF g
  <2>3. Refs(info, messages', staged, handlers')
    <3>1. Refs(info, [messages EXCEPT ![q] = NewPrompt(info[u].assignee, u)], staged,
               handlers \cup {g})
      BY <2>1, RefsCoroutine
    <3> QED BY <1>6, <2>2, <3>1
  <2>4. u \in Task /\ state[u] = "submitted"
    BY DEF NextQueued
  <2>5. /\ \A w \in Task : state[w] # "absent" <=> state'[w] # "absent"
        /\ \A w \in Task : w # u /\ state'[w] = "working" => state[w] = "working"
    BY <1>4, <1>6, <2>4 DEF TypeOK
  <2>6. Known(state', info, staged, handlers')
    <3>1. Known(state', info, staged, handlers)
      BY <1>2, <1>3, <2>5, KnownMoves
    <3> QED BY <2>1, <2>2, <3>1, KnownStarted
  <2>7. q \in Message /\ \A r \in staged : r.prompt # q
    BY <1>3, FreshUnused
  <2>8. Owner(q, u, info, messages', due, staged)
    <3>1. messages'[q] = NewPrompt(info[u].assignee, u)
      BY <1>6, <2>7 DEF TypeOK
    <3> QED BY <2>7, <3>1 DEF Owner, NewPrompt
  <2>9. \A w \in Task : \A p \in Message :
          Owner(p, w, info, messages, due, staged) => Owner(p, w, info, messages', due, staged)
    BY <1>6, OwnersFresh
  <2>10. WorkedInv'
    BY <1>1, <2>5, <2>7, <2>8, <2>9 DEF Tended, WorkedInv, Worked
  <2> QED BY <1>1, <2>3, <2>6, <2>10 DEF Tended
<1> QED BY <1>5, <1>6 DEF AcceptResult

LEMMA TendedTurnEnd ==
  ASSUME TypeOK, HeldInv, Tended, TypeOK', NEW m \in Message, ProcessTurnEnd(m)
  PROVE  Tended'
<1> DEFINE t == messages[m].task
           ends == [due EXCEPT ![m] = @ - 1]
<1>1. /\ due' = ends /\ due[m] > 0 /\ messages[m].st = "saved"
      /\ UNCHANGED <<info, roster>>
  BY DEF ProcessTurnEnd, HeldInv, Held, Scannable
<1>2. /\ messages \in Prompts /\ handlers \subseteq Handler /\ staged \subseteq Row
      /\ Refs(info, messages, staged, handlers)
      /\ Known(state, info, staged, handlers)
  BY DEF TypeOK, Prompts, Tended
<1>3. \A p \in Message : /\ p # m => ends[p] = due[p]
                         /\ ends[p] > 0 => due[p] > 0
  BY DEF TypeOK
<1>4. \A p \in Message : ends[p] > 0 => messages[p].st = "saved"
  BY <1>3 DEF HeldInv, Held, Scannable
<1>5. \A r \in staged : messages[r.prompt].st # "free"
  BY DEF HeldInv, Held, Scannable
<1> HIDE DEF ends
<1>6. \A p \in Message : \A u : p # m /\ Owner(p, u, info, messages, due, staged)
                                  => Owner(p, u, info, messages, ends, staged)
  BY <1>3 DEF Owner
<1>7. CASE RowsOf(m) # {} /\ Execute("end", RowsOf(m), ends, handlers, messages)
  <2>1. RowsOf(m) \subseteq Row /\ \A r \in RowsOf(m) : Pending(r, staged, handlers)
    BY <1>2 DEF RowsOf, Pending
  \* An owner that staged something submitted its result.
  <2>2. \A u : Owner(m, u, info, messages, due, staged) => Submitted(u, staged)
    BY <1>7 DEF Owner, Submitted, RowsOf
  <2>3. Worked(state, info, messages, ends, staged, told, roster)
    BY <1>6, <2>2 DEF Tended, WorkedInv, Worked
  <2>4. Refs(info, messages', staged', handlers')
    BY <1>2, <1>5, <1>7, <2>1, RefsExecute
  <2>5. Known(state', info, staged', handlers')
    <3>1. \A h \in handlers : h.kind = "first" => h.task \in Task
      BY <1>2 DEF Refs, FirstWaits
    <3> QED BY <1>2, <1>7, <2>1, <3>1, KnownExecute
  <2>6. Worked(state', info, messages', ends, staged', told', roster)
    BY <1>2, <1>4, <1>5, <1>7, <2>1, <2>3, WorkedExecute
  <2> QED BY <1>1, <2>4, <2>5, <2>6 DEF Tended, WorkedInv
<1>8. ASSUME NEW q \in FreshMessage, NEW g, g.kind # "first", g.todo = {}, g.out = q,
             told' = told \cup {t},
             handlers' = handlers \cup {g},
             messages' = Recycle([messages EXCEPT ![q] = NewPrompt(info[t].dispatcher, t)],
                                 ends, staged, handlers \cup {g}),
             UNCHANGED <<state, staged>>
      PROVE  Tended'
  <2> DEFINE base == [messages EXCEPT ![q] = NewPrompt(info[t].dispatcher, t)]
  <2>1. Refs(info, base, staged, handlers \cup {g})
    BY <1>8, RefsCoroutine
  <2>2. \A u \in Task : \A p \in Message :
          Owner(p, u, info, messages, due, staged) => Owner(p, u, info, base, due, staged)
    BY OwnersFresh
  <2> HIDE DEF base
  <2>3. messages' = Recycle(base, ends, staged', handlers') /\ handlers' \subseteq Handler
    BY <1>8 DEF base, TypeOK
  <2>4. Refs(info, messages', staged', handlers')
    BY <1>2, <1>8, <2>1, <2>3, RefsRecycled
  <2>5. Known(state', info, staged', handlers')
    BY <1>2, <1>8, KnownStarted
  <2>6. ASSUME NEW u \in Task, state[u] = "working", u \notin told', info[u].dispatcher \in roster
        PROVE  Submitted(u, staged) \/ \E p \in Message : Owner(p, u, info, base, ends, staged)
    <3>1. u # t /\ u \notin told
      BY <1>8, <2>6
    <3>2. \A p \in Message : Owner(p, u, info, messages, due, staged) => p # m
      BY <3>1 DEF Owner
    <3>3. \A p \in Message : p # m /\ Owner(p, u, info, base, due, staged)
                               => Owner(p, u, info, base, ends, staged)
      BY <1>3 DEF Owner
    <3> QED BY <2>2, <2>6, <3>1, <3>2, <3>3 DEF Tended, WorkedInv, Worked
  <2>7. Worked(state', info, base, ends, staged', told', roster)
    BY <1>8, <2>6 DEF Worked
  <2>8. Worked(state', info, messages', ends, staged', told', roster)
    BY <2>3, <2>7, WorkedRecycled
  <2> QED BY <1>1, <2>4, <2>5, <2>8 DEF Tended, WorkedInv
<1>9. ASSUME NEW q \in FreshMessage,
             LET suspended == [kind |-> "end", task |-> t, row |-> NoRow,
                               todo |-> {}, out |-> q]
                 judgment == NewPrompt(info[t].dispatcher, t)
             IN /\ handlers' = handlers \cup {suspended}
                /\ messages' = Recycle([messages EXCEPT ![q] = judgment], ends, staged,
                                       handlers \cup {suspended}),
             told' = told \cup {t},
             UNCHANGED <<state, staged>>
      PROVE  Tended'
  <2> DEFINE g == [kind |-> "end", task |-> t, row |-> NoRow, todo |-> {}, out |-> q]
  <2>1. g.kind # "first" /\ g.todo = {} /\ g.out = q
    OBVIOUS
  <2>2. /\ handlers' = handlers \cup {g}
        /\ messages' = Recycle([messages EXCEPT ![q] = NewPrompt(info[t].dispatcher, t)],
                               ends, staged, handlers \cup {g})
    BY <1>9
  <2> HIDE DEF g
  <2> QED BY <1>8, <1>9, <2>1, <2>2
<1>10. CASE /\ RowsOf(m) = {}
            /\ ~ ImplicitResult(m)
            /\ messages' = Recycle(messages, ends, staged, handlers)
            /\ UNCHANGED <<state, staged, handlers, told>>
  <2>1. Refs(info, messages', staged, handlers)
    BY <1>2, <1>10, RefsRecycled
  \* An owner's turn that staged nothing has an implicit result.
  <2>2. ASSUME NEW u \in Task, state[u] = "working", info[u].dispatcher \in roster,
               Owner(m, u, info, messages, due, staged)
        PROVE  FALSE
    <3>1. messages[m].task = u /\ messages[m].to = info[u].assignee /\ u # NoTask
      BY <2>2 DEF Owner, Task, NoTask
    <3> QED BY <1>10, <2>2, <3>1 DEF ImplicitResult
  <2>3. Worked(state, info, messages, ends, staged, told, roster)
    BY <1>6, <2>2 DEF Tended, WorkedInv, Worked
  <2>4. Worked(state, info, messages', ends, staged, told, roster)
    BY <1>10, <2>3, WorkedRecycled
  <2> QED BY <1>1, <1>2, <1>10, <2>1, <2>4 DEF Tended, WorkedInv
<1> QED BY <1>7, <1>9, <1>10 DEF ProcessTurnEnd, ends

\* mqtt.publish moves the one prompt it is given.
LEMMA PublishedMoves ==
  ASSUME TypeOK, NEW q, NEW p \in Message
  PROVE  /\ p # q => Published(q)[p] = messages[p]
         /\ Published(q)[p].task = messages[p].task
         /\ Published(q)[p].to = messages[p].to
         /\ messages[p].st = "free" <=> Published(q)[p].st = "free"
         /\ messages[p].st = "out" => Published(q)[p].st \in {"out", "running"}
BY DEF Published, TypeOK, Prompt

LEMMA RefsPublished ==
  ASSUME TypeOK, HeldInv, Tended, NEW h \in handlers, NEW others, others \subseteq handlers,
         h \notin others \/ h.kind # "first"
  PROVE  Refs(info, Published(h.out), staged, others)
<1> DEFINE base == Published(h.out)
<1>1. /\ staged \subseteq Row /\ others \subseteq Handler
      /\ Refs(info, messages, staged, handlers)
  BY DEF TypeOK, Tended
<1>2. Refs(info, messages, staged, others)
  BY <1>1, RefsLess
<1>3. \A p \in Message : messages[p].st # "free"
        => base[p].st # "free" /\ base[p].task = messages[p].task
  BY PublishedMoves
<1>4. \A p \in Message : messages[p].st # "out" => base[p] = messages[p]
  BY PublishedSame
<1>5. \A p \in Message : p # h.out => base[p] = messages[p]
  BY PublishedMoves
<1> HIDE DEF base
<1>6. \A r \in staged : messages[r.prompt].st # "free"
  BY DEF HeldInv, Held, Scannable
<1>7. \A r \in staged : r.question # NoMessage => base[r.question].st = "asked"
  <2>1. \A r \in staged : r.question # NoMessage => r.question \in Message
    BY <1>1 DEF Row
  <2> QED BY <1>1, <1>4, <2>1 DEF Refs, Asked
<1>8. ASSUME NEW f \in others, f.kind = "first" PROVE base[f.out] = messages[f.out]
  <2>1. f # h /\ f \in handlers
    BY <1>8
  <2>2. f.out \in Message /\ f.out # h.out
    BY <1>1, <1>8, <2>1 DEF Refs, FirstWaits
  <2> QED BY <1>5, <2>2
<1>9. Refs(info, base, staged, others)
  BY <1>1, <1>2, <1>3, <1>6, <1>7, <1>8, RefsMoves
<1> QED BY <1>9 DEF base

LEMMA WorkedPublished ==
  ASSUME TypeOK, HeldInv, Tended, NEW q
  PROVE  Worked(state, info, Published(q), due, staged, told, roster)
<1> DEFINE base == Published(q)
<1>1. \A p \in Message : /\ base[p].task = messages[p].task
                         /\ base[p].to = messages[p].to
                         /\ messages[p].st = "out" => base[p].st \in {"out", "running"}
                         /\ messages[p].st # "out" => base[p] = messages[p]
  BY PublishedMoves, PublishedSame
<1> HIDE DEF base
<1>2. \A p \in Message : \A u : Owner(p, u, info, messages, due, staged)
                                  => Owner(p, u, info, base, due, staged)
  BY <1>1 DEF Owner
<1>3. Worked(state, info, base, due, staged, told, roster)
  BY <1>2 DEF Tended, WorkedInv, Worked
<1> QED BY <1>3 DEF base

LEMMA TendedHandler ==
  ASSUME TypeOK, HeldInv, Tended, TypeOK', NEW h \in handlers, Publish(h) \/ StartScanJob(h)
  PROVE  Tended'
<1> DEFINE base == Published(h.out)
<1>1. /\ UNCHANGED <<info, due, roster>>
      /\ messages \in Prompts /\ base \in Prompts
      /\ staged \subseteq Row /\ handlers \subseteq Handler
      /\ handlers \ {h} \subseteq handlers
  BY PublishedType DEF Publish, StartScanJob, TypeOK, Prompts
<1>2. /\ Refs(info, messages, staged, handlers)
      /\ Known(state, info, staged, handlers)
      /\ Worked(state, info, messages, due, staged, told, roster)
      /\ \A f \in handlers : f.kind = "first" => f.task \in Task
  BY DEF Tended, WorkedInv, Refs, FirstWaits
<1>3. Worked(state, info, base, due, staged, told, roster)
  BY WorkedPublished
<1>4. /\ h.todo \subseteq Row
      /\ \A r \in h.todo : Pending(r, staged, handlers)
  BY <1>1 DEF Pending, Handler
<1>5. /\ \A p \in Message : messages[p].st # "out" => base[p] = messages[p]
      /\ \A p \in Message : messages[p].st = "free" <=> base[p].st = "free"
  BY PublishedSame, PublishedMoves
<1>6. /\ \A p \in Message : due[p] > 0 => messages[p].st = "saved"
      /\ \A r \in staged : r.prompt \in Message /\ messages[r.prompt].st # "free"
  BY <1>1 DEF HeldInv, Held, Scannable, Row
<1>7. CASE Publish(h) /\ h.kind \in {"first", "next"}
  <2>1. /\ state' = IF h.kind = "first" THEN [state EXCEPT ![h.task] = "working"] ELSE state
        /\ handlers' = handlers \ {h}
        /\ messages' = base
        /\ UNCHANGED <<staged, told>>
    BY <1>7 DEF Publish
  <2>2. Refs(info, base, staged, handlers \ {h})
    BY <1>1, RefsPublished
  <2>3. CASE h.kind # "first"
    <3>1. Known(state, info, staged, handlers \ {h})
      BY <1>1, <1>2, KnownLess
    <3> QED BY <1>1, <1>3, <2>1, <2>2, <2>3, <3>1 DEF Tended, WorkedInv
  <2>4. CASE h.kind = "first"
    <3>1. /\ h.task \in Task /\ h.out \in Message
          /\ messages[h.out] = NewPrompt(info[h.task].assignee, h.task)
          /\ state[h.task] # "absent"
      BY <1>2, <2>4 DEF Refs, FirstWaits, Known
    <3>2. /\ \A u \in Task : u # h.task => state'[u] = state[u]
          /\ \A u \in Task : state[u] # "absent" <=> state'[u] # "absent"
      BY <2>1, <2>4, <3>1 DEF TypeOK
    <3>3. Known(state', info, staged, handlers \ {h})
      <4>1. Known(state', info, staged, handlers)
        BY <1>1, <1>2, <3>2, KnownMoves
      <4> QED BY <1>1, <4>1, KnownLess
    <3>4. Owner(h.out, h.task, info, base, due, staged)
      <4>1. messages[h.out].st = "out"
        BY <3>1 DEF NewPrompt
      <4>2. \A r \in staged : r.prompt # h.out
        BY <4>1 DEF HeldInv, Held, Scannable
      <4>3. base[h.out] = [messages[h.out] EXCEPT !.st = "running"]
        BY <3>1, <4>1, NoPromptNoMessage DEF Published, TypeOK
      <4>4. /\ base[h.out].st = "running"
            /\ base[h.out].task = h.task
            /\ base[h.out].to = info[h.task].assignee
        BY <3>1, <4>3 DEF NewPrompt
      <4> HIDE DEF base
      <4> QED BY <4>2, <4>4 DEF Owner
    <3> HIDE DEF base
    <3>5. Worked(state', info, base, due, staged, told, roster)
      BY <1>3, <3>1, <3>2, <3>4 DEF Worked
    <3> QED BY <1>1, <2>1, <2>2, <3>3, <3>5 DEF Tended, WorkedInv
  <2> QED BY <2>3, <2>4
<1>8. CASE Publish(h) /\ h.kind \in {"end", "scan"}
  <2>1. h.kind # "first" /\ Execute(h.kind, h.todo, due, handlers \ {h}, base)
    BY <1>8 DEF Publish
  <2>2. Refs(info, base, staged, handlers)
    BY <2>1, RefsPublished
  <2> HIDE DEF base
  <2>3. /\ \A p \in Message : due[p] > 0 => base[p].st = "saved"
        /\ \A r \in staged : base[r.prompt].st # "free"
    BY <1>5, <1>6
  <2>4. Refs(info, messages', staged', handlers')
    BY <1>1, <1>4, <1>5, <2>1, <2>2, <2>3, RefsExecute
  <2>5. Known(state', info, staged', handlers')
    BY <1>1, <1>2, <1>4, <2>1, KnownExecute
  <2>6. Worked(state', info, messages', due, staged', told', roster)
    BY <1>1, <1>2, <1>3, <1>4, <1>5, <2>1, <2>3, WorkedExecute
  <2> QED BY <1>1, <2>4, <2>5, <2>6 DEF Tended, WorkedInv
<1>9. CASE StartScanJob(h)
  <2>1. "scan" # "first" /\ Execute("scan", h.todo, due, handlers \ {h}, messages)
    BY <1>9 DEF StartScanJob
  <2>2. Refs(info, messages', staged', handlers')
    BY <1>1, <1>2, <1>4, <1>6, <2>1, RefsExecute
  <2>3. Known(state', info, staged', handlers')
    BY <1>1, <1>2, <1>4, <2>1, KnownExecute
  <2>4. Worked(state', info, messages', due, staged', told', roster)
    BY <1>1, <1>2, <1>4, <1>6, <2>1, WorkedExecute
  <2> QED BY <1>1, <2>2, <2>3, <2>4 DEF Tended, WorkedInv
<1>10. h.kind \in {"first", "next", "end", "scan"}
  BY <1>1 DEF Handler
<1> QED BY <1>7, <1>8, <1>9, <1>10

LEMMA TendedScan ==
  ASSUME TypeOK, HeldInv, Tended, TypeOK', StartupScan
  PROVE  Tended'
<1>1. UNCHANGED <<state, info, messages, staged, due, told, roster>>
  BY DEF StartupScan
<1>2. CASE handlers' = handlers
  BY <1>1, <1>2 DEF Tended, WorkedInv
<1>3. ASSUME NEW r \in staged, NEW g, handlers' = handlers \cup {g},
             g.kind = "scan", g.todo = {r}, g.out = NoMessage
      PROVE  Tended'
  <2>1. \A x : Pending(x, staged, handlers') => Pending(x, staged, handlers)
    BY <1>3 DEF Pending
  <2>2. /\ Refs(info, messages, staged, handlers)
        /\ Known(state, info, staged, handlers)
    BY DEF Tended
  <2>3. InUse(messages, handlers')
    BY <1>3, <2>2 DEF Refs, InUse, Asked
  <2>4. AskedOnce(staged, handlers')
    BY <2>1, <2>2 DEF Refs, AskedOnce
  <2>5. FirstWaits(info, messages, staged, handlers')
    BY <1>3, <2>1, <2>2, NoPromptNoMessage DEF Refs, FirstWaits
  <2>6. Known(state, info, staged, handlers')
    BY <1>3, <2>1, <2>2 DEF Known
  <2> QED BY <1>1, <2>2, <2>3, <2>4, <2>5, <2>6 DEF Tended, WorkedInv, Refs
<1>4. ASSUME NEW r \in staged,
             handlers' = handlers \cup
               {[kind |-> "scan", task |-> NoTask, row |-> NoRow,
                 todo |-> {r}, out |-> NoMessage]}
      PROVE  Tended'
  <2> DEFINE g == [kind |-> "scan", task |-> NoTask, row |-> NoRow,
                   todo |-> {r}, out |-> NoMessage]
  <2>1. g.kind = "scan" /\ g.todo = {r} /\ g.out = NoMessage
    OBVIOUS
  <2>2. handlers' = handlers \cup {g}
    BY <1>4
  <2> HIDE DEF g
  <2> QED BY <1>3, <2>1, <2>2
<1> QED BY <1>2, <1>4 DEF StartupScan

\* OwnerInv is inductive.
LEMMA OwnerStep == TypeOK /\ HeldInv /\ OwnerInv /\ TypeOK' /\ [Next]_vars => OwnerInv'
<1> SUFFICES ASSUME TypeOK, HeldInv, OwnerInv, TypeOK', [Next]_vars, NothingLost'
             PROVE  Tended'
  BY DEF OwnerInv
<1> DEFINE losses == {"kill", "fail", "crash", "foreign", "elsewhere"}
<1>1. \A k \in losses : spent[k] \in Nat /\ spent'[k] = 0 /\ spent'[k] >= spent[k]
  BY SpentGrows DEF NothingLost, TypeOK, Budget
<1>2. \A k \in losses : spent[k] = 0
  BY <1>1
<1>3. Tended
  BY <1>2 DEF OwnerInv, NothingLost
<1>0. ASSUME NEW k \in losses, NEW bound, Spend(k, bound) PROVE FALSE
  <2>1. spent'[k] = spent[k] + 1
    BY <1>0 DEF Spend, TypeOK, Budget
  <2> QED BY <1>1, <2>1
<1>4. ASSUME NEW s \in Staff, UserPrompt(s) PROVE Tended'
  <2>1. PICK m \in FreshMessage : \E v : messages' = [messages EXCEPT ![m] = v]
    BY <1>4 DEF UserPrompt
  <2>2. \A p \in Message : messages[p].st # "free" => messages'[p] = messages[p]
    BY <2>1, FreshSame
  <2>3. UNCHANGED <<state, info, staged, handlers, told, due, roster>>
    BY <1>4 DEF UserPrompt
  <2> QED BY <1>3, <2>2, <2>3, TendedKept
<1>5. ASSUME NEW m \in Message, Tool(m) PROVE Tended'
  <2>1. CASE AskUser(m)
    <3>1. /\ messages[m].st = "running"
          /\ messages' = [messages EXCEPT ![m].replied = TRUE]
          /\ UNCHANGED <<state, info, staged, handlers, told, due, roster>>
      BY <2>1 DEF AskUser, ToolCall
    <3>2. \A p \in Message : /\ p # m => messages'[p] = messages[p]
                             /\ messages'[p].st = messages[p].st
                             /\ messages'[p].task = messages[p].task
                             /\ messages'[p].to = messages[p].to
      BY <3>1 DEF TypeOK, Prompt
    <3> QED BY <1>3, <3>1, <3>2, TendedKept
  <2> QED BY <1>3, <1>5, <2>1, TendedDelegate, TendedAsk, TendedSubmit, TendedAnswer,
             TendedAccept DEF Tool
<1>6. ASSUME NEW m \in Message, Respond(m) PROVE Tended'
  <2>1. /\ UNCHANGED <<state, info, staged, handlers, told, roster>>
        /\ messages[m].st = "running"
        /\ messages' = [messages EXCEPT ![m].st = "saved"]
        /\ due' = [due EXCEPT ![m] = @ + 1]
    BY <1>6 DEF Respond
  <2>2. /\ \A p \in Message : p # m => messages'[p] = messages[p] /\ due'[p] = due[p]
        /\ messages'[m].st = "saved" /\ due'[m] > 0
        /\ messages'[m].task = messages[m].task /\ messages'[m].to = messages[m].to
    BY <2>1 DEF TypeOK, Prompt
  <2> QED BY <1>3, <2>1, <2>2, TendedKept
<1>7. ASSUME NEW m \in Message, ProcessTurnEnd(m) PROVE Tended'
  BY <1>3, <1>7, TendedTurnEnd
<1>8. ASSUME NEW h \in handlers, Publish(h) \/ StartScanJob(h) PROVE Tended'
  BY <1>3, <1>8, TendedHandler
<1>9. CASE StartupScan
  BY <1>3, <1>9, TendedScan
<1>10. CASE Fault
  <2>1. ASSUME NEW m \in Message, DupResponse(m) PROVE Tended'
    <3>1. /\ UNCHANGED <<state, info, staged, handlers, told, roster, messages>>
          /\ due' = [due EXCEPT ![m] = @ + 1]
      BY <2>1 DEF DupResponse
    <3>2. \A p \in Message : due[p] > 0 => due'[p] > 0
      BY <3>1 DEF TypeOK
    <3> QED BY <1>3, <3>1, <3>2, TendedKept
  <2>2. ASSUME NEW s \in Staff, RemoveStaff(s) PROVE Tended'
    <3>1. /\ UNCHANGED <<state, info, staged, handlers, told, messages, due>>
          /\ roster' \subseteq roster
      BY <2>2 DEF RemoveStaff
    <3> QED BY <1>3, <3>1, TendedKept
  <2> QED BY <1>0, <1>10, <2>1, <2>2 DEF Fault, KillTurn, DispatchFails, Crash
<1>11. CASE UNCHANGED vars
  BY <1>3, <1>11 DEF vars, Tended, WorkedInv
<1>12. ASSUME NEW t \in Task, ForeignTask(t) \/ Elsewhere(t) PROVE Tended'
  BY <1>0, <1>12 DEF ForeignTask, Elsewhere
<1> QED BY <1>4, <1>5, <1>6, <1>7, <1>8, <1>9, <1>10, <1>11, <1>12 DEF Next

LEMMA OwnerInit == Init => OwnerInv
<1> SUFFICES ASSUME Init PROVE Tended
  BY DEF OwnerInv
<1>1. \A r : ~ Pending(r, staged, handlers)
  BY DEF Init, Pending
<1>2. Refs(info, messages, staged, handlers)
  BY <1>1 DEF Init, Refs, Asked, OwnResult, InUse, AskedOnce, FirstWaits
<1>3. Known(state, info, staged, handlers)
  BY <1>1 DEF Init, Known
<1>4. WorkedInv
  BY DEF Init, WorkedInv, Worked
<1> QED BY <1>2, <1>3, <1>4 DEF Tended

\* A task that is working and whose result nobody has seen is being worked on,
\* whatever responses come twice, however careless the staffs and whoever is
\* deleted, as long as no turn is killed, no dispatch fails, the master does not
\* crash and other topics keep to themselves (process_turn_end,
\* _execute_staged_row, _dispatch_next_queued).
THEOREM Owned == Spec => []WorkingHasOwner
<1>1. OwnerInv => WorkingHasOwner
  <2>1. \A m \in Message : \A t : Owner(m, t, info, messages, due, staged)
          => messages[m].task = t /\ messages[m].to = info[t].assignee /\ Unfinished(m)
    BY DEF Owner, Unfinished
  <2> QED BY <2>1 DEF OwnerInv, NothingLost, Tended, WorkedInv, Worked, Submitted,
                      WorkingHasOwner
<1>2. Spec => []TypeOK
  BY TypeCorrect
<1>3. Spec => []HeldInv
  BY TurnsHeld
<1>4. TypeOK /\ TypeOK' /\ HeldInv /\ OwnerInv /\ [Next]_vars => OwnerInv'
  BY OwnerStep
<1> QED BY <1>1, <1>2, <1>3, <1>4, OwnerInit, PTL DEF Spec


-----------------------------------------------------------------------------
(* What a fault costs: coroutines and turn ends *)

\* A queued task is dispatched without a staged row; the scan's job has one row
\* to execute, and none once it has dispatched it.
Shaped(coroutines) ==
  \A h \in coroutines :
    /\ h.kind = "next" => h.row = NoRow
    /\ h.kind = "scan" /\ h.out = NoMessage => \A r, x \in h.todo : r = x
    /\ h.kind = "scan" /\ h.out # NoMessage => h.todo = {}

\* Unless a response came twice, each turn ends once, and only the coroutine
\* of its turn end executes the rows it staged.
EndsApart(ends, coroutines) ==
  /\ \A m \in Message : ends[m] <= 1
  /\ \A h \in coroutines : h.kind = "end" =>
       /\ \A r \in h.todo : ends[r.prompt] = 0
       /\ \A g \in coroutines : g.kind = "end" /\ g # h =>
            \A r \in h.todo : \A x \in g.todo : r.prompt # x.prompt

ApartInv ==
  /\ Shaped(handlers)
  /\ spent["dup"] = 0 => EndsApart(due, handlers)

LEMMA ApartExecute ==
  ASSUME TypeOK, NEW kind \in {"end", "scan"}, NEW todo, todo \subseteq Row,
         kind = "scan" => \A r, x \in todo : r = x,
         NEW ends, NEW others, Shaped(others), NEW base,
         Execute(kind, todo, ends, others, base)
  PROVE  /\ Shaped(handlers')
         /\ (/\ EndsApart(ends, others)
             /\ kind = "end" => \A r \in todo :
                  /\ ends[r.prompt] = 0
                  /\ \A g \in others : g.kind = "end" => \A x \in g.todo : r.prompt # x.prompt)
            => EndsApart(ends, handlers')
<1>1. CASE Exhausts(todo, ends, others, base)
  BY <1>1 DEF Exhausts
<1>2. ASSUME NEW r \in todo, NEW q \in Message, NEW g, NEW skipped,
             Suspends(kind, todo, ends, others, base, r, q, g, skipped)
      PROVE  /\ handlers' = others \cup {g}
             /\ g.kind = kind /\ g.out = q /\ q # NoMessage
             /\ g.todo \subseteq todo \ {r}
  BY <1>2, NoPromptNoMessage DEF Suspends
<1>3. ASSUME NEW r \in todo, NEW q \in Message, NEW g,
             handlers' = others \cup {g},
             g.kind = kind, g.out = q, q # NoMessage, g.todo \subseteq todo \ {r}
      PROVE  Shaped(handlers')
  BY <1>3 DEF Shaped
<1>4. ASSUME NEW r \in todo, NEW g,
             handlers' = others \cup {g}, g.kind = kind, g.todo \subseteq todo,
             EndsApart(ends, others),
             kind = "end" => \A x \in todo :
                  /\ ends[x.prompt] = 0
                  /\ \A h \in others : h.kind = "end" => \A y \in h.todo : x.prompt # y.prompt
      PROVE  EndsApart(ends, handlers')
  BY <1>4 DEF EndsApart
<1>5. \/ Exhausts(todo, ends, others, base)
      \/ \E r \in todo, q \in Message : \E g, skipped :
           Suspends(kind, todo, ends, others, base, r, q, g, skipped)
  BY ExecuteCases
<1> QED BY <1>1, <1>2, <1>3, <1>4, <1>5

LEMMA ApartKept ==
  ASSUME ApartInv, spent'["dup"] = spent["dup"],
         \A m \in Message : due'[m] = due[m] \/ due'[m] = 0,
         \A h \in handlers' : h \in handlers \/ (h.todo = {} /\ h.row = NoRow),
         \A h \in handlers : \A r \in h.todo : r.prompt \in Message
  PROVE  ApartInv'
BY DEF ApartInv, Shaped, EndsApart

LEMMA ApartStep == TypeOK /\ HeldInv /\ ApartInv /\ TypeOK' /\ [Next]_vars => ApartInv'
<1> SUFFICES ASSUME TypeOK, HeldInv, ApartInv, TypeOK', [Next]_vars PROVE ApartInv'
  OBVIOUS
<1>0. /\ \A h \in handlers : /\ h.todo \subseteq Row
                             /\ \A r \in h.todo : r.prompt \in Message
                             /\ h.kind \in {"first", "next", "end", "scan"}
      /\ \A r \in staged : r \in Row /\ r.prompt \in Message
      /\ \A m \in Message : due[m] \in Nat
  BY DEF TypeOK, Handler, Row
<1>1. ASSUME NEW s \in Staff, UserPrompt(s) PROVE ApartInv'
  BY <1>1, <1>0, ApartKept DEF UserPrompt
<1>2. ASSUME NEW m \in Message, Tool(m) PROVE ApartInv'
  <2>1. \/ handlers' = handlers
        \/ \E k, t, q : handlers' = handlers \cup
             {[kind |-> k, task |-> t, row |-> NoRow, todo |-> {}, out |-> q]}
    BY <1>2 DEF Tool, DelegateTask, AskSender, AskUser, SubmitResult, AnswerQuestion,
           AcceptResult
  <2>2. \A h \in handlers' : h \in handlers \/ (h.row = NoRow /\ h.todo = {})
    BY <2>1
  <2>3. due' = due
    BY <1>2 DEF Tool, DelegateTask, AskSender, AskUser, SubmitResult, AnswerQuestion,
           AcceptResult
  <2>4. spent'["dup"] = spent["dup"]
    BY <1>2 DEF Tool, DelegateTask, AskSender, AskUser, SubmitResult, AnswerQuestion,
                AcceptResult, Spend, TypeOK, Budget
  <2> QED BY <1>0, <2>2, <2>3, <2>4, ApartKept
<1>3. ASSUME NEW m \in Message, Respond(m) PROVE ApartInv'
  <2>1. /\ messages[m].st = "running"
        /\ due' = [due EXCEPT ![m] = @ + 1]
        /\ UNCHANGED <<handlers, spent>>
    BY <1>3 DEF Respond
  <2>2. due[m] = 0
    BY <1>0, <2>1 DEF HeldInv, Held, Scannable
  <2>3. \A p \in Message : p # m => due'[p] = due[p]
    BY <2>1 DEF TypeOK
  <2>4. due'[m] = 1
    BY <2>1, <2>2 DEF TypeOK
  <2>5. \A h \in handlers : h.kind = "end" => \A r \in h.todo : r.prompt # m
    BY <2>1 DEF HeldInv, Held
  <2> QED BY <1>0, <2>1, <2>3, <2>4, <2>5 DEF ApartInv, EndsApart
<1>4. ASSUME NEW m \in Message, ProcessTurnEnd(m) PROVE ApartInv'
  <2> DEFINE ends == [due EXCEPT ![m] = @ - 1]
  <2>1. due[m] > 0 /\ due' = ends /\ spent' = spent
    BY <1>4 DEF ProcessTurnEnd
  <2>2. spent["dup"] = 0 => /\ EndsApart(ends, handlers)
                            /\ ends[m] = 0
                            /\ \A g \in handlers : g.kind = "end" =>
                                 \A x \in g.todo : x.prompt # m
    <3> SUFFICES ASSUME spent["dup"] = 0
                 PROVE  /\ EndsApart(ends, handlers)
                        /\ ends[m] = 0
                        /\ \A g \in handlers : g.kind = "end" => \A x \in g.todo : x.prompt # m
      OBVIOUS
    <3>1. due[m] = 1
      BY <1>0, <2>1 DEF ApartInv, EndsApart
    <3>2. ends[m] = 0 /\ \A p \in Message : p # m => ends[p] = due[p]
      BY <3>1 DEF TypeOK
    <3>3. \A g \in handlers : g.kind = "end" => \A x \in g.todo : x.prompt # m
      BY <2>1 DEF ApartInv, EndsApart
    <3> QED BY <1>0, <3>2, <3>3 DEF ApartInv, EndsApart
  <2> HIDE DEF ends
  <2>3. CASE Execute("end", RowsOf(m), ends, handlers, messages)
    <3>1. RowsOf(m) \subseteq Row /\ \A r \in RowsOf(m) : r.prompt = m
      BY <1>0 DEF RowsOf
    <3>2. Shaped(handlers)
      BY DEF ApartInv
    <3> QED BY <2>1, <2>2, <2>3, <3>1, <3>2, ApartExecute DEF ApartInv
  <2>4. CASE \E t, q : handlers' = handlers \cup
               {[kind |-> "end", task |-> t, row |-> NoRow, todo |-> {}, out |-> q]}
    <3>1. \A h \in handlers' : h \in handlers \/ (h.kind = "end" /\ h.todo = {})
      BY <2>4
    <3> QED BY <2>1, <2>2, <3>1 DEF ApartInv, Shaped, EndsApart
  <2>5. CASE handlers' = handlers
    BY <2>1, <2>2, <2>5 DEF ApartInv
  <2> QED BY <1>4, <2>3, <2>4, <2>5 DEF ProcessTurnEnd, ends
<1>5. ASSUME NEW h \in handlers, Publish(h) \/ StartScanJob(h) PROVE ApartInv'
  <2>1. due' = due /\ spent' = spent
    BY <1>5 DEF Publish, StartScanJob
  <2>2. CASE handlers' = handlers \ {h}
    BY <1>0, <2>1, <2>2, ApartKept
  <2>3. ASSUME NEW kind \in {"end", "scan"}, kind = h.kind, NEW base,
               Execute(kind, h.todo, due, handlers \ {h}, base)
        PROVE  ApartInv'
    <3>1. Shaped(handlers \ {h}) /\ (kind = "scan" => \A r, x \in h.todo : r = x)
      BY <2>3 DEF ApartInv, Shaped
    <3>2. spent["dup"] = 0 =>
            /\ EndsApart(due, handlers \ {h})
            /\ kind = "end" => \A r \in h.todo :
                 /\ due[r.prompt] = 0
                 /\ \A g \in handlers \ {h} : g.kind = "end" =>
                      \A x \in g.todo : r.prompt # x.prompt
      BY <2>3 DEF ApartInv, EndsApart
    <3> QED BY <1>0, <2>1, <2>3, <3>1, <3>2, ApartExecute DEF ApartInv
  <2> QED BY <1>0, <1>5, <2>2, <2>3 DEF Publish, StartScanJob
<1>6. CASE StartupScan
  <2>1. due' = due /\ spent' = spent
    BY <1>6 DEF StartupScan
  <2>2. CASE handlers' = handlers
    BY <1>0, <2>1, <2>2, ApartKept
  <2>3. ASSUME NEW r, handlers' = handlers \cup
                 {[kind |-> "scan", task |-> NoTask, row |-> NoRow,
                   todo |-> {r}, out |-> NoMessage]}
        PROVE  ApartInv'
    BY <2>1, <2>3 DEF ApartInv, Shaped, EndsApart
  <2> QED BY <1>6, <2>2, <2>3 DEF StartupScan
<1>7. CASE Fault
  <2>1. ASSUME NEW m \in Message, KillTurn(m) PROVE ApartInv'
    <3>1. spent'["dup"] = spent["dup"] /\ UNCHANGED <<handlers, due>>
      BY <2>1 DEF KillTurn, Spend, TypeOK, Budget
    <3> QED BY <1>0, <3>1, ApartKept
  <2>2. ASSUME NEW m \in Message, DupResponse(m) PROVE ApartInv'
    <3>1. spent'["dup"] # 0 /\ handlers' = handlers
      BY <2>2 DEF DupResponse, Spend, TypeOK, Budget
    <3> QED BY <3>1 DEF ApartInv
  <2>3. ASSUME NEW h \in handlers, DispatchFails(h) PROVE ApartInv'
    <3>1. spent'["dup"] = spent["dup"] /\ due' = due /\ handlers' = handlers \ {h}
      BY <2>3 DEF DispatchFails, Spend, TypeOK, Budget
    <3> QED BY <1>0, <3>1, ApartKept
  <2>4. ASSUME NEW s \in Staff, RemoveStaff(s) PROVE ApartInv'
    BY <2>4 DEF RemoveStaff, ApartInv
  <2>5. CASE Crash
    <3>1. spent'["dup"] = spent["dup"] /\ handlers' = {} /\ due' = [m \in Message |-> 0]
      BY <2>5 DEF Crash, Spend, TypeOK, Budget
    <3> QED BY <1>0, <3>1, ApartKept
  <2> QED BY <1>7, <2>1, <2>2, <2>3, <2>4, <2>5 DEF Fault
<1>8. CASE UNCHANGED vars
  BY <1>8 DEF vars, ApartInv
<1>9. ASSUME NEW t \in Task, ForeignTask(t) \/ Elsewhere(t) PROVE ApartInv'
  <2>1. spent'["dup"] = spent["dup"] /\ UNCHANGED <<handlers, due>>
    BY <1>9 DEF ForeignTask, Elsewhere, Spend, TypeOK, Budget
  <2> QED BY <1>0, <2>1, ApartKept
<1> QED BY <1>1, <1>2, <1>3, <1>4, <1>5, <1>6, <1>7, <1>8, <1>9 DEF Next

LEMMA ApartInit == Init => ApartInv
BY DEF Init, ApartInv, Shaped, EndsApart

-----------------------------------------------------------------------------
(* What a fault costs: counting *)

\* Set S is finite and has at most n elements.
Light(S, n) == IsFiniteSet(S) /\ Cardinality(S) <= n

LEMMA LightFewer ==
  ASSUME NEW S, NEW n \in Int, NEW k \in Int, n <= k, Light(S, n), NEW T, T \subseteq S
  PROVE  Light(T, k)
BY FS_Subset, FS_CardinalityType DEF Light

LEMMA LightOneMore ==
  ASSUME NEW S, NEW n \in Int, Light(S, n), NEW x, NEW T, T \subseteq S \cup {x}
  PROVE  Light(T, n + 1)
<1>1. IsFiniteSet(S) /\ Cardinality(S) \in Nat
  BY FS_CardinalityType DEF Light
<1>2. IsFiniteSet(S \cup {x}) /\ Cardinality(S \cup {x}) \in {Cardinality(S), Cardinality(S) + 1}
  BY <1>1, FS_AddElement
<1>3. Light(S \cup {x}, n + 1)
  BY <1>1, <1>2 DEF Light
<1> QED BY <1>3, LightFewer

LEMMA LightOneLess ==
  ASSUME NEW S, NEW n \in Int, Light(S, n), NEW x \in S, NEW T, T \subseteq S \ {x}
  PROVE  Light(T, n - 1)
<1>1. IsFiniteSet(S \ {x}) /\ Cardinality(S \ {x}) = Cardinality(S) - 1
  BY FS_RemoveElement DEF Light
<1>2. Light(S \ {x}, n - 1)
  BY <1>1, FS_CardinalityType DEF Light
<1> QED BY <1>2, LightFewer

\* One element goes and another comes.
LEMMA LightExchange ==
  ASSUME NEW S, NEW n \in Int, Light(S, n), NEW x \in S, NEW y, NEW T,
         T \subseteq (S \ {x}) \cup {y}
  PROVE  Light(T, n)
<1>1. Light(S \ {x}, n - 1)
  BY LightOneLess
<1>2. Light(T, (n - 1) + 1)
  BY <1>1, LightOneMore
<1> QED BY <1>2

\* The elements of T come from elements of S.
LEMMA LightImage ==
  ASSUME NEW S, NEW n \in Int, Light(S, n), NEW f, DOMAIN f = S, NEW T,
         \A y \in T : \E x \in S : f[x] = y
  PROVE  Light(T, n)
<1> DEFINE U == {x \in S : f[x] \in T}
           g == [x \in U |-> f[x]]
<1>1. IsFiniteSet(U) /\ Cardinality(U) <= Cardinality(S)
  BY FS_Subset DEF Light
<1>2. g \in Surjection(U, T)
  BY DEF Surjection
<1> HIDE DEF U, g
<1>3. IsFiniteSet(T) /\ Cardinality(T) <= Cardinality(U)
  BY <1>1, <1>2, FS_Surjection
<1>4. Cardinality(S) \in Nat /\ Cardinality(U) \in Nat /\ Cardinality(T) \in Nat
  BY <1>1, <1>3, FS_CardinalityType DEF Light
<1> QED BY <1>1, <1>3, <1>4 DEF Light

-----------------------------------------------------------------------------
(* What a fault costs: the load on the worktree *)

\* Tasks that are worked on, or will be without an answer that is staged yet.
Alone(st, rows) ==
  {t \in Task : \/ st[t] = "working"
                \/ st[t] = "input-required"
                   /\ \A r \in rows : r.kind = "answer" => r.task # t}

\* Answers that will set a task to 'working'.
Answers(rows, coroutines) ==
  {r \in Row : /\ r.kind = "answer"
               /\ r \in rows \/ \E h \in coroutines : h.kind = "end" /\ r \in h.todo}

\* Coroutines that took the lock and will set a task to 'working' or free it.
Jobs(coroutines) == {h \in coroutines : h.kind \in {"first", "scan"}}

\* Startup jobs whose row another coroutine may execute before they do.
Lates(coroutines) == {h \in coroutines : h.kind = "scan" /\ h.out = NoMessage}

Tokens(tasks, rows, jobs, lates) ==
  {<<"task", t>> : t \in tasks} \cup {<<"row", r>> : r \in rows}
    \cup {<<"job", h>> : h \in jobs} \cup {<<"late", h>> : h \in lates}

Load(st, rows, coroutines) ==
  Tokens(Alone(st, rows), Answers(rows, coroutines), Jobs(coroutines), Lates(coroutines))

Cost == spent["fail"] + 2 * spent["crash"] + spent["foreign"] + spent["elsewhere"]

\* The load there may be: a lock that is taken counts for one task, and what a
\* crash costs is due from the startup scan on.
Slack == IF phase = "starting" THEN Cost - 1
         ELSE IF topicLock = Free THEN Cost ELSE Cost + 1

LoadInv == Careful /\ spent["dup"] = 0 => Light(Load(state, staged, handlers), Slack)

LEMMA TokenIn ==
  ASSUME NEW A, NEW B, NEW C, NEW D, NEW x
  PROVE  /\ <<"task", x>> \in Tokens(A, B, C, D) <=> x \in A
         /\ <<"row", x>> \in Tokens(A, B, C, D) <=> x \in B
         /\ <<"job", x>> \in Tokens(A, B, C, D) <=> x \in C
         /\ <<"late", x>> \in Tokens(A, B, C, D) <=> x \in D
BY DEF Tokens

LEMMA TokenOnly ==
  ASSUME NEW A, NEW B, NEW C, NEW D, NEW y \in Tokens(A, B, C, D)
  PROVE  \/ \E x \in A : y = <<"task", x>>
         \/ \E x \in B : y = <<"row", x>>
         \/ \E x \in C : y = <<"job", x>>
         \/ \E x \in D : y = <<"late", x>>
BY DEF Tokens

\* Rows X go, and each leaves its task behind.
LEMMA TokensSwap ==
  ASSUME NEW A, NEW B, NEW C, NEW D, NEW n \in Int, Light(Tokens(A, B, C, D), n),
         NEW X, X \subseteq B,
         NEW E, \A t \in E : t \in A \/ \E r \in X : r.task = t,
         NEW F, F \subseteq B \ X, NEW G, G \subseteq C, NEW H, H \subseteq D
  PROVE  Light(Tokens(E, F, G, H), n)
<1> DEFINE S == Tokens(A, B, C, D)
           rest == [y \in S |-> IF \E r \in X : y = <<"row", r>>
                                THEN <<"task", (CHOOSE r \in X : y = <<"row", r>>).task>>
                                ELSE y]
<1>1. \A r \in X : /\ <<"row", r>> \in S
                   /\ rest[<<"row", r>>] = <<"task", r.task>>
  <2> TAKE r \in X
  <2>1. <<"row", r>> \in S
    BY TokenIn
  <2>2. \A x \in X : <<"row", r>> = <<"row", x>> => x = r
    OBVIOUS
  <2>3. (CHOOSE x \in X : <<"row", r>> = <<"row", x>>) = r
    BY <2>2
  <2> QED BY <2>1, <2>3
<1>2. \A y \in S : (\A r \in X : y # <<"row", r>>) => rest[y] = y
  OBVIOUS
<1>3. DOMAIN rest = S
  OBVIOUS
<1> HIDE DEF rest
<1>4. ASSUME NEW y \in Tokens(E, F, G, H) PROVE \E x \in S : rest[x] = y
  <2>1. CASE \E t \in E : y = <<"task", t>>
    <3>1. PICK t \in E : y = <<"task", t>>
      BY <2>1
    <3>2. CASE t \in A
      <4>1. y \in S
        BY <3>1, <3>2, TokenIn
      <4>2. \A r \in X : y # <<"row", r>>
        BY <3>1
      <4> QED BY <1>2, <4>1, <4>2
    <3>3. CASE \E r \in X : r.task = t
      BY <1>1, <3>1, <3>3
    <3> QED BY <3>2, <3>3
  <2>2. CASE \E r \in F : y = <<"row", r>>
    <3>1. PICK r \in F : y = <<"row", r>>
      BY <2>2
    <3>2. y \in S
      BY <3>1, TokenIn
    <3>3. \A x \in X : y # <<"row", x>>
      BY <3>1
    <3> QED BY <1>2, <3>2, <3>3
  <2>3. CASE (\E h \in G : y = <<"job", h>>) \/ (\E h \in H : y = <<"late", h>>)
    <3>1. y \in S
      BY <2>3, TokenIn
    <3>2. \A x \in X : y # <<"row", x>>
      BY <2>3
    <3> QED BY <1>2, <3>1, <3>2
  <2> QED BY <2>1, <2>2, <2>3, TokenOnly
<1> HIDE DEF S
<1>5. Light(S, n)
  BY DEF S
<1> QED BY <1>3, <1>4, <1>5, LightImage

\* Nothing joins the load but tokens E (tasks), F (rows), G (jobs), H (late jobs).
LEMMA TokensGrow ==
  ASSUME NEW A, NEW B, NEW C, NEW D, NEW E, NEW F, NEW G, NEW H,
         NEW P, NEW Q, NEW U, NEW V,
         P \subseteq A \cup E, Q \subseteq B \cup F, U \subseteq C \cup G, V \subseteq D \cup H
  PROVE  Tokens(P, Q, U, V) \subseteq Tokens(A, B, C, D) \cup Tokens(E, F, G, H)
BY DEF Tokens

LEMMA TokensOne ==
  ASSUME NEW x
  PROVE  /\ Tokens({}, {}, {}, {}) = {}
         /\ Tokens({x}, {}, {}, {}) = {<<"task", x>>}
         /\ Tokens({}, {x}, {}, {}) = {<<"row", x>>}
         /\ Tokens({}, {}, {x}, {}) = {<<"job", x>>}
         /\ Tokens({}, {}, {}, {x}) = {<<"late", x>>}
BY DEF Tokens

LEMMA SlackInt == TypeOK => Cost \in Nat /\ Slack \in Int
BY DEF TypeOK, Budget, Cost, Slack

\* The loop of a turn end: each answer it executes or drops leaves its task behind.
LEMMA LoadTurnEnd ==
  ASSUME TypeOK, NEW todo, todo \subseteq Row, NEW ends, NEW base,
         NEW others, others \subseteq handlers,
         \A r \in todo : r \in staged \/ \E h \in handlers : h.kind = "end" /\ r \in h.todo,
         \A h \in others : h.kind = "end" => \A r \in todo : r \notin h.todo,
         NEW n \in Int, Light(Load(state, staged, handlers), n),
         Execute("end", todo, ends, others, base)
  PROVE  Light(Load(state', staged', handlers'), n) /\ topicLock' = topicLock
<1>0. /\ state \in [Task -> TaskState]
      /\ \A r \in todo : r.task \in Task
      /\ topicLock' = topicLock
  BY DEF TypeOK, Row, Execute
<1>1. ASSUME NEW X, X \subseteq Answers(staged, handlers),
             \A t \in Alone(state', staged') :
               t \in Alone(state, staged) \/ \E r \in X : r.task = t,
             Answers(staged', handlers') \subseteq Answers(staged, handlers) \ X,
             Jobs(handlers') \subseteq Jobs(handlers),
             Lates(handlers') \subseteq Lates(handlers)
      PROVE  Light(Load(state', staged', handlers'), n)
  BY <1>1, TokensSwap DEF Load
<1>2. CASE Exhausts(todo, ends, others, base)
  <2> DEFINE X == {r \in todo : r.kind = "answer"}
  <2>1. staged' = staged \ todo /\ handlers' = others /\ state' = state
    BY <1>2 DEF Exhausts
  <2>2. X \subseteq Answers(staged, handlers)
    BY DEF Answers
  <2>3. \A t \in Alone(state', staged') :
          t \in Alone(state, staged) \/ \E r \in X : r.task = t
    BY <2>1 DEF Alone
  <2>4. Answers(staged', handlers') \subseteq Answers(staged, handlers) \ X
    BY <2>1 DEF Answers
  <2>5. Jobs(handlers') \subseteq Jobs(handlers) /\ Lates(handlers') \subseteq Lates(handlers)
    BY <2>1 DEF Jobs, Lates
  <2> HIDE DEF X
  <2> QED BY <1>0, <1>1, <2>2, <2>3, <2>4, <2>5
<1>3. ASSUME NEW r \in todo, NEW q \in Message, NEW g, NEW skipped,
             Suspends("end", todo, ends, others, base, r, q, g, skipped)
      PROVE  Light(Load(state', staged', handlers'), n)
  <2> DEFINE gone == skipped \cup {r}
             X == {x \in gone : x.kind = "answer"}
  <2>1. /\ gone \subseteq todo
        /\ staged' = staged \ gone
        /\ handlers' = others \cup {g}
        /\ g.kind = "end" /\ g.todo \subseteq todo \ gone
        /\ state' = IF r.kind = "answer" THEN [state EXCEPT ![r.task] = "working"] ELSE state
    BY <1>3 DEF Suspends
  <2>2. X \subseteq Answers(staged, handlers)
    BY <2>1 DEF Answers
  <2>3. ASSUME NEW t \in Alone(state', staged')
        PROVE  t \in Alone(state, staged) \/ \E x \in X : x.task = t
    <3>1. state'[t] = state[t] \/ (r.kind = "answer" /\ t = r.task)
      BY <1>0, <2>1 DEF Alone
    <3> QED BY <2>1, <2>3, <3>1 DEF Alone
  <2>4. Answers(staged', handlers') \subseteq Answers(staged, handlers) \ X
    BY <2>1 DEF Answers
  <2>5. Jobs(handlers') \subseteq Jobs(handlers) /\ Lates(handlers') \subseteq Lates(handlers)
    BY <2>1 DEF Jobs, Lates
  <2> QED BY <1>1, <2>2, <2>3, <2>4, <2>5
<1>4. \/ Exhausts(todo, ends, others, base)
      \/ \E r \in todo, q \in Message : \E g, skipped :
           Suspends("end", todo, ends, others, base, r, q, g, skipped)
  BY ExecuteCases
<1> QED BY <1>0, <1>2, <1>3, <1>4

\* The startup job: it counts twice until it starts, because its row may be
\* executed by a turn end too, and once until it frees the lock.
LEMMA LoadStartupJob ==
  ASSUME TypeOK, Shaped(handlers), NEW h \in handlers, h.kind = "scan", NEW ends, NEW base,
         NEW n \in Int, Light(Load(state, staged, handlers), n),
         Execute("scan", h.todo, ends, handlers \ {h}, base)
  PROVE  \/ Light(Load(state', staged', handlers'), n - 1)
         \/ Light(Load(state', staged', handlers'), n) /\ topicLock' = topicLock
<1> DEFINE S == Load(state, staged, handlers)
           T == Load(state', staged', handlers')
<1>0. /\ state \in [Task -> TaskState]
      /\ \A r \in h.todo : r \in Row /\ r.task \in Task
      /\ \A r, x \in h.todo : r = x
      /\ <<"job", h>> \in S
      /\ h.out = NoMessage => <<"late", h>> \in S \ {<<"job", h>>}
      /\ h.out # NoMessage => h.todo = {}
  <2>1. h \in Jobs(handlers) /\ (h.out = NoMessage => h \in Lates(handlers))
    BY DEF Jobs, Lates
  <2>2. <<"job", h>> # <<"late", h>>
    OBVIOUS
  <2>3. <<"job", h>> \in S /\ (h.out = NoMessage => <<"late", h>> \in S \ {<<"job", h>>})
    BY <2>1, <2>2, TokenIn DEF Load
  <2> QED BY <2>3 DEF TypeOK, Handler, Row, Shaped
<1>1. ASSUME NEW E, Alone(state', staged') \subseteq Alone(state, staged) \cup E,
             Answers(staged', handlers') \subseteq Answers(staged, handlers),
             NEW G, Jobs(handlers') \subseteq Jobs(handlers) \cup G,
             h \notin Jobs(handlers'),
             Lates(handlers') \subseteq Lates(handlers)
      PROVE  T \subseteq (S \ {<<"job", h>>, <<"late", h>>}) \cup Tokens(E, {}, G, {})
  <2>1. h \notin Lates(handlers')
    BY <1>1 DEF Jobs, Lates
  <2>2. T \subseteq S \cup Tokens(E, {}, G, {})
    BY <1>1, TokensGrow DEF Load
  <2>3. <<"job", h>> \notin T /\ <<"late", h>> \notin T
    BY <1>1, <2>1, TokenIn DEF Load
  <2> QED BY <2>2, <2>3
<1>2. CASE Exhausts(h.todo, ends, handlers \ {h}, base)
  <2>1. staged' = staged \ h.todo /\ handlers' = handlers \ {h} /\ state' = state
    BY <1>2 DEF Exhausts
  <2>2. /\ Answers(staged', handlers') \subseteq Answers(staged, handlers)
        /\ Jobs(handlers') \subseteq Jobs(handlers) \cup {}
        /\ h \notin Jobs(handlers')
        /\ Lates(handlers') \subseteq Lates(handlers)
    BY <2>1 DEF Answers, Jobs, Lates
  <2>3. CASE h.todo = {}
    <3>1. Alone(state', staged') \subseteq Alone(state, staged) \cup {}
      BY <2>1, <2>3 DEF Alone
    <3>2. T \subseteq S \ {<<"job", h>>}
      BY <1>1, <2>2, <3>1, TokensOne
    <3> HIDE DEF S, T
    <3>3. Light(T, n - 1)
      BY <1>0, <3>2, LightOneLess DEF S
    <3> QED BY <3>3 DEF T
  <2>4. ASSUME NEW r \in h.todo PROVE Light(T, n - 1)
    <3>1. h.todo = {r} /\ h.out = NoMessage
      BY <1>0
    <3>2. Alone(state', staged') \subseteq Alone(state, staged) \cup {r.task}
      BY <2>1, <3>1 DEF Alone
    <3>3. T \subseteq ((S \ {<<"job", h>>}) \ {<<"late", h>>}) \cup {<<"task", r.task>>}
      BY <1>1, <2>2, <3>2, TokensOne
    <3> HIDE DEF S, T
    <3>4. Light(S \ {<<"job", h>>}, n - 1)
      BY <1>0, LightOneLess DEF S
    <3>5. n - 1 \in Int /\ <<"late", h>> \in S \ {<<"job", h>>}
      BY <1>0, <3>1
    <3> DEFINE R == S \ {<<"job", h>>}
    <3>6. /\ Light(R, n - 1) /\ <<"late", h>> \in R
          /\ T \subseteq (R \ {<<"late", h>>}) \cup {<<"task", r.task>>}
      BY <3>3, <3>4, <3>5
    <3> HIDE DEF R
    <3> QED BY <3>5, <3>6, LightExchange
  <2> QED BY <2>3, <2>4
<1>3. ASSUME NEW r \in h.todo, NEW q \in Message, NEW g, NEW skipped,
             Suspends("scan", h.todo, ends, handlers \ {h}, base, r, q, g, skipped)
      PROVE  Light(T, n) /\ topicLock' = topicLock
  <2>1. /\ h.todo = {r} /\ h.out = NoMessage
        /\ staged \ {r} \subseteq staged'
        /\ staged' \subseteq staged
        /\ handlers' = (handlers \ {h}) \cup {g}
        /\ g.kind = "scan" /\ g.out = q /\ q # NoMessage
        /\ state' = IF r.kind = "answer" THEN [state EXCEPT ![r.task] = "working"] ELSE state
        /\ topicLock' = topicLock
    BY <1>0, <1>3, NoPromptNoMessage DEF Suspends
  <2>2. Alone(state', staged') \subseteq Alone(state, staged) \cup {r.task}
    <3> SUFFICES ASSUME NEW t \in Alone(state', staged'), t # r.task
                 PROVE  t \in Alone(state, staged)
      OBVIOUS
    <3>1. state'[t] = state[t]
      BY <1>0, <2>1 DEF Alone
    <3> QED BY <2>1, <3>1 DEF Alone
  <2>3. /\ Answers(staged', handlers') \subseteq Answers(staged, handlers)
        /\ Jobs(handlers') \subseteq Jobs(handlers) \cup {g}
        /\ h \notin Jobs(handlers')
        /\ Lates(handlers') \subseteq Lates(handlers)
    BY <2>1 DEF Answers, Jobs, Lates
  <2>4. T \subseteq (S \ {<<"job", h>>, <<"late", h>>}) \cup Tokens({r.task}, {}, {g}, {})
    BY <1>1, <2>2, <2>3
  <2>5. Tokens({r.task}, {}, {g}, {}) = {<<"task", r.task>>, <<"job", g>>}
    BY DEF Tokens
  <2> HIDE DEF S, T
  <2> DEFINE R == (S \ {<<"job", h>>}) \cup {<<"job", g>>}
  <2>6. Light(R, n)
    BY <1>0, LightExchange DEF S
  <2>7. <<"late", h>> \in R
    BY <1>0, <2>1
  <2>8. T \subseteq (R \ {<<"late", h>>}) \cup {<<"task", r.task>>}
    <3>1. <<"job", g>> # <<"late", h>>
      OBVIOUS
    <3> QED BY <2>4, <2>5, <3>1
  <2> HIDE DEF R
  <2>9. Light(T, n)
    BY <2>6, <2>7, <2>8, LightExchange
  <2> QED BY <2>1, <2>9
<1>4. \/ Exhausts(h.todo, ends, handlers \ {h}, base)
      \/ \E r \in h.todo, q \in Message : \E g, skipped :
           Suspends("scan", h.todo, ends, handlers \ {h}, base, r, q, g, skipped)
  BY <1>0, ExecuteCases
<1> QED BY <1>2, <1>3, <1>4

Loaded == Light(Load(state, staged, handlers), Slack)

LEMMA LoadKept ==
  ASSUME TypeOK, TypeOK', Loaded, Slack <= Slack',
         Alone(state', staged') \subseteq Alone(state, staged),
         Answers(staged', handlers') \subseteq Answers(staged, handlers),
         Jobs(handlers') \subseteq Jobs(handlers),
         Lates(handlers') \subseteq Lates(handlers)
  PROVE  Loaded'
<1>1. Load(state', staged', handlers') \subseteq Load(state, staged, handlers)
  BY DEF Load, Tokens
<1>2. Slack \in Int /\ Slack' \in Int
  BY SlackInt DEF TypeOK, Budget, Cost, Slack
<1> QED BY <1>1, <1>2, LightFewer DEF Loaded

\* A coroutine of another kind changes none of the counted sets.
LEMMA OtherCoroutine ==
  ASSUME NEW rows, NEW coroutines, NEW g, g.kind \notin {"first", "scan"}, g.todo = {}
  PROVE  /\ Answers(rows, coroutines \cup {g}) = Answers(rows, coroutines)
         /\ Jobs(coroutines \cup {g}) = Jobs(coroutines)
         /\ Lates(coroutines \cup {g}) = Lates(coroutines)
BY DEF Answers, Jobs, Lates

LEMMA LoadDelegate ==
  ASSUME TypeOK, TypeOK', Loaded, NEW m \in Message, NEW s \in Staff, DelegateTask(m, s)
  PROVE  Loaded'
<1>1. /\ phase = "up" /\ phase' = phase /\ staged' = staged /\ spent' = spent
  BY DEF DelegateTask, ToolCall
<1>2. Alone(state', staged') \subseteq Alone(state, staged)
  <2>1. PICK t \in Task : state' = [state EXCEPT ![t] = "submitted"]
    BY DEF DelegateTask
  <2>2. \A u \in Task : state'[u] = state[u] \/ state'[u] = "submitted"
    BY <2>1 DEF TypeOK
  <2> QED BY <1>1, <2>2 DEF Alone
<1>3. CASE UNCHANGED <<topicLock, handlers>>
  <2>1. Slack <= Slack'
    BY <1>1, <1>3, SlackInt DEF Slack, Cost
  <2> QED BY <1>1, <1>2, <1>3, <2>1, LoadKept
<1>4. ASSUME NEW t \in Task, NEW q, topicLock = Free, topicLock' = t,
             handlers' = handlers \cup
               {[kind |-> "first", task |-> t, row |-> NoRow, todo |-> {}, out |-> q]}
      PROVE  Loaded'
  <2> DEFINE g == [kind |-> "first", task |-> t, row |-> NoRow, todo |-> {}, out |-> q]
  <2>1. /\ handlers' = handlers \cup {g}
        /\ g.kind = "first" /\ g.todo = {}
    BY <1>4
  <2> HIDE DEF g
  <2>2. /\ Answers(staged', handlers') \subseteq Answers(staged, handlers) \cup {}
        /\ Jobs(handlers') \subseteq Jobs(handlers) \cup {g}
        /\ Lates(handlers') \subseteq Lates(handlers) \cup {}
    BY <1>1, <2>1 DEF Answers, Jobs, Lates
  <2>3. Alone(state', staged') \subseteq Alone(state, staged) \cup {}
    BY <1>2
  <2>4. Load(state', staged', handlers')
          \subseteq Load(state, staged, handlers) \cup {<<"job", g>>}
    <3>1. Load(state', staged', handlers')
            \subseteq Load(state, staged, handlers) \cup Tokens({}, {}, {g}, {})
      BY <2>2, <2>3, TokensGrow DEF Load
    <3> QED BY <3>1, TokensOne
  <2>5. Slack' = Slack + 1 /\ Slack \in Int
    BY <1>1, <1>4, SlackInt, LockValues DEF Slack, Cost
  <2>6. Light(Load(state', staged', handlers'), Slack + 1)
    BY <2>4, <2>5, LightOneMore DEF Loaded
  <2> QED BY <2>5, <2>6 DEF Loaded
<1> QED BY <1>3, <1>4 DEF DelegateTask, Available

LEMMA LoadAsk ==
  ASSUME TypeOK, TypeOK', Loaded, NEW m \in Message, AskSender(m)
  PROVE  Loaded'
<1> DEFINE t == messages[m].task
<1>1. /\ state[t] \in {"working", "input-required"}
      /\ state' = [state EXCEPT ![t] = "input-required"]
      /\ UNCHANGED <<topicLock, handlers, phase>>
      /\ Cost' = Cost
  BY DEF Cost, AskSender, Legal, Transitions, Spend, TypeOK, Budget
<1>2. \E row : staged' = staged \cup {row} /\ row.kind = "question"
  BY RowStaged DEF AskSender
<1>3. Alone(state', staged') \subseteq Alone(state, staged)
  <2>1. \A u \in Task : state'[u] = state[u] \/ (u = t /\ state'[u] = "input-required")
    BY <1>1 DEF TypeOK
  <2> HIDE DEF t
  <2> QED BY <1>1, <1>2, <2>1 DEF Alone
<1>4. Answers(staged', handlers') \subseteq Answers(staged, handlers)
  BY <1>1, <1>2 DEF Answers
<1>5. Slack <= Slack'
  BY <1>1, SlackInt DEF Slack, Cost
<1> QED BY <1>1, <1>3, <1>4, <1>5, LoadKept

LEMMA LoadSubmit ==
  ASSUME TypeOK, TypeOK', Loaded, NEW m \in Message, SubmitResult(m)
  PROVE  Loaded'
<1>1. UNCHANGED <<state, topicLock, handlers, phase, spent>>
  BY DEF SubmitResult
<1>2. PICK row :
        /\ staged' = {r \in staged : ~(r.prompt = m /\ r.kind = "result_ready")} \cup {row}
        /\ row.kind = "result_ready"
  BY RowStaged DEF SubmitResult
<1>3. \A r : r.kind = "answer" => (r \in staged' <=> r \in staged)
  BY <1>2
<1>4. Alone(state', staged') \subseteq Alone(state, staged)
  BY <1>1, <1>3 DEF Alone
<1>5. Answers(staged', handlers') \subseteq Answers(staged, handlers)
  BY <1>1, <1>3 DEF Answers
<1>6. Slack <= Slack'
  BY <1>1, SlackInt DEF Slack, Cost
<1> QED BY <1>1, <1>4, <1>5, <1>6, LoadKept

LEMMA LoadAnswer ==
  ASSUME TypeOK, TypeOK', Careful, Loaded, NEW m \in Message, NEW t \in Task,
         AnswerQuestion(m, t)
  PROVE  Loaded'
<1>1. /\ UNCHANGED <<state, topicLock, handlers, phase, spent>>
      /\ state[t] = "input-required"
      /\ \A r \in staged : ~(r.kind = "answer" /\ r.task = t)
  BY DEF AnswerQuestion, Waiting
<1>2. PICK row : staged' = staged \cup {row} /\ row.kind = "answer" /\ row.task = t
  BY RowStaged DEF AnswerQuestion
<1>3. /\ t \in Alone(state, staged)
      /\ t \notin Alone(state', staged')
      /\ Alone(state', staged') \subseteq Alone(state, staged) \cup {}
  BY <1>1, <1>2 DEF Alone
<1>4. /\ Answers(staged', handlers') \subseteq Answers(staged, handlers) \cup {row}
      /\ Jobs(handlers') \subseteq Jobs(handlers) \cup {}
      /\ Lates(handlers') \subseteq Lates(handlers) \cup {}
  BY <1>1, <1>2 DEF Answers
<1> DEFINE S == Load(state, staged, handlers)
           T == Load(state', staged', handlers')
<1>5. T \subseteq S \cup {<<"row", row>>}
  <2>1. T \subseteq S \cup Tokens({}, {row}, {}, {})
    BY <1>3, <1>4, TokensGrow DEF Load
  <2> QED BY <2>1, TokensOne
<1>6. <<"task", t>> \in S /\ <<"task", t>> \notin T
  BY <1>3, TokenIn DEF Load
<1>7. Slack' = Slack /\ Slack \in Int
  BY <1>1, SlackInt DEF Slack, Cost
<1>8. Light(S, Slack)
  BY DEF Loaded
<1> HIDE DEF S, T
<1>9. T \subseteq (S \ {<<"task", t>>}) \cup {<<"row", row>>}
  BY <1>5, <1>6
<1>10. Light(T, Slack)
  BY <1>6, <1>7, <1>8, <1>9, LightExchange
<1> QED BY <1>7, <1>10 DEF Loaded, T

LEMMA LoadAccept ==
  ASSUME TypeOK, TypeOK', Loaded, NEW m \in Message, NEW t \in Task, AcceptResult(m, t)
  PROVE  Loaded'
<1> DEFINE S == Load(state, staged, handlers)
           T == Load(state', staged', handlers')
<1>1. /\ UNCHANGED <<staged, phase, spent>> /\ phase = "up"
      /\ state[t] = "working"
  BY DEF AcceptResult, ToolCall, Legal, Transitions
<1>2. t \in Alone(state, staged)
  BY <1>1 DEF Alone
<1>3. /\ <<"task", t>> \in S
      /\ Light(S, Slack) /\ Slack \in Int /\ Cost \in Nat
      /\ Slack \in {Cost, Cost + 1}
      /\ Slack' = IF topicLock' = Free THEN Cost ELSE Cost + 1
  BY <1>1, <1>2, TokenIn, SlackInt DEF Load, Loaded, Slack, Cost
<1>4. CASE /\ state' = [state EXCEPT ![t] = "completed"]
           /\ topicLock' = Free
           /\ handlers' = handlers
  <2>1. /\ t \notin Alone(state', staged')
        /\ Alone(state', staged') \subseteq Alone(state, staged)
    BY <1>1, <1>4 DEF Alone, TypeOK
  <2>2. T \subseteq S
    BY <1>1, <1>4, <2>1 DEF Load, Tokens
  <2>3. <<"task", t>> \notin T
    BY <2>1, TokenIn DEF Load
  <2> HIDE DEF S, T
  <2>4. Light(T, Slack - 1)
    BY <1>3, <2>2, <2>3, LightOneLess
  <2>5. Slack - 1 <= Slack' /\ Slack - 1 \in Int /\ Slack' \in Int
    BY <1>3, <1>4
  <2>6. Light(T, Slack')
    BY <2>4, <2>5, LightFewer
  <2> QED BY <2>6 DEF Loaded, T
<1>5. ASSUME NEW u \in NextQueued, NEW q,
             state' = [state EXCEPT ![t] = "completed", ![u] = "working"],
             topicLock' = u,
             handlers' = handlers \cup
               {[kind |-> "next", task |-> u, row |-> NoRow, todo |-> {}, out |-> q]}
      PROVE  Loaded'
  <2> DEFINE g == [kind |-> "next", task |-> u, row |-> NoRow, todo |-> {}, out |-> q]
  <2>1. /\ u \in Task /\ u # t /\ topicLock' # Free
    BY <1>1, <1>5, LockValues DEF NextQueued
  <2>2. g.kind = "next" /\ g.todo = {} /\ handlers' = handlers \cup {g}
    BY <1>5
  <2> HIDE DEF g
  <2>3. /\ t \notin Alone(state', staged')
        /\ Alone(state', staged') \subseteq Alone(state, staged) \cup {u}
    <3>1. /\ state'[t] = "completed"
          /\ \A v \in Task : v \notin {t, u} => state'[v] = state[v]
      BY <1>5, <2>1 DEF TypeOK
    <3> QED BY <1>1, <3>1 DEF Alone
  <2>4. /\ Answers(staged', handlers') = Answers(staged, handlers)
        /\ Jobs(handlers') = Jobs(handlers)
        /\ Lates(handlers') = Lates(handlers)
    BY <1>1, <2>2, OtherCoroutine
  <2>5. T \subseteq S \cup {<<"task", u>>}
    <3>1. T \subseteq S \cup Tokens({u}, {}, {}, {})
      BY <2>3, <2>4, TokensGrow DEF Load
    <3> QED BY <3>1, TokensOne
  <2>6. <<"task", t>> \notin T
    BY <2>3, TokenIn DEF Load
  <2> HIDE DEF S, T
  <2>7. Light(T, Slack)
    <3>1. T \subseteq (S \ {<<"task", t>>}) \cup {<<"task", u>>}
      BY <2>5, <2>6
    <3> QED BY <1>3, <3>1, LightExchange
  <2>8. Slack <= Slack' /\ Slack' \in Int
    BY <1>3, <2>1
  <2>9. Light(T, Slack')
    BY <1>3, <2>7, <2>8, LightFewer
  <2> QED BY <2>9 DEF Loaded, T
<1> QED BY <1>4, <1>5 DEF AcceptResult

LEMMA LoadTurn ==
  ASSUME TypeOK, TypeOK', ApartInv, spent["dup"] = 0, Loaded,
         NEW m \in Message, ProcessTurnEnd(m)
  PROVE  Loaded'
<1> DEFINE ends == [due EXCEPT ![m] = @ - 1]
<1>1. /\ UNCHANGED <<phase, spent>> /\ Slack \in Int
      /\ due[m] > 0
  BY SlackInt DEF ProcessTurnEnd
<1>2. CASE Execute("end", RowsOf(m), ends, handlers, messages)
  <2> HIDE DEF ends
  <2>1. /\ RowsOf(m) \subseteq Row
        /\ \A r \in RowsOf(m) : r \in staged /\ r.prompt = m
    BY DEF RowsOf, TypeOK
  <2>2. \A h \in handlers : h.kind = "end" => \A r \in RowsOf(m) : r \notin h.todo
    BY <1>1, <2>1 DEF ApartInv, EndsApart
  <2>3. Light(Load(state', staged', handlers'), Slack) /\ topicLock' = topicLock
    BY <1>1, <1>2, <2>1, <2>2, LoadTurnEnd DEF Loaded
  <2>4. Slack' = Slack
    BY <1>1, <2>3 DEF Slack, Cost
  <2> QED BY <2>3, <2>4 DEF Loaded
<1>3. ASSUME NEW t, NEW q,
             handlers' = handlers \cup
               {[kind |-> "end", task |-> t, row |-> NoRow, todo |-> {}, out |-> q]},
             UNCHANGED <<state, topicLock, staged>>
      PROVE  Loaded'
  <2> DEFINE g == [kind |-> "end", task |-> t, row |-> NoRow, todo |-> {}, out |-> q]
  <2>1. g.kind = "end" /\ g.todo = {} /\ handlers' = handlers \cup {g}
    BY <1>3
  <2> HIDE DEF g
  <2>2. Load(state', staged', handlers') = Load(state, staged, handlers)
    BY <1>3, <2>1, OtherCoroutine DEF Load
  <2>3. Slack' = Slack
    BY <1>1, <1>3 DEF Slack, Cost
  <2> QED BY <2>2, <2>3 DEF Loaded
<1>4. CASE UNCHANGED <<state, topicLock, staged, handlers>>
  BY <1>1, <1>4 DEF Loaded, Slack, Cost
<1> QED BY <1>2, <1>3, <1>4 DEF ProcessTurnEnd

LEMMA LoadHandler ==
  ASSUME TypeOK, TypeOK', ApartInv, spent["dup"] = 0, Loaded,
         NEW h \in handlers, Publish(h) \/ StartScanJob(h)
  PROVE  Loaded'
<1> DEFINE S == Load(state, staged, handlers)
           T == Load(state', staged', handlers')
<1>1. /\ UNCHANGED <<phase, spent>> /\ Slack \in Int /\ Light(S, Slack)
      /\ Slack' \in Int /\ Cost' = Cost /\ Cost \in Nat
      /\ h.todo \subseteq Row /\ h.kind \in {"first", "next", "end", "scan"}
  BY SlackInt DEF Publish, StartScanJob, Slack, Cost, TypeOK, Handler, Loaded
<1>2. CASE Publish(h) /\ h.kind = "next"
  <2>1. UNCHANGED <<state, topicLock, staged>> /\ handlers' = handlers \ {h}
    BY <1>2 DEF Publish
  <2>2. T \subseteq S
    BY <2>1 DEF Load, Tokens, Alone, Answers, Jobs, Lates
  <2>3. Slack' = Slack
    BY <1>1, <2>1 DEF Slack, Cost
  <2> QED BY <1>1, <2>2, <2>3, LightFewer DEF Loaded
<1>3. CASE Publish(h) /\ h.kind = "first"
  <2>1. /\ state' = [state EXCEPT ![h.task] = "working"]
        /\ UNCHANGED <<topicLock, staged>> /\ handlers' = handlers \ {h}
    BY <1>3 DEF Publish
  <2>2. Alone(state', staged') \subseteq Alone(state, staged) \cup {h.task}
    <3>1. \A t \in Task : t # h.task => state'[t] = state[t]
      BY <2>1 DEF TypeOK
    <3> QED BY <2>1, <3>1 DEF Alone
  <2>3. /\ Answers(staged', handlers') \subseteq Answers(staged, handlers) \cup {}
        /\ Jobs(handlers') \subseteq Jobs(handlers) \cup {}
        /\ Lates(handlers') \subseteq Lates(handlers) \cup {}
        /\ h \in Jobs(handlers) /\ h \notin Jobs(handlers')
    BY <1>3, <2>1 DEF Answers, Jobs, Lates
  <2>4. T \subseteq S \cup {<<"task", h.task>>}
    <3>1. T \subseteq S \cup Tokens({h.task}, {}, {}, {})
      BY <2>2, <2>3, TokensGrow DEF Load
    <3> QED BY <3>1, TokensOne
  <2>5. <<"job", h>> \in S /\ <<"job", h>> \notin T
    BY <2>3, TokenIn DEF Load
  <2>6. T \subseteq (S \ {<<"job", h>>}) \cup {<<"task", h.task>>}
    BY <2>4, <2>5
  <2>7. Slack' = Slack
    BY <1>1, <2>1 DEF Slack, Cost
  <2> HIDE DEF S, T
  <2>8. Light(T, Slack)
    BY <1>1, <2>5, <2>6, LightExchange
  <2> QED BY <2>7, <2>8 DEF Loaded, T
<1>4. CASE Publish(h) /\ h.kind = "end"
  <2>1. Execute("end", h.todo, due, handlers \ {h}, Published(h.out))
    BY <1>4 DEF Publish
  <2>2. \A g \in handlers \ {h} : g.kind = "end" => \A r \in h.todo : r \notin g.todo
    BY <1>4 DEF ApartInv, EndsApart
  <2>3. Light(T, Slack) /\ topicLock' = topicLock
    BY <1>1, <1>4, <2>1, <2>2, LoadTurnEnd
  <2>4. Slack' = Slack
    BY <1>1, <2>3 DEF Slack, Cost
  <2> QED BY <2>3, <2>4 DEF Loaded
<1>5. CASE h.kind = "scan"
  <2>1. \E base : Execute("scan", h.todo, due, handlers \ {h}, base)
    BY <1>1, <1>5 DEF Publish, StartScanJob
  <2>2. \/ Light(T, Slack - 1)
        \/ Light(T, Slack) /\ topicLock' = topicLock
    BY <1>1, <1>5, <2>1, LoadStartupJob DEF ApartInv
  <2>3. Slack - 1 <= Slack' /\ (topicLock' = topicLock => Slack' = Slack)
    BY <1>1 DEF Slack
  <2> HIDE DEF S, T
  <2>4. Light(T, Slack')
    BY <1>1, <2>2, <2>3, LightFewer
  <2> QED BY <2>4 DEF Loaded, T
<1>6. StartScanJob(h) => h.kind = "scan"
  BY DEF StartScanJob
<1> QED BY <1>1, <1>2, <1>3, <1>4, <1>5, <1>6

LEMMA LoadStartupScan ==
  ASSUME TypeOK, TypeOK', Loaded, StartupScan
  PROVE  Loaded'
<1> DEFINE S == Load(state, staged, handlers)
           T == Load(state', staged', handlers')
<1>1. /\ UNCHANGED <<state, staged, spent>>
      /\ phase = "starting" /\ phase' = "up"
      /\ Cost' = Cost /\ Cost \in Nat
      /\ Slack = Cost - 1
      /\ Slack' = IF topicLock' = Free THEN Cost ELSE Cost + 1
      /\ Light(S, Slack)
  BY SlackInt DEF StartupScan, Slack, Cost, Loaded
<1>2. CASE handlers' = handlers
  <2>1. Light(T, Slack)
    BY <1>1, <1>2
  <2> HIDE DEF S, T
  <2>2. Light(T, Slack')
    BY <1>1, <2>1, LightFewer
  <2> QED BY <2>2 DEF Loaded, T
<1>3. ASSUME NEW g, g.kind = "scan", handlers' = handlers \cup {g}, topicLock' = Scan
      PROVE  Loaded'
  <2>1. /\ Answers(staged', handlers') \subseteq Answers(staged, handlers) \cup {}
        /\ Jobs(handlers') \subseteq Jobs(handlers) \cup {g}
        /\ Lates(handlers') \subseteq Lates(handlers) \cup {g}
        /\ Alone(state', staged') \subseteq Alone(state, staged) \cup {}
    BY <1>1, <1>3 DEF Answers, Jobs, Lates
  <2>2. T \subseteq S \cup Tokens({}, {}, {g}, {g})
    BY <2>1, TokensGrow DEF Load
  <2> DEFINE R == S \cup {<<"job", g>>}
  <2>3. T \subseteq R \cup {<<"late", g>>}
    BY <2>2 DEF Tokens
  <2> HIDE DEF S, T
  <2>4. R \subseteq S \cup {<<"job", g>>} /\ Slack \in Int
    BY <1>1
  <2> HIDE DEF R
  <2>5. Light(R, Slack + 1)
    BY <1>1, <2>4, LightOneMore
  <2>6. Light(R, Cost) /\ Cost \in Int
    BY <1>1, <2>5
  <2>7. Light(T, Cost + 1)
    BY <2>3, <2>6, LightOneMore
  <2>8. Slack' = Cost + 1
    BY <1>1, <1>3, LockValues
  <2> QED BY <2>7, <2>8 DEF Loaded, T
<1>4. \/ handlers' = handlers
      \/ topicLock' = Scan /\ \E r : handlers' = handlers \cup
           {[kind |-> "scan", task |-> NoTask, row |-> NoRow, todo |-> {r}, out |-> NoMessage]}
  BY DEF StartupScan
<1>5. ASSUME NEW r, topicLock' = Scan,
             handlers' = handlers \cup
               {[kind |-> "scan", task |-> NoTask, row |-> NoRow, todo |-> {r}, out |-> NoMessage]}
      PROVE  Loaded'
  <2> DEFINE g == [kind |-> "scan", task |-> NoTask, row |-> NoRow, todo |-> {r},
                   out |-> NoMessage]
  <2>1. g.kind = "scan" /\ handlers' = handlers \cup {g}
    BY <1>5
  <2> HIDE DEF g
  <2> QED BY <1>3, <1>5, <2>1
<1> QED BY <1>2, <1>4, <1>5

\* Answers that turns which die take with them leave their tasks behind.
LEMMA LoadAbandon ==
  ASSUME TypeOK, NEW base, NEW turns, NEW ends, NEW coroutines,
         Abandon(base, turns, ends, coroutines),
         state' = state, handlers' \subseteq handlers,
         \A h \in handlers' : h.kind = "end" => \A r \in h.todo : r.prompt \notin turns,
         NEW n \in Int, Light(Load(state, staged, handlers), n)
  PROVE  Light(Load(state', staged', handlers'), n)
<1> DEFINE rows == {r \in staged : r.prompt \in turns /\ ~ base[r.prompt].replied}
           X == {r \in rows : r.kind = "answer"}
<1>1. staged' = staged \ rows
  BY DEF Abandon
<1>2. X \subseteq Answers(staged, handlers)
  BY DEF Answers, TypeOK
<1>3. \A t \in Alone(state', staged') : t \in Alone(state, staged) \/ \E r \in X : r.task = t
  BY <1>1 DEF Alone
<1>4. Answers(staged', handlers') \subseteq Answers(staged, handlers) \ X
  BY <1>1 DEF Answers
<1>5. Jobs(handlers') \subseteq Jobs(handlers) /\ Lates(handlers') \subseteq Lates(handlers)
  BY DEF Jobs, Lates
<1> HIDE DEF X
<1> QED BY <1>2, <1>3, <1>4, <1>5, TokensSwap DEF Load

LEMMA LoadKill ==
  ASSUME TypeOK, TypeOK', HeldInv, Loaded, NEW m \in Message, KillTurn(m)
  PROVE  Loaded'
<1>1. /\ messages[m].st = "running"
      /\ Abandon(messages, {m}, due, handlers)
      /\ UNCHANGED <<state, topicLock, handlers, phase>>
      /\ Slack' = Slack /\ Slack \in Int
  BY SlackInt DEF KillTurn, Spend, TypeOK, Budget, Slack, Cost
<1>2. \A h \in handlers' : h.kind = "end" => \A r \in h.todo : r.prompt \notin {m}
  BY <1>1 DEF HeldInv, Held
<1>3. Light(Load(state', staged', handlers'), Slack)
  BY <1>1, <1>2, LoadAbandon DEF Loaded
<1> QED BY <1>1, <1>3 DEF Loaded

LEMMA LoadCrash ==
  ASSUME TypeOK, TypeOK', Loaded, Crash
  PROVE  Loaded'
<1>1. /\ handlers' = {} /\ state' = state /\ phase' = "starting"
      /\ Cost' = Cost + 2
      /\ \E base, turns, ends : Abandon(base, turns, ends, {})
  <2>1. handlers' = {} /\ state' = state /\ phase' = "starting"
    BY DEF Crash
  <2>2. spent' = [spent EXCEPT !["crash"] = @ + 1]
    BY DEF Crash, Spend
  <2>3. spent \in [Budget -> Nat]
    BY DEF TypeOK
  <2>4. Cost' = Cost + 2
    BY <2>2, <2>3 DEF Cost, Budget
  <2>5. \E base, turns, ends : Abandon(base, turns, ends, {})
    BY DEF Crash
  <2> QED BY <2>1, <2>4, <2>5
<1>2. Slack \in Int /\ Slack' \in Int /\ Slack <= Slack'
  BY <1>1, SlackInt DEF Slack, Cost, TypeOK
<1>3. Light(Load(state', staged', handlers'), Slack)
  BY <1>1, <1>2, LoadAbandon DEF Loaded
<1> DEFINE T == Load(state', staged', handlers')
<1>4. Light(T, Slack)
  BY <1>3
<1> HIDE DEF T
<1>5. Light(T, Slack')
  BY <1>2, <1>4, LightFewer
<1> QED BY <1>5 DEF Loaded, T

LEMMA LoadFails ==
  ASSUME TypeOK, TypeOK', ApartInv, Loaded, NEW h \in handlers, DispatchFails(h)
  PROVE  Loaded'
<1> DEFINE S == Load(state, staged, handlers)
           T == Load(state', staged', handlers')
<1>1. /\ UNCHANGED <<state, phase>> /\ handlers' = handlers \ {h}
      /\ staged \subseteq staged' /\ staged' \subseteq staged \cup {h.row}
      /\ h.row = NoRow => staged' = staged
      /\ topicLock' = IF h.kind = "end" THEN topicLock ELSE Free
      /\ Cost' = Cost + 1 /\ Cost \in Nat /\ Slack \in Int /\ Slack' \in Int
      /\ Light(S, Slack)
      /\ h.kind \in {"first", "next", "end", "scan"}
  <2>1. /\ UNCHANGED <<state, phase>> /\ handlers' = handlers \ {h}
        /\ topicLock' = IF h.kind = "end" THEN topicLock ELSE Free
        /\ staged' \in Restored(h.row)
    BY DEF DispatchFails, Released
  <2>2. /\ staged \subseteq staged' /\ staged' \subseteq staged \cup {h.row}
        /\ h.row = NoRow => staged' = staged
    BY <2>1 DEF Restored
  <2>3. Cost' = Cost + 1 /\ Cost \in Nat /\ Slack \in Int /\ Slack' \in Int
    <3>1. Cost' = Cost + 1 /\ Cost \in Nat /\ Slack \in Int
      BY SlackInt DEF DispatchFails, Spend, Cost, TypeOK, Budget
    <3> QED BY <3>1 DEF Slack
  <2>4. h.kind \in {"first", "next", "end", "scan"}
    BY DEF TypeOK, Handler
  <2>5. Light(S, Slack)
    BY DEF Loaded
  <2> HIDE DEF S
  <2> QED BY <2>1, <2>2, <2>3, <2>4, <2>5
<1>2. /\ Alone(state', staged') \subseteq Alone(state, staged) \cup {}
      /\ Answers(staged', handlers') \subseteq Answers(staged, handlers) \cup {h.row}
      /\ Jobs(handlers') \subseteq Jobs(handlers) \cup {}
      /\ Lates(handlers') \subseteq Lates(handlers) \cup {}
  BY <1>1 DEF Alone, Answers, Jobs, Lates
<1>3. T \subseteq S \cup {<<"row", h.row>>}
  <2>1. T \subseteq S \cup Tokens({}, {h.row}, {}, {})
    BY <1>2, TokensGrow DEF Load
  <2> QED BY <2>1, TokensOne
<1>4. CASE h.kind = "end"
  <2>1. Slack' = Slack + 1
    BY <1>1, <1>4 DEF Slack
  <2> HIDE DEF S, T
  <2>2. Light(T, Slack + 1)
    BY <1>1, <1>3, LightOneMore
  <2> QED BY <2>1, <2>2 DEF Loaded, T
<1>5. Slack <= Slack'
  BY <1>1 DEF Slack
<1>6. CASE h.kind = "next"
  <2>1. staged' = staged
    BY <1>1, <1>6 DEF ApartInv, Shaped
  <2>2. T \subseteq S
    BY <1>1, <2>1 DEF Load, Tokens, Alone, Answers, Jobs, Lates
  <2> HIDE DEF S, T
  <2>3. Light(T, Slack')
    BY <1>1, <1>5, <2>2, LightFewer
  <2> QED BY <2>3 DEF Loaded, T
<1>7. CASE h.kind \in {"first", "scan"}
  <2>1. h \in Jobs(handlers) /\ h \notin Jobs(handlers')
    BY <1>1, <1>7 DEF Jobs
  <2>2. <<"job", h>> \in S /\ <<"job", h>> \notin T
    BY <2>1, TokenIn DEF Load
  <2>3. T \subseteq (S \ {<<"job", h>>}) \cup {<<"row", h.row>>}
    BY <1>3, <2>2
  <2> HIDE DEF S, T
  <2>4. Light(T, Slack)
    <3>1. Slack \in Int /\ Light(S, Slack)
      BY <1>1
    <3> QED BY <2>2, <2>3, <3>1, LightExchange
  <2>5. Light(T, Slack')
    BY <1>1, <1>5, <2>4, LightFewer
  <2> QED BY <2>5 DEF Loaded, T
<1> QED BY <1>1, <1>4, <1>6, <1>7

\* Another topic brings a task, or makes one work; what else it does to a task
\* takes work away.
LEMMA LoadOther ==
  ASSUME TypeOK, TypeOK', Loaded, NEW t \in Task, ForeignTask(t) \/ Elsewhere(t)
  PROVE  Loaded'
<1> DEFINE S == Load(state, staged, handlers)
           T == Load(state', staged', handlers')
<1>1. UNCHANGED <<staged, handlers, topicLock, phase>>
  BY DEF ForeignTask, Elsewhere
<1>2. Cost' = Cost + 1
  BY DEF ForeignTask, Elsewhere, Spend, Cost, TypeOK, Budget
<1>3. Slack' = Slack + 1 /\ Slack \in Int /\ Light(S, Slack)
  BY <1>1, <1>2, SlackInt DEF Slack, Loaded
<1>4. \A u \in Task : u # t => state'[u] = state[u]
  BY DEF ForeignTask, Elsewhere, TypeOK
<1>5. Alone(state', staged') \subseteq Alone(state, staged) \cup {t}
  BY <1>1, <1>4 DEF Alone
<1>6. T \subseteq S \cup {<<"task", t>>}
  <2>1. /\ Answers(staged', handlers') \subseteq Answers(staged, handlers) \cup {}
        /\ Jobs(handlers') \subseteq Jobs(handlers) \cup {}
        /\ Lates(handlers') \subseteq Lates(handlers) \cup {}
    BY <1>1
  <2>2. T \subseteq S \cup Tokens({t}, {}, {}, {})
    BY <1>5, <2>1, TokensGrow DEF Load
  <2> QED BY <2>2, TokensOne
<1> HIDE DEF S, T
<1>7. Light(T, Slack + 1)
  BY <1>3, <1>6, LightOneMore
<1> QED BY <1>3, <1>7 DEF Loaded, T

LEMMA LoadStep ==
  TypeOK /\ HeldInv /\ ApartInv /\ LoadInv /\ TypeOK' /\ [Next]_vars => LoadInv'
<1> SUFFICES ASSUME TypeOK, HeldInv, ApartInv, LoadInv, TypeOK', [Next]_vars,
                    Careful, spent'["dup"] = 0
             PROVE  Loaded'
  BY DEF LoadInv, Loaded
<1>0. spent["dup"] = 0 /\ Loaded
  <2>1. spent["dup"] <= spent'["dup"] /\ spent["dup"] \in Nat
    BY SpentGrows DEF TypeOK, Budget
  <2> QED BY <2>1 DEF LoadInv, Loaded
<1>1. CASE UNCHANGED <<state, staged, handlers, topicLock, phase, spent>>
  BY <1>0, <1>1 DEF Loaded, Slack, Cost
<1>2. ASSUME NEW s \in Staff, UserPrompt(s) \/ RemoveStaff(s) PROVE Loaded'
  BY <1>1, <1>2 DEF UserPrompt, RemoveStaff
<1>3. ASSUME NEW m \in Message, Tool(m) PROVE Loaded'
  <2>1. CASE AskUser(m)
    <3>1. UNCHANGED <<state, staged, handlers, topicLock, phase>> /\ Cost' = Cost
      BY <2>1 DEF AskUser, Spend, TypeOK, Budget, Cost
    <3> QED BY <1>0, <3>1 DEF Loaded, Slack
  <2> QED BY <1>0, <1>3, <2>1, LoadDelegate, LoadAsk, LoadSubmit, LoadAnswer, LoadAccept DEF Tool
<1>4. ASSUME NEW m \in Message, Respond(m) PROVE Loaded'
  BY <1>1, <1>4 DEF Respond
<1>5. ASSUME NEW m \in Message, ProcessTurnEnd(m) PROVE Loaded'
  BY <1>0, <1>5, LoadTurn
<1>6. ASSUME NEW h \in handlers, Publish(h) \/ StartScanJob(h) PROVE Loaded'
  BY <1>0, <1>6, LoadHandler
<1>7. CASE StartupScan
  BY <1>0, <1>7, LoadStartupScan
<1>8. ASSUME NEW m \in Message, KillTurn(m) \/ DupResponse(m) PROVE Loaded'
  <2>1. ~ DupResponse(m)
    BY <1>0 DEF DupResponse, Spend, TypeOK, Budget
  <2> QED BY <1>0, <1>8, <2>1, LoadKill
<1>9. ASSUME NEW h \in handlers, DispatchFails(h) PROVE Loaded'
  BY <1>0, <1>9, LoadFails
<1>10. CASE Crash
  BY <1>0, <1>10, LoadCrash
<1>11. CASE UNCHANGED vars
  BY <1>1, <1>11 DEF vars
<1>12. ASSUME NEW t \in Task, ForeignTask(t) \/ Elsewhere(t) PROVE Loaded'
  BY <1>0, <1>12, LoadOther
<1> QED BY <1>2, <1>3, <1>4, <1>5, <1>6, <1>7, <1>8, <1>9, <1>10, <1>11, <1>12 DEF Next, Fault

LEMMA LoadInit == Init => LoadInv
<1> SUFFICES ASSUME Init PROVE Light(Load(state, staged, handlers), Slack)
  BY DEF LoadInv
<1>1. Load(state, staged, handlers) = {}
  BY DEF Init, Load, Tokens, Alone, Answers, Jobs, Lates
<1>2. Slack = 0
  BY DEF Init, Budget, Slack, Cost
<1> QED BY <1>1, <1>2, FS_EmptySet DEF Light

LEMMA LoadBounds == TypeOK /\ LoadInv => InFlightWithinFaults
<1> SUFFICES ASSUME TypeOK, LoadInv, Careful, spent["dup"] = 0
             PROVE  Cardinality({t \in Task : InFlight(t)})
                      <= 1 + spent["fail"] + 2 * spent["crash"] + spent["foreign"]
                           + spent["elsewhere"]
  BY DEF InFlightWithinFaults
<1> DEFINE S == Load(state, staged, handlers)
           T == {t \in Task : InFlight(t)}
           f == [y \in S |-> IF y[1] = "task" THEN y[2] ELSE y[2].task]
<1>1. Light(S, Slack) /\ Slack \in Int
  BY SlackInt DEF LoadInv
<1>2. ASSUME NEW t \in T PROVE \E y \in S : f[y] = t
  <2>1. CASE t \in Alone(state, staged)
    <3>1. <<"task", t>> \in S
      BY <2>1, TokenIn DEF Load
    <3> QED BY <3>1
  <2>2. ASSUME NEW r \in Answers(staged, handlers), r.task = t PROVE \E y \in S : f[y] = t
    <3>1. <<"row", r>> \in S
      BY TokenIn DEF Load
    <3>2. f[<<"row", r>>] = t
      BY <2>2, <3>1
    <3> QED BY <3>1, <3>2
  <2>3. t \in Alone(state, staged) \/ \E r \in Answers(staged, handlers) : r.task = t
    BY DEF Alone, Answers, InFlight, TypeOK
  <2> QED BY <2>1, <2>2, <2>3
<1>3. DOMAIN f = S
  OBVIOUS
<1> HIDE DEF S, T, f
<1>4. Light(T, Slack)
  BY <1>1, <1>2, <1>3, LightImage
<1>5. Cardinality(T) <= Slack /\ Cardinality(T) \in Nat
  BY <1>4, FS_CardinalityType DEF Light
<1>6. Slack <= 1 + Cost /\ Cost \in Nat
  BY SlackInt DEF Slack
<1>7. Cardinality(T) <= 1 + Cost
  BY <1>1, <1>5, <1>6
<1>8. 1 + Cost = 1 + spent["fail"] + 2 * spent["crash"] + spent["foreign"]
                   + spent["elsewhere"]
  BY DEF Cost, TypeOK, Budget
<1> QED BY <1>7, <1>8 DEF T

(***************************************************************************)
(* Careful staffs and single responses: a failed dispatch lets one more    *)
(* task in beside the others, a restart two, a task of another topic one,  *)
(* so does a call of another topic's turn, and nothing else lets in any    *)
(* (delegate_task, accept_result and the staged rows against topic locks   *)
(* that live in the process only).                                         *)
(***************************************************************************)
THEOREM FaultsCost == Spec => []InFlightWithinFaults
<1>1. Spec => []TypeOK
  BY TypeCorrect
<1>2. Spec => []HeldInv
  BY TurnsHeld
<1>3. TypeOK /\ TypeOK' /\ HeldInv /\ ApartInv /\ [Next]_vars => ApartInv'
  BY ApartStep
<1>4. TypeOK /\ TypeOK' /\ HeldInv /\ ApartInv /\ LoadInv /\ [Next]_vars => LoadInv'
  BY LoadStep
<1>5. TypeOK /\ LoadInv => InFlightWithinFaults
  BY LoadBounds
<1> QED BY <1>1, <1>2, <1>3, <1>4, <1>5, ApartInit, LoadInit, PTL DEF Spec

=============================================================================
