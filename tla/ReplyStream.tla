---------------------------- MODULE ReplyStream ----------------------------
(***************************************************************************)
(* What the user sees of one reply, whatever happens to agent, broker and  *)
(* master: it may stream, it may be shown as interrupted, it may be        *)
(* answered, and it only moves forward.  An answer supersedes an           *)
(* interruption and nothing supersedes an answer.  The reply to a          *)
(* structured-output prompt is for the master: its bubble is retracted and *)
(* it is never answered, though it may be shown as interrupted.            *)
(* AgentStream implements this.                                            *)
(***************************************************************************)
CONSTANT Turn

VARIABLES
  reply,       \* per turn, what is shown
  structured   \* turns known to answer a structured-output prompt

Reply == {"none", "streaming", "interrupted", "answered"}

Init ==
  /\ reply = [t \in Turn |-> "none"]
  /\ structured = {}

Move(t, from, to) ==
  /\ reply[t] \in from
  /\ reply' = [reply EXCEPT ![t] = to]
  /\ UNCHANGED structured

\* A structured-output prompt gets its turn, before anything is shown of it.
Ask(t) ==
  /\ reply[t] = "none"
  /\ structured' = structured \cup {t}
  /\ UNCHANGED reply

Stream(t) == Move(t, {"none"}, "streaming")
Interrupt(t) == Move(t, {"none", "streaming"}, "interrupted")
Answer(t) == t \notin structured /\ Move(t, {"none", "streaming", "interrupted"}, "answered")
Retract(t) == t \in structured /\ Move(t, {"streaming"}, "none")

Next == \E t \in Turn : Ask(t) \/ Stream(t) \/ Interrupt(t) \/ Answer(t) \/ Retract(t)

Spec == Init /\ [][Next]_<<reply, structured>>

=============================================================================
