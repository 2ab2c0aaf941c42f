---------------------------- MODULE Interception ----------------------------
(***************************************************************************)
(* What an interceptor promises.  A request asks some staff and hears, for *)
(* each of them, yes, no, or that the answer was given up.  One "no"       *)
(* refuses the request.  An answer that was given up refuses it too,       *)
(* unless the request is of a kind that fails open.  A request is not      *)
(* committed before the last staff it asked is heard of, and what was      *)
(* heard or decided is never changed.  EventGate implements this.          *)
(***************************************************************************)
CONSTANTS
  Prompts,        \* <<request, action>>
  Requests,
  FailOpen        \* the requests that an unheard answer does not stop

VARIABLES
  heard,          \* what is known of each prompt
  outcome         \* what became of each request

vars == <<heard, outcome>>

Heard == {"unasked", "asked", "yes", "no", "lost"}

Init ==
  /\ heard = [p \in Prompts |-> "unasked"]
  /\ outcome = [r \in Requests |-> "open"]

\* What request r heard of its prompts is h.
Is(h, r, what) == \E p \in Prompts : p[1] = r /\ h[p] = what

MayCommit(h, r) ==
  /\ ~Is(h, r, "no")
  /\ ~Is(h, r, "asked")
  /\ Is(h, r, "lost") => r \in FailOpen

MayRefuse(h, r) == Is(h, r, "no") \/ (Is(h, r, "lost") /\ r \notin FailOpen)

Ask(p) ==
  /\ outcome[p[1]] = "open"
  /\ heard[p] = "unasked"
  /\ heard' = [heard EXCEPT ![p] = "asked"]
  /\ UNCHANGED outcome

Hear(p) ==
  /\ outcome[p[1]] \in {"open", "failed"}
  /\ heard[p] = "asked"
  /\ \E a \in {"yes", "no", "lost"} : heard' = [heard EXCEPT ![p] = a]
  /\ UNCHANGED outcome

\* A request gives up waiting for all the prompts it still waits for, and
\* is decided in the same step.
GivenUp(r) ==
  [p \in Prompts |-> IF p[1] = r /\ heard[p] = "asked" THEN "lost" ELSE heard[p]]

Decide(r) ==
  /\ outcome[r] = "open"
  /\ \E h \in {heard, GivenUp(r)} :
       /\ heard' = h
       /\ \/ /\ MayCommit(h, r)
             /\ outcome' = [outcome EXCEPT ![r] = "committed"]
          \/ /\ MayRefuse(h, r)
             /\ outcome' = [outcome EXCEPT ![r] = "refused"]

\* The request fails on the way, and what it asked is forgotten.
Fail(r) ==
  /\ outcome[r] = "open"
  /\ outcome' = [outcome EXCEPT ![r] = "failed"]
  /\ UNCHANGED heard

Next ==
  \/ \E p \in Prompts : Ask(p) \/ Hear(p)
  \/ \E r \in Requests : Decide(r) \/ Fail(r)

Spec == Init /\ [][Next]_vars

=============================================================================
