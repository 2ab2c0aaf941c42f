--------------------------- MODULE MCAgentStream ---------------------------
(***************************************************************************)
(* Small instances of AgentStream for TLC.                                 *)
(***************************************************************************)
EXTENDS AgentStream

CONSTANTS p1, p2

OnePrompt == {p1}
TwoPrompts == {p1, p2}

\* The prompts of the safety run, one for each adapter; that of codex, whose
\* turns the stale-stream check may close, asks for structured output.
ClaudeAndCodex ==
  {[p \in TwoPrompts |-> [adapter |-> IF p = p1 THEN "claude" ELSE "codex",
                          structured |-> p = p2]]}

\* The prompt of the liveness run asks for either adapter, or for nothing, with
\* structured output or without.
AnyPayload == [OnePrompt -> Payload]

=============================================================================
