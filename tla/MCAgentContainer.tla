-------------------------- MODULE MCAgentContainer --------------------------
(***************************************************************************)
(* A small instance of AgentContainer for TLC.                             *)
(***************************************************************************)
EXTENDS AgentContainer

CONSTANT prompt

OnePrompt == {prompt}

=============================================================================
