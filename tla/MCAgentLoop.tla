---------------------------- MODULE MCAgentLoop ----------------------------
(***************************************************************************)
(* An instance of AgentLoop for TLC: two turns of at most two rounds, with *)
(* limits of two, so that each of them is met.                             *)
(***************************************************************************)
EXTENDS AgentLoop
=============================================================================
