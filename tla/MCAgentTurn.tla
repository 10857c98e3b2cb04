---------------------------- MODULE MCAgentTurn ----------------------------
(* The values of the constants are in the configurations. *)
EXTENDS AgentTurn
=============================================================================
