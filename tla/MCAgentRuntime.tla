-------------------------- MODULE MCAgentRuntime --------------------------
(* Small instances of AgentRuntime for TLC.                                *)
EXTENDS AgentRuntime

CONSTANTS q1, q2, t1, t2, t3
=============================================================================
