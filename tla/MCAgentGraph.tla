---------------------------- MODULE MCAgentGraph ----------------------------
(* Small instances of AgentGraph for TLC.                                  *)
EXTENDS AgentGraph

\* A price that truncates to nothing, and 300 minor units.
MCUsages == {<<3, 0>>, <<1000, 0>>}
=============================================================================
