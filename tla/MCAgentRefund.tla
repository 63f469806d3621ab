--------------------------- MODULE MCAgentRefund --------------------------
(* Small instances of AgentRefund for TLC.                                 *)
EXTENDS AgentRefund, TLC

CONSTANTS c1, c2, c3, o1, t1, t2, th1, th2, w1, w2

SharedOrderId == {<<o1, t1>>, <<o1, t2>>}
OneTenant == [t \in {th1, th2} |-> t1]
AgentKeys == Threads \X Proposals
Interchangeable == Permutations({c1, c2, c3}) \cup Permutations({th1, th2}) \cup Permutations({w1, w2})
=============================================================================
