----------------------------- MODULE MCMcpServer -----------------------------
(* Small instances of McpServer for TLC.                                   *)
EXTENDS McpServer

\* Another scheme, a forged token, and a genuine one with a claim.
Headers ==
  {[scheme |-> "basic", token |-> "secret", genuine |-> FALSE, claim |-> None],
   [scheme |-> "bearer", token |-> "forged", genuine |-> FALSE, claim |-> "t1"],
   [scheme |-> "bearer", token |-> "jwt1", genuine |-> TRUE, claim |-> "t1"]}
=============================================================================
