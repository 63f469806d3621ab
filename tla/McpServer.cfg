SPECIFICATION FairSpec
CONSTANTS
  None = None
  NoToken = NoToken
  Sessions = {"stdio", "sse"}
  Calls = {"c1", "c2"}
  Threads = {"th1"}
  Tools = {"orders.create_refund", "llm.chat", "rag.retrieve_and_generate"}
  Tenants = {"t1", "t2"}
  Bearers <- Headers
  Configured = "env"
  Statuses = {200, 403, 503}
INVARIANTS OwnOutcome ActsForTheClaim
PROPERTY EveryCallAnswered
