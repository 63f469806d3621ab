SPECIFICATION FairSpec
CONSTANTS
  None = None
  Estimates = {"e1"}
  Chats = {"chat1"}
  TokenOf <- Tokens
  AskedOf <- Asked
  CorrOf <- Traces
  Models = {"claude-haiku-4-5", "unknown"}
  RATES <- PriceBook
  Usages <- TokenCounts
  MaxRetries = 2
  Capacity = 2
  MaxFaults = 2
INVARIANTS AccountedFor LogAddsUp OwnTrace
PROPERTY EveryCallEnds
CHECK_DEADLOCK FALSE
