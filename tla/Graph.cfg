SPECIFICATION LiveSpec
CONSTANTS
  Usages <- MCUsages
  Ceiling = 600
  MaxCost = 300
  Tools = {"t1"}
  MaxToolIterations = 2
  MaxRetries = 1
  MaxRequests = 2
INVARIANTS OvershootBounded NoSilentEnd EvidenceComplete
PROPERTY EveryRequestEnds
