SPECIFICATION FairSpec
CONSTANTS
  None = None
  Tenants = {"t1", "t2"}
  BumpOrder <- InOrder
  Files <- SomeFiles
  FirstFile <- TheFirst
  MaxFaults = 2
  Texts <- SomeTexts
  Fits <- Fitting
  Split <- Splitter
  Models = 2
  Asking = {"t1"}
  Buckets = {"b"}
  Workers = {"w1"}
  Kept = 1
  Retries = 1
  MaxRuns = 2
  MaxEdits = 1
INVARIANTS ServesOwnText OfferedIsStored BumpSeparates
PROPERTY StaleAgesOut
