SPECIFICATION FairSpec
CONSTANTS
  Golden <- MCGolden
  CommandLines <- MCCommandLines
  Prices = {116}
  Committed = {100}
  Outcomes <- MCOutcomes
  Configurations <- MCConfigurations
  Questions = {q1}
  Timings <- MCTimings
  Grain = 10
  PollAttempts = 2
  MaxJobs = 2
  NaN = NaN
  None = None
INVARIANTS
  GreenMeansGood
  ColumnsApart
PROPERTY
  EveryJobEnds
CHECK_DEADLOCK FALSE
