SPECIFICATION Spec
CONSTANTS
  Name = {"titled", "bare"}
  MaxRuns = 3
  MaxWork = 3
  MaxTrunk = 2
INVARIANTS
  NothingLost
  DoneMeansLanded
  RefusedStaysOut
\* all runs used up
CHECK_DEADLOCK FALSE
