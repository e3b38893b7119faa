SPECIFICATION Spec
CONSTANTS
  i1 = i1
  i2 = i2
  Issue = {i1, i2}
  Runs <- UnevenRuns
INVARIANTS
  TypeOK
  HistoryExact
  NeverOvercounted
  ExhaustedPlanIsRevalidated
  ThresholdForcesGap
PROPERTIES
  UsesLoopContract
CHECK_DEADLOCK FALSE
