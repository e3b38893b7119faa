SPECIFICATION Spec
CONSTANT MaxRuns = 4
INVARIANTS
  OneUnreviewedPassPerOverride
  SkippedPlannerWasReady
  UxPassIsEarned
\* the user stops asking
CHECK_DEADLOCK FALSE
