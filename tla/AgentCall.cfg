SPECIFICATION Spec
CONSTANT MaxLines = 4
INVARIANTS
  OnlyOrphansBlock
  ZeroMeansWhole
  NoAgentLeftBehind
  NoOldAnswer
PROPERTIES
  CallReturns
\* the call is over
CHECK_DEADLOCK FALSE
