SPECIFICATION Spec
CONSTANTS
  Worktree = FALSE
  TestCommand = TRUE
  CallCap = 0
  Costs <- FreeOfCharge
  MaxCost = 0
  Changes <- NoChanges
INVARIANTS
  TypeOK
  RoundsBounded
  BreakerHolds
  RefusedMergeCoolsDown
PROPERTIES
  Termination
\* the loop ends
CHECK_DEADLOCK FALSE
