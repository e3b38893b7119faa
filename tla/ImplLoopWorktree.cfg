SPECIFICATION Spec
CONSTANTS
  Worktree = TRUE
  TestCommand = FALSE
  CallCap = 1
  Costs <- OneEach
  MaxCost = 0
  Changes <- Edits
INVARIANTS
  NothingMergesUnchecked
  KillStopsWithinTwoCalls
  MergedUpToGitFailures
  SpendingBounded
PROPERTIES
  KeepsContract
\* the loop ends
CHECK_DEADLOCK FALSE
