SPECIFICATION Spec
CONSTANTS
  e1 = e1
  e2 = e2
  e3 = e3
  s1 = s1
  s2 = s2
  Exec <- PairExec
  Session <- MCSession
  SessionOf <- PairSessionOf
  NoLock = NoLock
  NoLease = NoLease
  Torn = Torn
  SerialStarts = FALSE
  MayMissBeats = TRUE
  MayFailWrites = TRUE
INVARIANTS
  NoCollectiveRefusal
PROPERTIES
  RefusedOnlyByTheLiving
  BootResolves
\* every executor may end: the processes are not restarted
CHECK_DEADLOCK FALSE
