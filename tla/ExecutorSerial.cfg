SPECIFICATION Spec
CONSTANTS
  e1 = e1
  e2 = e2
  e3 = e3
  s1 = s1
  s2 = s2
  Exec <- MCExec
  Session <- MCSession
  SessionOf <- MCSessionOf
  NoLock = NoLock
  NoLease = NoLease
  Torn = Torn
  SerialStarts = TRUE
  MayMissBeats = FALSE
  MayFailWrites = TRUE
SYMMETRY MCSymmetry
INVARIANTS
  TypeOK
  OverlapNeedsBothLayers
\* every executor may end: the processes are not restarted
CHECK_DEADLOCK FALSE
