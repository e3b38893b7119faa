SPECIFICATION KillSpec
CONSTANTS
  r1 = r1
  r2 = r2
  r3 = r3
  r4 = r4
  Run <- MCRun
SYMMETRY MCSymmetry
INVARIANT
  KillNotLost
