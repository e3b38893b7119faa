SPECIFICATION Spec
CONSTANTS
  Session = {s1, s2, s3}
INVARIANTS
  OwnerIsStarter
PROPERTIES
  OnlyStarterIsKept
  StarterClaims
