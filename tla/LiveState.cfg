\* One session, two tool calls at a time, an executor beside them.
SPECIFICATION Spec
CONSTANTS
  Agents = {"qa"}
  Skills <- MCSkills
  Level <- MCLevel
  SelfManaged = {}
  Ttl <- MCTtl
  MaxReinf <- MCMaxReinf
  Slots = {c1, c2}
INVARIANTS
  TypeOK
  BlocksBounded
  
PROPERTIES
  StopsInTheEnd

