SPECIFICATION Spec
CONSTANTS
  uw = uw
  tm = tm
  cu = cu
  q1 = q1
  q2 = q2
  q3 = q3
  r1 = r1
  r2 = r2
  Users <- MCPair
  Level <- MCPairLevel
  Quotes <- MCThreeVersions
  Root = q1
  Targets <- MCOneVersion
  Creators = {tm}
  InitialStatuses = {"DRAFT", "SIGNED"}
  Requests <- MCRaces
  EventReadsFail = TRUE
  NoUser = NoUser
  NoRequest = NoRequest
SYMMETRY MCRequestSymmetry
INVARIANTS
  TypeOK
  BoundOnce
PROPERTIES
  LockedMovesLegal
