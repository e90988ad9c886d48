SPECIFICATION Spec
CONSTANTS
  u1 = u1
  u2 = u2
  v0 = v0
  v1 = v1
  v2 = v2
  a = a
  b = b
  r1 = r1
  r2 = r2
  Users <- MCUsers
  Versions <- MCVersions
  Seed = v0
  Rows <- MCRows
  Requests <- MCRequests
  NoUser = NoUser
  NoVersion = NoVersion
SYMMETRY MCSymmetry
INVARIANTS
  TypeOK
  AttributedRates
CHECK_DEADLOCK FALSE
