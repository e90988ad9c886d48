SPECIFICATION Spec
CONSTANTS
  a = a
  b = b
  c = c
  r1 = r1
  r2 = r2
  uw = uw
  cu = cu
  SessionIds <- MCSessionIds
  Requests <- MCRequests
  Roles <- MCRoles
  FirstRole = uw
  MaxEpoch = 2
  NoSession = NoSession
  NoRequest = NoRequest
  NoToken = NoToken
INVARIANTS
  ChangeEndsTokens
PROPERTIES
  KeepsThisDevice
  Settles
CHECK_DEADLOCK FALSE
