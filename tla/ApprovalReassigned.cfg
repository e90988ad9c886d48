SPECIFICATION FairSpec
CONSTANTS
  uw = uw
  td1 = td1
  td2 = td2
  third = third
  r1 = r1
  r2 = r2
  Users <- MCPair
  Owners <- MCReassigned
  Level <- MCPairLevel
  Routings <- MCPairRouting
  Requests <- MCRaces
  Lines = {}
  InitialOffers = {"PENDING"}
  Headers <- MCStaleHeaders
  MaxSubmissions = 2
  NoUser = NoUser
  NoRequest = NoRequest
INVARIANTS
  SeparationOfDuties
  PendingRecoverable
PROPERTIES
  ApprovalNeverDestroyed
  LockReleased
