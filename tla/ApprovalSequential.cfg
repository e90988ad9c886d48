SPECIFICATION Spec
CONSTANTS
  uw = uw
  td1 = td1
  td2 = td2
  third = third
  r1 = r1
  r2 = r2
  Users <- MCUsers
  Owners <- MCAssigned
  Level <- MCChief
  Routings <- MCTwoRoutings
  Requests <- MCOneRequest
  Lines = {10, 20}
  InitialOffers = {"ABSENT", "PENDING"}
  Headers <- MCLabelHeaders
  MaxSubmissions = 3
  NoUser = NoUser
  NoRequest = NoRequest
INVARIANTS
  RowsAgree
  SignedWithinWritten
PROPERTIES
  StatusRefinement
