SPECIFICATION Spec
CONSTANTS
  uw = uw
  td1 = td1
  td2 = td2
  third = third
  r1 = r1
  r2 = r2
  Users <- MCUsers
  Owners <- MCAssigned
  Level <- MCChief
  Routings <- MCOneRouting
  Requests <- MCRaces
  Lines = {}
  InitialOffers = {"ABSENT"}
  Headers <- MCFormHeaders
  MaxSubmissions = 2
  NoUser = NoUser
  NoRequest = NoRequest
SYMMETRY MCRequestSymmetry
INVARIANTS
  TypeOK
  SlotsInOrder
  DecisionRule
  RecordAgrees
PROPERTIES
  SlotsNeverRewritten
  Provenance
