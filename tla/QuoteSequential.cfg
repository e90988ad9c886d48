SPECIFICATION Spec
CONSTANTS
  uw = uw
  tm = tm
  cu = cu
  q1 = q1
  q2 = q2
  q3 = q3
  r1 = r1
  r2 = r2
  Users <- MCUsers
  Level <- MCLevel
  Quotes <- MCTwoVersions
  Root = q1
  Targets <- MCTwoVersions
  Creators = {tm}
  InitialStatuses = {"DRAFT", "SIGNED"}
  Requests <- MCOneRequest
  EventReadsFail = FALSE
  NoUser = NoUser
  NoRequest = NoRequest
INVARIANTS
  NewestIsLive
  OfferFollows
PROPERTIES
  FamilyRefinement
  ApproverIndependent
