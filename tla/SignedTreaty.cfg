SPECIFICATION Spec
CONSTANTS
  uw = uw
  tm = tm
  s1 = s1
  s2 = s2
  j1 = j1
  j2 = j2
  d = d
  h1 = h1
  h2 = h2
  Users <- MCUsers
  Approvers <- MCApprovers
  Signers <- MCSigners
  Lines = {1}
  InitialTreaties <- MCTreaties
  NoUser = NoUser
  Clerks <- MCClerks
  Amounts <- MCAmounts
  Headers <- MCHeaders
  Documents <- MCDocuments
  MaxMovements = 3
  NoDocument = NoDocument
SYMMETRY MCSymmetry
INVARIANTS
  TypeOK
  ReviewedFigures
  DocumentsHaveFiles
  ClaimsAreFinanced
PROPERTIES
  NeverRegresses
  ReviewRefinement
CHECK_DEADLOCK FALSE
