SPECIFICATION Spec
CONSTANTS
  k1 = k1
  k2 = k2
  x1 = x1
  x2 = x2
  q1 = q1
  q2 = q2
  location = location
  Risks <- MCRisks
  Recs <- MCRecs
  About <- MCAbout
  Target <- MCTarget
  Appended <- MCAppended
  Requests <- MCRequests
  Grades <- MCGrades
  Senior <- MCSenior
  Capped <- MCSenior
  Budget = 2
  TreatyLoad = 1
  MaxExposure = 1
  MaxRef = 2
  NoRisk = NoRisk
  NoRec = NoRec
  NoGrade = NoGrade
SYMMETRY MCSymmetry
CONSTRAINT Focus
INVARIANTS
  BookIsSeen
  AnswersHold
PROPERTIES
  GateHolds
CHECK_DEADLOCK FALSE
