SPECIFICATION Spec
CONSTANTS
  t1 = t1
  t2 = t2
  t3 = t3
  terms = terms
  pricing = pricing
  Screens <- MCScreens
  Sections <- MCSections
  MaxClock = 3
  Nobody = Nobody
SYMMETRY MCSymmetry
INVARIANTS
  NoLostUpdate
PROPERTIES
  GuardedAdvances
