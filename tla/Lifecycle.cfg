SPECIFICATION Spec
CONSTANTS
  p = p
  q = q
  Workers <- MCWorkers
  LastFile = 3
  Statements = 2
  MaxRequests = 2
  MaxRuns = 2
  Nobody = Nobody
INVARIANTS
  AppliedOnce
  ServesMigrated
PROPERTIES
  CleanExit
  ShutdownEnds
