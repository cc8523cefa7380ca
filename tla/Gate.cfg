CONSTANTS
  r1 = r1
  r2 = r2
  r3 = r3
  r4 = r4
  r5 = r5
  Request <- MCRequest
  MaxConcurrent = 2
  MaxQueue = 2
SPECIFICATION FairSpec
INVARIANTS
  TypeOK
  UnitsConserved
  Bounded
  NoLostWakeup
PROPERTIES
  RefusedOnlyWhenFull
  ImplementsAdmission
  EveryoneServed
