SPECIFICATION Spec
CONSTANTS
  Last = 3
  Files = {f1, f2}
  NoFile = none
  Procs = {p1, p2}
INVARIANTS
  TypeOK
  AppliedInOrder
  ServingIsMigrated
PROPERTIES
  RacingMigrationsFinish
