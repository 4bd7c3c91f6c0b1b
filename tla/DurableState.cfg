SPECIFICATION Spec
CONSTANTS
  Absent = Absent
  Damaged = Damaged
  Foreign = Foreign
  MaxSaves = 6
  MaxFaults = 3
  MaxCrashes = 3
  MaxDamage = 2
INVARIANT TypeOK
INVARIANT SurvivesDamage
PROPERTY ImplementsRegister
PROPERTY ForeignStateUntouched
CHECK_DEADLOCK FALSE
