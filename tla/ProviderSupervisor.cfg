SPECIFICATION FairSpec
CONSTANTS
  MaxOperation = 2
  Capacity = 2
  WorkPerTick = 1
  OutcomesPerTick = 1
  MaxOwned = 2
  MaxAcks = 1
  MaxStops = 1
  MaxForces = 1
  MaxErrors = 1
INVARIANT SupervisorTypeOK
INVARIANT ProcessesHeld
INVARIANT ExitsReported
INVARIANT NoFalseAccusation
PROPERTY RetirementCompletes
CHECK_DEADLOCK FALSE
