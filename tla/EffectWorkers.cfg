SPECIFICATION Spec
CONSTANTS
  Instances = {i1}
  Generations = {1}
  HistoryConfigured = TRUE
  EffectCapacity = 1
  ObservationCapacity = 1
  MaxObservations = 2
  MaxEffects = 2
  MaxReports = 1
INVARIANT NoEffectLost
CHECK_DEADLOCK FALSE
