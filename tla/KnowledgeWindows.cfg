SPECIFICATION Spec
CONSTANTS
  Windows = {w1, w2}
  Sources = {n}
  Texts = {a, b}
  NoText = NoText
  NoSnapshot = NoSnapshot
  Copies = {c1, c2}
  MaxAttempts = 2
  SlowJobs = TRUE
  MaxEdits = 1
  MaxCloses = 1
  MaxFaults = 1
INVARIANTS TypeOK OneActivePerKey RunningIsExecuted BuildingIsBuilt
CHECK_DEADLOCK FALSE
