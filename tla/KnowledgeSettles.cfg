SPECIFICATION FairSpec
CONSTANTS
  Windows = {w1}
  Sources = {n}
  Texts = {a, b}
  NoText = NoText
  NoSnapshot = NoSnapshot
  Copies = {c1}
  MaxAttempts = 2
  SlowJobs = FALSE
  MaxEdits = 2
  MaxCloses = 0
  MaxFaults = 2
INVARIANTS AttemptsBounded
PROPERTIES PageSettles
CHECK_DEADLOCK FALSE
