SPECIFICATION Spec
CONSTANTS
  Windows = {w1}
  Sources = {n}
  Texts = {a, b}
  NoText = NoText
  NoSnapshot = NoSnapshot
  Copies = {c1}
  MaxAttempts = 3
  SlowJobs = FALSE
  MaxEdits = 3
  MaxCloses = 0
  MaxFaults = 0
CHECK_DEADLOCK FALSE
INVARIANT BriefIsServed
