SPECIFICATION Spec
CONSTANTS
  Sessions = {s1, s2}
  Monitors = {m1, m2}
  Coordinators = {c1}
  Inputs = {}
  NoSession = NoSession
  NoMonitor = NoMonitor
  NoCoordinator = NoCoordinator
  MaxAttempts = 1
  MaxRetries = 0
  SetupFaults = {"lookup"}
SYMMETRY Symmetry
PROPERTIES Implements
