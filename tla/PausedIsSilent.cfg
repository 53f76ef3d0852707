SPECIFICATION Spec
CONSTANTS
  Sessions = {s1}
  Monitors = {m1, m2}
  Coordinators = {c1}
  Inputs = {mic}
  NoSession = NoSession
  NoMonitor = NoMonitor
  NoCoordinator = NoCoordinator
  MaxAttempts = 2
  MaxRetries = 1
  SetupFaults = {"lookup", "config", "connect"}
SYMMETRY Symmetry
INVARIANTS PausedIsSilent
