SPECIFICATION FairSpec
CONSTANTS
  Sessions = {s1}
  Monitors = {m1}
  Coordinators = {c1}
  Inputs = {}
  NoSession = NoSession
  NoMonitor = NoMonitor
  NoCoordinator = NoCoordinator
  MaxAttempts = 2
  MaxRetries = 1
  SetupFaults = {"lookup", "config", "connect"}
PROPERTIES HandlerReturns CoordinatorEnds ReconnectSettles
