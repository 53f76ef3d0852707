SPECIFICATION FairSpec
CONSTANTS
  Fields = {title, raw}
  MaxRevision = 4
  MaxFailures = 1
  MaxReads = 1
  MaxQueue = 2
INVARIANTS TypeOK EditsAreCarried LastEditIsKept
PROPERTIES WritesGoForward EditsReachTheRow
CHECK_DEADLOCK FALSE
