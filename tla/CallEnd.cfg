SPECIFICATION FairSpec
CONSTANTS
  Notes = {n1}
  Calls = {z1}
  Permits = {p1, p2}
  NoNote = NoNote
  NoCall = NoCall
  MaxRuns = 2
  Grace = 1
INVARIANTS TypeOK AutomaticStopIsJustified StopsOnce ScanIsOfBoundCall
PROPERTIES StopsOnlyItsRecording EndedCallStops
