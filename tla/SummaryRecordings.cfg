SPECIFICATION Spec
CONSTANTS
  Notes = {n1}
  Instances = {main, remount, other}
  InMain = {main, remount}
  NoNote = NoNote
  Youtube = {}
  Kinds = {"new"}
  MaxWords = 2
  MaxRuns = 2
  MaxEdits = 2
INVARIANTS TypeOK RecordedWorkIsDurable OneConsumer
PROPERTIES EditsSurvive Implements
