SPECIFICATION FairSpec
CONSTANTS
  Notes = {n1, n2}
  Instances = {main}
  InMain = {main}
  NoNote = NoNote
  Youtube = {}
  Kinds = {"new", "import"}
  MaxWords = 1
  MaxRuns = 1
  MaxEdits = 0
PROPERTIES QueueDrains
