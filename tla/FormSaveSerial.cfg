SPECIFICATION Spec
CONSTANTS
  Autosaves = {auto1}
  SavesOverlap = FALSE
  MaxFailed = 2
  MaxEdits = 3
  MaxErrors = 3
  MaxFlushes = 2
INVARIANTS TypeOK StatusIsHonest OneWorkingRevision
PROPERTIES FlushPersists FlushEnds EditsReachTheDatabase
CHECK_DEADLOCK FALSE
