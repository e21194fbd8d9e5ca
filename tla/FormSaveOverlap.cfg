SPECIFICATION Spec
CONSTANTS
  Autosaves = {auto1, auto2}
  SavesOverlap = TRUE
  MaxFailed = 2
  MaxEdits = 3
  MaxErrors = 2
  MaxFlushes = 2
PROPERTIES FlushPersists
CHECK_DEADLOCK FALSE
