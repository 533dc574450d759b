SPECIFICATION Spec
CONSTANTS
  Lecture = {1, 2}
  Old = {1}
  NChunks = 2
  MaxPasses = 1
  MaxCalls = 2
  MaxEdits = 1
  MaxTakes = 1
CHECK_DEADLOCK FALSE
INVARIANTS
  PassEndsWell
  EditKept
  StartsAsShown
