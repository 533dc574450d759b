SPECIFICATION Spec
CONSTANTS
  Caller = {first, second}
  Lecture = {lesson}
  NoLecture = none
  Question = {what}
  Quality = {2, 5}
  MaxInterval = 15
  MaxRepeats = 2
  MaxCards = 5
  MaxQuizzes = 2
  MaxCalls = 4
  MaxCrashes = 1
  MaxWork = 4
SYMMETRY Callers
CHECK_DEADLOCK FALSE
INVARIANTS
  ScheduleSound
  CopiesBounded
  SummaryAskedOnce
  QuizzesWhole
PROPERTIES
  RestoreGivesBack
