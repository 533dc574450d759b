SPECIFICATION ChatSpec
CONSTANTS
  Course = {biology, physics}
  MockCourse = mock
  MaxSends = 2
  MaxLoads = 2
  HistoryLimit = 3
SYMMETRY Names
CHECK_DEADLOCK FALSE
INVARIANTS
  QuestionsKept
  ListIsTable
