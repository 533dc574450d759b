SPECIFICATION FairSpec
CONSTANTS
  Versions = 2
  Statements = 2
  MaxCommits = 3
  MaxCrashes = 2
  MaxFaults = 2
CHECK_DEADLOCK FALSE
INVARIANTS
  RecordedIsWhole
  ReadyIsMigrated
  ClosedDataKept
  VisibleIsReady
PROPERTY StartEnds
