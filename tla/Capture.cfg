SPECIFICATION Spec
CONSTANTS
  NChunks = 2
  MaxTakes = 1
  Job = {1, 2, 3}
  Poller = {main, live}
  LivePoller = live
  NoPoller = none
  MaxRetries = 2
  TickMs = 1200000
  PrivacyChoices = {TRUE, FALSE}
  MaxCrashes = 2
  MaxErrors = 1
  MaxManual = 0
  MaxManualPrivate = 2
CHECK_DEADLOCK FALSE
INVARIANTS
  AudioGoneOnlyAfterHeard
  PrivacyQueuesNothing
  CrashedSessionsRecovered
  UnheardIsFound
  PrivatePassWritten
