SPECIFICATION FairSpec
CONSTANTS
  NChunks = 2
  MaxTakes = 1
  Job = {1, 2, 3}
  Poller = {main, live}
  LivePoller = live
  NoPoller = none
  MaxRetries = 3
  TickMs = 1200000
  PrivacyChoices = {FALSE}
  MaxCrashes = 0
  MaxErrors = 0
  MaxManual = 0
  MaxManualPrivate = 0
CHECK_DEADLOCK FALSE
PROPERTY EveryChunkHeard
