SPECIFICATION LiveLoopSpec
CONSTANTS
  Job = {1, 2}
  LivePayload = {chunk}
  FinalPayload = {final}
  RecoverPayload = {}
  Poller = {main, live}
  LivePoller = live
  NoPoller = none
  MaxRetries = 2
  TickMs = 120000
  Caller = {stop}
  MaxCrashes = 1
  MaxCancels = 1
INVARIANTS
  OneWorkerPerJob
  RunBudget
  NoDuplicateOpenJobs
PROPERTIES
  SettledStaysSettled
  PoolSpec
  LiveNotBlocked
  QueueDrains
