SPECIFICATION FairSpec
CONSTANTS
  N = 2
  Call = {first, second}
  NoCall = none
  MaxFaults = 1
  MaxCrashes = 1
INVARIANTS
  OneDownload
  OnlyWholeModels
  DownloadingIsOwned
PROPERTY DownloadsEnd
