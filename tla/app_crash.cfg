SPECIFICATION FairSpec
CONSTANTS
  NumSamples = {2}
  MaxNumSamples = 2
  AlmostDoneMargin = 1
  ReadErrorThreshold = 0
  RetryCount = 1
  RetryCountDebug = 2
  TrickleMinPending = 1
  TrickleMinPendingDebug = 0
  TrickleContent = 5
  TrickleContentDebug = 3
  MaxTrickleContentBytes = 5
  XmlLens = {3}
  MaxMisreads = 1
  MaxCrashes = 2
INVARIANTS
  UploadedIsRecorded
  IInv
  CrashCostsOneSample
  BoundedRedelivery
PROPERTIES
  ImplementsLedger
  JobFinishes
