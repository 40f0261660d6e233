SPECIFICATION Spec
CONSTANTS
  NumSamples = {4}
  MaxNumSamples = 4
  AlmostDoneMargin = 2
  ReadErrorThreshold = 1
  RetryCount = 1
  RetryCountDebug = 2
  TrickleMinPending = 2
  TrickleMinPendingDebug = 1
  TrickleContent = 7
  TrickleContentDebug = 5
  MaxTrickleContentBytes = 7
  XmlLens = {3}
  MaxMisreads = 0
  MaxCrashes = 1
INVARIANT
  SavedSurvive
