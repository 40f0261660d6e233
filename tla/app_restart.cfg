SPECIFICATION Spec
CONSTANTS
  NumSamples = {2, 3}
  MaxNumSamples = 3
  AlmostDoneMargin = 1
  ReadErrorThreshold = 1
  RetryCount = 1
  RetryCountDebug = 2
  TrickleMinPending = 1
  TrickleMinPendingDebug = 0
  TrickleContent = 7
  TrickleContentDebug = 5
  MaxTrickleContentBytes = 7
  XmlLens = {2, 3}
  MaxMisreads = 1
  MaxCrashes = 1
INVARIANTS
  TypeOK
  LinesWithinQuota
  FractionWithinOne
  ProgressMatchesDisk
  PortOwned
  BufferFits
  OnceWithoutCrash
  EverythingDelivered
PROPERTY
  NoSilentDrop
  ImplementsDetector
  StepsLeadOn
