CONSTANTS
    VersionLen = 5
    MaxVersionReads = 4
    GetCpmAttempts = 2
    ReadAttempts = 2
    ReadErrorThreshold = 1
    Devices <- InTimeAndAny
    MaxOpens = 2
    MaxAsked = 2
    MaxBeats = 1
SPECIFICATION FairSpec
INVARIANTS TypeOK ReadingIsAnswer LossIsExact
PROPERTIES ExchangesEnd ImplementsDetector
