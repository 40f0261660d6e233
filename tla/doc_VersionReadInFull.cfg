CONSTANTS
    VersionLen = 5
    MaxVersionReads = 4
    GetCpmAttempts = 2
    ReadAttempts = 2
    ReadErrorThreshold = 1
    Devices <- JoiningDevice
    MaxOpens = 1
    MaxAsked = 1
    MaxBeats = 0
SPECIFICATION Spec
INVARIANT VersionReadInFull
