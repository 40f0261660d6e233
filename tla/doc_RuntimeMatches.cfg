CONSTANTS
    Interval = 3
    RetryDelay = 2
    RetryCount = 2
    ReadErrorThreshold = 2
    NumSamples = 4
    OpenSecs = 2
    SampleSecs = 2
SPECIFICATION Spec
INVARIANT RuntimeMatches
CHECK_DEADLOCK FALSE
