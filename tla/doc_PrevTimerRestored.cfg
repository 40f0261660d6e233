CONSTANTS
    Minute = 2
    LongGap = 2
    TrickleInterval = 3
    MinPending = 1
    MaxContent = 3
    CpmValues <- LowAndHigh
    WordMod = 100
    MaxTime = 4
    MaxSamples = 2
    MaxMishaps = 1
SPECIFICATION Spec
INVARIANT PrevTimerRestored
