CONSTANTS
    Minute = 2
    LongGap = 1
    TrickleInterval = 2
    MinPending = 0
    MaxContent = 1
    CpmValues <- LowAndHigh
    WordMod = 100
    MaxTime = 3
    MaxSamples = 3
    MaxMishaps = 2
SPECIFICATION Spec
INVARIANTS TypeOK SendsSpaced CounterCoversTime FirstLineIsFresh GapsMarked NoLeap
