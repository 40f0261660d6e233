CONSTANTS
    Interval = 3
    RetryDelay = 2
    RetryCount = 2
    ReadErrorThreshold = 1
    NumSamples = 4
    OpenSecs = 2
    SampleSecs = 2
SPECIFICATION FairSpec
INVARIANTS TypeOK PromptExit SuspendRespected CleanStop SamplesSpaced TurnsTakeTime
PROPERTY Resumes
CHECK_DEADLOCK FALSE
