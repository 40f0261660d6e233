CONSTANTS
    IntHalf = 32768
    LongHalf = 524288
    SecondsPerMinute = 60
    RuntimeBuffer = 120
    EffectiveSec = 251
    DefaultNumSamples = 300
    ComPortMax = 99
    BaudMax = 30000
    BaudDefault = 576
    PrefTexts <- Debugs
    RuntimeTexts <- Runtimes
    GmcXml <- Files
    StackWords <- Words
    RetryCount = 10
    RetryCountDebug = 30
SPECIFICATION Spec
INVARIANTS TypeOK PrefsMatch DocumentFreed QuotaFitsRuntime SettingsReachPort
