SPECIFICATION FairSpec
CONSTANTS
    HalfCycle = 5
    MinDelay = 1
    QueueSize = 1
    SettleEdges = 2
    MaximumRetry = 2
    SensorValues <- MCSensorValues
    HitBits = {16}
    Stolen = {0, 40}
    TargetLevel = 35
    BackoffBase = 500
    BackoffMaxDelay = 5000
    BackoffMaxAttempts = 5
    Randoms = {0, 2147483647}
INVARIANTS
    TypeOK
    OnExactlyFromAngle
    DarkUntilEnabled
    FailOnlyWhenExhausted
    NoBitAfterDelete
    GoodReadingIsMeasured
    BackoffWithinSchedule
    NoTlsLeak
    DocumentAfterStart
PROPERTIES
    NobodyReconnects
    SensorReadForever
