SPECIFICATION Spec
CONSTANTS
    ClockSize = 9
    KeepAliveMs = 3
    PingRespTimeout = 1
    RecvPollingTimeout = 1
    SendRetryTimeout = 1
    ConnackTimeout = 2
    LoopTimeout = 2
    BufferSize = 2
    Publishes <- SmallAndLarge
    MaxUnread = 1
    MaxPause = 1
PROPERTIES PingTimeoutHonoured
