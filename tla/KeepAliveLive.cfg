SPECIFICATION FairSpec
CONSTANTS
    ClockSize = 11
    KeepAliveMs = 1
    PingRespTimeout = 1
    RecvPollingTimeout = 1
    SendRetryTimeout = 1
    ConnackTimeout = 2
    LoopTimeout = 2
    BufferSize = 2
    Publishes = {}
    MaxUnread = 1
    MaxPause = 1
PROPERTIES SilenceNoticed
