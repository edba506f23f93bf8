SPECIFICATION FairSpec
CONSTANTS
    RecordCount = 3
    TableSize = 2
    MaxPacketId = 8
    MaxAttempts = 1
    MaxPayloads = 4
    Inbound = {}
    InboundIds = {1}
    Faults = {"break", "send", "late"}
    MaxFaults = 3
PROPERTIES StoredEventuallyArrives
