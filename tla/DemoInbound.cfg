SPECIFICATION Spec
CONSTANTS
    RecordCount = 2
    TableSize = 1
    MaxPacketId = 4
    MaxAttempts = 1
    MaxPayloads = 1
    Inbound = {m1, m2}
    InboundIds = {1}
    Faults = {"break", "send", "late", "expire", "restart"}
    MaxFaults = 3
INVARIANTS AcknowledgedWasSeen
