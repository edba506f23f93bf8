SPECIFICATION Spec
CONSTANTS
    RecordCount = 3
    TableSize = 2
    MaxPacketId = 8
    MaxAttempts = 1
    MaxPayloads = 1
    Inbound = {m1, m2}
    InboundIds = {1}
    Faults = {"send", "connack"}
    MaxFaults = 3
INVARIANTS AcknowledgedWasSeen
