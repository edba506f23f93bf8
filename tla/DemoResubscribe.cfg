SPECIFICATION Spec
CONSTANTS
    RecordCount = 3
    TableSize = 2
    MaxPacketId = 8
    MaxAttempts = 1
    MaxPayloads = 1
    Inbound = {}
    InboundIds = {1}
    Faults = {"late"}
    MaxFaults = 1
INVARIANTS ResubscribesAfterSuback
