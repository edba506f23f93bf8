SPECIFICATION FairSpec
CONSTANTS
    RecordCount = 3
    TableSize = 2
    MaxPacketId = 5
    MaxAttempts = 1
    MaxPayloads = 3
    Inbound = {}
    InboundIds = {1}
    Faults = {"break", "send", "late", "connack", "reject", "expire", "restart"}
    MaxFaults = 2
INVARIANTS TypeOK StoredHasRecord PubacksExpected AnswersMatchRequests
PROPERTIES UsesLibraryAsModelled ImplementsAtLeastOnce EveryIterationEnds
