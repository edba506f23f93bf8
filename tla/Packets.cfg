SPECIFICATION Spec
CONSTANTS
    Connects <- MCConnects
    Subscriptions <- MCSubscriptions
    Publishes <- MCPublishes
    Acks <- MCAcks
    Rooms <- MCRooms
    Lengths <- MCLengths
    Streams <- MCStreams
    TopicNames <- MCTopicNames
    TopicFilters <- MCTopicFilters
INVARIANTS
    TypeOK
    FitsBuffer
    BrokerUnderstands
    SizesExact
    CanonicalInbound
    SubackTruth
    MatchExact
