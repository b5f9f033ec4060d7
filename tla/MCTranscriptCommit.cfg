CONSTANTS
    d1 = d1
    d2 = d2
    d3 = d3
    None = None
    Deliveries = {d1, d2, d3}
SPECIFICATION FairSpec
INVARIANTS
    TypeOK
    AnsweredIsDurable
    ReplyLostOnlyByLapse
PROPERTIES
    OneOutcomeHolds
    EveryDeliveryEnds
CHECK_DEADLOCK FALSE
