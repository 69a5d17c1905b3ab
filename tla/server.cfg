SPECIFICATION FairSpec
CONSTANTS
    NumGateways = 2
    Power = {10}
    WindowDelay = 2
    CopySpread = 1
    UplinkGap = 6
    CounterValues = 4
    RequestSets = {{}, {"confirmed"}, {"linkCheckReq"}, {"adrAckReq", "linkCheckReq"}}
    MaxUplinks = 3
INVARIANTS
    TypeOK
    OneReplyIfAsked
    ReplyFitsUplink
    ReplyInTime
PROPERTIES
    AnsweredOrGivenUp
CHECK_DEADLOCK FALSE
