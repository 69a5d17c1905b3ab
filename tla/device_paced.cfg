SPECIFICATION FairSpec
CONSTANTS
    MaxPackets = 2
    Confirmed = TRUE
    Paced = TRUE
    NbTrans = 3
    TxTime = 1
    ReceiveDelay1 = 3
    ReceiveDelay2 = 6
    WindowTime1 = 1
    WindowTime2 = 1
    RxTimes = {2, 4}
    AckTimeouts = {3, 5, 9}
    FCntValues = 65536
    DutyWait = 13
INVARIANTS
    TypeOK
    OneReport
PROPERTIES
    EachIsReported
