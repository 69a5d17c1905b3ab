SPECIFICATION FairSpec
CONSTANTS
    Frame = {u1, u2, d1}
    Uplink = {u1, u2}
    None = None
    NumPaths = 2
    RxTimes = {2, 3}
    TxTime = 2
    SubBand = {band}
    Rest <- LongRest
    MaxOrders = 2
INVARIANTS
    TypeOK
    PathsAreLocked
    OneOutcome
    HalfDuplex
PROPERTIES
    EveryFrameIsTraced
CHECK_DEADLOCK FALSE
