CONSTANTS
    OldEventThreshold = 2
    MaxEvents = 2
    OtherPackets = {o1}
    OwnPackets = {}
    Downlinks = {d1}
    MaxAttempts = 2
    NumPaths = 2
    Matrix = "GOURSAUD"
    MaxTime = 6
    Signals <- MCSignals
    Powers <- MCPowers
    Window <- MCWindow
    Callbacks <- MCCallbacks
    Current <- MCCurrent
    TxCurrentOf <- MCTxCurrentOf
    o1 = o1
    o2 = o2
    u1 = u1
    d1 = d1
SPECIFICATION Spec
INVARIANT PacketIsFound
CHECK_DEADLOCK FALSE
