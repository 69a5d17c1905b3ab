CONSTANTS
    OldEventThreshold = 2
    MaxEvents = 2
    OtherPackets = {o1, o2}
    OwnPackets = {u1}
    Downlinks = {d1}
    MaxAttempts = 1
    NumPaths = 2
    Matrix = "GOURSAUD"
    MaxTime = 4
    Signals <- MCSignals
    Powers <- MCPowers
    Window <- MCWindow
    Callbacks <- MCCallbacks
    Current <- MCCurrent
    TxCurrentOf <- MCTxCurrentOf
    o1 = o1
    o2 = o2
    u1 = u1
    d1 = d1
SPECIFICATION Spec
INVARIANT InterferersAreListed
INVARIANT NoDoubleCapture
INVARIANT EnergyIsAccounted
INVARIANT CountsAddUp
CHECK_DEADLOCK FALSE
