------------------------------- MODULE MCRadio -------------------------------
(* Small instances of Radio.  A tick is a second, what a frame without        *)
(* payload takes at SF12; 40 bytes take two, as long as OldEventThreshold.    *)
(* The short one is stronger at the gateway, the long one at the end device.  *)
EXTENDS Radio, AirTime

CONSTANTS o1, o2, u1, d1

Ticks(size) == Ceil(GetOnAirTime(size, TxParameters(12, 125000)), 1000000)
Signal(size, atGateway, atDevice) ==
    [duration |-> Ticks(size), power |-> [gw |-> atGateway, ed |-> atDevice],
     sf |-> 12, frequency |-> 868100000]
Short == Signal(9, -118, -124)
Long == Signal(40, -124, -118)
MCSignals == o1 :> {Short, Long} @@ o2 :> {Long} @@ u1 :> {Short} @@ d1 :> {Long}
MCWindow == [frequency |-> 868100000, sf |-> 12]

MCPowers == {14}
MCTxCurrentOf == 14 :> 77
MCCurrent == "SLEEP" :> 0 @@ "STANDBY" :> 1 @@ "RX" :> 11 @@ "TX" :> 28
MCCallbacks == {"STANDBY"}
=============================================================================
