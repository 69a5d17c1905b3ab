-------------------------- MODULE MCHeaderExchange --------------------------
(* Two devices, the second one past the wrap of the 25 address bits.          *)
EXTENDS HeaderExchange

MCFirstAddress == [nwkId |-> 54, nwkAddr |-> AddrRange - 1]
MCPayload == <<170, 187>>
MCAnswers == {[type |-> "DevStatusAns", battery |-> 200, margin |-> 6],
              [type |-> "NewChannelAns", dataRateRangeOk |-> FALSE,
               channelFrequencyOk |-> TRUE]}
MCTimingAnswers == {[type |-> "RxTimingSetupAns"], [type |-> "TxParamSetupAns"],
                    [type |-> "DlChannelAns"]}
=============================================================================
