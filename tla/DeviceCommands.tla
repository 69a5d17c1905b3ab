--------------------------- MODULE DeviceCommands ---------------------------
(* What a device does to its own transmission parameters: the MAC commands it *)
(* receives (EndDeviceLorawanMac::ParseCommands and the On... functions) and  *)
(* the ADR backoff and the checks of EndDeviceLorawanMac::Send.  A device is  *)
(* a record; every function of the code is an operator from device to device. *)
(* Receive windows and retransmissions are in ClassAEndDevice.                *)
EXTENDS ChannelPlan, MacCommands, SequencesExt

CONSTANTS ADR_ACK_LIMIT,    \* uplinks without downlink before ADRACKReq is set
          ADR_ACK_DELAY     \* and further ones before the backoff

ASSUME AdrAckAssumption == ADR_ACK_LIMIT \in Nat \ {0} /\ ADR_ACK_DELAY \in Nat

NewDevice(region, dr, adr) ==
    [dr |-> dr, power |-> 14, nbTrans |-> 1, adr |-> adr,
     region |-> region, channels |-> Channels(region),
     commands |-> <<>>,                             \* m_macCommandList
     adrAckCnt |-> 0, adrAckReq |-> FALSE,
     rx1DrOffset |-> 0,
     rx2Dr |-> SecondWindowDataRate, rx2Frequency |-> SecondWindowFrequency,
     linkMargin |-> 0, gatewayCount |-> 0,
     lastSnr |-> 32, dutyCycleExponent |-> 0,
     fault |-> "none"]      \* the exception or assertion that stopped the program

Throw(d, why) == [d EXCEPT !.fault = why]
Answer(d, answer) == [d EXCEPT !.commands = Append(@, answer)]
Compatible(d) == GetCompatibleTxChannels(d.channels, Bands(d.region), d.dr, d.power)

------------------------------------------------------------------------------
(* Commands from the server                                                   *)

OnLinkCheckAns(d, c) == [d EXCEPT !.linkMargin = c.margin, !.gatewayCount = c.gwCnt]

(* ChMaskCntl 6 stands for all channels, whatever the mask says.              *)
MaskOf(d, c) == IF c.chMaskCntl = 6 THEN DOMAIN d.channels ELSE BitsOf(c.chMask)
ChannelMaskOk(d, c) ==
    /\ c.chMaskCntl \in {0, 6}
    /\ MaskOf(d, c) # {}
    /\ MaskOf(d, c) \cap Slots(d.region) \subseteq DOMAIN d.channels

(* One of the masked channels has the data rate; an empty slot, in a mask     *)
(* that is refused anyway, has every data rate of the region.                 *)
DataRateOk(d, c) ==
    \/ c.dataRate = 15
    \/ \E i \in MaskOf(d, c) \cap Slots(d.region) :
          IF Exists(d.channels, i) THEN Supports(d.channels[i], c.dataRate)
                                   ELSE ValidDataRate(c.dataRate)
PowerOk(c) == c.txPower = 15 \/ GetDbmForTxPower(c.txPower) >= 0

LinkAdrAnswer(power, dataRate, mask) ==
    [type |-> "LinkAdrAns", powerAck |-> power, dataRateAck |-> dataRate,
     channelMaskAck |-> mask]

(* Without ADR only the mask counts, if it suits the current data rate.       *)
OnLinkAdrReqStatic(d, c) ==
    LET ok == /\ ChannelMaskOk(d, c)
              /\ \E i \in MaskOf(d, c) \cap Slots(d.region) :
                    Supports(d.channels[i], d.dr)
        set == IF ok THEN [d EXCEPT !.channels = ApplyMask(@, MaskOf(d, c))] ELSE d
    IN  Answer(set, LinkAdrAnswer(FALSE, FALSE, ok))

OnLinkAdrReqAdaptive(d, c) ==
    LET ok == ChannelMaskOk(d, c) /\ DataRateOk(d, c) /\ PowerOk(c)
        set == [d EXCEPT
                  !.channels = ApplyMask(@, MaskOf(d, c)),
                  !.power = IF c.txPower # 15 THEN GetDbmForTxPower(c.txPower) ELSE @,
                  !.nbTrans = Max({c.nbTrans, 1}),
                  !.dr = IF c.dataRate # 15 THEN c.dataRate ELSE @]
    IN  Answer(IF ok THEN set ELSE d,
               LinkAdrAnswer(PowerOk(c), DataRateOk(d, c), ChannelMaskOk(d, c)))

OnLinkAdrReq(d, c) == IF d.adr THEN OnLinkAdrReqAdaptive(d, c) ELSE OnLinkAdrReqStatic(d, c)

OnDutyCycleReq(d, c) == Answer([d EXCEPT !.dutyCycleExponent = c.maxDutyCycle],
                               [type |-> "DutyCycleAns"])

OnRxParamSetupReq(d, c) ==
    LET offsetOk == c.rx1DrOffset \in DOMAIN ReplyDataRateMatrix[d.dr]
        rateOk == ValidDataRate(c.rx2DataRate)
        frequencyOk == IsFrequencyValid(Bands(d.region), c.frequencyHz)
        set == [d EXCEPT !.rx1DrOffset = c.rx1DrOffset, !.rx2Dr = c.rx2DataRate,
                         !.rx2Frequency = c.frequencyHz]
    IN  Answer(IF offsetOk /\ rateOk /\ frequencyOk THEN set ELSE d,
               [type |-> "RxParamSetupAns", rx1DrOffsetAck |-> offsetOk,
                rx2DataRateAck |-> rateOk, channelAck |-> frequencyOk])

(* A node without an energy source reports 255.  The signal-to-noise ratio is *)
(* clamped to six bits; the conversion of a negative double to std::bitset is *)
(* undefined: two's complement on one machine, zero on another.               *)
Clamped(snr) == Max({-32, Min({31, snr})})
OnDevStatusReq(d) ==
    {Answer(d, [type |-> "DevStatusAns", battery |-> 255, margin |-> m]) :
        m \in IF d.lastSnr >= 0 THEN {Clamped(d.lastSnr)} ELSE {Clamped(d.lastSnr) % 64, 0}}

(* GetSfFromDataRate is asked first and knows fewer data rates, so that the   *)
(* look-up of the bandwidth that would throw is never made.                   *)
LookupThrows(dr) == GetSfFromDataRate(dr) # 0 /\ BandwidthThrows(dr)

OnNewChannelReq(d, c) ==
    LET indexOk == c.chIndex \in Slots(d.region) \ 0 .. 2
        rangeOk == /\ indexOk
                   /\ ValidDataRate(c.minDataRate) /\ ValidDataRate(c.maxDataRate)
                   /\ c.minDataRate <= c.maxDataRate
        frequencyOk == /\ indexOk
                       /\ \/ c.frequencyHz = 0
                          \/ IsFrequencyValid(Bands(d.region), c.frequencyHz)
        channel == [LogicalChannel(c.frequencyHz, c.minDataRate, c.maxDataRate)
                       EXCEPT !.enabled = c.frequencyHz # 0]
        set == [d EXCEPT !.channels = SetChannel(@, c.chIndex, channel)]
    IN  IF LookupThrows(c.minDataRate) \/ LookupThrows(c.maxDataRate)
        THEN Throw(d, "vector::at")
        ELSE Answer(IF rangeOk /\ frequencyOk THEN set ELSE d,
                    [type |-> "NewChannelAns", dataRateRangeOk |-> rangeOk,
                     channelFrequencyOk |-> frequencyOk])

(* The commands of one downlink, in their order; others are not recognised.   *)
OnCommand(d, c) == CASE c.type = "LinkCheckAns"    -> {OnLinkCheckAns(d, c)}
                     [] c.type = "LinkAdrReq"      -> {OnLinkAdrReq(d, c)}
                     [] c.type = "DutyCycleReq"    -> {OnDutyCycleReq(d, c)}
                     [] c.type = "RxParamSetupReq" -> {OnRxParamSetupReq(d, c)}
                     [] c.type = "DevStatusReq"    -> OnDevStatusReq(d)
                     [] c.type = "NewChannelReq"   -> {OnNewChannelReq(d, c)}
                     [] OTHER                      -> {d}
ParseCommands(d, commands) ==
    FoldLeft(LAMBDA ds, c : UNION {OnCommand(e, c) : e \in ds}, {d}, commands)

(* A downlink for the device, received with a signal-to-noise ratio.          *)
Receive(d, commands, snr) ==
    ParseCommands([d EXCEPT !.adrAckCnt = 0, !.lastSnr = snr], commands)

------------------------------------------------------------------------------
(* Sending                                                                    *)

(* The mutant stops when power is back and never lowers the data rate.        *)
PowerBackoff(d) == IF d.adr THEN [d EXCEPT !.power = 14] ELSE d
ExecuteADRBackoff(d) ==
    IF ~d.adr THEN d
    ELSE IF d.power < 14 THEN [d EXCEPT !.power = 14]
    ELSE IF d.dr # 0 THEN [d EXCEPT !.dr = @ - 1]
    ELSE IF ~ 0 .. 2 \subseteq Slots(d.region) THEN Throw([d EXCEPT !.nbTrans = 1], "vector::at")
    ELSE [d EXCEPT !.nbTrans = 1,
                   !.channels = [i \in DOMAIN @ |-> IF i \in 0 .. 2
                                    THEN [@[i] EXCEPT !.enabled = TRUE] ELSE @[i]]]

(* m_adrAckReq and the backoff, at the start of Send.  The mutant does not    *)
(* set the counter back.                                                      *)
EvaluateUncounted(d) ==
    LET asking == [d EXCEPT !.adrAckReq = d.adrAckCnt >= ADR_ACK_LIMIT]
    IN  IF d.adrAckCnt >= ADR_ACK_LIMIT + ADR_ACK_DELAY THEN ExecuteADRBackoff(asking)
        ELSE asking
EvaluateBackoff(d) ==
    LET asking == [d EXCEPT !.adrAckReq = d.adrAckCnt >= ADR_ACK_LIMIT]
    IN  IF d.adrAckCnt >= ADR_ACK_LIMIT + ADR_ACK_DELAY
        THEN [ExecuteADRBackoff(asking) EXCEPT !.adrAckCnt = ADR_ACK_LIMIT]
        ELSE asking

FOptsLen(d) == FoldLeft(LAMBDA n, c : n + SerializedSize(c.type), 0, d.commands)
\* The mutant takes the largest payload to be too long.
IsPayloadSizeBelow(d, appPayloadSize) ==
    7 + FOptsLen(d) + 1 + appPayloadSize < At(MaxMacPayloadForDataRate, d.dr)
IsPayloadSizeValid(d, appPayloadSize) ==
    7 + FOptsLen(d) + 1 + appPayloadSize <= At(MaxMacPayloadForDataRate, d.dr)

GetFirstReceiveWindowDataRate(d) == ReplyDataRateMatrix[d.dr][d.rx1DrOffset]

(* DoSend of a new packet: the pending answers go with it.                    *)
AfterDoSend(d) == [d EXCEPT !.commands = <<>>, !.adrAckCnt = @ + 1]
=============================================================================
