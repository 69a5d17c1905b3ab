------------------------------- MODULE AdrLoop -------------------------------
(* A device whose parameters the network server adapts, and the link between  *)
(* them: the backoff and the MAC commands of the device (DeviceCommands), the *)
(* controller components of the server (AdrComponent, LinkCheckComponent,     *)
(* ConfirmedMessagesComponent) and the gateways and powers of an uplink and   *)
(* of its reply.  Uplinks are unconfirmed and their counters do not repeat.   *)
EXTENDS DeviceCommands, AdrAlgorithm

CONSTANTS
    Region,           \* the region of the MAC helper
    PathLosses,       \* each a function from gateways to dB/4 (one is the link's)
    Shares,           \* cumulated, of the devices that start with data rates 5 to 0
    Methods,          \* pairs of combining methods, packets first
    HistoryRange,     \* packets the ADR component looks at
    ChangeTransmissionPower,    \* whether it may change the power
    AppPayloads,      \* the sizes of application packets, in bytes
    RequestSets       \* what else controllers and application may ask for, once each

ASSUME HistoryAssumption == HistoryRange \in Nat \ {0}
ASSUME PayloadAssumption ==
    AppPayloads \subseteq Nat /\ AppPayloads # {} /\ IsFiniteSet(AppPayloads)
ASSUME ToggleAssumption == ChangeTransmissionPower \in BOOLEAN
ASSUME MethodsAssumption == Methods \subseteq CombiningMethod \X CombiningMethod
ASSUME PathLossAssumption ==
    \A loss \in PathLosses : /\ IsFiniteSet(DOMAIN loss) /\ DOMAIN loss # {}
                              /\ \A g \in DOMAIN loss : loss[g] \in Int

\* In ALOHA the gateway asserts when it is asked for the second window.
ASSUME RegionAssumption ==
    Region \in Regions /\ IsFrequencyValid(GatewayBands(Region), SecondWindowFrequency)

(* What other controller components may add to a reply, and the application   *)
(* to an uplink with AddMacCommand: all of one of the sets, or less.          *)
Request ==
    LinkCheckReq \cup LinkAdrReq \cup DutyCycleReq \cup DevStatusReq
    \cup RxTimingSetupReq \cup TxParamSetupReq
    \cup [type : {"RxParamSetupReq"}, rx1DrOffset : 0 .. 7, rx2DataRate : Nibble,
          frequencyHz : Nat]
    \cup [type : {"NewChannelReq"}, chIndex : Byte, frequencyHz : Nat,
          minDataRate : Nibble, maxDataRate : Nibble]
Requests == UNION RequestSets
ASSUME RequestsAssumption == Requests \subseteq Request

VARIABLES
    dev,              \* the device
    pathLoss,         \* of this link, for every gateway
    method,           \* historyAveraging and tpAveraging
    storm,            \* interference may still destroy any frame
    phase,            \* of the current uplink: "idle", "up", "open" or "down"
    frame,            \* the uplink in the air, or the last one
    listenDr,         \* what the PHY listens to in the first window
    reply,            \* the downlink
    postponed,        \* sub-bands m_nextTx waits for, {} if there is no such event
    resting,          \* sub-bands that must not be used yet
    history,          \* the received powers of the last packets
    requests,         \* not sent yet
    turn              \* an even number of packets of the smallest size so far

vars == <<dev, pathLoss, method, storm, phase, frame, listenDr, reply,
          postponed, resting, history, requests, turn>>
config == <<pathLoss, method>>

\* target is what the ADR component takes the device to use from then on.
NoReply == [needed |-> FALSE, window |-> 0, dr |-> 0, commands |-> <<>>, target |-> <<>>]
NoFrame == [sf |-> 0, power |-> 0, adr |-> FALSE, adrAckReq |-> FALSE, linkCheck |-> FALSE]

------------------------------------------------------------------------------
(* Powers, in quarters of a dB                                                *)
GatewaySensitivity == <<-520, -530, -540, -550, -560, -570>>       \* SF7 .. SF12
RxPowers(power) == [g \in DOMAIN pathLoss |-> Db * power - pathLoss[g]]
Heard(sf, power) ==
    {g \in DOMAIN pathLoss : RxPowers(power)[g] >= At(GatewaySensitivity, sf - 7)}
BestLoss == Min(Values(pathLoss))

(* The gateway sends with the power its sub-band allows.                      *)
DownlinkPower(window) ==
    Db * (IF window = 1 THEN 14
          ELSE GetTxPowerForChannel(GatewayBands(Region), SecondWindowFrequency))
      - BestLoss

(* The first window is heard with the spreading factor set when the uplink    *)
(* went out, the second one on the frequency that the server knows of.        *)
DeviceHears ==
    LET sf == GetSfFromDataRate(IF reply.window = 1 THEN listenDr ELSE dev.rx2Dr)
    IN  /\ DownlinkPower(reply.window) >= At(EndDeviceSensitivity, sf - 7)
        /\ IF reply.window = 1 THEN reply.dr = listenDr
                               ELSE dev.rx2Frequency = SecondWindowFrequency
DownlinkSnr == (RxPowerToSNR(DownlinkPower(reply.window)) + 2) \div Db

------------------------------------------------------------------------------
(* By the received power, or whatever the link is.                            *)
InitialDataRates == {SetSpreadingFactorsUp(Values(RxPowers(14)))}
    \cup {SetSpreadingFactorsGivenDistribution(Shares, draw) : draw \in 0 .. 99}

Init == /\ pathLoss \in PathLosses /\ method \in Methods
        /\ \E adr \in BOOLEAN, dr \in InitialDataRates : dev = NewDevice(Region, dr, adr)
        /\ storm \in BOOLEAN
        /\ phase = "idle" /\ frame = NoFrame /\ listenDr = 0 /\ reply = NoReply
        /\ postponed = {} /\ resting = {} /\ history = <<>>
        /\ requests \in RequestSets /\ turn = TRUE

(* DoSend, SendToPhy and LoraPhy::Send: on one of the channels whose sub-band *)
(* is free, or on none, which is a null pointer.  During a transmission the   *)
(* radio drops the packet.                                                    *)
FreeBands(d) == {GetSubBandFromFrequency(Bands(Region), d.channels[i].frequency) :
                    i \in Compatible(d)} \ resting
FrameOf(d) == [sf |-> GetSfFromDataRate(d.dr), power |-> d.power, adr |-> d.adr,
               adrAckReq |-> d.adrAckReq,
               linkCheck |-> \E i \in DOMAIN d.commands : d.commands[i].type = "LinkCheckReq"]
DoSend(d) ==
    /\ postponed' = {}
    /\ IF AssertsInBand(d.channels, Bands(Region)) \/ FreeBands(d) = {}
       THEN /\ dev' = Throw(d, "no channel")
            /\ UNCHANGED <<phase, frame, listenDr, resting>>
       ELSE \E b \in FreeBands(d) :
               /\ dev' = AfterDoSend(d)
               /\ listenDr' = GetFirstReceiveWindowDataRate(d)
               /\ resting' = resting \cup {b}
               /\ phase' = "up"
               /\ frame' = IF phase = "up" THEN frame ELSE FrameOf(d)

(* EndDeviceLorawanMac::Send: the packet is refused, postponed or sent.       *)
Refuse(d) == /\ dev' = d
             /\ UNCHANGED <<phase, frame, listenDr, postponed, resting>>
Postpone(d) == /\ dev' = d
               /\ postponed' = {GetSubBandFromFrequency(Bands(Region), d.channels[i].frequency) :
                                    i \in Compatible(d)}
               /\ UNCHANGED <<phase, frame, listenDr, resting>>
AppSend(payload) ==
    /\ LET d == EvaluateBackoff(dev)
       IN  IF d.fault # "none" \/ ~IsPayloadSizeValid(d, payload) THEN Refuse(d)
           ELSE IF AssertsInBand(d.channels, Bands(Region)) THEN Refuse(Throw(d, "out of band"))
           ELSE IF Compatible(d) = {} THEN Refuse(d)
           ELSE IF phase \in {"open", "down"} \/ FreeBands(d) = {} THEN Postpone(d)
           ELSE DoSend(d)
    /\ turn' = IF payload = Min(AppPayloads) THEN ~turn ELSE turn
    /\ UNCHANGED <<config, storm, reply, history, requests>>

(* m_nextTx: a sub-band among those of the moment of Send has become free.    *)
RunDoSend == /\ phase = "idle" /\ postponed \ resting # {}
             /\ DoSend(dev)
             /\ UNCHANGED <<config, storm, reply, history, requests, turn>>

(* A sub-band rests for 99 air times or more, longer than the windows.        *)
Rested == /\ phase = "idle"
          /\ \E b \in resting : resting' = resting \ {b}
          /\ UNCHANGED <<dev, config, storm, phase, frame, listenDr, reply,
                         postponed, history, requests, turn>>

(* EndDeviceLorawanMac::AddMacCommand, with a request to check the link.      *)
AddLinkCheck == /\ [type |-> "LinkCheckReq"] \in requests
                /\ dev' = [dev EXCEPT !.commands = Append(@, [type |-> "LinkCheckReq"])]
                /\ requests' = requests \ {[type |-> "LinkCheckReq"]}
                /\ UNCHANGED <<config, storm, phase, frame, listenDr, reply,
                               postponed, resting, history, turn>>

(* The gateways that hear the uplink forward it: EndDeviceStatus::            *)
(* InsertReceivedPacket keeps a list of which the last packets are used, and  *)
(* ConfirmedMessagesComponent notes that ADRACKReq wants an answer.           *)
Insert(packets, rx) ==
    SubSeq(packets \o <<rx>>, Max({1, Len(packets) + 2 - HistoryRange}), Len(packets) + 1)
UplinkArrives ==
    /\ phase = "up" /\ phase' = "open"
    /\ \E lost \in {FALSE, storm} :
         LET heard == IF lost THEN {} ELSE Heard(frame.sf, frame.power)
         IN  IF heard = {} THEN UNCHANGED <<history, reply>>
             ELSE /\ history' = Insert(history, [g \in heard |-> RxPowers(frame.power)[g]])
                  /\ reply' = [NoReply EXCEPT !.needed = frame.adrAckReq, !.window = 1]
    /\ UNCHANGED <<dev, config, storm, frame, listenDr, postponed, resting, requests, turn>>

(* BeforeSendingReply of LinkCheckComponent: the margin of the best gateway.  *)
LinkCheckAnswer ==
    LET rx == Last(history)
        diff == (RxPowerToSNR(Max(Values(rx))) - ThresholdOf(frame.sf)) \div Db
    IN  IF frame.linkCheck
        THEN <<[type |-> "LinkCheckAns", margin |-> Max({0, Min({254, diff})}),
                gwCnt |-> Cardinality(DOMAIN rx)]>>
        ELSE <<>>

(* BeforeSendingReply of AdrComponent.  The power is read from the device.    *)
AdrTarget ==
    LET new == AdrImplementation(CombinedSNR(method[1], method[2], history), frame.sf, dev.power)
    IN  IF ChangeTransmissionPower THEN new ELSE [new EXCEPT !.txPower = dev.power]
LinkAdrRequest(target) ==
    [type |-> "LinkAdrReq", dataRate |-> target.dataRate,
     txPower |-> GetTxPowerIndex(target.txPower), chMask |-> 7, chMaskCntl |-> 0, nbTrans |-> 1]
AdrAnswer ==
    IF /\ frame.adr /\ Len(history) = HistoryRange
       /\ AdrTarget # [dataRate |-> SfToDr(frame.sf), txPower |-> dev.power]
    THEN <<LinkAdrRequest(AdrTarget)>>
    ELSE <<>>

(* The controller asks its components in the order of their installation.     *)
BeforeSendingReply == LinkCheckAnswer \o AdrAnswer

(* NetworkScheduler::OnReceiveWindowOpportunity for the window in which a     *)
(* gateway is free, and NetworkStatus::GetReplyForDevice: the data rate of    *)
(* the reply is read from the device at that moment.                          *)
OnReceiveWindowOpportunity ==
    /\ phase = "open" /\ reply.window > 0
    /\ \E window \in {1, 2}, extra \in {{}} \cup {{r} : r \in requests} :
         LET commands == BeforeSendingReply \o SetToSeq(extra)
         IN  /\ \A r \in extra : r.type # "LinkCheckReq"
             /\ requests' = requests \ extra
             /\ IF reply.needed \/ commands # <<>>
                THEN /\ phase' = "down"
                     /\ reply' = [needed |-> TRUE, window |-> window, commands |-> commands,
                                  target |-> IF AdrAnswer = <<>> THEN <<>> ELSE <<AdrTarget>>,
                                  dr |-> IF window = 1 THEN GetFirstReceiveWindowDataRate(dev)
                                                       ELSE dev.rx2Dr]
                ELSE reply' = NoReply /\ UNCHANGED phase
    /\ UNCHANGED <<dev, config, storm, frame, listenDr, postponed, resting, history, turn>>

(* The windows close without a downlink for the device.  Closing the second   *)
(* one cancels m_nextTx, unless a frame is being received then, or the packet *)
(* waits for the end of the windows alone and was handed over before the      *)
(* second one opened: its event is the older one and runs first.              *)
WindowsClose == /\ phase \in {"open", "down"}
                /\ \/ phase = "open" /\ (reply.window = 0 \/ storm)
                   \/ phase = "down" /\ (~DeviceHears \/ storm)
                /\ phase' = "idle" /\ reply' = NoReply
                /\ \/ postponed' = {}
                   \/ (storm \/ postponed \ resting # {}) /\ UNCHANGED postponed
                /\ UNCHANGED <<dev, config, storm, frame, listenDr, resting,
                               history, requests, turn>>

(* A reply in the first window cancels the second one, and one in the second  *)
(* is being received when that closes.                                        *)
ReceiveReply == /\ phase = "down" /\ DeviceHears
                /\ dev' \in Receive(dev, reply.commands, DownlinkSnr)
                /\ phase' = "idle" /\ reply' = NoReply
                /\ UNCHANGED <<config, storm, frame, listenDr, postponed, resting,
                               history, requests, turn>>

StormEnds == /\ storm /\ storm' = FALSE
             /\ UNCHANGED <<dev, config, phase, frame, listenDr, reply, postponed,
                            resting, history, requests, turn>>

Uplink == UplinkArrives \/ OnReceiveWindowOpportunity \/ WindowsClose \/ ReceiveReply

(* After a fault there is no program left to run.                             *)
Alive == dev.fault = "none"
Next == Alive /\ (\/ Uplink \/ Rested \/ RunDoSend \/ AddLinkCheck \/ StormEnds
                  \/ \E payload \in AppPayloads : AppSend(payload))

Spec == Init /\ [][Next]_vars

(* The simulator's clock goes on: an uplink goes through its windows, a       *)
(* sub-band through its rest, a postponed packet to the radio.  And so does a *)
(* periodic sender, whose random sizes are the smallest again and again.      *)
Clock == \/ phase # "idle" /\ phase' \in {"idle", "open", "down"}
            /\ UNCHANGED resting /\ postponed' \in {postponed, {}}
         \/ phase = "idle" /\ resting' \in SUBSET resting /\ UNCHANGED <<phase, postponed>>
         \/ phase = "idle" /\ postponed \ resting # {} /\ postponed' = {}
            /\ resting' \in SUBSET DOMAIN Bands(Region) /\ phase' \in {"idle", "up"}
FairSpec == /\ Spec
            /\ WF_<<phase, resting, postponed>>(Alive /\ Clock)
            /\ WF_turn(Alive /\ turn' = ~turn)

------------------------------------------------------------------------------
(* Types: data rate, power and offset stay in the tables that are read with   *)
(* them, and the counter of the backoff stays small (the assertion of Send).  *)
TypeOK ==
    /\ dev.dr \in 0 .. 6 /\ dev.power \in {At(TxDbmForTxPower, i) : i \in 0 .. 7}
    /\ dev.nbTrans \in 1 .. 15 /\ dev.rx1DrOffset \in 0 .. 5
    /\ dev.adrAckCnt \in 0 .. ADR_ACK_LIMIT + ADR_ACK_DELAY + 1
    /\ dev.fault \in {"none", "vector::at", "out of band", "no channel"}
    /\ phase \in {"idle", "up", "open", "down"} /\ storm \in BOOLEAN
    /\ listenDr \in 0 .. 6 /\ Len(history) <= HistoryRange
    /\ postponed \cup resting \subseteq DOMAIN Bands(Region)

(* No assertion, vector::at or null channel stops the device, and a packet    *)
(* that waits finds a channel when its time comes, while commands change data *)
(* rate, power and channels: as long as these lie in the sub-band of the      *)
(* default ones and one of those keeps the data rate.                         *)
NoFault == dev.fault = "none"

(* end-device-lorawan-mac.h:77 of PostponeTransmission: nextTxDelay is the    *)
(* "Delay at which the transmission will be performed".  It is not where a    *)
(* channel in another sub-band was masked meanwhile: DoSend gets no channel.  *)
TransmissionIsPerformed == dev.fault # "no channel"

(* How far the device is above the demodulation threshold at the gateway that *)
(* hears it best.                                                             *)
LinkMargin(d) == RxPowerToSNR(Db * d.power - BestLoss) - ThresholdOf(GetSfFromDataRate(d.dr))

(* A server that goes by the worst of the last packets never takes away the   *)
(* margin of a device, nor makes a link without margin worse, although its    *)
(* figures come from packets sent with other parameters, its power from the   *)
(* device itself, and a backoff may happen between uplink and reply.          *)
MarginKept == [][method[1] = "MINIMUM" =>
                    LinkMargin(dev') >= Min({0, LinkMargin(dev)})]_vars

(* What the ADR component asks for is what the device uses once it has heard  *)
(* of it: power index, mask and data rate mean the same at both ends, and the *)
(* channels of the device never refuse them.                                  *)
AdrIsObeyed ==
    [][reply.target # <<>> /\ dev' # dev /\ phase' = "idle" =>
          [dataRate |-> dev'.dr, txPower |-> dev'.power] = reply.target[1]]_vars

(* Once the interference is over a device hears from the server again and     *)
(* again, also one that starts too fast for its link: the backoff brings it   *)
(* back, wherever the server's orders and lost replies have left it.          *)
HeardAgain == dev.adr /\ ~storm ~> dev.adrAckCnt = 0

(* A periodic application is heard of again and again: whatever answers wait  *)
(* in FOpts and however low the backoff has gone, its smallest packets pass   *)
(* the size check, although postponed ones are cancelled with the windows.    *)
SendsAgain == []<>(phase = "up")

(* end-device-lorawan-mac.cc:187 of Send, of the size check: "This is OK      *)
(* because (by LoRaWAN design) you either use ADR and constrain your max app  *)
(* payload according to the default initial DR0".  With ADR and the largest   *)
(* payload that data rate 0 allows, one answer that waits is enough to have   *)
(* every packet refused, and no packet ever takes the answer away.            *)
LargestPayloadIsSent == dev.adr => []<>(phase = "up")
=============================================================================
