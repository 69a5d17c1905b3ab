--------------------------- MODULE ClassAEndDevice ---------------------------
(***************************************************************************)
(* A class A end device of the lorawan module: the MAC layer               *)
(* (EndDeviceLorawanMac, ClassAEndDeviceLorawanMac) and the PHY layer      *)
(* below it (EndDeviceLoraPhy, SimpleEndDeviceLoraPhy). The application    *)
(* above and the downlinks from the channel are its environment.           *)
(*                                                                         *)
(* The device is one record, dev: every method of the code is an operator  *)
(* from a device to a device, so that a handler is the composition of the  *)
(* calls it makes, in their order. Time is in ticks.                       *)
(***************************************************************************)
EXTENDS Integers, FiniteSets, EventQueue

CONSTANTS MaxPackets,       \* bound on the packets the application sends
          Confirmed,        \* m_mType is CONFIRMED_DATA_UP
          Paced,            \* the application waits for the device to be idle
          NbTrans,          \* m_nbTrans
          TxTime,           \* ticks an uplink is on the air
          ReceiveDelay1,    \* m_receiveDelay1, from the end of the uplink
          ReceiveDelay2,    \* m_receiveDelay2
          WindowTime1,      \* duration of the first receive window
          WindowTime2,      \* duration of the second one
          RxTimes,          \* durations of the downlinks
          AckTimeouts,      \* values of the random ACK_TIMEOUT, 1 s to 3 s
          FCntValues,       \* of m_currentFCnt, a uint16_t
          DutyWait          \* ticks a sub-band rests from the start of an uplink

ASSUME PacketAssumption == MaxPackets \in Nat /\ NbTrans \in 1 .. 15
                           /\ FCntValues \in Nat \ {0}
ASSUME ModeAssumption == Confirmed \in BOOLEAN /\ Paced \in BOOLEAN
ASSUME DelayAssumption == /\ TxTime \in Nat \ {0}
                          /\ ReceiveDelay1 \in Nat \ {0}
                          /\ ReceiveDelay2 \in Nat
                          /\ ReceiveDelay1 < ReceiveDelay2
                          /\ WindowTime1 \in Nat \ {0}
                          /\ WindowTime2 \in Nat \ {0}
                          /\ RxTimes \subseteq Nat \ {0}
                          /\ AckTimeouts \subseteq Nat /\ AckTimeouts # {}
                          /\ \A t \in AckTimeouts : t <= ReceiveDelay2 + ReceiveDelay1
                          /\ DutyWait \in Nat

Packet == 1 .. MaxPackets
None == 0
Slot == Packet \cup {None}

\* Where an NS_ASSERT, an NS_ABORT_MSG or a null channel can stop the program.
Faults == {"none", "SwitchToSleep", "Send", "SendToPhy", "CloseFirst"}

\* What the simulator runs later for the device. DoSend and Resend are the
\* event of m_nextTx, for a new packet and for m_retxParams.packet.
Kinds == {"DoSend", "Resend", "TxFinished", "OpenFirst", "CloseFirst",
          "OpenSecond", "CloseSecond", "EndReceive"}
\* held: an EventId member of the MAC still refers to the event.
Call == [kind : Kinds, packet : Slot, held : BOOLEAN]
Run(kind) == [kind |-> kind, packet |-> None, held |-> FALSE]
Held(kind) == [kind |-> kind, packet |-> None, held |-> TRUE]
NextTx == { c \in Call : c.kind \in {"DoSend", "Resend"} }

VARIABLES dev,              \* the device
          sent              \* packets the application has sent so far

vars == <<dev, sent>>

\* Max of two times; and what a mutant takes for it.
Earlier(a, b) == IF a <= b THEN a ELSE b
Later(a, b) == IF a >= b THEN a ELSE b

------------------------------------------------------------------------------
(* The record of a device that has just been installed *)

NewDevice ==
    [phy |-> "SLEEP",       \* m_state
     fcnt |-> 0,            \* m_currentFCnt
     waitingAck |-> FALSE,  \* m_retxParams
     retxLeft |-> NbTrans,
     packet |-> None,
     events |-> {},         \* the simulator's events for this device
     secondTs |-> 0,        \* m_secondReceiveWindow.GetTs() - Now()
     dutyLeft |-> 0,        \* GetWaitTime of the device's sub-band
     fault |-> "none",      \* what has stopped the program, if anything
     \* What the outside has seen:
     onAir |-> [p \in Packet |-> 0],     \* transmissions of each packet
     frames |-> {},                      \* counters and packets on the air
     lastTx |-> None,                    \* packet of the last uplink on the air
     reports |-> [p \in Slot |-> [ok |-> 0, failed |-> 0]],
     credits |-> {}]                     \* packets and the uplinks whose ACK ended them

------------------------------------------------------------------------------
(* PHY *)

Fail(d, why) == IF d.fault = "none" THEN [d EXCEPT !.fault = why] ELSE d

SwitchToSleep(d) == IF d.phy = "STANDBY" THEN [d EXCEPT !.phy = "SLEEP"]
                    ELSE Fail(d, "SwitchToSleep")

SwitchToStandby(d) == [d EXCEPT !.phy = "STANDBY"]

\* SimpleEndDeviceLoraPhy::Send: in TX or RX the packet is dropped silently.
PhySend(d, p) ==
    IF d.phy \in {"STANDBY", "SLEEP"}
    THEN [d EXCEPT !.phy = "TX",
                   !.events = Schedule(@, Run("TxFinished"), TxTime),
                   !.onAir[p] = @ + 1,
                   !.frames = @ \cup {[fcnt |-> d.fcnt, packet |-> p]},
                   !.lastTx = p]
    ELSE d

------------------------------------------------------------------------------
(* MAC: sending *)

\* m_requiredTxCallback
Report(d, ok) ==
    LET old == d.reports[d.packet]
        told == IF ok THEN [old EXCEPT !.ok = @ + 1] ELSE [old EXCEPT !.failed = @ + 1]
    IN  [d EXCEPT !.reports = [@ EXCEPT ![d.packet] = told]]

KeepNextTx(d) == [d EXCEPT !.waitingAck = FALSE, !.retxLeft = NbTrans, !.packet = None]
ResetRetransmissionParameters(d) == [KeepNextTx(d) EXCEPT !.events = Cancel(@, NextTx)]

\* Without a channel that the duty cycle leaves free there is none to send on:
\* the code dereferences a null channel.
SendToPhy(d, p) == IF d.dutyLeft > 0 THEN Fail(d, "SendToPhy")
                   ELSE [PhySend(d, p) EXCEPT !.dutyLeft = DutyWait]

\* Mutants of DoSend below: a retransmission does not use up an attempt; the
\* counter moves on after retransmissions, not after new packets.
FreeRetransmission(d, p, new) ==
    LET ready == IF new THEN [ResetRetransmissionParameters(d) EXCEPT
                                  !.packet = p, !.waitingAck = Confirmed]
                 ELSE d
    IN  [SendToPhy(ready, p) EXCEPT !.retxLeft = IF new THEN @ - 1 ELSE @,
                                    !.fcnt = IF new THEN @ + 1 ELSE @]
CountRetransmissions(d, p, new) ==
    [FreeRetransmission(d, p, new) EXCEPT !.fcnt = IF new THEN d.fcnt ELSE @ + 1]

\* The frame carries the frame counter as it stands; the counter moves on
\* after the first transmission of a packet only.
DoSend(d, p, new) ==
    LET ready == IF new THEN [ResetRetransmissionParameters(d) EXCEPT
                                  !.packet = p, !.waitingAck = Confirmed]
                 ELSE d
    IN  [SendToPhy(ready, p) EXCEPT
            !.retxLeft = (@ + 255) % 256,                     \* uint8_t
            !.fcnt = IF new THEN (@ + 1) % FCntValues ELSE @]      \* uint16_t

WindowsPending(d) == \E k \in {"CloseFirst", "OpenSecond", "CloseSecond"} :
                        IsPending(d.events, Held(k))

\* GetNextTransmissionDelay, where t is the ACK_TIMEOUT that was drawn; in
\* the mutant the duty cycle is left out of account.
DelayDespiteDuty(d, t) == IF d.waitingAck THEN d.secondTs + t
                          ELSE IF WindowsPending(d) THEN d.secondTs + WindowTime2
                          ELSE 0
TransmissionDelay(d, t) ==
    IF d.waitingAck THEN Later(d.dutyLeft, d.secondTs + t)
    ELSE IF WindowsPending(d) THEN Later(d.dutyLeft, d.secondTs + WindowTime2)
    ELSE d.dutyLeft

Postpone(d, p, new, delay) ==
    LET call == [kind |-> IF new THEN "DoSend" ELSE "Resend", packet |-> p, held |-> TRUE]
    IN  [d EXCEPT !.events = Schedule(Cancel(@, NextTx), call, delay)]

\* In the mutant the packet is saved before it is known to go out at once.
SaveAtOnce(d, p, new, t) ==
    LET delay == TransmissionDelay(d, t)
    IN  IF delay > 0 THEN [Postpone(d, p, new, delay) EXCEPT !.packet = p]
        ELSE DoSend(d, p, new)
Send(d, p, new, t) ==
    LET told == IF new /\ d.waitingAck THEN Report(d, FALSE) ELSE d
        delay == TransmissionDelay(d, t)
    IN  IF ~new /\ ~(d.waitingAck /\ d.retxLeft > 0) THEN Fail(d, "Send")
        ELSE IF delay > 0 THEN Postpone(told, p, new, delay)
        ELSE DoSend(told, p, new)

\* What CloseSecondReceiveWindow, Receive and FailedReception do for a
\* confirmed packet whose last transmission was not acknowledged; and two
\* mutants of it.
ForgetSilently(d, t) == IF d.retxLeft > 0 THEN Send(d, d.packet, FALSE, t)
                        ELSE ResetRetransmissionParameters(d)
FailWithoutReset(d, t) == IF d.retxLeft > 0 THEN Send(d, d.packet, FALSE, t)
                          ELSE Report(d, FALSE)
RetryOrFail(d, t) == IF d.retxLeft > 0 THEN Send(d, d.packet, FALSE, t)
                     ELSE ResetRetransmissionParameters(Report(d, FALSE))

------------------------------------------------------------------------------
(* MAC: the receive windows *)

\* An EventId member is overwritten: the event it named is no longer held.
Hold(q, kind, delay) ==
    Schedule({ [e EXCEPT !.what = IF @.kind = kind THEN Run(kind) ELSE @] : e \in q },
             Held(kind), delay)

TxFinished(d) ==
    SwitchToSleep([d EXCEPT
        !.phy = "STANDBY",
        !.events = Hold(Schedule(@, Run("OpenFirst"), ReceiveDelay1),
                        "OpenSecond", ReceiveDelay2),
        !.secondTs = ReceiveDelay2])

OpenFirst(d) == [SwitchToStandby(d) EXCEPT !.events = Hold(@, "CloseFirst", WindowTime1)]

CloseFirst(d) == CASE d.phy = "TX" -> Fail(d, "CloseFirst")
                   [] d.phy \in {"RX", "SLEEP"} -> d
                   [] d.phy = "STANDBY" -> SwitchToSleep(d)

OpenWhileReceiving(d) == [SwitchToStandby(d) EXCEPT !.events = Hold(@, "CloseSecond", WindowTime2)]
OpenSecond(d) ==
    IF d.phy = "RX" THEN d
    ELSE [SwitchToStandby(d) EXCEPT !.events = Hold(@, "CloseSecond", WindowTime2)]

CloseSecond(d, t) ==
    LET asleep == IF d.phy = "STANDBY" THEN SwitchToSleep(d) ELSE d
    IN  IF d.phy = "RX" THEN d
        ELSE IF d.waitingAck THEN RetryOrFail(asleep, t)
        ELSE ResetRetransmissionParameters(Report(asleep, TRUE))

------------------------------------------------------------------------------
(* MAC: receiving *)

\* ParseCommands on the ACK bit.
AcceptAck(d) == ResetRetransmissionParameters(
                    [Report(d, TRUE) EXCEPT !.credits = @ \cup {<<d.packet, d.lastTx>>}])

\* Receive on a downlink for this device, on any other frame that the PHY
\* locked on, and FailedReception; in the mutant a downlink leaves the second
\* window to open.
KeepSecondWindow(d, ack) == SwitchToSleep(IF ack /\ d.waitingAck THEN AcceptAck(d) ELSE d)
ReceiveOurs(d, ack) ==
    LET kept == [d EXCEPT !.events = Cancel(@, {Held("OpenSecond")})]
    IN  SwitchToSleep(IF ack /\ d.waitingAck THEN AcceptAck(kept) ELSE kept)

OutOfWindows(d) == d.waitingAck /\ ~IsPending(d.events, Held("OpenSecond"))

ReceiveOther(d, t) == SwitchToSleep(IF OutOfWindows(d) THEN RetryOrFail(d, t) ELSE d)

FailedReception(d, t) == LET asleep == SwitchToSleep(d)
                         IN  IF OutOfWindows(d) THEN RetryOrFail(asleep, t) ELSE asleep

\* SimpleEndDeviceLoraPhy::EndReceive. A downlink for this device answers its
\* last uplink, and the server's answer to a confirmed uplink is an ACK.
EndReceive(d, t) ==
    LET ready == SwitchToStandby(d)
    IN  {ReceiveOurs(ready, Confirmed), ReceiveOther(ready, t), FailedReception(ready, t)}

------------------------------------------------------------------------------
(* Steps *)

Init == dev = NewDevice /\ sent = 0

\* The simulator takes the next event that is due off its queue and runs it.
Ready(kind) == { e \in Due(dev.events) : e.what.kind = kind }
Popped(e) == [dev EXCEPT !.events = @ \ {e}]

RunDoSend == \E e \in Ready("DoSend") : dev' = DoSend(Popped(e), e.what.packet, TRUE)
RunResend == \E e \in Ready("Resend") : dev' = DoSend(Popped(e), e.what.packet, FALSE)
RunTxFinished == \E e \in Ready("TxFinished") : dev' = TxFinished(Popped(e))
RunOpenFirst == \E e \in Ready("OpenFirst") : dev' = OpenFirst(Popped(e))
RunCloseFirst == \E e \in Ready("CloseFirst") : dev' = CloseFirst(Popped(e))
RunOpenSecond == \E e \in Ready("OpenSecond") : dev' = OpenSecond(Popped(e))
RunCloseSecond == \E e \in Ready("CloseSecond"), t \in AckTimeouts :
                      dev' = CloseSecond(Popped(e), t)
RunEndReceive == \E e \in Ready("EndReceive"), t \in AckTimeouts :
                      dev' \in EndReceive(Popped(e), t)

RunEvent == /\ \/ RunDoSend \/ RunResend \/ RunTxFinished \/ RunOpenFirst \/ RunCloseFirst
               \/ RunOpenSecond \/ RunCloseSecond \/ RunEndReceive
            /\ UNCHANGED sent

\* A paced application waits until nothing is scheduled for the device.
Idle(d) == d.events = {} /\ ~d.waitingAck

\* The application hands a new packet to the MAC.
AppSend == /\ sent < MaxPackets
           /\ Paced => Idle(dev)
           /\ sent' = sent + 1
           /\ \E t \in AckTimeouts : dev' = Send(dev, sent', TRUE, t)

\* The MAC refuses a packet that is too long or finds no channel for it: it
\* has reported the failure of the packet in progress by then.
AppSendRefused == /\ sent < MaxPackets
                  /\ Paced => Idle(dev)
                  /\ sent' = sent + 1
                  /\ dev' = IF dev.waitingAck THEN Report(dev, FALSE) ELSE dev

\* SimpleEndDeviceLoraPhy::StartReceive locks on a frame in STANDBY only.
Lock == /\ dev.phy = "STANDBY"
        /\ \E r \in RxTimes :
               dev' = [dev EXCEPT !.phy = "RX",
                                  !.events = Schedule(@, Run("EndReceive"), r)]
        /\ UNCHANGED sent

Oldest == - (ReceiveDelay1 + ReceiveDelay2)   \* bound on how far back secondTs goes

Tick == /\ ~SomeDue(dev.events)
        /\ dev' = [dev EXCEPT !.events = Elapse(@),
                              !.secondTs = Later(@ - 1, Oldest),
                              !.dutyLeft = Later(@ - 1, 0)]
        /\ UNCHANGED sent

\* After a fault there is no program left to run.
Next == dev.fault = "none" /\ (RunEvent \/ AppSend \/ AppSendRefused \/ Lock \/ Tick)

Spec == Init /\ [][Next]_vars

\* The simulator's clock and events go on; the application and the channel
\* owe nothing.
FairSpec == Spec /\ WF_vars(dev.fault = "none" /\ (RunEvent \/ Tick))

------------------------------------------------------------------------------
(* Properties *)

Phys == {"SLEEP", "STANDBY", "TX", "RX"}
UInt8 == 0 .. 255
UInt16 == 0 .. FCntValues - 1
Queues == SUBSET Entries(Call)
Counts == [Packet -> Nat]
Frames == SUBSET [fcnt : UInt16, packet : Slot]
ReportCounts == [Slot -> [ok : Nat, failed : Nat]]
Credits == SUBSET (Slot \X Slot)

Device == [phy : Phys, fcnt : UInt16, waitingAck : BOOLEAN, retxLeft : UInt8,
           packet : Slot, events : Queues, secondTs : Int, dutyLeft : Nat,
           fault : Faults, onAir : Counts, frames : Frames, lastTx : Slot,
           reports : ReportCounts, credits : Credits]

\* Types: in particular the attempts left and the frame counter stay in their
\* unsigned types, and no wait is negative, whatever Send and DoSend compute.
TypeOK == dev \in Device /\ sent \in 0 .. MaxPackets

\* No NS_ASSERT and no NS_ABORT_MSG of the MAC or the PHY ever stops the
\* program, and DoSend always finds a channel: every handler finds the radio
\* and the duty cycle as the handlers before it have left them.
NoFault == dev.fault = "none"

\* m_nbTrans bounds the transmissions of a confirmed packet; an unconfirmed
\* one is sent once, however windows, receptions and new packets interleave.
TxBudget == \A p \in Packet : dev.onAir[p] <= IF Confirmed THEN NbTrans ELSE 1

\* The radio is in TX, or in RX, exactly as long as the end of a transmission,
\* or of a reception, is still to come: no receive window interrupts either.
RadioBusy == /\ dev.phy = "TX" <=> IsPending(dev.events, Run("TxFinished"))
             /\ dev.phy = "RX" <=> IsPending(dev.events, Run("EndReceive"))

\* An ACK ends the retransmissions of the packet whose uplink it answers, not
\* those of a packet that the application has sent since.
AckEndsItsPacket == \A c \in dev.credits : c[1] = c[2]

Reports(p) == dev.reports[p].ok + dev.reports[p].failed

\* m_requiredTxCallback fires at most once for a packet, never for none.
OneReport == Reports(None) = 0 /\ \A p \in Packet : Reports(p) <= 1

\* It does fire for every confirmed packet that went out, acknowledged or not,
\* when the application lets each one finish.
EachIsReported == \A p \in Packet : dev.onAir[p] > 0 ~> Reports(p) = 1

\* A device does not wait for an ACK for ever: whatever the channel delivers,
\* loses or garbles, some event of the device ends the waiting.
WaitingEnds == dev.waitingAck ~> ~dev.waitingAck

(* What comments and assertions of the code say, and the code does not do *)

\* A frame counter stands for one packet: the server takes a frame whose
\* counter it has seen for a copy that another gateway has received.
CounterNamesPacket == \A f, g \in dev.frames : f.fcnt = g.fcnt => f.packet = g.packet

Postponed(p) == \E e \in dev.events : e.what.kind = "DoSend" /\ e.what.packet = p

\* A postponed packet is sent at last, unless a newer one replaces it.
PostponedIsSent ==
    [][\A p \in Packet : Postponed(p) /\ ~Postponed(p)' =>
           \/ dev'.onAir[p] > dev.onAir[p]
           \/ sent' > sent]_vars

\* A newer packet cancels the retransmission of an older one, not vice versa.
NewerPacketWins ==
    [][\A p \in Packet : Postponed(p) =>
           ~ \E e \in dev'.events : e.what.kind = "Resend" /\ e.what.packet < p]_vars

\* A receive window never closes on a radio that transmits.
NoWindowInTx == dev.fault # "CloseFirst"

\* The radio goes to sleep from standby only.
SleepsFromStandby == dev.fault # "SwitchToSleep"
==============================================================================
