------------------------ MODULE ClassAEndDevice_proofs ------------------------
(***************************************************************************)
(* Proofs about the class A end device, for every timing, payload mode and *)
(* number of packets and transmissions. Every method of the device keeps   *)
(* its type; the lemmas follow the order of ClassAEndDevice.               *)
(***************************************************************************)
EXTENDS ClassAEndDevice, EventQueue_proofs

------------------------------------------------------------------------------
(* The event queue *)

LEMMA RunType ==
    ASSUME NEW kind \in Kinds
    PROVE  Run(kind) \in Call /\ Held(kind) \in Call
BY DEF Run, Held, Call, Slot

LEMMA HoldType ==
    ASSUME NEW q \in SUBSET Entries(Call), NEW kind \in Kinds, NEW n \in Nat
    PROVE  Hold(q, kind, n) \in SUBSET Entries(Call)
<1> DEFINE r == { [e EXCEPT !.what = IF @.kind = kind THEN Run(kind) ELSE @] : e \in q }
<1>1. r \in SUBSET Entries(Call)
  BY RunType DEF Entries
<1> QED
  BY <1>1, ScheduleType, RunType DEF Hold

------------------------------------------------------------------------------
(* The fields of a device, and what setting one of them to a value of its  *)
(* type does: the lemmas below use these two and leave Device folded.      *)

LEMMA Fields ==
    ASSUME NEW d \in Device
    PROVE  /\ d.phy \in Phys
           /\ d.fcnt \in UInt16
           /\ d.waitingAck \in BOOLEAN
           /\ d.retxLeft \in UInt8
           /\ d.packet \in Slot
           /\ d.events \in Queues
           /\ d.secondTs \in Int
           /\ d.dutyLeft \in Nat
           /\ d.fault \in Faults
           /\ d.onAir \in Counts
           /\ d.frames \in Frames
           /\ d.lastTx \in Slot
           /\ d.reports \in ReportCounts
           /\ d.credits \in Credits
BY DEF Device

LEMMA Updates ==
    ASSUME NEW d \in Device
    PROVE  /\ \A x \in Phys : [d EXCEPT !.phy = x] \in Device
           /\ \A x \in UInt16 : [d EXCEPT !.fcnt = x] \in Device
           /\ \A x \in BOOLEAN : [d EXCEPT !.waitingAck = x] \in Device
           /\ \A x \in UInt8 : [d EXCEPT !.retxLeft = x] \in Device
           /\ \A x \in Slot : [d EXCEPT !.packet = x] \in Device
           /\ \A x \in Queues : [d EXCEPT !.events = x] \in Device
           /\ \A x \in Int : [d EXCEPT !.secondTs = x] \in Device
           /\ \A x \in Nat : [d EXCEPT !.dutyLeft = x] \in Device
           /\ \A x \in Faults : [d EXCEPT !.fault = x] \in Device
           /\ \A x \in Counts : [d EXCEPT !.onAir = x] \in Device
           /\ \A x \in Frames : [d EXCEPT !.frames = x] \in Device
           /\ \A x \in Slot : [d EXCEPT !.lastTx = x] \in Device
           /\ \A x \in ReportCounts : [d EXCEPT !.reports = x] \in Device
           /\ \A x \in Credits : [d EXCEPT !.credits = x] \in Device
<1>1. \A x \in Phys : [d EXCEPT !.phy = x] \in Device
  BY DEF Device
<1>2. \A x \in UInt16 : [d EXCEPT !.fcnt = x] \in Device
  BY DEF Device
<1>3. \A x \in BOOLEAN : [d EXCEPT !.waitingAck = x] \in Device
  BY DEF Device
<1>4. \A x \in UInt8 : [d EXCEPT !.retxLeft = x] \in Device
  BY DEF Device
<1>5. \A x \in Slot : [d EXCEPT !.packet = x] \in Device
  BY DEF Device
<1>6. \A x \in Queues : [d EXCEPT !.events = x] \in Device
  BY DEF Device
<1>7. \A x \in Int : [d EXCEPT !.secondTs = x] \in Device
  BY DEF Device
<1>8. \A x \in Nat : [d EXCEPT !.dutyLeft = x] \in Device
  BY DEF Device
<1>9. \A x \in Faults : [d EXCEPT !.fault = x] \in Device
  BY DEF Device
<1>10. \A x \in Counts : [d EXCEPT !.onAir = x] \in Device
  BY DEF Device
<1>11. \A x \in Frames : [d EXCEPT !.frames = x] \in Device
  BY DEF Device
<1>12. \A x \in Slot : [d EXCEPT !.lastTx = x] \in Device
  BY DEF Device
<1>13. \A x \in ReportCounts : [d EXCEPT !.reports = x] \in Device
  BY DEF Device
<1>14. \A x \in Credits : [d EXCEPT !.credits = x] \in Device
  BY DEF Device
<1> QED
  BY <1>1, <1>2, <1>3, <1>4, <1>5, <1>6, <1>7, <1>8, <1>9, <1>10, <1>11, <1>12, <1>13, <1>14

------------------------------------------------------------------------------
(* The methods of the PHY and of the MAC *)

LEMMA QueueType ==
    ASSUME NEW q \in Queues
    PROVE  /\ \A w \in Call, n \in Nat : Schedule(q, w, n) \in Queues
           /\ \A W : Cancel(q, W) \in Queues
           /\ \A kind \in Kinds, n \in Nat : Hold(q, kind, n) \in Queues
           /\ ~SomeDue(q) => Elapse(q) \in Queues
BY ScheduleType, CancelType, HoldType, ElapseType DEF Queues

LEMMA FailType ==
    ASSUME NEW d \in Device, NEW why \in Faults
    PROVE  Fail(d, why) \in Device
BY Updates DEF Fail

LEMMA SwitchType ==
    ASSUME NEW d \in Device
    PROVE  SwitchToSleep(d) \in Device /\ SwitchToStandby(d) \in Device
<1>1. "SLEEP" \in Phys /\ "STANDBY" \in Phys /\ "SwitchToSleep" \in Faults
  BY DEF Phys, Faults
<1> QED
  BY <1>1, FailType, Updates DEF SwitchToSleep, SwitchToStandby

LEMMA PhySendType ==
    ASSUME NEW d \in Device, NEW p \in Slot
    PROVE  PhySend(d, p) \in Device
<1> DEFINE q == Schedule(d.events, Run("TxFinished"), TxTime)
           air == [d.onAir EXCEPT ![p] = @ + 1]
           fs == d.frames \cup {[fcnt |-> d.fcnt, packet |-> p]}
           d1 == [d EXCEPT !.phy = "TX"]
           d2 == [d1 EXCEPT !.events = q]
           d3 == [d2 EXCEPT !.onAir = air]
           d4 == [d3 EXCEPT !.frames = fs]
<1>1. q \in Queues
  <2>1. Run("TxFinished") \in Call /\ TxTime \in Nat
    BY RunType, DelayAssumption DEF Kinds
  <2> QED
    BY <2>1, Fields, QueueType
<1>2. air \in Counts
  <2>1. d.onAir \in [Packet -> Nat]
    BY Fields DEF Counts
  <2>2. CASE p \in Packet
    BY <2>1, <2>2 DEF Counts
  <2>3. CASE p \notin Packet
    BY <2>1, <2>3 DEF Counts
  <2> QED
    BY <2>2, <2>3
<1>3. fs \in Frames
  BY Fields DEF Frames
<1>4. "TX" \in Phys
  BY DEF Phys
<1> HIDE DEF q, air, fs
<1>5. d4 \in Device
  <2>1. d1 \in Device
    BY <1>4, Updates
  <2>2. d2 \in Device
    BY <2>1, <1>1, Updates
  <2>3. d3 \in Device
    BY <2>2, <1>2, Updates
  <2> QED
    BY <2>3, <1>3, Updates
<1>6. [d4 EXCEPT !.lastTx = p] \in Device
  BY <1>4, <1>5, Updates
<1>7. [d EXCEPT !.phy = "TX", !.events = q, !.onAir = air, !.frames = fs, !.lastTx = p]
          = [d4 EXCEPT !.lastTx = p]
  OBVIOUS
<1> USE DEF q, air, fs
<1> QED
  BY <1>6, <1>7 DEF PhySend

LEMMA SendToPhyType ==
    ASSUME NEW d \in Device, NEW p \in Slot
    PROVE  SendToPhy(d, p) \in Device
<1>1. "SendToPhy" \in Faults /\ DutyWait \in Nat
  BY DelayAssumption DEF Faults
<1> QED
  BY <1>1, FailType, PhySendType, Updates DEF SendToPhy

LEMMA ReportType ==
    ASSUME NEW d \in Device, NEW ok \in BOOLEAN
    PROVE  Report(d, ok) \in Device
<1> DEFINE old == d.reports[d.packet]
           told == IF ok THEN [old EXCEPT !.ok = @ + 1] ELSE [old EXCEPT !.failed = @ + 1]
<1>1. d.packet \in Slot /\ d.reports \in [Slot -> [ok : Nat, failed : Nat]]
  BY Fields DEF ReportCounts
<1>2. old \in [ok : Nat, failed : Nat]
  BY <1>1
<1> HIDE DEF old
<1>3. told \in [ok : Nat, failed : Nat]
  BY <1>2
<1> HIDE DEF told
<1>4. [d.reports EXCEPT ![d.packet] = told] \in ReportCounts
  BY <1>1, <1>3 DEF ReportCounts
<1>5. [d EXCEPT !.reports = [d.reports EXCEPT ![d.packet] = told]] \in Device
  BY <1>4, Updates
<1> QED
  BY <1>5 DEF Report, told, old

LEMMA ResetType ==
    ASSUME NEW d \in Device
    PROVE  ResetRetransmissionParameters(d) \in Device
<1>1. FALSE \in BOOLEAN /\ NbTrans \in UInt8 /\ None \in Slot
  BY PacketAssumption DEF UInt8, Slot
<1> DEFINE d1 == [d EXCEPT !.waitingAck = FALSE]
           d2 == [d1 EXCEPT !.retxLeft = NbTrans]
           d3 == [d2 EXCEPT !.packet = None]
<1>2. d1 \in Device
  BY Updates
<1>3. d2 \in Device
  BY <1>1, <1>2, Updates
<1>4. d3 \in Device
  BY <1>1, <1>3, Updates
<1>5. KeepNextTx(d) = d3
  BY DEF KeepNextTx
<1>6. KeepNextTx(d) \in Device
  BY <1>4, <1>5
<1>7. Cancel(KeepNextTx(d).events, NextTx) \in Queues
  BY <1>6, Fields, QueueType
<1> QED
  BY <1>6, <1>7, Updates DEF ResetRetransmissionParameters

LEMMA WrapType ==
    ASSUME NEW x \in Device
    PROVE  (x.retxLeft + 255) % 256 \in UInt8 /\ (x.fcnt + 1) % FCntValues \in UInt16
<1>1. \A n, m \in Nat : m > 0 => (n % m) \in 0 .. m - 1
  OBVIOUS
<1>2. x.retxLeft + 255 \in Nat /\ x.fcnt + 1 \in Nat
  BY Fields, PacketAssumption DEF UInt8, UInt16
<1>3. (x.retxLeft + 255) % 256 \in 0 .. 255
  BY <1>1, <1>2
<1>4. (x.fcnt + 1) % FCntValues \in 0 .. FCntValues - 1
  BY <1>1, <1>2, PacketAssumption
<1> QED
  BY <1>3, <1>4 DEF UInt8, UInt16

LEMMA DoSendType ==
    ASSUME NEW d \in Device, NEW p \in Slot, NEW new \in BOOLEAN
    PROVE  DoSend(d, p, new) \in Device
<1> DEFINE ready == IF new THEN [ResetRetransmissionParameters(d) EXCEPT
                                     !.packet = p, !.waitingAck = Confirmed]
                    ELSE d
           x == SendToPhy(ready, p)
           left == (x.retxLeft + 255) % 256
           count == IF new THEN (x.fcnt + 1) % FCntValues ELSE x.fcnt
<1>1. ready \in Device
  <2> DEFINE r == ResetRetransmissionParameters(d)
             r1 == [r EXCEPT !.packet = p]
  <2>1. r \in Device
    BY ResetType
  <2> HIDE DEF r
  <2>2. r1 \in Device
    BY <2>1, Updates DEF Slot
  <2>3. [r1 EXCEPT !.waitingAck = Confirmed] \in Device
    BY <2>2, Updates, ModeAssumption
  <2>4. [r EXCEPT !.packet = p, !.waitingAck = Confirmed] = [r1 EXCEPT !.waitingAck = Confirmed]
    OBVIOUS
  <2> USE DEF r
  <2> QED
    BY <2>3, <2>4
<1> HIDE DEF ready
<1>2. x \in Device
  BY <1>1, SendToPhyType
<1>3. left \in UInt8 /\ count \in UInt16
  BY <1>2, WrapType, Fields
<1>4. DoSend(d, p, new) = [x EXCEPT !.retxLeft = left, !.fcnt = count]
  BY DEF DoSend, ready
<1> HIDE DEF x, left, count
<1> DEFINE x1 == [x EXCEPT !.retxLeft = left]
<1>5. x1 \in Device
  BY <1>2, <1>3, Updates
<1>6. [x1 EXCEPT !.fcnt = count] \in Device
  BY <1>3, <1>5, Updates
<1>7. [x EXCEPT !.retxLeft = left, !.fcnt = count] = [x1 EXCEPT !.fcnt = count]
  OBVIOUS
<1> QED
  BY <1>4, <1>6, <1>7

LEMMA PostponeType ==
    ASSUME NEW d \in Device, NEW p \in Slot, NEW new \in BOOLEAN, NEW n \in Nat
    PROVE  Postpone(d, p, new, n) \in Device
<1> DEFINE call == [kind |-> IF new THEN "DoSend" ELSE "Resend", packet |-> p, held |-> TRUE]
<1>1. call \in Call
  BY DEF Call, Kinds
<1> HIDE DEF call
<1>2. Schedule(Cancel(d.events, NextTx), call, n) \in Queues
  BY <1>1, Fields, QueueType
<1> QED
  BY <1>2, Updates DEF Postpone, call

LEMMA SendType ==
    ASSUME NEW d \in Device, NEW p \in Slot, NEW new \in BOOLEAN, NEW t \in AckTimeouts
    PROVE  Send(d, p, new, t) \in Device
<1> DEFINE told == IF new /\ d.waitingAck THEN Report(d, FALSE) ELSE d
           delay == TransmissionDelay(d, t)
<1>1. told \in Device
  BY ReportType
<1>2. delay > 0 => delay \in Nat
  <2>1. /\ d.dutyLeft \in Nat /\ d.secondTs \in Int
        /\ t \in Int /\ WindowTime2 \in Int
    BY Fields, DelayAssumption
  <2> QED
    BY <2>1 DEF TransmissionDelay, Later
<1>3. Fail(d, "Send") \in Device
  BY FailType DEF Faults
<1> HIDE DEF told, delay
<1>4. delay > 0 => Postpone(told, p, new, delay) \in Device
  BY <1>1, <1>2, PostponeType
<1>5. DoSend(told, p, new) \in Device
  BY <1>1, DoSendType
<1> QED
  BY <1>3, <1>4, <1>5 DEF Send, told, delay

LEMMA RetryOrFailType ==
    ASSUME NEW d \in Device, NEW t \in AckTimeouts
    PROVE  RetryOrFail(d, t) \in Device
<1>1. d.packet \in Slot
  BY Fields
<1> QED
  BY <1>1, SendType, ReportType, ResetType DEF RetryOrFail

LEMMA WindowsType ==
    ASSUME NEW d \in Device
    PROVE  TxFinished(d) \in Device /\ OpenFirst(d) \in Device /\ OpenSecond(d) \in Device
<1>1. /\ "STANDBY" \in Phys
      /\ {"OpenFirst", "OpenSecond", "CloseFirst", "CloseSecond"} \subseteq Kinds
      /\ ReceiveDelay1 \in Nat /\ ReceiveDelay2 \in Nat /\ ReceiveDelay2 \in Int
      /\ WindowTime1 \in Nat /\ WindowTime2 \in Nat
  BY DelayAssumption DEF Phys, Kinds
<1>2. TxFinished(d) \in Device
  <2> DEFINE q == Hold(Schedule(d.events, Run("OpenFirst"), ReceiveDelay1),
                       "OpenSecond", ReceiveDelay2)
             d1 == [d EXCEPT !.phy = "STANDBY"]
             d2 == [d1 EXCEPT !.events = q]
  <2>1. q \in Queues
    BY <1>1, Fields, QueueType, RunType
  <2> HIDE DEF q
  <2>2. d1 \in Device
    BY <1>1, Updates
  <2>3. d2 \in Device
    BY <2>1, <2>2, Updates
  <2>4. [d2 EXCEPT !.secondTs = ReceiveDelay2] \in Device
    BY <1>1, <2>3, Updates
  <2>5. [d EXCEPT !.phy = "STANDBY", !.events = q, !.secondTs = ReceiveDelay2]
            = [d2 EXCEPT !.secondTs = ReceiveDelay2]
    OBVIOUS
  <2> USE DEF q
  <2> QED
    BY <2>4, <2>5, SwitchType DEF TxFinished
<1> DEFINE s == SwitchToStandby(d)
<1>3. s \in Device
  BY SwitchType
<1> HIDE DEF s
<1>4. \A kind \in {"CloseFirst", "CloseSecond"}, n \in Nat :
          [s EXCEPT !.events = Hold(@, kind, n)] \in Device
  BY <1>1, <1>3, Fields, QueueType, Updates
<1> QED
  BY <1>1, <1>2, <1>4 DEF OpenFirst, OpenSecond, s

LEMMA CloseType ==
    ASSUME NEW d \in Device, NEW t \in AckTimeouts
    PROVE  CloseFirst(d) \in Device /\ CloseSecond(d, t) \in Device
<1>1. CloseFirst(d) \in Device
  <2>1. d.phy \in {"TX", "RX", "SLEEP", "STANDBY"} /\ "CloseFirst" \in Faults
    BY Fields DEF Phys, Faults
  <2> QED
    BY <2>1, FailType, SwitchType DEF CloseFirst
<1>2. CloseSecond(d, t) \in Device
  BY SwitchType, RetryOrFailType, ReportType, ResetType DEF CloseSecond
<1> QED
  BY <1>1, <1>2

LEMMA EndReceiveType ==
    ASSUME NEW d \in Device, NEW t \in AckTimeouts
    PROVE  EndReceive(d, t) \subseteq Device
<1> SUFFICES ASSUME NEW r \in Device
             PROVE  /\ ReceiveOurs(r, Confirmed) \in Device
                    /\ ReceiveOther(r, t) \in Device
                    /\ FailedReception(r, t) \in Device
  BY SwitchType DEF EndReceive
<1>1. ReceiveOurs(r, Confirmed) \in Device
  <2> DEFINE kept == [r EXCEPT !.events = Cancel(@, {Held("OpenSecond")})]
  <2>1. kept \in Device
    BY Fields, QueueType, Updates
  <2> HIDE DEF kept
  <2>2. AcceptAck(kept) \in Device
    <3> DEFINE told == Report(kept, TRUE)
    <3>1. told \in Device
      BY <2>1, ReportType
    <3> HIDE DEF told
    <3>2. told.credits \cup {<<kept.packet, kept.lastTx>>} \in Credits
      BY <2>1, <3>1, Fields DEF Credits
    <3>3. [told EXCEPT !.credits = @ \cup {<<kept.packet, kept.lastTx>>}] \in Device
      BY <3>1, <3>2, Updates
    <3> QED
      BY <3>3, ResetType DEF AcceptAck, told
  <2> QED
    BY <2>1, <2>2, SwitchType DEF ReceiveOurs, kept
<1>2. ReceiveOther(r, t) \in Device
  BY RetryOrFailType, SwitchType DEF ReceiveOther
<1>3. FailedReception(r, t) \in Device
  BY RetryOrFailType, SwitchType DEF FailedReception
<1> QED
  BY <1>1, <1>2, <1>3

------------------------------------------------------------------------------
(* The specification *)

LEMMA InitType == Init => TypeOK
<1> SUFFICES ASSUME Init PROVE TypeOK
  OBVIOUS
<1>1. /\ "SLEEP" \in Phys /\ "none" \in Faults /\ None \in Slot /\ {} \in Queues
      /\ 0 \in UInt16 /\ NbTrans \in UInt8 /\ {} \in Frames /\ {} \in Credits
      /\ [p \in Packet |-> 0] \in Counts
      /\ [p \in Slot |-> [ok |-> 0, failed |-> 0]] \in ReportCounts
  BY PacketAssumption DEF Phys, Faults, Slot, Queues, UInt8, UInt16, Frames, Credits,
                          Counts, ReportCounts
<1>2. NewDevice \in Device
  BY <1>1 DEF NewDevice, Device
<1> QED
  BY <1>2, PacketAssumption DEF Init, TypeOK

\* Taking an event off the queue, or letting it elapse, leaves a device.
LEMMA PoppedType ==
    ASSUME dev \in Device, NEW e
    PROVE  Popped(e) \in Device
<1>1. dev.events \ {e} \in Queues
  BY Fields DEF Queues
<1> QED
  BY <1>1, Updates DEF Popped

LEMMA EventPacket ==
    ASSUME dev \in Device, NEW kind, NEW e \in Ready(kind)
    PROVE  e.what.packet \in Slot
BY Fields DEF Ready, Due, Queues, Entries, Call

LEMMA RunEventType ==
    ASSUME TypeOK, RunEvent
    PROVE  TypeOK'
<1>1. dev \in Device
  BY DEF TypeOK
<1>2. CASE RunDoSend
  BY <1>1, <1>2, PoppedType, EventPacket, DoSendType DEF RunDoSend, RunEvent, TypeOK
<1>3. CASE RunResend
  BY <1>1, <1>3, PoppedType, EventPacket, DoSendType DEF RunResend, RunEvent, TypeOK
<1>4. CASE RunTxFinished
  BY <1>1, <1>4, PoppedType, WindowsType DEF RunTxFinished, RunEvent, TypeOK
<1>5. CASE RunOpenFirst
  BY <1>1, <1>5, PoppedType, WindowsType DEF RunOpenFirst, RunEvent, TypeOK
<1>6. CASE RunCloseFirst
  <2>1. PICK t \in AckTimeouts : TRUE
    BY DelayAssumption
  <2> QED
    BY <1>1, <1>6, <2>1, PoppedType, CloseType DEF RunCloseFirst, RunEvent, TypeOK
<1>7. CASE RunOpenSecond
  BY <1>1, <1>7, PoppedType, WindowsType DEF RunOpenSecond, RunEvent, TypeOK
<1>8. CASE RunCloseSecond
  BY <1>1, <1>8, PoppedType, CloseType DEF RunCloseSecond, RunEvent, TypeOK
<1>9. CASE RunEndReceive
  BY <1>1, <1>9, PoppedType, EndReceiveType DEF RunEndReceive, RunEvent, TypeOK
<1> QED
  BY <1>2, <1>3, <1>4, <1>5, <1>6, <1>7, <1>8, <1>9 DEF RunEvent

LEMMA NextType == TypeOK /\ [Next]_vars => TypeOK'
<1> SUFFICES ASSUME TypeOK, [Next]_vars PROVE TypeOK'
  OBVIOUS
<1>1. dev \in Device /\ sent \in 0 .. MaxPackets
  BY DEF TypeOK
<1>2. CASE RunEvent
  BY <1>2, RunEventType
<1>3. CASE AppSend
  <2>1. sent' = sent + 1 /\ sent' \in 0 .. MaxPackets /\ sent' \in Packet
    BY <1>1, <1>3, PacketAssumption DEF AppSend, Packet
  <2>2. sent' \in Slot
    BY <2>1 DEF Slot
  <2> QED
    BY <1>1, <1>3, <2>1, <2>2, SendType DEF AppSend, TypeOK
<1>4. CASE AppSendRefused
  <2>1. sent' \in 0 .. MaxPackets
    BY <1>1, <1>4, PacketAssumption DEF AppSendRefused
  <2>2. dev' \in Device
    BY <1>1, <1>4, ReportType DEF AppSendRefused
  <2> QED
    BY <2>1, <2>2 DEF TypeOK
<1>5. CASE Lock
  <2>1. PICK r \in RxTimes :
            dev' = [dev EXCEPT !.phy = "RX", !.events = Schedule(@, Run("EndReceive"), r)]
    BY <1>5 DEF Lock
  <2> DEFINE q == Schedule(dev.events, Run("EndReceive"), r)
             d1 == [dev EXCEPT !.phy = "RX"]
  <2>2. q \in Queues
    <3>1. Run("EndReceive") \in Call /\ r \in Nat
      BY RunType, DelayAssumption DEF Kinds
    <3> QED
      BY <1>1, <3>1, Fields, QueueType
  <2> HIDE DEF q
  <2>3. d1 \in Device
    BY <1>1, Updates DEF Phys
  <2>4. [d1 EXCEPT !.events = q] \in Device
    BY <2>2, <2>3, Updates
  <2>5. [dev EXCEPT !.phy = "RX", !.events = q] = [d1 EXCEPT !.events = q]
    OBVIOUS
  <2>6. dev' = [dev EXCEPT !.phy = "RX", !.events = q]
    BY <2>1 DEF q
  <2> QED
    BY <1>1, <1>5, <2>4, <2>5, <2>6 DEF Lock, TypeOK
<1>6. CASE Tick
  <2> DEFINE q == Elapse(dev.events)
             ts == Later(dev.secondTs - 1, Oldest)
             duty == Later(dev.dutyLeft - 1, 0)
             d1 == [dev EXCEPT !.events = q]
             d2 == [d1 EXCEPT !.secondTs = ts]
  <2>1. q \in Queues
    BY <1>1, <1>6, Fields, QueueType DEF Tick
  <2>2. ts \in Int /\ duty \in Nat
    <3>1. dev.secondTs \in Int /\ dev.dutyLeft \in Nat /\ Oldest \in Int
      BY <1>1, Fields, DelayAssumption DEF Oldest
    <3> QED
      BY <3>1 DEF Later
  <2>3. dev' = [dev EXCEPT !.events = q, !.secondTs = ts, !.dutyLeft = duty]
    BY <1>6 DEF Tick
  <2> HIDE DEF q, ts, duty
  <2>4. d1 \in Device
    BY <1>1, <2>1, Updates
  <2>5. d2 \in Device
    BY <2>2, <2>4, Updates
  <2>6. [d2 EXCEPT !.dutyLeft = duty] \in Device
    BY <2>2, <2>5, Updates
  <2>7. [dev EXCEPT !.events = q, !.secondTs = ts, !.dutyLeft = duty]
            = [d2 EXCEPT !.dutyLeft = duty]
    OBVIOUS
  <2> QED
    BY <1>1, <1>6, <2>3, <2>6, <2>7 DEF Tick, TypeOK
<1>7. CASE UNCHANGED vars
  BY <1>7 DEF vars, TypeOK
<1> QED
  BY <1>2, <1>3, <1>4, <1>5, <1>6, <1>7 DEF Next

\* Type correctness of the device: the attempts left and the frame counter stay
\* in their unsigned types, every event is due now or later, and every method
\* leaves a device behind, whatever order the simulator runs them in.
THEOREM TypeCorrect == Spec => []TypeOK
<1> QED
  BY InitType, NextType, PTL DEF Spec

------------------------------------------------------------------------------
(* The invariant of a device whose sub-band rests longer than an exchange      *)

\* From the start of an uplink to the end of its second window.
Exchange == TxTime + ReceiveDelay2 + WindowTime2

\* The first window is over when the second one opens, and the sub-band still
\* rests when the longest downlink of the second window ends: so it is with
\* the duty cycle of one per cent in the sub-band of the default channels.
RestsLongEnough == /\ ReceiveDelay1 + WindowTime1 <= ReceiveDelay2
                   /\ Exchange < DutyWait
                   /\ \A r \in RxTimes : Exchange + r < DutyWait

\* DoSend and Resend share one EventId, m_nextTx.
Postponing == {"DoSend", "Resend"}
Class(w) == IF w.kind \in Postponing THEN "NextTx" ELSE w.kind
OnePerClass(q) == \A e, f \in q : Class(e.what) = Class(f.what) => e = f
Has(q, kind) == \E e \in q : e.what.kind = kind

\* When the events of an exchange are due, from the start of the uplink.
Unheld == {"TxFinished", "OpenFirst"}
Kept == {"CloseFirst", "OpenSecond", "CloseSecond"}
Moment(kind) == CASE kind = "TxFinished"  -> TxTime
                  [] kind = "OpenFirst"   -> TxTime + ReceiveDelay1
                  [] kind = "CloseFirst"  -> TxTime + ReceiveDelay1 + WindowTime1
                  [] kind = "OpenSecond"  -> TxTime + ReceiveDelay2
                  [] kind = "CloseSecond" -> Exchange

\* The rest of the sub-band tells how long ago the last uplink began: every
\* event of the exchange is due at its moment, a reception ends before the rest
\* does, and a postponed packet waits for its end.
OnTime(w, left, duty) ==
    /\ w.kind \in Unheld => w = Run(w.kind) /\ left + DutyWait = duty + Moment(w.kind)
    /\ w.kind \in Kept => w = Held(w.kind) /\ left + DutyWait = duty + Moment(w.kind)
    /\ w.kind = "EndReceive" =>
          /\ w = Run("EndReceive")
          /\ \E r \in RxTimes : left + DutyWait <= duty + Exchange + r
    /\ w.kind \in Postponing => left >= duty
Timed(q, duty) == OnePerClass(q) /\ \A e \in q : OnTime(e.what, e.left, duty)

\* What the radio does, and what is pending meanwhile.
Phase(q, phy) ==
    /\ phy = "TX" <=> Has(q, "TxFinished")
    /\ phy = "RX" <=> Has(q, "EndReceive")
    /\ phy = "STANDBY" => Has(q, "CloseFirst") \/ Has(q, "CloseSecond")
    /\ Has(q, "TxFinished") => /\ ~Has(q, "OpenFirst") /\ ~Has(q, "CloseFirst")
                               /\ ~Has(q, "OpenSecond") /\ ~Has(q, "CloseSecond")
    /\ Has(q, "OpenFirst") => phy = "SLEEP" /\ ~Has(q, "CloseFirst") /\ ~Has(q, "CloseSecond")
    /\ Has(q, "OpenSecond") => ~Has(q, "CloseSecond")

\* What is left of the transmissions of a packet, n packets having been sent:
\* the device waits for an ACK of the packet it has sent last, the attempts
\* made and those left are within the limit, a postponed packet is new, a
\* postponed retransmission is one of the packet that waits.
Limit == IF Confirmed THEN NbTrans ELSE 1
Waits(d) == /\ Confirmed /\ d.packet # None /\ d.lastTx = d.packet
            /\ d.onAir[d.packet] + d.retxLeft <= NbTrans
Owed(w, d, n) ==
    /\ w.kind = "Resend" => d.waitingAck /\ d.retxLeft > 0 /\ w.packet = d.packet
    /\ w.kind = "DoSend" => /\ w.packet \in 1 .. n /\ d.onAir[w.packet] = 0
                            /\ w.packet # d.packet
Budget(d, n) ==
    /\ d.packet <= n
    /\ d.waitingAck => Waits(d)
    /\ \A p \in Packet : d.onAir[p] <= Limit /\ (p > n => d.onAir[p] = 0)
    /\ \A e \in d.events : Owed(e.what, d, n)
    /\ \A c \in d.credits : c[1] = c[2]

Sound(d, n) == /\ d.fault = "none"
               /\ Timed(d.events, d.dutyLeft)
               /\ Phase(d.events, d.phy)
               /\ Budget(d, n)
IInv == TypeOK /\ Sound(dev, sent)

------------------------------------------------------------------------------
(* What becomes of the queue *)

LEMMA InQueue ==
    ASSUME NEW q \in Queues, NEW e \in q
    PROVE  /\ e.what \in Call /\ e.left \in Nat /\ e.what.kind \in Kinds
           /\ e.what.packet \in Slot
BY DEF Queues, Entries, Call

\* The events after Schedule: the new one and, at their times, the old ones.
LEMMA Scheduled ==
    ASSUME NEW q \in Queues, NEW w \in Call, NEW n \in Nat
    PROVE  /\ \A f \in Schedule(q, w, n) : \/ f.what = w /\ f.left = n
                                           \/ \E e \in q : f.what = e.what /\ f.left = e.left
           /\ \A k : Has(Schedule(q, w, n), k) <=> k = w.kind \/ Has(q, k)
           /\ OnePerClass(q) /\ (\A e \in q : Class(e.what) # Class(w))
                 => OnePerClass(Schedule(q, w, n))
<1> DEFINE Moved(e) == [e EXCEPT !.later = IF e.left = n THEN @ + 1 ELSE @]
           new == [what |-> w, left |-> n, later |-> 0]
<1>1. \A e \in q : Moved(e).what = e.what /\ Moved(e).left = e.left
  BY DEF Queues, Entries
<1>2. Schedule(q, w, n) = { Moved(e) : e \in q } \cup {new}
  BY DEF Schedule
<1>3. new.what = w /\ new.left = n
  OBVIOUS
<1> HIDE DEF Moved, new
<1>4. \A f \in Schedule(q, w, n) : \/ f.what = w /\ f.left = n
                                   \/ \E e \in q : f.what = e.what /\ f.left = e.left
  BY <1>1, <1>2, <1>3
<1>5. \A k : Has(Schedule(q, w, n), k) <=> k = w.kind \/ Has(q, k)
  BY <1>1, <1>2, <1>3 DEF Has
<1>6. OnePerClass(q) /\ (\A e \in q : Class(e.what) # Class(w)) => OnePerClass(Schedule(q, w, n))
  BY <1>1, <1>2, <1>3 DEF OnePerClass
<1> QED
  BY <1>4, <1>5, <1>6

\* An event of a class that is not pending comes to a queue that is on time.
LEMMA TimedSchedule ==
    ASSUME NEW q \in Queues, NEW w \in Call, NEW n \in Nat, NEW duty,
           Timed(q, duty), \A e \in q : Class(e.what) # Class(w), OnTime(w, n, duty)
    PROVE  Timed(Schedule(q, w, n), duty)
BY Scheduled DEF Timed

\* Fewer events are as punctual.
LEMMA TimedFewer ==
    ASSUME NEW q, NEW duty, Timed(q, duty), NEW r \in SUBSET q
    PROVE  Timed(r, duty)
BY DEF Timed, OnePerClass

\* An event that runs was the only one of its class.
LEMMA Ran ==
    ASSUME NEW q, NEW duty, Timed(q, duty), NEW e \in q
    PROVE  /\ \A k : Has(q \ {e}, k) <=> Has(q, k) /\ k # e.what.kind
           /\ \A f \in q \ {e} : Class(f.what) # Class(e.what)
<1>1. \A f \in q : f.what.kind = e.what.kind => f = e
  BY DEF Timed, OnePerClass, Class
<1> QED
  BY <1>1 DEF Timed, OnePerClass, Has

\* Nothing of a class is pending.
LEMMA NoneOfClass ==
    ASSUME NEW q, NEW k \in Kinds, ~Has(q, k)
    PROVE  \A e \in q : Class(e.what) # k
BY DEF Has, Class, Kinds

LEMMA Cancelled ==
    ASSUME NEW q \in Queues
    PROVE  /\ Cancel(q, NextTx) \in Queues
           /\ Cancel(q, NextTx) = { e \in q : e.what.kind \notin Postponing }
           /\ \A k : Has(Cancel(q, NextTx), k) <=> Has(q, k) /\ k \notin Postponing
<1>1. \A e \in q : e.what \in NextTx <=> e.what.kind \in Postponing
  BY InQueue DEF NextTx, Postponing
<1>2. Cancel(q, NextTx) = { e \in q : e.what.kind \notin Postponing }
  BY <1>1 DEF Cancel
<1> QED
  BY <1>2 DEF Has, Queues

\* An event that is not pending is held as it is scheduled.
LEMMA Holds ==
    ASSUME NEW q \in Queues, NEW kind \in Kinds, NEW n \in Nat, ~Has(q, kind)
    PROVE  Hold(q, kind, n) = Schedule(q, Held(kind), n)
<1> DEFINE r == { [e EXCEPT !.what = IF @.kind = kind THEN Run(kind) ELSE @] : e \in q }
<1>1. \A e \in q : [e EXCEPT !.what = IF @.kind = kind THEN Run(kind) ELSE @] = e
  BY DEF Has, Queues, Entries
<1>2. r = q
  BY <1>1
<1> QED
  BY <1>2 DEF Hold

\* As long as an event of the exchange is pending the sub-band rests.
LEMMA Resting ==
    ASSUME RestsLongEnough, NEW q \in Queues, NEW duty \in Nat, Timed(q, duty),
           NEW e \in q, e.what.kind \notin Postponing
    PROVE  e.left < duty
<1>1. e.left \in Nat /\ e.what.kind \in Unheld \cup Kept \cup {"EndReceive"}
  BY InQueue DEF Kinds, Postponing, Unheld, Kept
<1>2. OnTime(e.what, e.left, duty)
  BY DEF Timed
<1>3. CASE e.what.kind \in Unheld \cup Kept
  <2>1. Moment(e.what.kind) \in Nat /\ Moment(e.what.kind) <= Exchange
    BY <1>3, DelayAssumption DEF Unheld, Kept, Moment, Exchange, RestsLongEnough
  <2>2. e.left + DutyWait = duty + Moment(e.what.kind)
    BY <1>2, <1>3 DEF OnTime
  <2>3. Exchange \in Nat /\ DutyWait \in Nat /\ Exchange < DutyWait
    BY DelayAssumption DEF Exchange, RestsLongEnough
  <2> QED
    BY <1>1, <2>1, <2>2, <2>3
<1>4. CASE e.what.kind = "EndReceive"
  <2>1. PICK r \in RxTimes : e.left + DutyWait <= duty + Exchange + r
    BY <1>2, <1>4 DEF OnTime
  <2>2. Exchange + r < DutyWait /\ Exchange \in Nat /\ r \in Nat /\ DutyWait \in Nat
    BY DelayAssumption DEF Exchange, RestsLongEnough
  <2> QED
    BY <1>1, <2>1, <2>2
<1> QED
  BY <1>1, <1>3, <1>4

LEMMA TimedElapse ==
    ASSUME RestsLongEnough, NEW q \in Queues, NEW duty \in Nat, Timed(q, duty), ~SomeDue(q)
    PROVE  /\ Timed(Elapse(q), Later(duty - 1, 0))
           /\ \A k : Has(Elapse(q), k) <=> Has(q, k)
           /\ \A f \in Elapse(q) : \E e \in q : f.what = e.what /\ f.left = e.left - 1
<1> DEFINE Nearer(e) == [e EXCEPT !.left = @ - 1]
           less == Later(duty - 1, 0)
<1>1. \A e \in q : Nearer(e).what = e.what /\ Nearer(e).left = e.left - 1
  BY DEF Queues, Entries
<1>2. Elapse(q) = { Nearer(e) : e \in q }
  BY DEF Elapse
<1> HIDE DEF Nearer
<1>3. \A k : Has(Elapse(q), k) <=> Has(q, k)
  BY <1>1, <1>2 DEF Has
<1>4. OnePerClass(Elapse(q))
  BY <1>1, <1>2 DEF Timed, OnePerClass
<1>5. ASSUME NEW e \in q PROVE OnTime(e.what, e.left - 1, less)
  <2>1. e.left \in Nat /\ e.left # 0 /\ OnTime(e.what, e.left, duty)
    BY InQueue DEF SomeDue, Timed
  <2>2. CASE e.what.kind \in Postponing
    BY <2>1, <2>2 DEF OnTime, Later, Postponing, Unheld, Kept
  <2>3. CASE e.what.kind \notin Postponing
    <3>1. less = duty - 1
      BY <2>1, <2>3, Resting DEF Later
    <3> HIDE DEF less
    <3>2. \A m \in Nat : e.left + DutyWait = duty + m => e.left - 1 + DutyWait = less + m
      BY <2>1, <3>1, DelayAssumption
    <3>3. e.what.kind \in Unheld \cup Kept => Moment(e.what.kind) \in Nat
      BY DelayAssumption DEF Unheld, Kept, Moment, Exchange
    <3>4. \A r \in RxTimes : e.left + DutyWait <= duty + Exchange + r
                                => e.left - 1 + DutyWait <= less + Exchange + r
      BY <2>1, <3>1, DelayAssumption DEF Exchange
    <3> QED
      BY <2>1, <2>3, <3>2, <3>3, <3>4 DEF OnTime
  <2> QED
    BY <2>2, <2>3
<1> HIDE DEF less
<1>6. \A f \in Elapse(q) : \E e \in q : f.what = e.what /\ f.left = e.left - 1
  BY <1>1, <1>2
<1>7. Timed(Elapse(q), less)
  BY <1>4, <1>5, <1>6 DEF Timed
<1> QED
  BY <1>3, <1>6, <1>7 DEF less

------------------------------------------------------------------------------
(* What each method of the MAC leaves behind *)

\* Transitions of the radio that the invariant needs.
LEMMA Sleeps ==
    ASSUME NEW d, d.phy = "STANDBY"
    PROVE  SwitchToSleep(d) = [d EXCEPT !.phy = "SLEEP"]
BY DEF SwitchToSleep

\* A report changes the count of the packet in progress and nothing else.
LEMMA ReportFields ==
    ASSUME NEW d \in Device, NEW ok \in BOOLEAN
    PROVE  /\ Report(d, ok) \in Device
           /\ Report(d, ok) = [d EXCEPT !.reports = Report(d, ok).reports]
<1>1. Report(d, ok) \in Device
  BY ReportType
<1> DEFINE x == [d.reports EXCEPT ![d.packet] =
                    IF ok THEN [d.reports[d.packet] EXCEPT !.ok = @ + 1]
                    ELSE [d.reports[d.packet] EXCEPT !.failed = @ + 1]]
<1>2. Report(d, ok) = [d EXCEPT !.reports = x]
  BY DEF Report
<1> HIDE DEF x
<1>3. Report(d, ok).reports = x
  BY <1>2 DEF Device
<1> QED
  BY <1>1, <1>2, <1>3

LEMMA ResetFields ==
    ASSUME NEW d \in Device
    PROVE  /\ ResetRetransmissionParameters(d) \in Device
           /\ ResetRetransmissionParameters(d) =
                 [d EXCEPT !.waitingAck = FALSE, !.retxLeft = NbTrans, !.packet = None,
                           !.events = Cancel(d.events, NextTx)]
<1>1. KeepNextTx(d).events = d.events
  BY DEF KeepNextTx, Device
<1> QED
  BY <1>1, ResetType DEF ResetRetransmissionParameters, KeepNextTx

\* The budget does not depend on the radio, nor on the events of the exchange.
LEMMA SameBudget ==
    ASSUME NEW d, NEW r, NEW n, Budget(d, n),
           r.packet = d.packet, r.waitingAck = d.waitingAck, r.retxLeft = d.retxLeft,
           r.onAir = d.onAir, r.lastTx = d.lastTx, r.credits = d.credits,
           \A f \in r.events : f.what.kind \in Postponing => \E e \in d.events : f.what = e.what
    PROVE  Budget(r, n)
<1>1. \A w : Owed(w, d, n) => Owed(w, r, n)
  BY DEF Owed
<1>2. \A w : w.kind \notin Postponing => Owed(w, r, n)
  BY DEF Owed, Postponing
<1>3. Waits(d) => Waits(r)
  BY DEF Waits
<1> QED
  BY <1>1, <1>2, <1>3 DEF Budget

LEMMA BudgetReset ==
    ASSUME NEW d \in Device, NEW n \in Nat, Budget(d, n)
    PROVE  Budget(ResetRetransmissionParameters(d), n)
<1> DEFINE r == ResetRetransmissionParameters(d)
<1>0. r = [d EXCEPT !.waitingAck = FALSE, !.retxLeft = NbTrans, !.packet = None,
                    !.events = Cancel(d.events, NextTx)]
  BY ResetFields
<1> HIDE DEF r
<1>1. /\ r.packet = None /\ r.waitingAck = FALSE /\ r.onAir = d.onAir /\ r.credits = d.credits
      /\ r.events = Cancel(d.events, NextTx)
  BY <1>0 DEF Device
<1>2. d.events \in Queues
  BY Fields
<1>3. \A e \in r.events : e.what.kind \notin Postponing
  BY <1>1, <1>2, Cancelled
<1>4. \A e \in r.events : Owed(e.what, r, n)
  BY <1>3 DEF Owed, Postponing
<1> QED
  BY <1>1, <1>4 DEF Budget, r, None

\* Cancelling m_nextTx keeps the rest of the queue on time.
LEMMA TimedReset ==
    ASSUME NEW q \in Queues, NEW duty, Timed(q, duty)
    PROVE  Timed(Cancel(q, NextTx), duty)
<1>1. Cancel(q, NextTx) \in SUBSET q
  BY DEF Cancel
<1> QED
  BY <1>1, TimedFewer

\* The device r is d with call as its m_nextTx.
NextTxIs(d, r, call) ==
    /\ r \in Device
    /\ r = [d EXCEPT !.events = r.events]
    /\ Timed(r.events, d.dutyLeft)
    /\ \A k : k \notin Postponing => (Has(r.events, k) <=> Has(d.events, k))
    /\ \A f \in r.events : \/ f.what = call
                           \/ /\ f.what.kind \notin Postponing
                              /\ \E e \in d.events : f.what = e.what /\ f.left = e.left

\* A postponed packet replaces the one that was postponed before, and waits for
\* the end of the rest.
LEMMA Postpones ==
    ASSUME NEW d \in Device, NEW p \in Slot, NEW new \in BOOLEAN, NEW delay \in Nat,
           Timed(d.events, d.dutyLeft), delay >= d.dutyLeft
    PROVE  NextTxIs(d, Postpone(d, p, new, delay),
                    [kind |-> IF new THEN "DoSend" ELSE "Resend", packet |-> p, held |-> TRUE])
<1> DEFINE call == [kind |-> IF new THEN "DoSend" ELSE "Resend", packet |-> p, held |-> TRUE]
           c == Cancel(d.events, NextTx)
           q == Schedule(c, call, delay)
           r == Postpone(d, p, new, delay)
<1>1. call \in Call /\ call.kind \in Postponing
  BY DEF Call, Kinds, Postponing
<1>2. d.events \in Queues /\ d.dutyLeft \in Nat
  BY Fields
<1>3. r = [d EXCEPT !.events = q]
  BY DEF Postpone
<1>4. r \in Device
  BY PostponeType
<1>5. OnTime(call, delay, d.dutyLeft)
  BY <1>1 DEF OnTime, Postponing, Unheld, Kept
<1> HIDE DEF call
<1>6. c \in Queues /\ c = { e \in d.events : e.what.kind \notin Postponing }
      /\ \A k : Has(c, k) <=> Has(d.events, k) /\ k \notin Postponing
  BY <1>2, Cancelled
<1>7. Timed(c, d.dutyLeft)
  BY <1>2, TimedReset
<1>8. \A e \in c : Class(e.what) # Class(call)
  <2>1. Class(call) = "NextTx"
    BY <1>1 DEF Class
  <2>2. \A e \in c : e.what.kind \in Kinds /\ e.what.kind \notin Postponing
    BY <1>6, InQueue
  <2> QED
    BY <2>1, <2>2 DEF Class, Kinds
<1> HIDE DEF c
<1>9. Timed(q, d.dutyLeft)
  BY <1>1, <1>5, <1>6, <1>7, <1>8, TimedSchedule
<1>10. /\ \A f \in q : f.what = call \/ \E e \in c : f.what = e.what /\ f.left = e.left
       /\ \A k : Has(q, k) <=> k = call.kind \/ Has(c, k)
  <2>1. c \in Queues /\ call \in Call /\ delay \in Nat
    BY <1>1, <1>6
  <2>2. \A k : Has(q, k) <=> k = call.kind \/ Has(c, k)
    BY <2>1, Scheduled
  <2>3. \A f \in q : f.what = call \/ \E e \in c : f.what = e.what /\ f.left = e.left
    <3> SUFFICES ASSUME NEW f \in q
                 PROVE  f.what = call \/ \E e \in c : f.what = e.what /\ f.left = e.left
      OBVIOUS
    <3>1. \/ f.what = call /\ f.left = delay
          \/ \E e \in c : f.what = e.what /\ f.left = e.left
      BY <2>1, Scheduled
    <3> QED
      BY <3>1
  <2> QED
    BY <2>2, <2>3
<1> HIDE DEF q
<1>11. r.events = q
  BY <1>3 DEF Device
<1> HIDE DEF r
<1>12. \A k : k \notin Postponing => (Has(r.events, k) <=> Has(d.events, k))
  BY <1>1, <1>6, <1>10, <1>11
<1>13. \A f \in r.events : \/ f.what = call
                           \/ /\ f.what.kind \notin Postponing
                              /\ \E e \in d.events : f.what = e.what /\ f.left = e.left
  BY <1>6, <1>10, <1>11
<1> QED
  BY <1>3, <1>4, <1>9, <1>11, <1>12, <1>13 DEF NextTxIs, r, call

\* A transmission by a device whose sub-band is free and that has nothing else
\* under way: the radio transmits, the packet has one transmission more and one
\* attempt less, and only the end of the transmission is pending.
LEMMA Transmits ==
    ASSUME NEW d \in Device, NEW p \in Packet, NEW new \in BOOLEAN,
           d.phy = "SLEEP", d.dutyLeft = 0,
           d.events = {} \/ (new /\ \A e \in d.events : e.what.kind \in Postponing)
    PROVE  LET r == DoSend(d, p, new)
               left == IF new THEN NbTrans ELSE d.retxLeft
           IN  /\ r \in Device
               /\ r.phy = "TX" /\ r.dutyLeft = DutyWait /\ r.fault = d.fault
               /\ r.events = {[what |-> Run("TxFinished"), left |-> TxTime, later |-> 0]}
               /\ r.onAir = [d.onAir EXCEPT ![p] = @ + 1]
               /\ r.lastTx = p
               /\ r.packet = IF new THEN p ELSE d.packet
               /\ r.waitingAck = IF new THEN Confirmed ELSE d.waitingAck
               /\ left > 0 => r.retxLeft = left - 1
               /\ r.reports = d.reports /\ r.credits = d.credits
<1> DEFINE r == DoSend(d, p, new)
           left == IF new THEN NbTrans ELSE d.retxLeft
           s == ResetRetransmissionParameters(d)
           ready == IF new THEN [s EXCEPT !.packet = p, !.waitingAck = Confirmed] ELSE d
           sending == PhySend(ready, p)
           x == SendToPhy(ready, p)
<1>1. p \in Slot /\ r \in Device
  BY DoSendType DEF Slot
<1>0. s = [d EXCEPT !.waitingAck = FALSE, !.retxLeft = NbTrans, !.packet = None,
                    !.events = Cancel(d.events, NextTx)] /\ s \in Device
  BY ResetFields
<1> HIDE DEF s
<1>2. /\ s.phy = d.phy /\ s.dutyLeft = d.dutyLeft /\ s.fault = d.fault /\ s.onAir = d.onAir
      /\ s.reports = d.reports /\ s.credits = d.credits /\ s.retxLeft = NbTrans
      /\ s.events = Cancel(d.events, NextTx) /\ s \in Device
  BY <1>0 DEF Device
<1>3. /\ ready.phy = "SLEEP" /\ ready.dutyLeft = 0 /\ ready.fault = d.fault
      /\ ready.onAir = d.onAir /\ ready.reports = d.reports /\ ready.credits = d.credits
      /\ ready.retxLeft = left
      /\ ready.packet = IF new THEN p ELSE d.packet
      /\ ready.waitingAck = IF new THEN Confirmed ELSE d.waitingAck
      /\ ready.events = {}
      /\ ready \in Device
  <2>1. CASE new
    <3>1. Cancel(d.events, NextTx) = {}
      <4>1. d.events \in Queues
        BY Fields
      <4> QED
        BY <2>1, <4>1, Cancelled
    <3>2. ready = [s EXCEPT !.packet = p, !.waitingAck = Confirmed]
      BY <2>1
    <3>3. ready \in Device
      BY <1>1, <1>2, <3>2, ModeAssumption DEF Device
    <3> QED
      BY <1>2, <2>1, <3>1, <3>2, <3>3 DEF Device
  <2>2. CASE ~new
    BY <2>2
  <2> QED
    BY <2>1, <2>2
<1> HIDE DEF ready
<1>4. Schedule({}, Run("TxFinished"), TxTime)
         = {[what |-> Run("TxFinished"), left |-> TxTime, later |-> 0]}
  BY DEF Schedule
<1>5. /\ sending.phy = "TX" /\ sending.fault = d.fault
      /\ sending.events = {[what |-> Run("TxFinished"), left |-> TxTime, later |-> 0]}
      /\ sending.onAir = [d.onAir EXCEPT ![p] = @ + 1] /\ sending.lastTx = p
      /\ sending.packet = ready.packet /\ sending.waitingAck = ready.waitingAck
      /\ sending.retxLeft = left /\ sending.reports = d.reports /\ sending.credits = d.credits
      /\ sending \in Device
  <2>1. sending = [ready EXCEPT !.phy = "TX",
                      !.events = Schedule(@, Run("TxFinished"), TxTime),
                      !.onAir[p] = @ + 1,
                      !.frames = @ \cup {[fcnt |-> ready.fcnt, packet |-> p]},
                      !.lastTx = p]
    BY <1>3 DEF PhySend
  <2>2. sending \in Device
    BY <1>1, <1>3, PhySendType
  <2> QED
    BY <1>3, <1>4, <2>1, <2>2 DEF Device
<1>6. x = [sending EXCEPT !.dutyLeft = DutyWait] /\ x \in Device
  BY <1>1, <1>3, SendToPhyType DEF SendToPhy
<1> HIDE DEF sending
<1>7. /\ x.phy = "TX" /\ x.fault = d.fault /\ x.dutyLeft = DutyWait
      /\ x.events = {[what |-> Run("TxFinished"), left |-> TxTime, later |-> 0]}
      /\ x.onAir = [d.onAir EXCEPT ![p] = @ + 1] /\ x.lastTx = p
      /\ x.packet = ready.packet /\ x.waitingAck = ready.waitingAck
      /\ x.retxLeft = left /\ x.reports = d.reports /\ x.credits = d.credits
  BY <1>5, <1>6 DEF Device
<1>8. r = [x EXCEPT !.retxLeft = (x.retxLeft + 255) % 256,
                    !.fcnt = IF new THEN (x.fcnt + 1) % FCntValues ELSE x.fcnt]
  BY DEF DoSend, ready, s
<1> HIDE DEF x
<1>9. left > 0 => (left + 255) % 256 = left - 1
  BY Fields, PacketAssumption DEF UInt8
<1> HIDE DEF left, r
<1>10. /\ r.phy = "TX" /\ r.fault = d.fault /\ r.dutyLeft = DutyWait
       /\ r.events = {[what |-> Run("TxFinished"), left |-> TxTime, later |-> 0]}
       /\ r.onAir = [d.onAir EXCEPT ![p] = @ + 1] /\ r.lastTx = p
       /\ r.packet = ready.packet /\ r.waitingAck = ready.waitingAck
       /\ left > 0 => r.retxLeft = left - 1
       /\ r.reports = d.reports /\ r.credits = d.credits
  BY <1>6, <1>7, <1>8, <1>9 DEF Device
<1> QED
  BY <1>1, <1>3, <1>10 DEF r, left

\* Reports of a packet; and one more of them, for the packet in progress.
Total(d, p) == d.reports[p].ok + d.reports[p].failed
Counted(d, r) == \A p \in Slot : Total(r, p) = IF p = d.packet THEN Total(d, p) + 1
                                               ELSE Total(d, p)

LEMMA ReportCounted ==
    ASSUME NEW d \in Device, NEW ok \in BOOLEAN, NEW r, r.reports = Report(d, ok).reports
    PROVE  Counted(d, r)
<1> DEFINE old == d.reports[d.packet]
           told == IF ok THEN [old EXCEPT !.ok = @ + 1] ELSE [old EXCEPT !.failed = @ + 1]
           x == [d.reports EXCEPT ![d.packet] = told]
<1>1. d.packet \in Slot /\ d.reports \in [Slot -> [ok : Nat, failed : Nat]]
  BY Fields DEF ReportCounts
<1>2. old \in [ok : Nat, failed : Nat]
  BY <1>1
<1>3. told.ok + told.failed = old.ok + old.failed + 1
  BY <1>2
<1>4. Report(d, ok) = [d EXCEPT !.reports = x]
  BY DEF Report
<1> HIDE DEF told
<1>5. x[d.packet] = told /\ \A p \in Slot : p # d.packet => x[p] = d.reports[p]
  BY <1>1
<1> HIDE DEF x
<1>6. r.reports = x
  BY <1>4 DEF Device
<1> QED
  BY <1>3, <1>5, <1>6 DEF Counted, Total

\* The packet in progress is still the same one, and unreported; or it is
\* reported and forgotten, and no second window is to come.
SameTask(d, r) ==
    /\ r.packet = d.packet /\ r.reports = d.reports
    /\ \A f \in r.events : \/ f.what.kind = "Resend"
                           \/ \E e \in d.events : f.what = e.what /\ f.left = e.left
Ended(d, r) ==
    /\ r.packet = None /\ Counted(d, r)
    /\ ~Has(r.events, "TxFinished") /\ ~Has(r.events, "OpenFirst")
    /\ ~Has(r.events, "OpenSecond")
    /\ \A f \in r.events : /\ f.what.kind \notin Postponing
                           /\ \E e \in d.events : f.what = e.what /\ f.left = e.left

\* What the methods that end or repeat a packet leave alone: the radio, the
\* rest of the sub-band, and the events of the exchange.
KeepsExchange(d, r) ==
    /\ r \in Device
    /\ r.phy = d.phy /\ r.fault = d.fault /\ r.dutyLeft = d.dutyLeft
    /\ Timed(r.events, r.dutyLeft)
    /\ \A k : k \notin Postponing => (Has(r.events, k) <=> Has(d.events, k))
    /\ \A f \in r.events : f.what.kind \notin Postponing
                              => \E e \in d.events : f.what = e.what /\ f.left = e.left

LEMMA ResetKeeps ==
    ASSUME NEW d \in Device, Timed(d.events, d.dutyLeft)
    PROVE  KeepsExchange(d, ResetRetransmissionParameters(d))
<1> DEFINE r == ResetRetransmissionParameters(d)
<1>1. r = [d EXCEPT !.waitingAck = FALSE, !.retxLeft = NbTrans, !.packet = None,
                    !.events = Cancel(d.events, NextTx)] /\ r \in Device
  BY ResetFields
<1> HIDE DEF r
<1>2. /\ r.phy = d.phy /\ r.fault = d.fault /\ r.dutyLeft = d.dutyLeft
      /\ r.events = Cancel(d.events, NextTx)
  BY <1>1 DEF Device
<1>3. d.events \in Queues
  BY Fields
<1>4. Timed(r.events, r.dutyLeft)
  BY <1>2, <1>3, TimedReset
<1>5. r.events = { e \in d.events : e.what.kind \notin Postponing }
      /\ \A k : k \notin Postponing => (Has(r.events, k) <=> Has(d.events, k))
  BY <1>2, <1>3, Cancelled
<1> QED
  BY <1>1, <1>2, <1>4, <1>5 DEF KeepsExchange, r

\* A packet that is reported is forgotten.
LEMMA Ends ==
    ASSUME NEW d \in Device, NEW n \in Nat, NEW ok \in BOOLEAN,
           Timed(d.events, d.dutyLeft), Budget(d, n)
    PROVE  LET r == ResetRetransmissionParameters(Report(d, ok))
           IN  /\ KeepsExchange(d, r) /\ Budget(r, n)
               /\ r.packet = None /\ r.reports = Report(d, ok).reports
               /\ \A f \in r.events : f.what.kind \notin Postponing
<1> DEFINE s == Report(d, ok)
           r == ResetRetransmissionParameters(s)
<1>1. s = [d EXCEPT !.reports = s.reports] /\ s \in Device
  BY ReportFields
<1> HIDE DEF s
<1>2. /\ s.phy = d.phy /\ s.fault = d.fault /\ s.dutyLeft = d.dutyLeft /\ s.events = d.events
      /\ s.packet = d.packet /\ s.waitingAck = d.waitingAck /\ s.retxLeft = d.retxLeft
      /\ s.onAir = d.onAir /\ s.lastTx = d.lastTx /\ s.credits = d.credits
  BY <1>1 DEF Device
<1>3. Budget(s, n)
  BY <1>2, SameBudget
<1>4. KeepsExchange(s, r)
  BY <1>1, <1>2, ResetKeeps
<1>5. Budget(r, n)
  BY <1>1, <1>3, BudgetReset
<1>6. r = [s EXCEPT !.waitingAck = FALSE, !.retxLeft = NbTrans, !.packet = None,
                    !.events = Cancel(s.events, NextTx)] /\ r \in Device
  BY <1>1, ResetFields
<1> HIDE DEF r
<1>7. r.packet = None /\ r.reports = s.reports /\ r.events = Cancel(s.events, NextTx)
  BY <1>1, <1>6 DEF Device
<1>8. \A f \in r.events : f.what.kind \notin Postponing
  <2>1. s.events \in Queues
    BY <1>1, Fields
  <2> QED
    BY <1>7, <2>1, Cancelled
<1> QED
  BY <1>2, <1>4, <1>5, <1>7, <1>8 DEF KeepsExchange, r, s

\* An ACK credits the packet that waits for it.
LEMMA Accepts ==
    ASSUME NEW d \in Device, NEW n \in Nat, Timed(d.events, d.dutyLeft), Budget(d, n),
           d.waitingAck
    PROVE  LET r == AcceptAck(d)
           IN  /\ KeepsExchange(d, r) /\ Budget(r, n)
               /\ r.packet = None /\ r.reports = Report(d, TRUE).reports
               /\ \A f \in r.events : f.what.kind \notin Postponing
<1> DEFINE told == Report(d, TRUE)
           s == [told EXCEPT !.credits = @ \cup {<<d.packet, d.lastTx>>}]
           r == ResetRetransmissionParameters(s)
<1>1. told = [d EXCEPT !.reports = told.reports] /\ told \in Device
  BY ReportFields
<1> HIDE DEF told
<1>2. s.credits = d.credits \cup {<<d.packet, d.lastTx>>}
  BY <1>1 DEF Device
<1>3. d.packet \in Slot /\ d.lastTx \in Slot /\ d.packet = d.lastTx /\ d.credits \in Credits
  BY Fields DEF Budget, Waits
<1>4. s.credits \in Credits /\ \A c \in s.credits : c[1] = c[2]
  BY <1>2, <1>3 DEF Credits, Budget
<1>5. s = [told EXCEPT !.credits = s.credits]
  BY <1>1 DEF Device
<1>6. s \in Device
  BY <1>1, <1>4, <1>5, Updates
<1> HIDE DEF s
<1>7. /\ s.phy = d.phy /\ s.fault = d.fault /\ s.dutyLeft = d.dutyLeft /\ s.events = d.events
      /\ s.packet = d.packet /\ s.waitingAck = d.waitingAck /\ s.retxLeft = d.retxLeft
      /\ s.onAir = d.onAir /\ s.lastTx = d.lastTx /\ s.reports = told.reports
  BY <1>1, <1>5 DEF Device
<1>8. Budget(s, n)
  <2>1. \A w : Owed(w, d, n) => Owed(w, s, n)
    BY <1>7 DEF Owed
  <2>2. Waits(d) => Waits(s)
    BY <1>7 DEF Waits
  <2> QED
    BY <1>4, <1>7, <2>1, <2>2 DEF Budget
<1>9. KeepsExchange(s, r)
  BY <1>6, <1>7, ResetKeeps
<1>10. Budget(r, n)
  BY <1>6, <1>8, BudgetReset
<1>11. r = [s EXCEPT !.waitingAck = FALSE, !.retxLeft = NbTrans, !.packet = None,
                     !.events = Cancel(s.events, NextTx)]
  BY <1>6, ResetFields
<1>12. r = AcceptAck(d)
  BY DEF AcceptAck, s, told
<1> HIDE DEF r
<1>13. r.packet = None /\ r.reports = told.reports /\ r.events = Cancel(s.events, NextTx)
  BY <1>6, <1>7, <1>11 DEF Device
<1>14. \A f \in r.events : f.what.kind \notin Postponing
  <2>1. s.events \in Queues
    BY <1>6, Fields
  <2> QED
    BY <1>13, <2>1, Cancelled
<1>15. KeepsExchange(d, r)
  BY <1>7, <1>9 DEF KeepsExchange
<1> QED
  BY <1>10, <1>12, <1>13, <1>14, <1>15 DEF told

\* A packet that was not acknowledged is postponed while the sub-band rests, if
\* there are attempts left, and else reported.
LEMMA Retries ==
    ASSUME NEW d \in Device, NEW n \in Nat, NEW t \in AckTimeouts,
           Timed(d.events, d.dutyLeft), Budget(d, n), d.waitingAck, d.dutyLeft > 0
    PROVE  LET r == RetryOrFail(d, t)
           IN  /\ KeepsExchange(d, r) /\ Budget(r, n)
               /\ \/ /\ r.packet = d.packet /\ r.reports = d.reports
                     /\ \A f \in r.events : f.what.kind # "DoSend"
                  \/ /\ r.packet = None /\ r.reports = Report(d, FALSE).reports
                     /\ \A f \in r.events : f.what.kind \notin Postponing
<1> DEFINE r == RetryOrFail(d, t)
<1>1. CASE d.retxLeft > 0
  <2> DEFINE delay == TransmissionDelay(d, t)
             s == Postpone(d, d.packet, FALSE, delay)
             call == [kind |-> "Resend", packet |-> d.packet, held |-> TRUE]
  <2>1. /\ d.dutyLeft \in Nat /\ d.secondTs \in Int /\ t \in Int /\ d.packet \in Slot
        /\ d.events \in Queues
    BY Fields, DelayAssumption
  <2>2. delay \in Nat /\ delay >= d.dutyLeft /\ delay > 0
    BY <2>1 DEF TransmissionDelay, Later
  <2>3. r = s
    BY <1>1, <2>2 DEF RetryOrFail, Send
  <2> HIDE DEF delay
  <2>4. NextTxIs(d, s, call)
    BY <2>1, <2>2, Postpones
  <2> HIDE DEF s, r
  <2>5. /\ s.phy = d.phy /\ s.fault = d.fault /\ s.dutyLeft = d.dutyLeft
        /\ s.packet = d.packet /\ s.waitingAck = d.waitingAck /\ s.retxLeft = d.retxLeft
        /\ s.onAir = d.onAir /\ s.lastTx = d.lastTx /\ s.reports = d.reports
        /\ s.credits = d.credits
    BY <2>4 DEF NextTxIs, Device
  <2>6. call.kind = "Resend" /\ call.packet = d.packet
    OBVIOUS
  <2> HIDE DEF call
  <2>7. Owed(call, s, n)
    BY <1>1, <2>5, <2>6 DEF Owed
  <2>8. \A f \in s.events : Owed(f.what, s, n)
    BY <2>4, <2>7 DEF NextTxIs, Owed, Postponing
  <2>9. Waits(d) => Waits(s)
    BY <2>5 DEF Waits
  <2>10. Budget(s, n)
    BY <2>5, <2>8, <2>9 DEF Budget
  <2>11. \A f \in s.events : f.what.kind # "DoSend"
    BY <2>4, <2>6 DEF NextTxIs, Postponing
  <2>12. KeepsExchange(d, s)
    BY <2>4, <2>5, <2>6 DEF NextTxIs, KeepsExchange, Postponing
  <2> QED
    BY <2>3, <2>5, <2>10, <2>11, <2>12 DEF r
<1>2. CASE ~(d.retxLeft > 0)
  <2>1. r = ResetRetransmissionParameters(Report(d, FALSE))
    BY <1>2 DEF RetryOrFail
  <2> QED
    BY <2>1, Ends
<1> QED
  BY <1>1, <1>2

LEMMA RetryCounts ==
    ASSUME NEW d \in Device, NEW n \in Nat, NEW t \in AckTimeouts,
           Timed(d.events, d.dutyLeft), Budget(d, n), d.waitingAck, d.dutyLeft > 0
    PROVE  LET r == RetryOrFail(d, t)
           IN  \/ SameTask(d, r)
               \/ /\ r.packet = None /\ Counted(d, r)
                  /\ \A f \in r.events : f.what.kind \notin Postponing
<1> DEFINE r == RetryOrFail(d, t)
<1>1. /\ KeepsExchange(d, r)
      /\ \/ /\ r.packet = d.packet /\ r.reports = d.reports
            /\ \A f \in r.events : f.what.kind # "DoSend"
         \/ /\ r.packet = None /\ r.reports = Report(d, FALSE).reports
            /\ \A f \in r.events : f.what.kind \notin Postponing
  BY Retries
<1> HIDE DEF r
<1>2. CASE r.packet = d.packet /\ r.reports = d.reports
           /\ \A f \in r.events : f.what.kind # "DoSend"
  <2>1. SameTask(d, r)
    BY <1>1, <1>2 DEF SameTask, KeepsExchange, Postponing
  <2> QED
    BY <2>1 DEF r
<1>3. CASE r.packet = None /\ r.reports = Report(d, FALSE).reports
           /\ \A f \in r.events : f.what.kind \notin Postponing
  BY <1>3, ReportCounted DEF r
<1> QED
  BY <1>1, <1>2, <1>3

------------------------------------------------------------------------------
(* The receive windows: no packet is begun or ended *)

\* Only the radio, its events and the time of the second window change.
OnlyRadio(d, r) ==
    /\ r.fault = d.fault /\ r.dutyLeft = d.dutyLeft
    /\ r.packet = d.packet /\ r.waitingAck = d.waitingAck /\ r.retxLeft = d.retxLeft
    /\ r.onAir = d.onAir /\ r.lastTx = d.lastTx /\ r.credits = d.credits
    /\ r.reports = d.reports

LEMMA RadioBudget ==
    ASSUME NEW d, NEW r, NEW n, Budget(d, n), OnlyRadio(d, r),
           \A f \in r.events : f.what.kind \in Postponing => \E e \in d.events : f.what = e.what
    PROVE  Budget(r, n)
BY SameBudget DEF OnlyRadio

\* The device when the simulator has taken an event off the queue.
LEMMA Takes ==
    ASSUME IInv, NEW kind \in Kinds, NEW e \in Ready(kind)
    PROVE  /\ dev \in Device /\ Popped(e) \in Device /\ sent \in Nat
           /\ e \in dev.events /\ e.left = 0 /\ e.what.kind = kind
           /\ OnTime(e.what, 0, dev.dutyLeft)
           /\ OnlyRadio(dev, Popped(e)) /\ Popped(e).phy = dev.phy
           /\ Popped(e).events = dev.events \ {e}
           /\ dev.events \in Queues /\ dev.events \ {e} \in Queues
           /\ Timed(dev.events \ {e}, dev.dutyLeft)
           /\ Has(dev.events, kind)
           /\ \A k : Has(dev.events \ {e}, k) <=> Has(dev.events, k) /\ k # kind
           /\ Budget(Popped(e), sent)
<1>1. dev \in Device /\ sent \in Nat /\ Sound(dev, sent)
  BY DEF IInv, TypeOK
<1>2. dev.events \in Queues
  BY <1>1, Fields
<1>3. e \in dev.events /\ e.left = 0 /\ e.what.kind = kind
  BY DEF Ready, Due
<1>4. dev.events \ {e} \in Queues
  BY <1>2 DEF Queues
<1>5. Popped(e) \in Device
  BY <1>1, PoppedType
<1>6. OnlyRadio(dev, Popped(e)) /\ Popped(e).phy = dev.phy /\ Popped(e).events = dev.events \ {e}
  BY <1>1 DEF Popped, OnlyRadio, Device
<1>7. Timed(dev.events, dev.dutyLeft) /\ Timed(dev.events \ {e}, dev.dutyLeft)
  BY <1>1, TimedFewer DEF Sound
<1>8. OnTime(e.what, 0, dev.dutyLeft)
  BY <1>3, <1>7 DEF Timed
<1>9. \A k : Has(dev.events \ {e}, k) <=> Has(dev.events, k) /\ k # kind
  BY <1>3, <1>7, Ran
<1>10. Budget(Popped(e), sent)
  BY <1>1, <1>6, RadioBudget DEF Sound
<1> QED
  BY <1>1, <1>2, <1>3, <1>4, <1>5, <1>6, <1>7, <1>8, <1>9, <1>10 DEF Has

\* The arithmetic of the assumptions.
LEMMA Delays ==
    /\ TxTime \in Nat /\ ReceiveDelay1 \in Nat /\ ReceiveDelay2 \in Nat
    /\ WindowTime1 \in Nat /\ WindowTime2 \in Nat /\ DutyWait \in Nat /\ RxTimes \subseteq Nat
    /\ TxTime > 0 /\ ReceiveDelay1 < ReceiveDelay2
    /\ \A k \in Unheld \cup Kept : Moment(k) \in Nat
    /\ Exchange \in Nat
BY DelayAssumption DEF Unheld, Kept, Moment, Exchange

\* A new event of the exchange, at its moment.
LEMMA AddsEvent ==
    ASSUME NEW q \in Queues, NEW duty \in Nat, NEW k \in Unheld \cup Kept, NEW n \in Nat,
           Timed(q, duty), ~Has(q, k), n + DutyWait = duty + Moment(k)
    PROVE  LET w == IF k \in Unheld THEN Run(k) ELSE Held(k)
               r == Schedule(q, w, n)
           IN  /\ Timed(r, duty) /\ r \in Queues
               /\ \A j : Has(r, j) <=> j = k \/ Has(q, j)
               /\ \A f \in r : \/ f.what.kind = k
                               \/ \E e \in q : f.what = e.what /\ f.left = e.left
<1> DEFINE w == IF k \in Unheld THEN Run(k) ELSE Held(k)
<1>1. k \in Kinds /\ k \notin Postponing /\ k # "EndReceive" /\ (k \in Unheld => k \notin Kept)
  BY DEF Unheld, Kept, Kinds, Postponing
<1>2. w \in Call /\ w.kind = k
  BY <1>1, RunType DEF Run, Held
<1>3. OnTime(w, n, duty)
  BY <1>1, <1>2 DEF OnTime
<1> HIDE DEF w
<1>4. \A e \in q : Class(e.what) # Class(w)
  <2>1. Class(w) = k
    BY <1>1, <1>2 DEF Class
  <2> QED
    BY <1>1, <2>1, NoneOfClass
<1>5. Timed(Schedule(q, w, n), duty)
  BY <1>2, <1>3, <1>4, TimedSchedule
<1>6. Schedule(q, w, n) \in Queues
  BY <1>2, QueueType
<1>7. \A j : Has(Schedule(q, w, n), j) <=> j = k \/ Has(q, j)
  BY <1>2, Scheduled
<1>8. \A f \in Schedule(q, w, n) : \/ f.what.kind = k
                                   \/ \E e \in q : f.what = e.what /\ f.left = e.left
  <2>1. \A f \in Schedule(q, w, n) : \/ f.what = w /\ f.left = n
                                     \/ \E e \in q : f.what = e.what /\ f.left = e.left
    BY <1>2, Scheduled
  <2> QED
    BY <1>2, <2>1
<1> QED
  BY <1>5, <1>6, <1>7, <1>8 DEF w

\* Events of the kinds K are the only ones that r has and d has not.
Adds(d, r, K) ==
    /\ r.packet = d.packet /\ r.reports = d.reports
    /\ \A f \in r.events : \/ f.what.kind \in K
                           \/ \E e \in d.events : f.what = e.what /\ f.left = e.left

LEMMA TxFinishedSound ==
    ASSUME IInv, NEW e \in Ready("TxFinished")
    PROVE  /\ Sound(TxFinished(Popped(e)), sent)
           /\ Adds(Popped(e), TxFinished(Popped(e)), {"OpenFirst", "OpenSecond"})
<1> DEFINE d == Popped(e)
           q == dev.events \ {e}
           q1 == Schedule(q, Run("OpenFirst"), ReceiveDelay1)
           q2 == Schedule(q1, Held("OpenSecond"), ReceiveDelay2)
           r == TxFinished(d)
<1>1. "TxFinished" \in Kinds /\ "OpenSecond" \in Kinds /\ "OpenFirst" \in Unheld
      /\ "OpenSecond" \in Kept /\ "OpenSecond" \notin Unheld
  BY DEF Kinds, Unheld, Kept
<1>2. /\ d \in Device /\ OnlyRadio(dev, d) /\ d.events = q /\ q \in Queues
      /\ OnTime(e.what, 0, dev.dutyLeft) /\ e.what.kind = "TxFinished"
      /\ Timed(q, dev.dutyLeft) /\ Has(dev.events, "TxFinished")
      /\ \A k : Has(q, k) <=> Has(dev.events, k) /\ k # "TxFinished"
      /\ Budget(d, sent) /\ dev \in Device
  BY <1>1, Takes
<1>3. Phase(dev.events, dev.phy) /\ dev.fault = "none"
  BY DEF IInv, Sound
<1>4. /\ ~Has(q, "OpenFirst") /\ ~Has(q, "OpenSecond") /\ ~Has(q, "CloseFirst")
      /\ ~Has(q, "CloseSecond") /\ ~Has(q, "EndReceive") /\ ~Has(q, "TxFinished")
  BY <1>2, <1>3 DEF Phase
<1> HIDE DEF q, d
<1>5. dev.dutyLeft \in Nat /\ DutyWait = dev.dutyLeft + TxTime
  BY <1>2, Fields, Delays DEF OnTime, Unheld, Moment
<1>6. /\ Timed(q1, dev.dutyLeft) /\ q1 \in Queues
      /\ \A j : Has(q1, j) <=> j = "OpenFirst" \/ Has(q, j)
      /\ \A f \in q1 : \/ f.what.kind = "OpenFirst"
                       \/ \E g \in q : f.what = g.what /\ f.left = g.left
  <2>1. ReceiveDelay1 + DutyWait = dev.dutyLeft + Moment("OpenFirst")
    BY <1>5, Delays DEF Moment
  <2> QED
    BY <1>1, <1>2, <1>4, <1>5, <2>1, Delays, AddsEvent
<1> HIDE DEF q1
<1>7. /\ Timed(q2, dev.dutyLeft) /\ q2 \in Queues
      /\ \A j : Has(q2, j) <=> j = "OpenSecond" \/ Has(q1, j)
      /\ \A f \in q2 : \/ f.what.kind = "OpenSecond"
                       \/ \E g \in q1 : f.what = g.what /\ f.left = g.left
  <2>1. ReceiveDelay2 + DutyWait = dev.dutyLeft + Moment("OpenSecond")
    BY <1>5, Delays DEF Moment
  <2>2. ~Has(q1, "OpenSecond")
    BY <1>4, <1>6
  <2> QED
    BY <1>1, <1>5, <1>6, <2>1, <2>2, Delays, AddsEvent
<1>8. OnlyRadio(d, r) /\ r.phy = "SLEEP" /\ r.events = q2
  <2> DEFINE x == [d EXCEPT !.phy = "STANDBY", !.events = q2, !.secondTs = ReceiveDelay2]
  <2>1. Hold(q1, "OpenSecond", ReceiveDelay2) = q2
    BY <1>1, <1>4, <1>6, Holds, Delays
  <2>2. r = SwitchToSleep(x)
    BY <1>2, <2>1 DEF TxFinished, q1
  <2> HIDE DEF r, q2
  <2>3. x.phy = "STANDBY"
    BY <1>2 DEF Device
  <2>4. [x EXCEPT !.phy = "SLEEP"]
           = [d EXCEPT !.phy = "SLEEP", !.events = q2, !.secondTs = ReceiveDelay2]
    OBVIOUS
  <2> HIDE DEF x
  <2>5. r = [d EXCEPT !.phy = "SLEEP", !.events = q2, !.secondTs = ReceiveDelay2]
    BY <2>2, <2>3, <2>4, Sleeps
  <2> QED
    BY <1>2, <2>5 DEF Device, OnlyRadio
<1> HIDE DEF q2, r
<1>9. Budget(r, sent)
  <2>1. \A f \in r.events : f.what.kind \in Postponing => \E g \in d.events : f.what = g.what
    BY <1>2, <1>6, <1>7, <1>8 DEF Postponing
  <2> QED
    BY <1>2, <1>8, <2>1, RadioBudget
<1>10. Phase(r.events, r.phy)
  BY <1>4, <1>6, <1>7, <1>8 DEF Phase
<1>11. Adds(d, r, {"OpenFirst", "OpenSecond"})
  BY <1>2, <1>6, <1>7, <1>8 DEF Adds, OnlyRadio
<1> QED
  BY <1>2, <1>3, <1>7, <1>8, <1>9, <1>10, <1>11 DEF Sound, OnlyRadio, r, d

LEMMA OpenFirstSound ==
    ASSUME IInv, NEW e \in Ready("OpenFirst")
    PROVE  /\ Sound(OpenFirst(Popped(e)), sent)
           /\ Adds(Popped(e), OpenFirst(Popped(e)), {"CloseFirst"})
<1> DEFINE d == Popped(e)
           q == dev.events \ {e}
           q1 == Schedule(q, Held("CloseFirst"), WindowTime1)
           r == OpenFirst(d)
<1>1. "OpenFirst" \in Kinds /\ "CloseFirst" \in Kinds /\ "CloseFirst" \in Kept
      /\ "CloseFirst" \notin Unheld
  BY DEF Kinds, Unheld, Kept
<1>2. /\ d \in Device /\ OnlyRadio(dev, d) /\ d.events = q /\ q \in Queues
      /\ OnTime(e.what, 0, dev.dutyLeft) /\ e.what.kind = "OpenFirst"
      /\ Timed(q, dev.dutyLeft) /\ Has(dev.events, "OpenFirst")
      /\ \A k : Has(q, k) <=> Has(dev.events, k) /\ k # "OpenFirst"
      /\ Budget(d, sent) /\ dev \in Device
  BY <1>1, Takes
<1>3. Phase(dev.events, dev.phy) /\ dev.fault = "none"
  BY DEF IInv, Sound
<1>4. /\ ~Has(q, "OpenFirst") /\ ~Has(q, "CloseFirst") /\ ~Has(q, "CloseSecond")
      /\ ~Has(q, "EndReceive") /\ ~Has(q, "TxFinished")
  BY <1>2, <1>3 DEF Phase
<1> HIDE DEF q, d
<1>5. dev.dutyLeft \in Nat /\ DutyWait = dev.dutyLeft + TxTime + ReceiveDelay1
  BY <1>2, Fields, Delays DEF OnTime, Unheld, Moment
<1>6. /\ Timed(q1, dev.dutyLeft) /\ q1 \in Queues
      /\ \A j : Has(q1, j) <=> j = "CloseFirst" \/ Has(q, j)
      /\ \A f \in q1 : \/ f.what.kind = "CloseFirst"
                       \/ \E g \in q : f.what = g.what /\ f.left = g.left
  <2>1. WindowTime1 + DutyWait = dev.dutyLeft + Moment("CloseFirst")
    BY <1>5, Delays DEF Moment
  <2> QED
    BY <1>1, <1>2, <1>4, <1>5, <2>1, Delays, AddsEvent
<1>7. OnlyRadio(d, r) /\ r.phy = "STANDBY" /\ r.events = q1
  <2>1. Hold(q, "CloseFirst", WindowTime1) = q1
    BY <1>1, <1>2, <1>4, Holds, Delays
  <2>2. r = [SwitchToStandby(d) EXCEPT !.events = Hold(@, "CloseFirst", WindowTime1)]
    BY DEF OpenFirst
  <2>3. SwitchToStandby(d).events = q
    BY <1>2 DEF SwitchToStandby, Device
  <2>4. r = [d EXCEPT !.phy = "STANDBY", !.events = q1]
    BY <2>1, <2>2, <2>3 DEF SwitchToStandby
  <2> HIDE DEF r, q1
  <2> QED
    BY <1>2, <2>4 DEF Device, OnlyRadio
<1> HIDE DEF q1, r
<1>8. Budget(r, sent)
  <2>1. \A f \in r.events : f.what.kind \in Postponing => \E g \in d.events : f.what = g.what
    BY <1>2, <1>6, <1>7 DEF Postponing
  <2> QED
    BY <1>2, <1>7, <2>1, RadioBudget
<1>9. Phase(r.events, r.phy)
  BY <1>4, <1>6, <1>7 DEF Phase
<1>10. Adds(d, r, {"CloseFirst"})
  BY <1>2, <1>6, <1>7 DEF Adds, OnlyRadio
<1> QED
  BY <1>2, <1>3, <1>6, <1>7, <1>8, <1>9, <1>10 DEF Sound, OnlyRadio, r, d

\* A window that closes finds the radio asleep, receiving or in standby.
LEMMA CloseFirstSound ==
    ASSUME IInv, NEW e \in Ready("CloseFirst")
    PROVE  /\ Sound(CloseFirst(Popped(e)), sent)
           /\ SameTask(Popped(e), CloseFirst(Popped(e)))
<1> DEFINE d == Popped(e)
           q == dev.events \ {e}
           r == CloseFirst(d)
<1>1. "CloseFirst" \in Kinds
  BY DEF Kinds
<1>2. /\ d \in Device /\ OnlyRadio(dev, d) /\ d.events = q /\ d.phy = dev.phy
      /\ Timed(q, dev.dutyLeft) /\ Has(dev.events, "CloseFirst")
      /\ \A k : Has(q, k) <=> Has(dev.events, k) /\ k # "CloseFirst"
      /\ Budget(d, sent) /\ dev \in Device
  BY <1>1, Takes
<1>3. Phase(dev.events, dev.phy) /\ dev.fault = "none"
  BY DEF IInv, Sound
<1>4. d.phy \in {"SLEEP", "STANDBY", "RX"} /\ ~Has(q, "TxFinished") /\ ~Has(q, "OpenFirst")
  BY <1>2, <1>3, Fields DEF Phase, Phys
<1> HIDE DEF q, d
<1>5. /\ OnlyRadio(d, r) /\ r.events = q
      /\ r.phy = IF d.phy = "STANDBY" THEN "SLEEP" ELSE d.phy
  <2>1. CASE d.phy = "STANDBY"
    <3>1. r = [d EXCEPT !.phy = "SLEEP"]
      BY <2>1, Sleeps DEF CloseFirst
    <3> QED
      BY <1>2, <2>1, <3>1 DEF Device, OnlyRadio
  <2>2. CASE d.phy # "STANDBY"
    <3>1. r = d
      BY <1>4, <2>2 DEF CloseFirst
    <3> QED
      BY <1>2, <2>2, <3>1 DEF OnlyRadio
  <2> QED
    BY <2>1, <2>2
<1> HIDE DEF r
<1>6. Budget(r, sent)
  BY <1>2, <1>5, RadioBudget
<1>7. Phase(r.events, r.phy)
  BY <1>2, <1>3, <1>4, <1>5 DEF Phase
<1>8. SameTask(d, r)
  BY <1>2, <1>5 DEF SameTask, OnlyRadio
<1> QED
  BY <1>2, <1>3, <1>5, <1>6, <1>7, <1>8 DEF Sound, OnlyRadio, r, d

\* The second window lasts its time at the most, and closes before the
\* reception ends that has begun in it.
InTime(q) ==
    /\ \A c \in q : c.what.kind = "CloseSecond" => c.left <= WindowTime2
    /\ \A c, e \in q : c.what.kind = "CloseSecond" /\ e.what.kind = "EndReceive"
                           => c.left < e.left

LEMMA OpenSecondSound ==
    ASSUME IInv, NEW e \in Ready("OpenSecond")
    PROVE  /\ Sound(OpenSecond(Popped(e)), sent)
           /\ Adds(Popped(e), OpenSecond(Popped(e)), {"CloseSecond"})
           /\ InTime(OpenSecond(Popped(e)).events)
<1> DEFINE d == Popped(e)
           q == dev.events \ {e}
           q1 == Schedule(q, Held("CloseSecond"), WindowTime2)
           r == OpenSecond(d)
<1>1. "OpenSecond" \in Kinds /\ "CloseSecond" \in Kinds /\ "CloseSecond" \in Kept
      /\ "CloseSecond" \notin Unheld
  BY DEF Kinds, Unheld, Kept
<1>2. /\ d \in Device /\ OnlyRadio(dev, d) /\ d.events = q /\ q \in Queues /\ d.phy = dev.phy
      /\ OnTime(e.what, 0, dev.dutyLeft) /\ e.what.kind = "OpenSecond"
      /\ Timed(q, dev.dutyLeft) /\ Has(dev.events, "OpenSecond")
      /\ \A k : Has(q, k) <=> Has(dev.events, k) /\ k # "OpenSecond"
      /\ Budget(d, sent) /\ dev \in Device
  BY <1>1, Takes
<1>3. Phase(dev.events, dev.phy) /\ dev.fault = "none"
  BY DEF IInv, Sound
<1>4. dev.dutyLeft \in Nat /\ DutyWait = dev.dutyLeft + TxTime + ReceiveDelay2
  BY <1>2, Fields, Delays DEF OnTime, Kept, Unheld, Moment
<1>5. ~Has(q, "CloseSecond") /\ ~Has(q, "TxFinished") /\ ~Has(q, "OpenSecond")
  BY <1>2, <1>3 DEF Phase
<1>6. ~Has(q, "OpenFirst")
  <2>1. ASSUME NEW f \in q, f.what.kind = "OpenFirst" PROVE FALSE
    <3>1. OnTime(f.what, f.left, dev.dutyLeft)
      BY <1>2 DEF Timed
    <3>2. f.left + DutyWait = dev.dutyLeft + (TxTime + ReceiveDelay1)
      BY <2>1, <3>1 DEF OnTime, Unheld, Moment
    <3>3. f.left \in Nat
      BY <1>2, InQueue
    <3> QED
      BY <1>4, <3>2, <3>3, Delays
  <2> QED
    BY <2>1 DEF Has
<1> HIDE DEF q, d
<1>7. CASE d.phy = "RX"
  <2>1. r = d
    BY <1>7 DEF OpenSecond
  <2>2. Phase(r.events, r.phy)
    BY <1>2, <1>3, <1>5, <1>6, <1>7, <2>1 DEF Phase
  <2>3. Adds(d, r, {"CloseSecond"}) /\ InTime(r.events)
    BY <1>2, <1>5, <2>1 DEF Adds, InTime, Has
  <2> QED
    BY <1>2, <1>3, <2>1, <2>2, <2>3 DEF Sound, OnlyRadio, d
<1>8. CASE d.phy # "RX"
  <2>1. /\ Timed(q1, dev.dutyLeft) /\ q1 \in Queues
        /\ \A j : Has(q1, j) <=> j = "CloseSecond" \/ Has(q, j)
        /\ \A f \in q1 : \/ f.what.kind = "CloseSecond"
                         \/ \E g \in q : f.what = g.what /\ f.left = g.left
    <3>1. WindowTime2 + DutyWait = dev.dutyLeft + Moment("CloseSecond")
      BY <1>4, Delays DEF Moment, Exchange
    <3> QED
      BY <1>1, <1>2, <1>4, <1>5, <3>1, Delays, AddsEvent
  <2>2. OnlyRadio(d, r) /\ r.phy = "STANDBY" /\ r.events = q1
    <3>1. Hold(q, "CloseSecond", WindowTime2) = q1
      BY <1>1, <1>2, <1>5, Holds, Delays
    <3>2. r = [SwitchToStandby(d) EXCEPT !.events = Hold(@, "CloseSecond", WindowTime2)]
      BY <1>8 DEF OpenSecond
    <3>3. SwitchToStandby(d).events = q
      BY <1>2 DEF SwitchToStandby, Device
    <3>4. r = [d EXCEPT !.phy = "STANDBY", !.events = q1]
      BY <3>1, <3>2, <3>3 DEF SwitchToStandby
    <3> HIDE DEF r, q1
    <3> QED
      BY <1>2, <3>4 DEF Device, OnlyRadio
  <2> HIDE DEF q1, r
  <2>3. Budget(r, sent)
    <3>1. \A f \in r.events : f.what.kind \in Postponing => \E g \in d.events : f.what = g.what
      BY <1>2, <2>1, <2>2 DEF Postponing
    <3> QED
      BY <1>2, <2>2, <3>1, RadioBudget
  <2>4. ~Has(q, "EndReceive")
    BY <1>2, <1>3, <1>8 DEF Phase
  <2>5. Phase(r.events, r.phy)
    BY <1>5, <1>6, <2>1, <2>2, <2>4 DEF Phase
  <2>6. Adds(d, r, {"CloseSecond"})
    BY <1>2, <2>1, <2>2 DEF Adds, OnlyRadio
  <2>7. InTime(r.events)
    <3>1. \A c \in q1 : c.what.kind = "CloseSecond" => c.left <= WindowTime2
      <4> SUFFICES ASSUME NEW c \in q1, c.what.kind = "CloseSecond"
                   PROVE  c.left <= WindowTime2
        OBVIOUS
      <4>1. OnTime(c.what, c.left, dev.dutyLeft) /\ c.left \in Nat
        BY <2>1, InQueue DEF Timed
      <4>2. c.left + DutyWait = dev.dutyLeft + Exchange
        BY <4>1 DEF OnTime, Kept, Moment
      <4> QED
        BY <1>4, <4>1, <4>2, Delays DEF Exchange
    <3>2. ~Has(q1, "EndReceive")
      BY <2>1, <2>4
    <3> QED
      BY <2>2, <3>1, <3>2 DEF InTime, Has
  <2> QED
    BY <1>2, <1>3, <2>1, <2>2, <2>3, <2>5, <2>6, <2>7 DEF Sound, OnlyRadio, r, d
<1> QED
  BY <1>7, <1>8

------------------------------------------------------------------------------
(* The end of a window and of a reception: a packet may end or be repeated *)

\* A radio that has gone to sleep after the exchange has kept its events.
LEMMA Slept ==
    ASSUME NEW d, NEW r, NEW n, d.fault = "none", KeepsExchange(d, r), Budget(r, n),
           r.phy = "SLEEP", ~Has(d.events, "TxFinished"), ~Has(d.events, "EndReceive"),
           ~Has(d.events, "OpenFirst"),
           Has(d.events, "OpenSecond") => ~Has(d.events, "CloseSecond")
    PROVE  Sound(r, n)
<1>1. \A k \in {"TxFinished", "EndReceive", "OpenFirst", "OpenSecond", "CloseFirst", "CloseSecond"} :
          Has(r.events, k) <=> Has(d.events, k)
  BY DEF KeepsExchange, Postponing
<1>2. Phase(r.events, r.phy)
  BY <1>1 DEF Phase
<1> QED
  BY <1>2 DEF Sound, KeepsExchange

LEMMA CloseSecondSound ==
    ASSUME RestsLongEnough, IInv, NEW e \in Ready("CloseSecond"), NEW t \in AckTimeouts
    PROVE  /\ Sound(CloseSecond(Popped(e), t), sent)
           /\ \/ SameTask(Popped(e), CloseSecond(Popped(e), t))
              \/ /\ Ended(Popped(e), CloseSecond(Popped(e), t))
                 /\ ~Has(CloseSecond(Popped(e), t).events, "CloseSecond")
<1> DEFINE d == Popped(e)
           q == dev.events \ {e}
           asleep == IF d.phy = "STANDBY" THEN SwitchToSleep(d) ELSE d
           r == CloseSecond(d, t)
<1>1. "CloseSecond" \in Kinds /\ "CloseSecond" \notin Postponing
  BY DEF Kinds, Postponing
<1>2. /\ d \in Device /\ OnlyRadio(dev, d) /\ d.events = q /\ d.phy = dev.phy
      /\ e \in dev.events /\ e.left = 0 /\ e.what.kind = "CloseSecond"
      /\ dev.events \in Queues /\ sent \in Nat
      /\ Timed(q, dev.dutyLeft) /\ Has(dev.events, "CloseSecond")
      /\ \A k : Has(q, k) <=> Has(dev.events, k) /\ k # "CloseSecond"
      /\ Budget(d, sent) /\ dev \in Device
  BY <1>1, Takes
<1>3. Phase(dev.events, dev.phy) /\ dev.fault = "none" /\ Timed(dev.events, dev.dutyLeft)
  BY DEF IInv, Sound
<1>4. dev.dutyLeft \in Nat /\ dev.dutyLeft > 0
  BY <1>1, <1>2, <1>3, Resting, Fields
<1>5. /\ ~Has(q, "OpenFirst") /\ ~Has(q, "TxFinished") /\ ~Has(q, "OpenSecond")
      /\ ~Has(q, "CloseSecond") /\ d.phy \in {"SLEEP", "STANDBY", "RX"}
  BY <1>2, <1>3, Fields DEF Phase, Phys
<1> HIDE DEF q, d
<1>6. CASE d.phy = "RX"
  <2>1. r = d
    BY <1>6 DEF CloseSecond
  <2>2. Phase(r.events, r.phy)
    BY <1>2, <1>3, <1>5, <1>6, <2>1 DEF Phase
  <2>3. SameTask(d, r)
    BY <2>1 DEF SameTask
  <2> QED
    BY <1>2, <1>3, <2>1, <2>2, <2>3 DEF Sound, OnlyRadio, d
<1>7. CASE d.phy # "RX"
  <2>1. asleep \in Device
    BY <1>2, SwitchType
  <2>2. OnlyRadio(d, asleep) /\ asleep.phy = "SLEEP" /\ asleep.events = q
    <3>1. CASE d.phy = "STANDBY"
      <4>1. asleep = [d EXCEPT !.phy = "SLEEP"]
        BY <3>1, Sleeps
      <4> HIDE DEF asleep
      <4> QED
        BY <1>2, <4>1 DEF Device, OnlyRadio
    <3>2. CASE d.phy = "SLEEP"
      BY <1>2, <3>2 DEF OnlyRadio
    <3> QED
      BY <1>5, <1>7, <3>1, <3>2
  <2>3. r = IF d.waitingAck THEN RetryOrFail(asleep, t)
            ELSE ResetRetransmissionParameters(Report(asleep, TRUE))
    BY <1>7 DEF CloseSecond
  <2> HIDE DEF asleep, r
  <2>4. Budget(asleep, sent)
    BY <1>2, <2>2, RadioBudget
  <2>5. Timed(asleep.events, asleep.dutyLeft) /\ asleep.dutyLeft = dev.dutyLeft
        /\ asleep.fault = "none" /\ asleep.waitingAck = d.waitingAck
    BY <1>2, <1>3, <2>2 DEF OnlyRadio
  <2>6. KeepsExchange(asleep, r) /\ Budget(r, sent)
    <3>1. CASE d.waitingAck
      BY <1>2, <1>4, <2>1, <2>3, <2>4, <2>5, <3>1, Retries
    <3>2. CASE ~d.waitingAck
      BY <1>2, <2>1, <2>3, <2>4, <2>5, <3>2, Ends
    <3> QED
      BY <3>1, <3>2
  <2>7. r.phy = "SLEEP" /\ ~Has(q, "EndReceive")
    BY <1>2, <1>3, <1>7, <2>2, <2>6 DEF KeepsExchange, Phase
  <2>8. \/ SameTask(asleep, r)
        \/ /\ r.packet = None /\ Counted(asleep, r)
           /\ \A f \in r.events : f.what.kind \notin Postponing
    <3>1. CASE d.waitingAck
      BY <1>2, <1>4, <2>1, <2>3, <2>4, <2>5, <3>1, RetryCounts
    <3>2. CASE ~d.waitingAck
      BY <1>2, <2>1, <2>3, <2>4, <2>5, <3>2, Ends, ReportCounted
    <3> QED
      BY <3>1, <3>2
  <2>9. SameTask(d, r) \/ (Ended(d, r) /\ ~Has(r.events, "CloseSecond"))
    <3>1. CASE SameTask(asleep, r)
      BY <1>2, <2>2, <3>1 DEF SameTask, OnlyRadio
    <3>2. CASE ~SameTask(asleep, r)
      <4>1. Counted(d, r)
        BY <2>2, <2>8, <3>2 DEF Counted, Total, OnlyRadio
      <4>2. \A k : k \notin Postponing => (Has(r.events, k) <=> Has(q, k))
        BY <2>2, <2>6 DEF KeepsExchange
      <4>3. \A f \in r.events : \E g \in d.events : f.what = g.what /\ f.left = g.left
        BY <1>2, <2>2, <2>6, <2>8, <3>2 DEF KeepsExchange
      <4> QED
        BY <1>5, <2>8, <3>2, <4>1, <4>2, <4>3 DEF Ended, Postponing
    <3> QED
      BY <3>1, <3>2
  <2> QED
    BY <1>5, <2>2, <2>5, <2>6, <2>7, <2>9, Slept DEF r, d
<1> QED
  BY <1>6, <1>7

\* A radio that goes to sleep after a reception has kept the exchange too.
LEMMA FallsAsleep ==
    ASSUME NEW d, NEW x, NEW n, d.fault = "none", d.phy = "STANDBY",
           KeepsExchange(d, x), Budget(x, n),
           ~Has(d.events, "TxFinished"), ~Has(d.events, "EndReceive"),
           ~Has(d.events, "OpenFirst"),
           Has(d.events, "OpenSecond") => ~Has(d.events, "CloseSecond")
    PROVE  LET r == SwitchToSleep(x)
           IN  /\ Sound(r, n)
               /\ r.packet = x.packet /\ r.reports = x.reports /\ r.events = x.events
<1> DEFINE r == SwitchToSleep(x)
<1>1. x \in Device /\ x.phy = "STANDBY"
  BY DEF KeepsExchange
<1>2. r = [x EXCEPT !.phy = "SLEEP"]
  BY <1>1, Sleeps
<1> HIDE DEF r
<1>3. OnlyRadio(x, r) /\ r.phy = "SLEEP" /\ r.events = x.events
  BY <1>1, <1>2 DEF Device, OnlyRadio
<1>4. Budget(r, n)
  BY <1>3, RadioBudget
<1>5. \A k \in {"TxFinished", "EndReceive", "OpenFirst", "OpenSecond", "CloseFirst", "CloseSecond"} :
          Has(r.events, k) <=> Has(d.events, k)
  BY <1>3 DEF KeepsExchange, Postponing
<1>6. Phase(r.events, r.phy)
  BY <1>3, <1>5 DEF Phase
<1> QED
  BY <1>3, <1>4, <1>6 DEF Sound, KeepsExchange, OnlyRadio, r

\* A reception that ends a packet leaves no second window behind.
LEMMA Settles ==
    ASSUME NEW d, NEW b, NEW x, NEW r, OnlyRadio(d, b), b.events \subseteq d.events,
           KeepsExchange(b, x), ~Has(b.events, "TxFinished"), ~Has(b.events, "OpenFirst"),
           \/ SameTask(b, x)
           \/ /\ b.waitingAck /\ ~Has(b.events, "OpenSecond")
              /\ x.packet = None /\ Counted(b, x)
              /\ \A f \in x.events : f.what.kind \notin Postponing,
           r.packet = x.packet, r.reports = x.reports, r.events = x.events
    PROVE  SameTask(d, r) \/ (d.waitingAck /\ Ended(d, r))
<1>1. CASE SameTask(b, x)
  BY <1>1 DEF SameTask, OnlyRadio
<1>2. CASE ~SameTask(b, x)
  <2>1. d.waitingAck /\ r.packet = None /\ Counted(d, r)
    BY <1>2 DEF OnlyRadio, Counted, Total
  <2>2. \A f \in r.events : /\ f.what.kind \notin Postponing
                           /\ \E e \in d.events : f.what = e.what /\ f.left = e.left
    BY <1>2 DEF KeepsExchange
  <2>3. ~Has(r.events, "TxFinished") /\ ~Has(r.events, "OpenFirst") /\ ~Has(r.events, "OpenSecond")
    BY <1>2 DEF KeepsExchange, Postponing
  <2> QED
    BY <2>1, <2>2, <2>3 DEF Ended
<1> QED
  BY <1>1, <1>2

LEMMA EndReceiveSound ==
    ASSUME RestsLongEnough, IInv, NEW e \in Ready("EndReceive"), NEW t \in AckTimeouts,
           NEW r \in EndReceive(Popped(e), t)
    PROVE  /\ Sound(r, sent)
           /\ SameTask(Popped(e), r) \/ (Popped(e).waitingAck /\ Ended(Popped(e), r))
<1> DEFINE d == Popped(e)
           q == dev.events \ {e}
           ready == SwitchToStandby(d)
           c == Cancel(q, {Held("OpenSecond")})
           kept == [ready EXCEPT !.events = c]
           asleep == SwitchToSleep(ready)
<1>1. "EndReceive" \in Kinds /\ "EndReceive" \notin Postponing
  BY DEF Kinds, Postponing
<1>2. /\ d \in Device /\ OnlyRadio(dev, d) /\ d.events = q /\ d.phy = dev.phy
      /\ e \in dev.events /\ e.left = 0 /\ e.what.kind = "EndReceive"
      /\ dev.events \in Queues /\ q \in Queues /\ sent \in Nat
      /\ Timed(q, dev.dutyLeft) /\ Has(dev.events, "EndReceive")
      /\ \A k : Has(q, k) <=> Has(dev.events, k) /\ k # "EndReceive"
      /\ Budget(d, sent) /\ dev \in Device
  BY <1>1, Takes
<1>3. Phase(dev.events, dev.phy) /\ dev.fault = "none" /\ Timed(dev.events, dev.dutyLeft)
  BY DEF IInv, Sound
<1>4. dev.dutyLeft \in Nat /\ dev.dutyLeft > 0
  BY <1>1, <1>2, <1>3, Resting, Fields
<1>5. /\ ~Has(q, "EndReceive") /\ ~Has(q, "TxFinished") /\ ~Has(q, "OpenFirst")
      /\ Has(q, "OpenSecond") => ~Has(q, "CloseSecond")
  BY <1>2, <1>3 DEF Phase
<1> HIDE DEF q, d
<1>6. /\ ready \in Device /\ OnlyRadio(d, ready) /\ ready.phy = "STANDBY" /\ ready.events = q
  BY <1>2, SwitchType DEF SwitchToStandby, Device, OnlyRadio
<1> HIDE DEF ready
<1>7. ready.fault = "none" /\ ready.dutyLeft = dev.dutyLeft /\ Budget(ready, sent)
  <2>1. Budget(ready, sent)
    BY <1>2, <1>6, RadioBudget
  <2> QED
    BY <1>2, <1>3, <1>6, <2>1 DEF OnlyRadio
<1>8. KeepsExchange(ready, ready)
  BY <1>2, <1>6, <1>7 DEF KeepsExchange
<1>9. asleep = [ready EXCEPT !.phy = "SLEEP"]
  BY <1>6, Sleeps
<1>10. IsPending(q, Held("OpenSecond")) <=> Has(q, "OpenSecond")
  <2>1. \A f \in q : f.what.kind = "OpenSecond" => f.what = Held("OpenSecond")
    BY <1>2 DEF Timed, OnTime, Kept
  <2>2. Held("OpenSecond").kind = "OpenSecond"
    BY DEF Held
  <2> QED
    BY <2>1, <2>2 DEF IsPending, Has
<1>11. CASE r = ReceiveOurs(ready, Confirmed)
  <2> DEFINE x == IF Confirmed /\ kept.waitingAck THEN AcceptAck(kept) ELSE kept
  <2>1. c \in Queues /\ c \in SUBSET q
    BY <1>2 DEF Cancel, Queues
  <2>2. \A k : Has(c, k) => Has(q, k)
    BY <2>1 DEF Has
  <2> HIDE DEF c
  <2>3. /\ kept \in Device /\ OnlyRadio(ready, kept) /\ kept.phy = "STANDBY" /\ kept.events = c
    BY <1>6, <2>1, Updates DEF Device, OnlyRadio
  <2>4. r = SwitchToSleep(x)
    <3>1. kept = [ready EXCEPT !.events = Cancel(@, {Held("OpenSecond")})]
      BY <1>6 DEF c
    <3> HIDE DEF kept
    <3> QED
      BY <1>11, <3>1 DEF ReceiveOurs
  <2> HIDE DEF kept
  <2>5. Timed(kept.events, kept.dutyLeft) /\ kept.fault = "none"
    BY <1>2, <1>7, <2>1, <2>3, TimedFewer DEF OnlyRadio
  <2>6. Budget(kept, sent)
    BY <1>6, <1>7, <2>1, <2>3, RadioBudget
  <2>7. KeepsExchange(kept, x) /\ Budget(x, sent)
    <3>1. CASE Confirmed /\ kept.waitingAck
      BY <1>2, <2>3, <2>5, <2>6, <3>1, Accepts
    <3>2. CASE ~(Confirmed /\ kept.waitingAck)
      BY <2>3, <2>5, <2>6, <3>2 DEF KeepsExchange
    <3> QED
      BY <3>1, <3>2
  <2>8. ~Has(c, "OpenSecond")
    <3>1. \A f \in q : f.what.kind = "OpenSecond" => f.what = Held("OpenSecond")
      BY <1>2 DEF Timed, OnTime, Kept
    <3> QED
      BY <3>1 DEF c, Cancel, Has
  <2>9. \/ SameTask(kept, x)
        \/ /\ kept.waitingAck /\ x.packet = None /\ Counted(kept, x)
           /\ \A f \in x.events : f.what.kind \notin Postponing
    <3>1. CASE Confirmed /\ kept.waitingAck
      BY <1>2, <2>3, <2>5, <2>6, <3>1, Accepts, ReportCounted
    <3>2. CASE ~(Confirmed /\ kept.waitingAck)
      BY <3>2 DEF SameTask
    <3> QED
      BY <3>1, <3>2
  <2> HIDE DEF x
  <2>10. /\ Sound(r, sent)
         /\ r.packet = x.packet /\ r.reports = x.reports /\ r.events = x.events
    BY <1>5, <2>2, <2>3, <2>4, <2>5, <2>7, FallsAsleep
  <2>11. OnlyRadio(d, kept) /\ kept.events \subseteq d.events
    BY <1>2, <1>6, <2>1, <2>3 DEF OnlyRadio
  <2>12. SameTask(d, r) \/ (d.waitingAck /\ Ended(d, r))
    BY <1>5, <2>2, <2>3, <2>7, <2>8, <2>9, <2>10, <2>11, Settles
  <2> QED
    BY <2>10, <2>12 DEF d
<1>12. CASE r = ReceiveOther(ready, t)
  <2> DEFINE x == IF OutOfWindows(ready) THEN RetryOrFail(ready, t) ELSE ready
  <2>1. r = SwitchToSleep(x)
    BY <1>12 DEF ReceiveOther
  <2>2. KeepsExchange(ready, x) /\ Budget(x, sent)
    <3>1. CASE OutOfWindows(ready)
      <4>1. ready.waitingAck
        BY <3>1 DEF OutOfWindows
      <4> QED
        BY <1>2, <1>4, <1>6, <1>7, <3>1, <4>1, Retries
    <3>2. CASE ~OutOfWindows(ready)
      BY <1>7, <1>8, <3>2
    <3> QED
      BY <3>1, <3>2
  <2>3. \/ SameTask(ready, x)
        \/ /\ ready.waitingAck /\ ~Has(q, "OpenSecond") /\ x.packet = None
           /\ Counted(ready, x) /\ \A f \in x.events : f.what.kind \notin Postponing
    <3>1. CASE OutOfWindows(ready)
      <4>1. ready.waitingAck /\ ~Has(q, "OpenSecond")
        BY <1>6, <1>10, <3>1 DEF OutOfWindows
      <4> QED
        BY <1>2, <1>4, <1>6, <1>7, <3>1, <4>1, RetryCounts
    <3>2. CASE ~OutOfWindows(ready)
      BY <3>2 DEF SameTask
    <3> QED
      BY <3>1, <3>2
  <2> HIDE DEF x
  <2>4. /\ Sound(r, sent)
        /\ r.packet = x.packet /\ r.reports = x.reports /\ r.events = x.events
    BY <1>5, <1>6, <1>7, <2>1, <2>2, FallsAsleep
  <2>5. SameTask(d, r) \/ (d.waitingAck /\ Ended(d, r))
    BY <1>2, <1>5, <1>6, <2>2, <2>3, <2>4, Settles
  <2> QED
    BY <2>4, <2>5 DEF d
<1>13. CASE r = FailedReception(ready, t)
  <2>1. asleep \in Device
    BY <1>6, SwitchType
  <2>2. OnlyRadio(ready, asleep) /\ asleep.phy = "SLEEP" /\ asleep.events = q
    <3> HIDE DEF asleep
    <3> QED
      BY <1>6, <1>9 DEF Device, OnlyRadio
  <2>3. r = IF OutOfWindows(ready) THEN RetryOrFail(asleep, t) ELSE asleep
    BY <1>13 DEF FailedReception
  <2> HIDE DEF asleep
  <2>4. Budget(asleep, sent)
    BY <1>6, <1>7, <2>2, RadioBudget
  <2>5. /\ Timed(asleep.events, asleep.dutyLeft) /\ asleep.fault = "none"
        /\ asleep.dutyLeft = dev.dutyLeft /\ asleep.waitingAck = ready.waitingAck
    BY <1>2, <1>7, <2>2 DEF OnlyRadio
  <2>6. KeepsExchange(asleep, r) /\ Budget(r, sent)
    <3>1. CASE OutOfWindows(ready)
      <4>1. ready.waitingAck
        BY <3>1 DEF OutOfWindows
      <4> QED
        BY <1>2, <1>4, <2>1, <2>3, <2>4, <2>5, <3>1, <4>1, Retries
    <3>2. CASE ~OutOfWindows(ready)
      BY <2>1, <2>3, <2>4, <2>5, <3>2 DEF KeepsExchange
    <3> QED
      BY <3>1, <3>2
  <2>7. r.phy = "SLEEP"
    BY <2>2, <2>6 DEF KeepsExchange
  <2>8. Sound(r, sent)
    BY <1>5, <2>2, <2>5, <2>6, <2>7, Slept
  <2>9. \/ SameTask(asleep, r)
        \/ /\ asleep.waitingAck /\ ~Has(q, "OpenSecond") /\ r.packet = None
           /\ Counted(asleep, r) /\ \A f \in r.events : f.what.kind \notin Postponing
    <3>1. CASE OutOfWindows(ready)
      <4>1. ready.waitingAck /\ ~Has(q, "OpenSecond")
        BY <1>6, <1>10, <3>1 DEF OutOfWindows
      <4> QED
        BY <1>2, <1>4, <2>1, <2>3, <2>4, <2>5, <3>1, <4>1, RetryCounts
    <3>2. CASE ~OutOfWindows(ready)
      BY <2>3, <3>2 DEF SameTask
    <3> QED
      BY <3>1, <3>2
  <2>10. OnlyRadio(d, asleep) /\ asleep.events \subseteq d.events
    BY <1>2, <1>6, <2>2 DEF OnlyRadio
  <2>11. SameTask(d, r) \/ (d.waitingAck /\ Ended(d, r))
    BY <1>5, <2>2, <2>6, <2>9, <2>10, Settles
  <2> QED
    BY <2>8, <2>11 DEF d
<1> QED
  BY <1>11, <1>12, <1>13 DEF EndReceive, ready, d

------------------------------------------------------------------------------
(* Frames from the channel, and time *)

\* A frame the radio locks on ends before the rest of the sub-band does: the
\* window it began in is not over.
LEMMA LockSound ==
    ASSUME RestsLongEnough, IInv, dev.phy = "STANDBY", NEW t \in RxTimes
    PROVE  Sound([dev EXCEPT !.phy = "RX",
                             !.events = Schedule(@, Run("EndReceive"), t)], sent)
<1> DEFINE q == dev.events
           w == Run("EndReceive")
           q1 == Schedule(q, w, t)
           r == [dev EXCEPT !.phy = "RX", !.events = q1]
<1>1. dev \in Device /\ q \in Queues /\ dev.dutyLeft \in Nat /\ t \in Nat
  BY Fields, Delays DEF IInv, TypeOK
<1>2. /\ Phase(q, dev.phy) /\ dev.fault = "none" /\ Timed(q, dev.dutyLeft)
      /\ Budget(dev, sent)
  BY DEF IInv, Sound
<1>3. /\ ~Has(q, "EndReceive") /\ ~Has(q, "TxFinished") /\ ~Has(q, "OpenFirst")
      /\ Has(q, "OpenSecond") => ~Has(q, "CloseSecond")
  BY <1>2 DEF Phase
<1>4. PICK f \in q : f.what.kind \in {"CloseFirst", "CloseSecond"}
  BY <1>2 DEF Phase, Has
<1>5. DutyWait <= dev.dutyLeft + Exchange
  <2>1. OnTime(f.what, f.left, dev.dutyLeft) /\ f.left \in Nat
    BY <1>1, <1>2, InQueue DEF Timed
  <2>2. f.left + DutyWait = dev.dutyLeft + Moment(f.what.kind)
    BY <1>4, <2>1 DEF OnTime, Kept
  <2>3. Moment(f.what.kind) <= Exchange /\ Moment(f.what.kind) \in Nat
    BY <1>4, Delays DEF Moment, Exchange, RestsLongEnough, Kept
  <2> QED
    BY <1>1, <2>1, <2>2, <2>3, Delays
<1>6. w \in Call /\ w.kind = "EndReceive"
  BY RunType DEF Run, Kinds
<1>7. OnTime(w, t, dev.dutyLeft)
  <2>1. t + DutyWait <= dev.dutyLeft + Exchange + t
    BY <1>1, <1>5, Delays
  <2> QED
    BY <1>6, <2>1 DEF OnTime, Unheld, Kept, Postponing
<1> HIDE DEF w
<1>8. \A g \in q : Class(g.what) # Class(w)
  <2>1. Class(w) = "EndReceive" /\ "EndReceive" \in Kinds
    BY <1>6 DEF Class, Kinds, Postponing
  <2> QED
    BY <1>3, <2>1, NoneOfClass
<1>9. Timed(q1, dev.dutyLeft)
  BY <1>1, <1>2, <1>6, <1>7, <1>8, TimedSchedule
<1>10. /\ \A k : Has(q1, k) <=> k = "EndReceive" \/ Has(q, k)
       /\ \A g \in q1 : \/ g.what.kind = "EndReceive"
                        \/ \E h \in q : g.what = h.what
  BY <1>1, <1>6, Scheduled
<1> HIDE DEF q1
<1>11. OnlyRadio(dev, r) /\ r.phy = "RX" /\ r.events = q1
  BY <1>1 DEF Device, OnlyRadio
<1> HIDE DEF r
<1>12. Budget(r, sent)
  <2>1. \A g \in r.events : g.what.kind \in Postponing => \E h \in dev.events : g.what = h.what
    BY <1>10, <1>11 DEF Postponing
  <2> QED
    BY <1>2, <1>11, <2>1, RadioBudget
<1>13. Phase(r.events, r.phy)
  BY <1>3, <1>10, <1>11 DEF Phase
<1>14. Sound(r, sent)
  BY <1>2, <1>9, <1>11, <1>12, <1>13 DEF Sound, OnlyRadio
<1> QED
  BY <1>14 DEF r, q1, w, q

LEMMA TickSound ==
    ASSUME RestsLongEnough, IInv, Tick
    PROVE  Sound(dev', sent')
<1> DEFINE q == Elapse(dev.events)
           ts == Later(dev.secondTs - 1, Oldest)
           duty == Later(dev.dutyLeft - 1, 0)
<1>1. dev \in Device /\ dev.events \in Queues /\ dev.dutyLeft \in Nat /\ ~SomeDue(dev.events)
  BY Fields DEF IInv, TypeOK, Tick
<1>2. /\ Phase(dev.events, dev.phy) /\ dev.fault = "none" /\ Timed(dev.events, dev.dutyLeft)
      /\ Budget(dev, sent)
  BY DEF IInv, Sound
<1>3. /\ Timed(q, duty)
      /\ \A k : Has(q, k) <=> Has(dev.events, k)
      /\ \A f \in q : \E e \in dev.events : f.what = e.what /\ f.left = e.left - 1
  BY <1>1, <1>2, TimedElapse
<1>4. dev' = [dev EXCEPT !.events = q, !.secondTs = ts, !.dutyLeft = duty] /\ sent' = sent
  BY DEF Tick
<1> HIDE DEF q, ts, duty
<1>5. /\ dev'.events = q /\ dev'.dutyLeft = duty /\ dev'.fault = "none" /\ dev'.phy = dev.phy
      /\ dev'.packet = dev.packet /\ dev'.waitingAck = dev.waitingAck
      /\ dev'.retxLeft = dev.retxLeft /\ dev'.onAir = dev.onAir /\ dev'.lastTx = dev.lastTx
      /\ dev'.credits = dev.credits
  BY <1>1, <1>2, <1>4 DEF Device
<1>6. Budget(dev', sent)
  BY <1>2, <1>3, <1>5, SameBudget
<1>7. Phase(dev'.events, dev'.phy)
  BY <1>2, <1>3, <1>5 DEF Phase
<1> QED
  BY <1>3, <1>4, <1>5, <1>6, <1>7 DEF Sound

------------------------------------------------------------------------------
(* Transmissions *)

\* When the sub-band is free, no uplink and no window is under way.
LEMMA Free ==
    ASSUME RestsLongEnough, IInv, dev.dutyLeft = 0
    PROVE  dev.phy = "SLEEP" /\ \A e \in dev.events : e.what.kind \in Postponing
<1>1. dev \in Device /\ dev.events \in Queues
  BY Fields DEF IInv, TypeOK
<1>2. Phase(dev.events, dev.phy) /\ Timed(dev.events, 0)
  BY DEF IInv, Sound
<1>3. \A e \in dev.events : e.what.kind \in Postponing
  <2>1. ASSUME NEW e \in dev.events, e.what.kind \notin Postponing PROVE FALSE
    <3>1. e.left < 0 /\ e.left \in Nat
      BY <1>1, <1>2, <2>1, Resting, InQueue
    <3> QED
      BY <3>1
  <2> QED
    BY <2>1
<1>4. \A k : Has(dev.events, k) => k \in Postponing
  BY <1>3 DEF Has
<1>5. ~Has(dev.events, "TxFinished") /\ ~Has(dev.events, "EndReceive")
      /\ ~Has(dev.events, "CloseFirst") /\ ~Has(dev.events, "CloseSecond")
  BY <1>4 DEF Postponing
<1>6. dev.phy \in {"SLEEP", "STANDBY", "TX", "RX"}
  BY <1>1, Fields DEF Phys
<1> QED
  BY <1>2, <1>3, <1>5, <1>6 DEF Phase

\* With one packet more the budget is as it was.
LEMMA BudgetGrows ==
    ASSUME NEW d \in Device, NEW n \in Nat, Budget(d, n)
    PROVE  Budget(d, n + 1)
<1>1. d.packet \in Nat /\ Packet \subseteq Nat
  BY Fields, PacketAssumption DEF Slot, Packet, None
<1>2. d.packet <= n + 1
  BY <1>1 DEF Budget
<1>3. \A p \in Packet : p > n + 1 => p > n
  BY <1>1
<1>4. \A w : Owed(w, d, n) => Owed(w, d, n + 1)
  BY DEF Owed
<1> QED
  BY <1>2, <1>3, <1>4 DEF Budget

\* The device r is d that transmits packet p; or that has it wait.
Sends(d, r, p) ==
    /\ r.packet = p /\ r.reports = d.reports
    /\ \A f \in r.events : f.what.kind = "TxFinished"
Defers(d, r, p) ==
    /\ r.packet = d.packet /\ r.reports = d.reports
    /\ \A f \in r.events : \/ f.what.kind = "DoSend" /\ f.what.packet = p
                           \/ \E e \in d.events : f.what = e.what /\ f.left = e.left

\* A packet that is sent, for the first time or again, stays within its budget.
LEMMA SentSound ==
    ASSUME NEW d \in Device, NEW n \in Nat, NEW p \in Packet, NEW new \in BOOLEAN,
           d.phy = "SLEEP", d.dutyLeft = 0, d.fault = "none", Budget(d, n), p <= n,
           d.events = {} \/ (new /\ \A e \in d.events : e.what.kind \in Postponing),
           new => d.onAir[p] = 0,
           ~new => d.waitingAck /\ d.retxLeft > 0 /\ p = d.packet
    PROVE  Sound(DoSend(d, p, new), n) /\ Sends(d, DoSend(d, p, new), p)
<1> DEFINE r == DoSend(d, p, new)
           left == IF new THEN NbTrans ELSE d.retxLeft
           x == [what |-> Run("TxFinished"), left |-> TxTime, later |-> 0]
<1>1. left > 0 /\ left \in Nat /\ NbTrans \in Nat /\ NbTrans >= 1
  BY Fields, PacketAssumption DEF UInt8
<1>2. /\ r \in Device
      /\ r.phy = "TX" /\ r.dutyLeft = DutyWait /\ r.fault = d.fault
      /\ r.events = {x}
      /\ r.onAir = [d.onAir EXCEPT ![p] = @ + 1]
      /\ r.lastTx = p
      /\ r.packet = IF new THEN p ELSE d.packet
      /\ r.waitingAck = IF new THEN Confirmed ELSE d.waitingAck
      /\ r.retxLeft = left - 1
      /\ r.credits = d.credits /\ r.reports = d.reports
  BY <1>1, Transmits
<1> HIDE DEF r, left
<1>3. x.what.kind = "TxFinished" /\ x.what = Run("TxFinished") /\ x.left = TxTime
  BY DEF Run
<1> HIDE DEF x
<1>4. Timed(r.events, r.dutyLeft)
  <2>1. TxTime + DutyWait = DutyWait + Moment("TxFinished")
    BY Delays DEF Moment
  <2> QED
    BY <1>2, <1>3, <2>1 DEF Timed, OnePerClass, OnTime, Unheld, Kept, Postponing
<1>5. Phase(r.events, r.phy)
  BY <1>2, <1>3 DEF Phase, Has
<1>6. d.onAir \in [Packet -> Nat] /\ p \in Nat /\ p # None /\ d.packet \in Nat
  BY Fields, PacketAssumption DEF Counts, Packet, Slot, None
<1>7. r.onAir[p] = d.onAir[p] + 1 /\ \A o \in Packet : o # p => r.onAir[o] = d.onAir[o]
  BY <1>2, <1>6
<1>8. \A o \in Packet : d.onAir[o] <= Limit /\ (o > n => d.onAir[o] = 0)
  BY DEF Budget
<1>9. r.packet = p
  BY <1>2
<1>10. r.waitingAck => Waits(r)
  <2>1. CASE new
    <3>1. r.onAir[p] + r.retxLeft <= NbTrans
      BY <1>1, <1>2, <1>7, <2>1 DEF left
    <3>2. r.waitingAck => Confirmed
      BY <1>2, <2>1
    <3> QED
      BY <1>2, <1>6, <1>9, <3>1, <3>2 DEF Waits
  <2>2. CASE ~new
    <3>1. Confirmed /\ d.onAir[p] + d.retxLeft <= NbTrans
      BY <2>2 DEF Budget, Waits
    <3>2. r.onAir[p] + r.retxLeft <= NbTrans
      BY <1>1, <1>2, <1>6, <1>7, <2>2, <3>1 DEF left
    <3> QED
      BY <1>2, <1>6, <1>9, <3>1, <3>2 DEF Waits
  <2> QED
    BY <2>1, <2>2
<1>11. r.onAir[p] <= Limit
  <2>1. CASE new
    BY <1>1, <1>6, <1>7, <2>1 DEF Limit
  <2>2. CASE ~new
    <3>1. Confirmed /\ d.onAir[p] + d.retxLeft <= NbTrans /\ d.retxLeft > 0 /\ d.retxLeft \in Nat
      BY <2>2, Fields DEF Budget, Waits, UInt8
    <3> QED
      BY <1>1, <1>6, <1>7, <3>1 DEF Limit
  <2> QED
    BY <2>1, <2>2
<1>12. \A o \in Packet : r.onAir[o] <= Limit /\ (o > n => r.onAir[o] = 0)
  <2> SUFFICES ASSUME NEW o \in Packet
               PROVE  r.onAir[o] <= Limit /\ (o > n => r.onAir[o] = 0)
    OBVIOUS
  <2> QED
    BY <1>6, <1>7, <1>8, <1>11
<1>13. \A f \in r.events : Owed(f.what, r, n)
  BY <1>2, <1>3 DEF Owed
<1>14. \A c \in r.credits : c[1] = c[2]
  BY <1>2 DEF Budget
<1>15. Budget(r, n)
  BY <1>9, <1>10, <1>12, <1>13, <1>14 DEF Budget
<1>16. Sends(d, r, p)
  BY <1>2, <1>3, <1>9 DEF Sends
<1> QED
  BY <1>2, <1>4, <1>5, <1>15, <1>16 DEF Sound, r

\* A postponed packet, or retransmission, whose time has come: the sub-band is
\* free, and nothing else is pending.
LEMMA NextTxSound ==
    ASSUME RestsLongEnough, IInv, NEW new \in BOOLEAN,
           NEW e \in Ready(IF new THEN "DoSend" ELSE "Resend")
    PROVE  LET r == DoSend(Popped(e), e.what.packet, new)
           IN  Sound(r, sent) /\ Sends(Popped(e), r, e.what.packet)
<1> DEFINE kind == IF new THEN "DoSend" ELSE "Resend"
           d == Popped(e)
           p == e.what.packet
<1>1. kind \in Kinds /\ kind \in Postponing
  BY DEF Kinds, Postponing
<1> HIDE DEF kind
<1>2. /\ d \in Device /\ OnlyRadio(dev, d) /\ d.events = dev.events \ {e} /\ d.phy = dev.phy
      /\ e \in dev.events /\ e.left = 0 /\ e.what.kind = kind
      /\ OnTime(e.what, 0, dev.dutyLeft) /\ dev \in Device /\ sent \in Nat
      /\ Budget(d, sent) /\ dev.events \in Queues
  BY <1>1, Takes DEF kind
<1>3. dev.fault = "none" /\ OnePerClass(dev.events) /\ Budget(dev, sent)
  BY DEF IInv, Sound, Timed
<1>4. dev.dutyLeft = 0
  BY <1>1, <1>2, Fields DEF OnTime
<1>5. dev.phy = "SLEEP" /\ \A f \in dev.events : f.what.kind \in Postponing
  BY <1>4, Free
<1>6. d.events = {}
  BY <1>1, <1>2, <1>3, <1>5 DEF OnePerClass, Class
<1>7. Owed(e.what, dev, sent)
  BY <1>2, <1>3 DEF Budget
<1>8. d.phy = "SLEEP" /\ d.dutyLeft = 0 /\ d.fault = "none"
      /\ d.onAir = dev.onAir /\ d.waitingAck = dev.waitingAck /\ d.retxLeft = dev.retxLeft
      /\ d.packet = dev.packet
  BY <1>2, <1>3, <1>4, <1>5 DEF OnlyRadio
<1> HIDE DEF d
<1>9. CASE new
  <2>1. p \in 1 .. sent /\ d.onAir[p] = 0
    BY <1>2, <1>7, <1>8, <1>9 DEF Owed, kind
  <2>2. p \in Packet /\ p <= sent
    <3>1. sent <= MaxPackets /\ MaxPackets \in Nat
      BY PacketAssumption DEF IInv, TypeOK
    <3> QED
      BY <1>2, <2>1, <3>1 DEF Packet
  <2> HIDE DEF p
  <2>3. Sound(DoSend(d, p, new), sent) /\ Sends(d, DoSend(d, p, new), p)
    BY <1>2, <1>6, <1>8, <1>9, <2>1, <2>2, SentSound
  <2> QED
    BY <2>3 DEF d, p
<1>10. CASE ~new
  <2>1. d.waitingAck /\ d.retxLeft > 0 /\ p = d.packet
    BY <1>2, <1>7, <1>8, <1>10 DEF Owed, kind
  <2>2. p \in Packet /\ p <= sent
    <3>1. d.packet \in Slot /\ d.packet # None /\ d.packet <= sent
      BY <1>2, <2>1, Fields DEF Budget, Waits
    <3> QED
      BY <2>1, <3>1 DEF Slot
  <2> HIDE DEF p
  <2>3. Sound(DoSend(d, p, new), sent) /\ Sends(d, DoSend(d, p, new), p)
    BY <1>2, <1>6, <1>8, <1>10, <2>1, <2>2, SentSound
  <2> QED
    BY <2>3 DEF d, p
<1> QED
  BY <1>9, <1>10

\* A report leaves a sound device sound.
LEMMA ReportSound ==
    ASSUME NEW d \in Device, NEW n, Sound(d, n), NEW ok \in BOOLEAN
    PROVE  /\ Report(d, ok) \in Device /\ Sound(Report(d, ok), n)
           /\ Report(d, ok).dutyLeft = d.dutyLeft /\ Report(d, ok).events = d.events
           /\ Report(d, ok).phy = d.phy /\ Report(d, ok).packet = d.packet
           /\ Report(d, ok).onAir = d.onAir
<1> DEFINE r == Report(d, ok)
<1>1. r = [d EXCEPT !.reports = r.reports] /\ r \in Device
  BY ReportFields
<1> HIDE DEF r
<1>2. /\ r.phy = d.phy /\ r.fault = d.fault /\ r.dutyLeft = d.dutyLeft /\ r.events = d.events
      /\ r.packet = d.packet /\ r.waitingAck = d.waitingAck /\ r.retxLeft = d.retxLeft
      /\ r.onAir = d.onAir /\ r.lastTx = d.lastTx /\ r.credits = d.credits
  BY <1>1 DEF Device
<1>3. Budget(r, n)
  BY <1>2, SameBudget DEF Sound
<1>4. Sound(r, n)
  BY <1>2, <1>3 DEF Sound
<1> QED
  BY <1>1, <1>2, <1>4 DEF r

\* A packet of the application replaces the one in progress: it goes out at
\* once when the sub-band is free, and waits for that otherwise.
LEMMA AppSendSound ==
    ASSUME RestsLongEnough, IInv, sent < MaxPackets, NEW t \in AckTimeouts
    PROVE  LET r == Send(dev, sent + 1, TRUE, t)
           IN  /\ Sound(r, sent + 1)
               /\ ~dev.waitingAck => Sends(dev, r, sent + 1) \/ Defers(dev, r, sent + 1)
<1> DEFINE told == IF dev.waitingAck THEN Report(dev, FALSE) ELSE dev
           delay == TransmissionDelay(dev, t)
           p == sent + 1
           r == Send(dev, p, TRUE, t)
<1>1. dev \in Device /\ sent \in Nat /\ p \in Packet /\ p \in Slot /\ Sound(dev, sent)
  BY PacketAssumption DEF IInv, TypeOK, Packet, Slot
<1>2. delay \in Nat /\ delay >= dev.dutyLeft
  <2>1. dev.dutyLeft \in Nat /\ dev.secondTs \in Int /\ t \in Int /\ WindowTime2 \in Int
    BY <1>1, Fields, DelayAssumption
  <2> QED
    BY <2>1 DEF TransmissionDelay, Later
<1>3. /\ told \in Device /\ Sound(told, sent) /\ told.dutyLeft = dev.dutyLeft
      /\ told.events = dev.events /\ told.phy = dev.phy /\ told.packet = dev.packet
      /\ told.onAir = dev.onAir /\ (~dev.waitingAck => told = dev)
  BY <1>1, ReportSound
<1>4. r = IF delay > 0 THEN Postpone(told, p, TRUE, delay) ELSE DoSend(told, p, TRUE)
  BY DEF Send
<1> HIDE DEF told, delay, r
<1>5. Budget(told, p)
  BY <1>1, <1>3, BudgetGrows DEF Sound
<1>6. told.packet <= sent /\ told.onAir[p] = 0
  <2>1. p > sent
    BY <1>1
  <2> QED
    BY <1>1, <1>3, <2>1 DEF Sound, Budget
<1>7. told.packet # p /\ p \in 1 .. p /\ p \in Nat
  <2>1. told.packet \in Nat
    BY <1>3, Fields, PacketAssumption DEF Slot, Packet, None
  <2> QED
    BY <1>1, <1>6, <2>1
<1> HIDE DEF p
<1>8. CASE delay > 0
  <2> DEFINE call == [kind |-> "DoSend", packet |-> p, held |-> TRUE]
  <2>1. r = Postpone(told, p, TRUE, delay)
    BY <1>4, <1>8
  <2>2. NextTxIs(told, r, call)
    <3>1. Timed(told.events, told.dutyLeft)
      BY <1>3 DEF Sound
    <3> QED
      BY <1>1, <1>2, <1>3, <2>1, <3>1, Postpones
  <2>3. call.kind = "DoSend" /\ call.packet = p
    OBVIOUS
  <2> HIDE DEF call
  <2>4. /\ r.phy = told.phy /\ r.fault = told.fault /\ r.dutyLeft = told.dutyLeft
        /\ r.packet = told.packet /\ r.waitingAck = told.waitingAck
        /\ r.retxLeft = told.retxLeft /\ r.onAir = told.onAir /\ r.lastTx = told.lastTx
        /\ r.credits = told.credits /\ r.reports = told.reports
    BY <1>3, <2>2 DEF NextTxIs, Device
  <2>5. Owed(call, r, p)
    BY <1>6, <1>7, <2>3, <2>4 DEF Owed
  <2>6. \A f \in r.events : Owed(f.what, r, p)
    BY <2>2, <2>5 DEF NextTxIs, Owed, Postponing
  <2>7. Waits(told) => Waits(r)
    BY <2>4 DEF Waits
  <2>8. Budget(r, p)
    BY <1>5, <2>4, <2>6, <2>7 DEF Budget
  <2>9. Phase(r.events, r.phy)
    <3>1. \A k \in {"TxFinished", "EndReceive", "OpenFirst", "OpenSecond", "CloseFirst",
                    "CloseSecond"} : Has(r.events, k) <=> Has(told.events, k)
      BY <2>2 DEF NextTxIs, Postponing
    <3> QED
      BY <1>3, <2>4, <3>1 DEF Phase, Sound
  <2>10. Defers(told, r, p)
    BY <2>2, <2>3, <2>4 DEF Defers, NextTxIs
  <2> QED
    BY <1>3, <2>2, <2>4, <2>8, <2>9, <2>10 DEF Sound, NextTxIs, r, p
<1>9. CASE ~(delay > 0)
  <2>1. dev.dutyLeft = 0
    BY <1>1, <1>2, <1>9, Fields
  <2>2. told.phy = "SLEEP" /\ told.dutyLeft = 0 /\ told.fault = "none"
        /\ \A e \in told.events : e.what.kind \in Postponing
    BY <1>3, <2>1, Free DEF Sound
  <2>3. Sound(DoSend(told, p, TRUE), p) /\ Sends(told, DoSend(told, p, TRUE), p)
    <3> DEFINE new == TRUE
    <3>1. new \in BOOLEAN /\ new /\ p <= p /\ p \in Packet
      BY <1>1, <1>7
    <3> HIDE DEF new
    <3>2. Sound(DoSend(told, p, new), p) /\ Sends(told, DoSend(told, p, new), p)
      BY <1>3, <1>5, <1>6, <1>7, <2>2, <3>1, SentSound
    <3> QED
      BY <3>2 DEF new
  <2> QED
    BY <1>3, <1>4, <1>9, <2>3 DEF r, p
<1> QED
  BY <1>8, <1>9

------------------------------------------------------------------------------
(* The theorems *)

LEMMA InitSound == Init => IInv
<1> SUFFICES ASSUME Init PROVE IInv
  OBVIOUS
<1>1. TypeOK
  BY InitType
<1>2. /\ dev.fault = "none" /\ dev.events = {} /\ dev.phy = "SLEEP" /\ dev.packet = None
      /\ dev.waitingAck = FALSE /\ dev.onAir = [p \in Packet |-> 0] /\ dev.credits = {}
      /\ sent = 0
  BY DEF Init, NewDevice
<1>3. 0 <= Limit
  BY PacketAssumption DEF Limit
<1>4. Budget(dev, sent)
  BY <1>2, <1>3 DEF Budget, None
<1>5. Timed(dev.events, dev.dutyLeft) /\ Phase(dev.events, dev.phy)
  BY <1>2 DEF Timed, OnePerClass, Phase, Has
<1> QED
  BY <1>1, <1>2, <1>4, <1>5 DEF IInv, Sound

LEMMA NextSound ==
    ASSUME RestsLongEnough, IInv, [Next]_vars
    PROVE  IInv'
<1>1. TypeOK'
  BY NextType DEF IInv
<1> SUFFICES Sound(dev', sent')
  BY <1>1 DEF IInv, Sound, Timed, Phase, Budget, OnePerClass, Has, OnTime, Owed, Waits
<1>2. dev \in Device /\ sent \in Nat /\ Sound(dev, sent)
  BY DEF IInv, TypeOK
<1>3. CASE RunDoSend /\ UNCHANGED sent
  <2>1. PICK e \in Ready("DoSend") : dev' = DoSend(Popped(e), e.what.packet, TRUE)
    BY <1>3 DEF RunDoSend
  <2> QED
    BY <1>3, <2>1, NextTxSound
<1>4. CASE RunResend /\ UNCHANGED sent
  <2>1. PICK e \in Ready("Resend") : dev' = DoSend(Popped(e), e.what.packet, FALSE)
    BY <1>4 DEF RunResend
  <2> QED
    BY <1>4, <2>1, NextTxSound
<1>5. CASE RunTxFinished /\ UNCHANGED sent
  BY <1>5, TxFinishedSound DEF RunTxFinished
<1>6. CASE RunOpenFirst /\ UNCHANGED sent
  BY <1>6, OpenFirstSound DEF RunOpenFirst
<1>7. CASE RunCloseFirst /\ UNCHANGED sent
  BY <1>7, CloseFirstSound DEF RunCloseFirst
<1>8. CASE RunOpenSecond /\ UNCHANGED sent
  BY <1>8, OpenSecondSound DEF RunOpenSecond
<1>9. CASE RunCloseSecond /\ UNCHANGED sent
  BY <1>9, CloseSecondSound DEF RunCloseSecond
<1>10. CASE RunEndReceive /\ UNCHANGED sent
  BY <1>10, EndReceiveSound DEF RunEndReceive
<1>11. CASE AppSend
  BY <1>11, AppSendSound DEF AppSend
<1>12. CASE AppSendRefused
  <2>1. dev' \in Device /\ Sound(dev', sent) /\ sent' = sent + 1
    BY <1>2, <1>12, ReportSound DEF AppSendRefused
  <2> QED
    BY <1>2, <2>1, BudgetGrows DEF Sound
<1>13. CASE Lock
  BY <1>13, LockSound DEF Lock
<1>14. CASE Tick
  BY <1>14, TickSound
<1>15. CASE UNCHANGED vars
  BY <1>2, <1>15 DEF vars
<1> QED
  BY <1>3, <1>4, <1>5, <1>6, <1>7, <1>8, <1>9, <1>10, <1>11, <1>12, <1>13, <1>14, <1>15
     DEF Next, RunEvent

THEOREM Invariance ==
    ASSUME RestsLongEnough
    PROVE  Spec => []IInv
<1>1. IInv /\ [Next]_vars => IInv'
  BY NextSound
<1> QED
  BY InitSound, <1>1, PTL DEF Spec

\* No assertion of the MAC or the PHY stops the program, and DoSend always
\* finds a channel, when a sub-band rests longer than the exchange on it.
THEOREM FaultFree ==
    ASSUME RestsLongEnough
    PROVE  Spec => []NoFault
<1>1. IInv => NoFault
  BY DEF IInv, Sound, NoFault
<1> QED
  BY Invariance, <1>1, PTL

\* A confirmed packet goes out m_nbTrans times at the most, an unconfirmed one
\* once, however retransmissions, new packets and receptions interleave.
THEOREM WithinTxBudget ==
    ASSUME RestsLongEnough
    PROVE  Spec => []TxBudget
<1>1. IInv => TxBudget
  BY DEF IInv, Sound, Budget, Limit, TxBudget
<1> QED
  BY Invariance, <1>1, PTL

\* The radio is in TX exactly while TxFinished is pending, and in RX exactly
\* while EndReceive is.
THEOREM RadioFollowsEvents ==
    ASSUME RestsLongEnough
    PROVE  Spec => []RadioBusy
<1>1. ASSUME IInv PROVE RadioBusy
  <2>1. Phase(dev.events, dev.phy) /\ Timed(dev.events, dev.dutyLeft)
    BY <1>1 DEF IInv, Sound
  <2>2. \A e \in dev.events : e.what.kind = "TxFinished" => e.what = Run("TxFinished")
    BY <2>1 DEF Timed, OnTime, Unheld
  <2>3. \A e \in dev.events : e.what.kind = "EndReceive" => e.what = Run("EndReceive")
    BY <2>1 DEF Timed, OnTime
  <2>4. Run("TxFinished").kind = "TxFinished" /\ Run("EndReceive").kind = "EndReceive"
    BY DEF Run
  <2> QED
    BY <2>1, <2>2, <2>3, <2>4 DEF RadioBusy, Phase, Has, IsPending
<1> QED
  BY Invariance, <1>1, PTL

\* The packet that an ACK ends is the one whose uplink it answers.
THEOREM AcksEndTheirPackets ==
    ASSUME RestsLongEnough
    PROVE  Spec => []AckEndsItsPacket
<1>1. IInv => AckEndsItsPacket
  BY DEF IInv, Sound, Budget, AckEndsItsPacket
<1> QED
  BY Invariance, <1>1, PTL

------------------------------------------------------------------------------
(* One report for each packet of an application that waits for its end         *)

\* A frame lasts longer than the second window waits for a preamble: the
\* preamble alone has as many symbols as the window.
FramesOutlast == \A r \in RxTimes : WindowTime2 < r

\* A packet that may still be reported has not been: the one in progress, the
\* one that is postponed, and those to come. There is one in progress as long
\* as the end of an uplink or a second window is to come.
UpToSecond == {"TxFinished", "OpenFirst", "OpenSecond", "CloseSecond"}
Single(d, n) ==
    /\ Total(d, None) = 0
    /\ \A p \in Packet : Total(d, p) <= 1 /\ (p > n => Total(d, p) = 0)
    /\ d.packet # None => Total(d, d.packet) = 0
    /\ \A e \in d.events : e.what.kind = "DoSend" => Total(d, e.what.packet) = 0
    /\ \A e \in d.events : e.what.kind \in UpToSecond => d.packet # None
    /\ InTime(d.events)

\* Only the times of events differ, or none but a retransmission is new.
LEMMA SingleSame ==
    ASSUME NEW d, NEW r, NEW n, Single(d, n), SameTask(d, r)
    PROVE  Single(r, n)
<1>1. \A p : Total(r, p) = Total(d, p)
  BY DEF SameTask, Total
<1>2. \A f \in r.events : f.what.kind # "Resend"
                             => \E e \in d.events : f.what = e.what /\ f.left = e.left
  BY DEF SameTask
<1>3. InTime(r.events)
  BY <1>2 DEF Single, InTime
<1>4. /\ \A e \in r.events : e.what.kind = "DoSend" => Total(r, e.what.packet) = 0
      /\ \A e \in r.events : e.what.kind \in UpToSecond => r.packet # None
  BY <1>1, <1>2 DEF Single, UpToSecond, SameTask
<1> QED
  BY <1>1, <1>3, <1>4 DEF Single, SameTask

\* The end of a packet is its only report.
LEMMA SingleEnded ==
    ASSUME NEW d \in Device, NEW r, NEW n \in Nat, Single(d, n), Budget(d, n),
           d.packet # None, Ended(d, r), ~Has(r.events, "CloseSecond")
    PROVE  Single(r, n)
<1>1. d.packet \in Packet /\ d.packet <= n /\ None \in Slot /\ Packet \subseteq Slot
      /\ None \notin Packet /\ Packet \subseteq Nat
  BY Fields, PacketAssumption DEF Budget, Slot, None, Packet
<1>2. Total(d, d.packet) = 0 /\ \A p \in Slot : Total(r, p) = IF p = d.packet THEN Total(d, p) + 1
                                                              ELSE Total(d, p)
  BY DEF Single, Ended, Counted
<1>3. Total(r, None) = 0
  BY <1>1, <1>2 DEF Single
<1>4. \A p \in Packet : Total(r, p) <= 1 /\ (p > n => Total(r, p) = 0)
  <2> SUFFICES ASSUME NEW p \in Packet PROVE Total(r, p) <= 1 /\ (p > n => Total(r, p) = 0)
    OBVIOUS
  <2>1. CASE p = d.packet
    BY <1>1, <1>2, <2>1
  <2>2. CASE p # d.packet
    BY <1>1, <1>2, <2>2 DEF Single
  <2> QED
    BY <2>1, <2>2
<1>5. \A f \in r.events : f.what.kind # "DoSend" /\ f.what.kind \notin UpToSecond
  BY DEF Ended, Has, Postponing, UpToSecond
<1>6. InTime(r.events)
  BY DEF InTime, Has
<1> QED
  BY <1>3, <1>4, <1>5, <1>6 DEF Single, Ended

\* A window comes while a packet is in progress.
LEMMA SingleAdds ==
    ASSUME NEW d, NEW r, NEW n, NEW K, Single(d, n), Adds(d, r, K), d.packet # None,
           "DoSend" \notin K, InTime(r.events)
    PROVE  Single(r, n)
<1>1. \A p : Total(r, p) = Total(d, p)
  BY DEF Adds, Total
<1>2. \A e \in r.events : e.what.kind = "DoSend" => Total(r, e.what.packet) = 0
  BY <1>1 DEF Single, Adds
<1> QED
  BY <1>1, <1>2 DEF Single, Adds

LEMMA SingleSends ==
    ASSUME NEW d, NEW r, NEW n, NEW p \in Packet, Single(d, n), Sends(d, r, p), Total(d, p) = 0
    PROVE  Single(r, n)
<1>1. \A o : Total(r, o) = Total(d, o)
  BY DEF Sends, Total
<1>2. p # None
  BY PacketAssumption DEF Packet, None
<1>3. InTime(r.events)
  BY DEF InTime, Sends
<1> QED
  BY <1>1, <1>2, <1>3 DEF Single, Sends

LEMMA SingleDefers ==
    ASSUME NEW d, NEW r, NEW n, NEW p, Single(d, n), Defers(d, r, p), Total(d, p) = 0
    PROVE  Single(r, n)
<1>1. \A o : Total(r, o) = Total(d, o)
  BY DEF Defers, Total
<1>2. \A f \in r.events : f.what.kind # "DoSend"
                             => \E e \in d.events : f.what = e.what /\ f.left = e.left
  BY DEF Defers
<1>3. InTime(r.events)
  BY <1>2 DEF Single, InTime
<1>4. \A f \in r.events : f.what.kind = "DoSend" => Total(r, f.what.packet) = 0
  BY <1>1 DEF Single, Defers
<1>5. \A f \in r.events : f.what.kind \in UpToSecond => r.packet # None
  BY <1>2 DEF Single, Defers, UpToSecond
<1> QED
  BY <1>1, <1>3, <1>4, <1>5 DEF Single, Defers

LEMMA SingleGrows ==
    ASSUME NEW d, NEW n \in Nat, Single(d, n)
    PROVE  Single(d, n + 1)
<1>1. \A p \in Packet : p > n + 1 => p > n
  BY PacketAssumption DEF Packet
<1> QED
  BY <1>1 DEF Single

\* The device when the simulator has taken an event off the queue.
LEMMA SingleTakes ==
    ASSUME IInv, Single(dev, sent), NEW kind \in Kinds, NEW e \in Ready(kind)
    PROVE  /\ Single(Popped(e), sent) /\ Popped(e).packet = dev.packet
           /\ Popped(e).reports = dev.reports /\ Popped(e).waitingAck = dev.waitingAck
           /\ kind \in UpToSecond => Popped(e).packet # None
           /\ e \in dev.events /\ e.what.kind = kind /\ e.left = 0
<1>1. /\ OnlyRadio(dev, Popped(e)) /\ Popped(e).events = dev.events \ {e}
      /\ e \in dev.events /\ e.what.kind = kind /\ e.left = 0
  BY Takes
<1>2. SameTask(dev, Popped(e))
  BY <1>1 DEF SameTask, OnlyRadio
<1>3. Single(Popped(e), sent)
  BY <1>2, SingleSame
<1>4. kind \in UpToSecond => dev.packet # None
  BY <1>1 DEF Single
<1> QED
  BY <1>1, <1>3, <1>4 DEF OnlyRadio

LEMMA RunEventSingle ==
    ASSUME RestsLongEnough, IInv, Single(dev, sent), RunEvent
    PROVE  Single(dev', sent)
<1>1. {"DoSend", "Resend", "TxFinished", "OpenFirst", "CloseFirst", "OpenSecond", "CloseSecond",
       "EndReceive"} \subseteq Kinds /\ sent \in Nat /\ dev \in Device /\ dev.events \in Queues
      /\ Budget(dev, sent)
  BY Fields DEF Kinds, IInv, TypeOK, Sound
<1>2. CASE RunDoSend
  <2>1. PICK e \in Ready("DoSend") : dev' = DoSend(Popped(e), e.what.packet, TRUE)
    BY <1>2 DEF RunDoSend
  <2>2. Sends(Popped(e), dev', e.what.packet)
    BY <2>1, NextTxSound
  <2>3. /\ Single(Popped(e), sent) /\ Popped(e).reports = dev.reports
        /\ e \in dev.events /\ e.what.kind = "DoSend"
    BY <1>1, SingleTakes
  <2>4. e.what.packet \in 1 .. sent /\ Total(dev, e.what.packet) = 0
    BY <1>1, <2>3 DEF Single, Budget, Owed
  <2>5. e.what.packet \in Packet
    BY <1>1, <2>4, PacketAssumption DEF Packet, IInv, TypeOK
  <2>6. Total(Popped(e), e.what.packet) = 0
    BY <2>3, <2>4 DEF Total
  <2> QED
    BY <2>2, <2>3, <2>5, <2>6, SingleSends
<1>3. CASE RunResend
  <2>1. PICK e \in Ready("Resend") : dev' = DoSend(Popped(e), e.what.packet, FALSE)
    BY <1>3 DEF RunResend
  <2>2. Sends(Popped(e), dev', e.what.packet)
    BY <2>1, NextTxSound
  <2>3. /\ Single(Popped(e), sent) /\ Popped(e).packet = dev.packet
        /\ e \in dev.events /\ e.what.kind = "Resend"
    BY <1>1, SingleTakes
  <2>4. e.what.packet = dev.packet /\ dev.packet # None
    BY <1>1, <2>3 DEF Budget, Owed, Waits
  <2>5. e.what.packet \in Packet
    BY <1>1, <2>4, Fields DEF Slot
  <2>6. Total(Popped(e), e.what.packet) = 0
    BY <2>3, <2>4 DEF Single
  <2> QED
    BY <2>2, <2>3, <2>5, <2>6, SingleSends
<1>4. CASE RunTxFinished
  <2>1. PICK e \in Ready("TxFinished") : dev' = TxFinished(Popped(e))
    BY <1>4 DEF RunTxFinished
  <2>2. Single(Popped(e), sent) /\ Popped(e).packet # None
    BY <1>1, SingleTakes DEF UpToSecond
  <2>3. Adds(Popped(e), dev', {"OpenFirst", "OpenSecond"})
    BY <2>1, TxFinishedSound
  <2>4. InTime(dev'.events)
    BY <2>2, <2>3 DEF Single, Adds, InTime
  <2> QED
    BY <2>2, <2>3, <2>4, SingleAdds
<1>5. CASE RunOpenFirst
  <2>1. PICK e \in Ready("OpenFirst") : dev' = OpenFirst(Popped(e))
    BY <1>5 DEF RunOpenFirst
  <2>2. Single(Popped(e), sent) /\ Popped(e).packet # None
    BY <1>1, SingleTakes DEF UpToSecond
  <2>3. Adds(Popped(e), dev', {"CloseFirst"})
    BY <2>1, OpenFirstSound
  <2>4. InTime(dev'.events)
    BY <2>2, <2>3 DEF Single, Adds, InTime
  <2> QED
    BY <2>2, <2>3, <2>4, SingleAdds
<1>6. CASE RunCloseFirst
  <2>1. PICK e \in Ready("CloseFirst") : dev' = CloseFirst(Popped(e))
    BY <1>6 DEF RunCloseFirst
  <2> QED
    BY <1>1, <2>1, SingleTakes, CloseFirstSound, SingleSame
<1>7. CASE RunOpenSecond
  <2>1. PICK e \in Ready("OpenSecond") : dev' = OpenSecond(Popped(e))
    BY <1>7 DEF RunOpenSecond
  <2>2. Single(Popped(e), sent) /\ Popped(e).packet # None
    BY <1>1, SingleTakes DEF UpToSecond
  <2>3. Adds(Popped(e), dev', {"CloseSecond"}) /\ InTime(dev'.events)
    BY <2>1, OpenSecondSound
  <2> QED
    BY <2>2, <2>3, SingleAdds
<1>8. CASE RunCloseSecond
  <2>1. PICK e \in Ready("CloseSecond"), t \in AckTimeouts : dev' = CloseSecond(Popped(e), t)
    BY <1>8 DEF RunCloseSecond
  <2>2. Single(Popped(e), sent) /\ Popped(e).packet # None
    BY <1>1, SingleTakes DEF UpToSecond
  <2>3. \/ SameTask(Popped(e), dev')
        \/ Ended(Popped(e), dev') /\ ~Has(dev'.events, "CloseSecond")
    BY <2>1, CloseSecondSound
  <2>4. Popped(e) \in Device /\ Budget(Popped(e), sent)
    BY <1>1, Takes
  <2> QED
    BY <1>1, <2>2, <2>3, <2>4, SingleSame, SingleEnded
<1>9. CASE RunEndReceive
  <2>1. PICK e \in Ready("EndReceive"), t \in AckTimeouts : dev' \in EndReceive(Popped(e), t)
    BY <1>9 DEF RunEndReceive
  <2>2. Single(Popped(e), sent) /\ e \in dev.events /\ e.what.kind = "EndReceive" /\ e.left = 0
    BY <1>1, SingleTakes
  <2>3. SameTask(Popped(e), dev') \/ (Popped(e).waitingAck /\ Ended(Popped(e), dev'))
    BY <2>1, EndReceiveSound
  <2>4. Popped(e) \in Device /\ Budget(Popped(e), sent) /\ Popped(e).events = dev.events \ {e}
    BY <1>1, Takes
  <2>5. CASE SameTask(Popped(e), dev')
    BY <2>2, <2>5, SingleSame
  <2>6. CASE Popped(e).waitingAck /\ Ended(Popped(e), dev')
    <3>1. Popped(e).packet # None
      BY <2>4, <2>6 DEF Budget, Waits
    <3>2. \A c \in dev.events : c.what.kind # "CloseSecond"
      <4>1. \A c \in dev.events : c.what.kind = "CloseSecond" => c.left < 0 /\ c.left \in Nat
        BY <1>1, <2>2, InQueue DEF Single, InTime
      <4> QED
        BY <4>1
    <3>3. ~Has(dev'.events, "CloseSecond")
      BY <2>4, <2>6, <3>2 DEF Has, Ended
    <3> QED
      BY <1>1, <2>2, <2>4, <2>6, <3>1, <3>3, SingleEnded
  <2> QED
    BY <2>3, <2>5, <2>6
<1> QED
  BY <1>2, <1>3, <1>4, <1>5, <1>6, <1>7, <1>8, <1>9 DEF RunEvent

LEMMA LockSingle ==
    ASSUME FramesOutlast, IInv, Single(dev, sent), Lock
    PROVE  Single(dev', sent)
<1>1. PICK t \in RxTimes :
          dev' = [dev EXCEPT !.phy = "RX", !.events = Schedule(@, Run("EndReceive"), t)]
  BY DEF Lock
<1> DEFINE w == Run("EndReceive")
           q1 == Schedule(dev.events, w, t)
<1>2. dev \in Device /\ dev.events \in Queues /\ t \in Nat /\ w \in Call /\ w.kind = "EndReceive"
  BY Fields, Delays, RunType DEF IInv, TypeOK, Run, Kinds
<1>3. ~Has(dev.events, "EndReceive")
  BY DEF IInv, Sound, Phase, Lock
<1> HIDE DEF w
<1>4. \A f \in q1 : \/ f.what.kind = "EndReceive" /\ f.left = t
                    \/ \E e \in dev.events : f.what = e.what /\ f.left = e.left
  <2>1. \A f \in q1 : \/ f.what = w /\ f.left = t
                      \/ \E e \in dev.events : f.what = e.what /\ f.left = e.left
    BY <1>2, Scheduled
  <2> QED
    BY <1>2, <2>1
<1>5. dev' = [dev EXCEPT !.phy = "RX", !.events = q1]
  BY <1>1 DEF w
<1> HIDE DEF q1
<1>6. dev'.events = q1 /\ dev'.packet = dev.packet /\ dev'.reports = dev.reports
  BY <1>2, <1>5 DEF Device
<1>7. Adds(dev, dev', {"EndReceive"})
  BY <1>4, <1>6 DEF Adds
<1>8. \A c \in q1 : c.what.kind = "CloseSecond"
                       => c.left <= WindowTime2 /\ c.left < t
  <2>1. \A c \in q1 : c.what.kind = "CloseSecond"
                         => \E e \in dev.events : c.what = e.what /\ c.left = e.left
    BY <1>4
  <2>2. \A e \in dev.events : e.what.kind = "CloseSecond" => e.left <= WindowTime2 /\ e.left \in Nat
    BY <1>2, InQueue DEF Single, InTime
  <2>3. WindowTime2 < t /\ WindowTime2 \in Nat
    BY Delays DEF FramesOutlast
  <2> QED
    BY <1>2, <2>1, <2>2, <2>3
<1>9. \A f \in q1 : f.what.kind = "EndReceive" => f.left = t
  BY <1>3, <1>4 DEF Has
<1>10. InTime(dev'.events)
  BY <1>6, <1>8, <1>9 DEF InTime
<1>11. \A p : Total(dev', p) = Total(dev, p)
  BY <1>6 DEF Total
<1>12. /\ \A f \in dev'.events : f.what.kind = "DoSend" => Total(dev', f.what.packet) = 0
       /\ \A f \in dev'.events : f.what.kind \in UpToSecond => dev'.packet # None
  BY <1>6, <1>7, <1>11 DEF Single, Adds, UpToSecond
<1> QED
  BY <1>6, <1>10, <1>11, <1>12 DEF Single

LEMMA TickSingle ==
    ASSUME RestsLongEnough, IInv, Single(dev, sent), Tick
    PROVE  Single(dev', sent)
<1> DEFINE q == Elapse(dev.events)
<1>1. dev \in Device /\ dev.events \in Queues /\ dev.dutyLeft \in Nat /\ ~SomeDue(dev.events)
      /\ Timed(dev.events, dev.dutyLeft) /\ WindowTime2 \in Nat
  BY Fields, Delays DEF IInv, TypeOK, Tick, Sound
<1>2. \A f \in q : \E e \in dev.events : f.what = e.what /\ f.left = e.left - 1
  BY <1>1, TimedElapse
<1> HIDE DEF q
<1>3. dev'.events = q /\ dev'.packet = dev.packet /\ dev'.reports = dev.reports
  BY <1>1 DEF Tick, Device, q
<1>4. \A p : Total(dev', p) = Total(dev, p)
  BY <1>3 DEF Total
<1>5. InTime(q)
  <2>1. ASSUME NEW c \in q, c.what.kind = "CloseSecond" PROVE c.left <= WindowTime2
    <3>1. PICK e \in dev.events : c.what = e.what /\ c.left = e.left - 1
      BY <1>2
    <3>2. e.left \in Nat /\ e.left <= WindowTime2
      BY <1>1, <2>1, <3>1, InQueue DEF Single, InTime
    <3> QED
      BY <1>1, <3>1, <3>2
  <2>2. ASSUME NEW c \in q, NEW f \in q, c.what.kind = "CloseSecond", f.what.kind = "EndReceive"
        PROVE  c.left < f.left
    <3>1. PICK e \in dev.events : c.what = e.what /\ c.left = e.left - 1
      BY <1>2
    <3>2. PICK g \in dev.events : f.what = g.what /\ f.left = g.left - 1
      BY <1>2
    <3>3. e.left \in Nat /\ g.left \in Nat /\ e.left < g.left
      BY <1>1, <2>2, <3>1, <3>2, InQueue DEF Single, InTime
    <3> QED
      BY <3>1, <3>2, <3>3
  <2> QED
    BY <2>1, <2>2 DEF InTime
<1> QED
  BY <1>2, <1>3, <1>4, <1>5 DEF Single

LEMMA NextSingle ==
    ASSUME RestsLongEnough, FramesOutlast, Paced, IInv, Single(dev, sent), [Next]_vars
    PROVE  Single(dev', sent')
<1>1. sent \in Nat /\ dev \in Device
  BY DEF IInv, TypeOK
<1>2. CASE RunEvent
  BY <1>2, RunEventSingle DEF RunEvent
<1>3. CASE AppSend
  <2> DEFINE p == sent + 1
  <2>1. p \in Packet /\ p > sent /\ ~dev.waitingAck /\ sent' = p
    BY <1>1, <1>3, PacketAssumption DEF AppSend, Idle, Packet, IInv, TypeOK
  <2>2. Sends(dev, dev', p) \/ Defers(dev, dev', p)
    BY <1>3, <2>1, AppSendSound DEF AppSend
  <2>3. Total(dev, p) = 0
    BY <2>1 DEF Single
  <2>4. Single(dev', sent)
    BY <2>1, <2>2, <2>3, SingleSends, SingleDefers
  <2> QED
    BY <1>1, <2>1, <2>4, SingleGrows
<1>4. CASE AppSendRefused
  <2>1. dev' = dev /\ sent' = sent + 1
    BY <1>4 DEF AppSendRefused, Idle
  <2> QED
    BY <1>1, <2>1, SingleGrows
<1>5. CASE Lock
  BY <1>5, LockSingle DEF Lock
<1>6. CASE Tick
  BY <1>6, TickSingle DEF Tick
<1>7. CASE UNCHANGED vars
  BY <1>7 DEF vars
<1> QED
  BY <1>2, <1>3, <1>4, <1>5, <1>6, <1>7 DEF Next

LEMMA InitSingle == Init => Single(dev, sent)
<1> SUFFICES ASSUME Init PROVE Single(dev, sent)
  OBVIOUS
<1>1. /\ dev.events = {} /\ dev.packet = None
      /\ dev.reports = [p \in Slot |-> [ok |-> 0, failed |-> 0]]
  BY DEF Init, NewDevice
<1>2. \A p \in Slot : Total(dev, p) = 0
  BY <1>1 DEF Total
<1>3. None \in Slot /\ Packet \subseteq Slot
  BY DEF Slot
<1> QED
  BY <1>1, <1>2, <1>3 DEF Single, InTime

\* The callback of the application fires at most once for each packet of one
\* that waits for the device to be idle, and never without a packet, as long as
\* a reception that has begun in the second window outlasts it.
THEOREM ReportedOnce ==
    ASSUME RestsLongEnough, FramesOutlast, Paced
    PROVE  Spec => []OneReport
<1> DEFINE Inv == IInv /\ Single(dev, sent)
<1>1. Init => Inv
  BY InitSound, InitSingle
<1>2. Inv /\ [Next]_vars => Inv'
  <2> SUFFICES ASSUME Inv, [Next]_vars PROVE Inv'
    OBVIOUS
  <2>1. IInv' /\ Single(dev', sent')
    BY NextSound, NextSingle
  <2> QED
    BY <2>1 DEF Single, InTime, Total
<1>3. Inv => OneReport
  BY DEF Single, Total, OneReport, Reports
<1> QED
  BY <1>1, <1>2, <1>3, PTL DEF Spec
==============================================================================
