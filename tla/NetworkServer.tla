---------------------------- MODULE NetworkServer ----------------------------
(***************************************************************************)
(* The network server as one end device meets it: NetworkScheduler, the    *)
(* device's EndDeviceStatus and the controller's components. The device    *)
(* sends uplinks, gateways that hear one forward a copy each, and the      *)
(* server decides when, through which gateway and with what to reply.      *)
(* Devices share nothing in the server but the gateways, and which of them *)
(* are free is for the environment to say. Methods are operators from the  *)
(* status of the device to its next status.                                *)
(***************************************************************************)
EXTENDS Integers, Sequences, FiniteSets

CONSTANTS NumGateways,      \* gateways, known by their address
          Power,            \* received powers
          WindowDelay,      \* ticks in the scheduler's Seconds(1)
          CopySpread,       \* ticks the slowest link to the server may take
          UplinkGap,        \* ticks between the ends of two uplinks
          CounterValues,    \* values of the 16-bit frame counter
          RequestSets,      \* what an uplink may ask for at once
          MaxUplinks        \* bound on the uplinks

ASSUME PowerAssumption == Power \subseteq Nat
ASSUME TimeAssumption == /\ WindowDelay \in Nat \ {0} /\ CopySpread \in 0 .. WindowDelay - 1
                         /\ UplinkGap \in Nat /\ UplinkGap > 2 * WindowDelay + CopySpread
ASSUME CountAssumption == /\ NumGateways \in Nat /\ MaxUplinks \in Nat
                          /\ CounterValues \in Nat \ {0}

Gateway == 1 .. NumGateways

\* What an uplink asks for: an acknowledgment, any downlink, a LinkCheckAns.
Request == {"confirmed", "adrAckReq", "linkCheckReq"}
ASSUME RequestAssumption == RequestSets \subseteq SUBSET Request

VARIABLES status,           \* the EndDeviceStatus
          uplinks,          \* the uplinks sent so far
          copies,           \* copies on their way to the server
          gap               \* ticks until the device may send again

vars == <<status, uplinks, copies, gap>>

NoReply == [needsReply |-> FALSE, ack |-> FALSE, linkCheckAns |-> FALSE]

\* A device of which nothing has been heard. Of a received packet the list
\* keeps the first copy, known by the uplink's number, and its gwList.
NewStatus == [received |-> <<>>,            \* m_receivedPacketList
              reply |-> NoReply,            \* m_reply
              window |-> 0,                 \* that m_receiveWindowEvent opens, if any
              left |-> 0,                   \* ticks until then
              \* What the outside has seen:
              replies |-> <<>>,             \* downlinks given to gateways
              abandoned |-> {}]             \* uplinks given up on

FCnt(n) == uplinks[n].fCnt
LastUplink == Len(uplinks)
Elapsed == UplinkGap - gap

------------------------------------------------------------------------------
(* A copy arrives: NetworkServer::Receive *)

\* NetworkScheduler::OnReceivedPacket
ScheduleOpportunity(s) == IF s.window # 0 THEN s
                          ELSE [s EXCEPT !.window = 1, !.left = WindowDelay]

SameCounter(s, n) == { i \in DOMAIN s.received : FCnt(s.received[i].packet) = FCnt(n) }

\* The entry with the packet's counter that is nearest to the end of the list
\* gets one more gateway, unless that gateway is in its list already.
AddGateway(s, i, g, p) ==
    IF g \in DOMAIN s.received[i].gwList THEN s
    ELSE [s EXCEPT !.received[i].gwList =
             [h \in DOMAIN @ \cup {g} |-> IF h = g THEN p ELSE @[h]]]

\* In the mutant a packet is new only if the list is empty.
InsertIntoLast(s, n, g, p) ==
    IF s.received = <<>>
    THEN [s EXCEPT !.received = Append(@, [packet |-> n, gwList |-> [h \in {g} |-> p]])]
    ELSE AddGateway(s, Len(s.received), g, p)
InsertReceivedPacket(s, n, g, p) ==
    IF SameCounter(s, n) = {}
    THEN [s EXCEPT !.received = Append(@, [packet |-> n, gwList |-> [h \in {g} |-> p]])]
    ELSE AddGateway(s, CHOOSE i \in SameCounter(s, n) : \A j \in SameCounter(s, n) : j <= i,
                    g, p)

\* ConfirmedMessagesComponent::OnReceivedPacket
OnNewPacket(s, requests) ==
    IF "confirmed" \in requests
    THEN [s EXCEPT !.reply.needsReply = TRUE, !.reply.ack = TRUE]
    ELSE IF "adrAckReq" \in requests
    THEN [s EXCEPT !.reply.needsReply = TRUE, !.reply.ack = FALSE]
    ELSE s

Receive(s, n, g, p) ==
    OnNewPacket(InsertReceivedPacket(ScheduleOpportunity(s), n, g, p), uplinks[n].requests)

------------------------------------------------------------------------------
(* A receive window comes: NetworkScheduler::OnReceiveWindowOpportunity *)

LastReceived(s) == s.received[Len(s.received)]

\* std::map keeps, of gateways with one power, that with the lowest address.
GetPowerGatewayMap(s) ==
    LET heard == LastReceived(s).gwList
    IN  { g \in DOMAIN heard : \A h \in DOMAIN heard : heard[h] = heard[g] => g <= h }

FreeGateways(s, free) == GetPowerGatewayMap(s) \cap free
GetBestGatewayForDevice(s, free) ==
    CHOOSE g \in FreeGateways(s, free) :
        \A h \in FreeGateways(s, free) : LastReceived(s).gwList[h] <= LastReceived(s).gwList[g]

\* LinkCheckComponent::BeforeSendingReply
BeforeSendingReply(s) ==
    IF "linkCheckReq" \in uplinks[LastReceived(s).packet].requests
    THEN [s EXCEPT !.reply.needsReply = TRUE, !.reply.linkCheckAns = TRUE]
    ELSE s

InitializeReply(s) == [s EXCEPT !.reply = NoReply]

\* SendThroughGateway(GetReplyForDevice); the first fields are the reply's, the
\* others say what it answers and when it is sent.
SendReply(s, w, free) ==
    [s EXCEPT !.replies = Append(@, [fCnt |-> FCnt(LastReceived(s).packet),
                                     ack |-> s.reply.ack,
                                     linkCheckAns |-> s.reply.linkCheckAns,
                                     gateway |-> GetBestGatewayForDevice(s, free),
                                     window |-> w,
                                     to |-> LastUplink, at |-> Elapsed])]

\* "Should we reset it here or keep it for the next opportunity?"
GiveUpKeepingReply(s) == [s EXCEPT !.abandoned = @ \cup {LastUplink}]
GiveUp(s) == InitializeReply([s EXCEPT !.abandoned = @ \cup {LastUplink}])

\* Mutants: one waits for the second window as long as from the uplink to it,
\* one forgets it. AlwaysAgain, below, tries for a third.
WaitTwice(s) == [s EXCEPT !.window = 2, !.left = 2 * WindowDelay]
ForgetSecond(s) == s
WaitForSecond(s) == [s EXCEPT !.window = 2, !.left = WindowDelay]

Reply(s, w, free) == LET ready == BeforeSendingReply(s)
                     IN  IF ready.reply.needsReply
                         THEN InitializeReply(SendReply(ready, w, free))
                         ELSE ready

AlwaysAgain(s, free) ==
    LET w == s.window
        run == [s EXCEPT !.window = 0]
    IN  IF FreeGateways(s, free) # {} THEN Reply(run, w, free)
        ELSE [run EXCEPT !.window = w + 1, !.left = WindowDelay]
OnReceiveWindowOpportunity(s, free) ==
    LET w == s.window
        run == [s EXCEPT !.window = 0]
    IN  IF FreeGateways(s, free) # {} THEN Reply(run, w, free)
        ELSE IF w = 1 THEN WaitForSecond(run)
        ELSE GiveUp(run)

------------------------------------------------------------------------------
(* Steps *)

Init == status = NewStatus /\ uplinks = <<>> /\ copies = {} /\ gap = 0

\* The counter that DoSend writes next. Only a new packet moves it on, after its
\* own transmission: a retransmission and the next new packet share one.
CurrentFCnt ==
    IF LastUplink = 0 THEN 0
    ELSE (FCnt(LastUplink) + (IF uplinks[LastUplink].retx THEN 0 ELSE 1)) % CounterValues

\* Likewise, only a new packet clears the list of MAC commands it has sent.
CommandsKept == IF LastUplink # 0 /\ uplinks[LastUplink].retx
                THEN uplinks[LastUplink].requests \cap {"linkCheckReq"} ELSE {}

\* The end of an uplink that the gateways in the domain of heard receive: a new
\* packet, or the last one once more if it waits for an acknowledgment.
Uplink(requests, heard, retx) ==
    /\ gap = 0 /\ Len(uplinks) < MaxUplinks
    /\ retx => /\ LastUplink # 0 /\ "confirmed" \in uplinks[LastUplink].requests
               /\ "confirmed" \in requests
    /\ CommandsKept \subseteq requests
    /\ uplinks' = Append(uplinks, [requests |-> requests, heard |-> heard,
                                   retx |-> retx, fCnt |-> CurrentFCnt])
    /\ \E delay \in [DOMAIN heard -> 0 .. CopySpread] :
           copies' = copies \cup { [gateway |-> g, left |-> delay[g]] : g \in DOMAIN heard }
    /\ gap' = UplinkGap
    /\ UNCHANGED status

CopyArrives(c) == /\ c.left = 0
                  /\ copies' = copies \ {c}
                  /\ status' = Receive(status, LastUplink, c.gateway,
                                       uplinks[LastUplink].heard[c.gateway])
                  /\ UNCHANGED <<uplinks, gap>>

OpportunityDue == status.window # 0 /\ status.left = 0

RunOpportunity == /\ OpportunityDue
                  /\ \E free \in SUBSET Gateway :
                         status' = OnReceiveWindowOpportunity(status, free)
                  /\ UNCHANGED <<uplinks, copies, gap>>

Tick == /\ ~OpportunityDue
        /\ \A c \in copies : c.left > 0
        /\ copies' = { [c EXCEPT !.left = @ - 1] : c \in copies }
        /\ status' = IF status.window # 0 THEN [status EXCEPT !.left = @ - 1] ELSE status
        /\ gap' = IF gap > 0 THEN gap - 1 ELSE 0
        /\ UNCHANGED uplinks

Heards == UNION { [S -> Power] : S \in SUBSET Gateway }

Next == \/ \E requests \in RequestSets, heard \in Heards, retx \in BOOLEAN :
               Uplink(requests, heard, retx)
        \/ \E c \in copies : CopyArrives(c)
        \/ RunOpportunity
        \/ Tick

Spec == Init /\ [][Next]_vars

\* The simulator's event loop goes on; the device need not send.
FairSpec == Spec /\ WF_vars((\E c \in copies : CopyArrives(c)) \/ RunOpportunity \/ Tick)

------------------------------------------------------------------------------
(* Properties *)

Uplinks == [requests : SUBSET Request, heard : Heards,
            retx : BOOLEAN, fCnt : 0 .. CounterValues - 1]
Copies == [gateway : Gateway, left : 0 .. CopySpread]
Replies == [fCnt : 0 .. CounterValues - 1, ack : BOOLEAN, linkCheckAns : BOOLEAN,
            gateway : Gateway, window : 1 .. 2,
            to : Nat, at : Int]
ReceivedPackets == [packet : 1 .. MaxUplinks, gwList : Heards]
PendingReplies == [needsReply : BOOLEAN, ack : BOOLEAN, linkCheckAns : BOOLEAN]
Statuses == [received : Seq(ReceivedPackets), reply : PendingReplies,
             window : 0 .. 2, left : 0 .. 2 * WindowDelay,
             replies : Seq(Replies), abandoned : SUBSET Nat]

\* Types: a pending opportunity is for the first window or the second.
TypeOK == /\ status \in Statuses
          /\ uplinks \in Seq(Uplinks) /\ Len(uplinks) <= MaxUplinks
          /\ copies \subseteq Copies
          /\ gap \in 0 .. UplinkGap

AllReplies == { status.replies[i] : i \in DOMAIN status.replies }
RequestsOf(r) == uplinks[r.to].requests

\* Uplinks with one counter share an entry in the server's list. Uplink n is
\* filed under m, the first of them that any gateway heard.
Sharing(n) == { m \in 1 .. n : FCnt(m) = FCnt(n) }
FiledUnder(m, n) == /\ m \in Sharing(n) /\ uplinks[m].heard # <<>>
                    /\ \A k \in Sharing(n) : k < m => uplinks[k].heard = <<>>

\* A reply carries the last uplink's counter and acknowledges it iff it was
\* confirmed. It answers the link check of the uplink that the last one is filed
\* under, and only one that the last uplink asks for as well; it goes through a
\* gateway that heard an uplink with this counter. An uplink that shares its
\* counter with none before it is thus answered for itself alone.
ReplyFitsUplink ==
    \A r \in AllReplies :
        /\ r.fCnt = FCnt(r.to)
        /\ r.ack <=> "confirmed" \in RequestsOf(r)
        /\ r.linkCheckAns => "linkCheckReq" \in RequestsOf(r)
        /\ \E m \in 1 .. r.to :
              /\ FiledUnder(m, r.to)
              /\ r.linkCheckAns <=> "linkCheckReq" \in uplinks[m].requests
        /\ \E m \in Sharing(r.to) : r.gateway \in DOMAIN uplinks[m].heard

\* No uplink is answered twice, or answered after the server gave up on it, and
\* none that asked for nothing is answered, however many copies of it arrive.
OneReplyIfAsked == /\ \A i, j \in DOMAIN status.replies :
                          status.replies[i].to = status.replies[j].to => i = j
                   /\ \A r \in AllReplies : RequestsOf(r) # {} /\ r.to \notin status.abandoned

\* A reply leaves the server one or two seconds after the end of the uplink,
\* up to the delay of the fastest copy: in time for the window it is meant for.
ReplyInTime == \A r \in AllReplies : r.at - r.window * WindowDelay \in 0 .. CopySpread

\* Every uplink that some gateway heard and that asked for a downlink, or whose
\* counter was first heard with a link check, is answered, or the server gives up
\* on it: it never just forgets.
Heard(n) == n \in DOMAIN uplinks /\ uplinks[n].heard # <<>>
Asks(n) == \/ uplinks[n].requests \cap {"confirmed", "adrAckReq"} # {}
           \/ \E m \in 1 .. n : FiledUnder(m, n) /\ "linkCheckReq" \in uplinks[m].requests
AnsweredOrGivenUp ==
    \A n \in 1 .. MaxUplinks :
        Heard(n) /\ Asks(n) ~> n \in status.abandoned \/ \E r \in AllReplies : r.to = n

(* What comments of the code say, and the code does not do *)

\* network-status.h:89 "The Address of the gateway which measured the best RSSI
\* of the last packet from the device": a gateway that heard this packet. After a
\* retransmission, the next packet's reply may go through one that heard only the
\* retransmission of the packet before it.
ReplyThroughHearer == \A r \in AllReplies : r.gateway \in DOMAIN uplinks[r.to].heard

\* end-device-status.h:292 "Return the last packet that was received from this
\* device", whose counter the reply copies, also when the counter has wrapped.
ReplyNamesLastPacket == \A r \in AllReplies : r.fCnt = FCnt(r.to)

\* network-status.h:89 "... the best RSSI of the last packet from the device,
\* selected among the gateways being currently available for downlink
\* transmission": of gateways with one power, the code looks at one only.
BestGatewayIsTaken ==
    status.window # 0 =>
        \A free \in SUBSET Gateway :
            LET heard == LastReceived(status).gwList
            IN  FreeGateways(status, free) # {} =>
                    \A g \in DOMAIN heard \cap free :
                        heard[g] <= heard[GetBestGatewayForDevice(status, free)]
==============================================================================
