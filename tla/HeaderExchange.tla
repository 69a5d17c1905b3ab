--------------------------- MODULE HeaderExchange ---------------------------
(* Devices are given addresses, and frames with headers and MAC commands go   *)
(* between them and the network server as bytes: LorawanMacHelper::Install,   *)
(* EndDeviceLorawanMac::DoSend and NetworkStatus::GetReplyForDevice build     *)
(* them, EndDeviceLorawanMac::Receive and NetworkServer::Receive take them    *)
(* apart.                                                                     *)
EXTENDS FrameHeader

CONSTANTS
    FirstAddress,     \* what the generator was constructed with
    Devices,          \* at most that many devices are installed
    FrameCounters,    \* the values of the sender's frame counter
    Answers,          \* predefined answers a device adds with AddCommand
    MaxCommands,      \* commands in one header
    Payload           \* the bytes behind the headers

ASSUME FirstAddressAssumption == FirstAddress \in Address
ASSUME DevicesAssumption == Devices \in 1 .. AddrRange
ASSUME FrameCountersAssumption == FrameCounters \subseteq 0 .. 2^16 - 1
ASSUME AnswersAssumption == Answers \subseteq UplinkCommand
ASSUME MaxCommandsAssumption == MaxCommands \in Nat
ASSUME PayloadAssumption == Payload \in Seq(Byte)

VARIABLES
    generator,  \* m_currentNwkId and m_currentNwkAddr
    addresses,  \* the addresses of the devices, in the order of installation
    statuses,   \* the devices that the server keeps a status of
    sender,     \* the device that sends or is sent to
    macHdr,     \* the MAC header being written
    frameHdr,   \* the frame header being written
    wire,       \* the packet under way, or <<>>
    received    \* what the receiver made of it, or <<>>

vars == <<generator, addresses, statuses, sender, macHdr, frameHdr, wire, received>>
noFrame == [commands |-> <<>>]

Init == /\ generator = Generator(FirstAddress.nwkId, FirstAddress.nwkAddr)
        /\ addresses = <<>> /\ statuses = {}
        /\ sender = 0
        /\ macHdr = [mtype |-> PROPRIETARY, major |-> 0]
        /\ frameHdr = noFrame
        /\ wire = <<>> /\ received = <<>>

(* Every installed device takes the next address.  The server adds it to its  *)
(* map of statuses unless it knows the address.                               *)
Known(address) == {d \in statuses : Equivalent(addresses[d], address)}
AddNode(address) ==
    statuses' = IF Known(address) = {} THEN statuses \cup {Len(addresses) + 1} ELSE statuses
Install ==
    /\ Len(addresses) < Devices /\ sender = 0
    /\ addresses' = Append(addresses, NextAddress(generator))
    /\ generator' = AfterNextAddress(generator)
    /\ AddNode(NextAddress(generator))
    /\ UNCHANGED <<sender, macHdr, frameHdr, wire, received>>

(* A header is begun for one device, uplink or downlink.                      *)
Begin ==
    /\ sender = 0
    /\ \E d \in DOMAIN addresses, ack, adr \in BOOLEAN, fCnt \in FrameCounters,
          mtype \in {UNCONFIRMED_DATA_UP, CONFIRMED_DATA_UP, UNCONFIRMED_DATA_DOWN} :
         /\ sender' = d
         /\ macHdr' = [mtype |-> mtype, major |-> 1]
         /\ frameHdr' = [FrameHeader0(IsUplink(macHdr'), addresses[d]) EXCEPT
                           !.fPort = 1, !.adr = adr, !.ack = ack, !.fCnt = fCnt,
                           !.adrAckReq = adr /\ IsUplink(macHdr')]
    /\ UNCHANGED <<generator, addresses, statuses, wire, received>>

(* A header with one command more, by each function there is for one.         *)
UplinkAdded(h) ==
    {AddLinkCheckReq(h), AddDutyCycleAns(h)}
    \cup {AddLinkAdrAns(h, TRUE, FALSE, mask) : mask \in BOOLEAN}
    \cup AddRxParamSetupAns(h)
    \cup {AddCommand(h, c) : c \in Answers}
DownlinkAdded(h) ==
    {AddLinkCheckAns(h, 20, 3), AddLinkAdrReq(h, 5, 3, {0, 1, 2, 8}, 1),
     AddDutyCycleReq(h, 15), AddRxParamSetupReq(h, 5, 3, 868100000),
     AddDevStatusReq(h), AddNewChannelReq(h, 3, 867000, 1, 5),
     AddCommand(h, [type |-> "RxTimingSetupReq", delay |-> 15])}

Add ==
    /\ sender # 0 /\ wire = <<>> /\ Len(frameHdr.commands) < MaxCommands
    /\ frameHdr' \in IF IsUplink(macHdr) THEN UplinkAdded(frameHdr)
                                         ELSE DownlinkAdded(frameHdr)
    /\ UNCHANGED <<generator, addresses, statuses, sender, macHdr, wire, received>>

Send ==
    /\ sender # 0 /\ wire = <<>>
    /\ wire' = WriteMacHeader(macHdr) \o WriteFrameHeader(frameHdr) \o Payload
    /\ UNCHANGED <<generator, addresses, statuses, sender, macHdr, frameHdr, received>>

(* The MAC header says which table of commands the frame header is read with; *)
(* what is behind FrameHeaderSize is left as the payload.  For an uplink the  *)
(* server's scheduler first looks for the status of the sender with a header  *)
(* whose m_isUplink nobody has set (NetworkStatus::GetEndDeviceStatus).       *)
Receive ==
    /\ wire # <<>> /\ received = <<>>
    /\ \E direction \in BOOLEAN :
         LET m == ReadMacHeader(wire)
             rest == Tail(wire)
             h == ReadFrameHeader(rest, IsUplink(m))
         IN  /\ ~IsUplink(m) => ~direction
             /\ received' = <<[mac |-> m, frame |-> h,
                   payload |-> SubSeq(rest, FrameHeaderSize(h) + 1, Len(rest)),
                   lookup |-> ReadFrameHeader(rest, direction)]>>
    /\ UNCHANGED <<generator, addresses, statuses, sender, macHdr, frameHdr, wire>>

(* The exchange is over; another may follow.                                  *)
Finish ==
    /\ received # <<>>
    /\ sender' = 0 /\ frameHdr' = noFrame /\ wire' = <<>> /\ received' = <<>>
    /\ UNCHANGED <<generator, addresses, statuses, macHdr>>

Next == Install \/ Begin \/ Add \/ Send \/ Receive \/ Finish
Spec == Init /\ [][Next]_vars

------------------------------------------------------------------------------
(* The types of the variables.                                                *)
TypeOK == /\ generator \in Address
          /\ addresses \in Seq(Address) /\ Len(addresses) <= Devices
          /\ statuses \subseteq DOMAIN addresses
          /\ sender \in 0 .. Len(addresses)
          /\ macHdr \in MacHeader
          /\ wire \in Seq(Byte)
          /\ Len(received) <= 1

(* MAC commands of at most 15 bytes, all that FOptsLen can say, come out of   *)
(* the packet as they went in, with every other field and the payload.        *)
RoundTrip ==
    received # <<>> /\ frameHdr.fOptsLen <= 15 =>
        /\ received[1].mac = macHdr
        /\ received[1].frame = frameHdr
        /\ received[1].payload = Payload

(* However many commands a sender adds, the receiver runs none that was not   *)
(* sent and never runs off the packet: what it reads is a prefix.             *)
NothingInvented ==
    received # <<>> => IsPrefix(received[1].frame.commands, frameHdr.commands)

(* The address in a received header, however its commands are read, finds the *)
(* status of the device it belongs to and no other in a map ordered by        *)
(* operator<, also when the 25 bits wrap round.                               *)
OneOwner == received # <<>> => Known(received[1].lookup.address) = {sender}

(* network-status.h of GetEndDeviceStatus: it returns the status of the       *)
(* device that sent a packet.  Reading the header comes to an end.            *)
LookupReturns ==
    received # <<>> => ~Contains(received[1].lookup.commands, Crash)

(* mac-command.h describes each answer as an implementation of the command it *)
(* is named after: one that is sent alone comes out as the same command.      *)
SoleCommandArrives ==
    received # <<>> /\ Len(frameHdr.commands) = 1 =>
        received[1].frame.commands = frameHdr.commands

(* lora-device-address-generator.h of GetNextAddress: the address that will   *)
(* be allocated upon a call to NextAddress.                                   *)
PeekIsNext == [][Len(addresses') > Len(addresses) =>
                   Last(addresses') = GetNextAddress(generator)]_vars
=============================================================================
