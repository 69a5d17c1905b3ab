----------------------------- MODULE FrameHeader -----------------------------
(* LorawanMacHeader (one byte) and LoraFrameHeader: the fields, the Add*      *)
(* functions that append a MAC command, Serialize and Deserialize.            *)
EXTENDS MacCommands, DeviceAddress, SequencesExt

------------------------------------------------------------------------------
(* LorawanMacHeader.                                                          *)
JOIN_REQUEST == 0
JOIN_ACCEPT == 1
UNCONFIRMED_DATA_UP == 2
UNCONFIRMED_DATA_DOWN == 3
CONFIRMED_DATA_UP == 4
CONFIRMED_DATA_DOWN == 5
PROPRIETARY == 7

MacHeader == [mtype : {JOIN_REQUEST, JOIN_ACCEPT, UNCONFIRMED_DATA_UP,
                       UNCONFIRMED_DATA_DOWN, CONFIRMED_DATA_UP,
                       CONFIRMED_DATA_DOWN, PROPRIETARY},
              major : 0 .. 3]
IsUplink(m) == m.mtype \in {JOIN_REQUEST, UNCONFIRMED_DATA_UP, CONFIRMED_DATA_UP}
WriteMacHeader(m) == <<32 * m.mtype + m.major>>
ReadMacHeader(b) == [mtype |-> b[1] \div 32, major |-> b[1] % 4]

------------------------------------------------------------------------------
(* LoraFrameHeader.  fOptsLen is a byte counter of its own beside the vector  *)
(* of commands; it is written in four bits.                                   *)
FrameHeader0(uplink, address) ==
    [uplink |-> uplink, fPort |-> 0, address |-> address, adr |-> FALSE,
     adrAckReq |-> FALSE, ack |-> FALSE, fPending |-> FALSE,
     fOptsLen |-> 0, fCnt |-> 0, commands |-> <<>>]

AddCommand(h, c) ==
    [h EXCEPT !.commands = Append(@, c),
              !.fOptsLen = (@ + SerializedSize(c.type)) % 256]

AddLinkCheckReq(h) == AddCommand(h, [type |-> "LinkCheckReq"])
AddLinkCheckAns(h, margin, gwCnt) ==
    AddCommand(h, [type |-> "LinkCheckAns", margin |-> margin, gwCnt |-> gwCnt])
(* The mask with a bit for every channel of the list.                         *)
ChannelMask(enabled) == CHOOSE mask \in 0 .. 2^16 - 1 : BitsOf(mask) = enabled
AddLinkAdrReq(h, dataRate, txPower, enabled, repetitions) ==
    AddCommand(h, [type |-> "LinkAdrReq", dataRate |-> dataRate,
                   txPower |-> txPower, chMask |-> ChannelMask(enabled),
                   chMaskCntl |-> 0, nbTrans |-> repetitions])
AddLinkAdrAns(h, power, rate, mask) ==
    AddCommand(h, [type |-> "LinkAdrAns", powerAck |-> power,
                   dataRateAck |-> rate, channelMaskAck |-> mask])
AddDutyCycleReq(h, d) == AddCommand(h, [type |-> "DutyCycleReq", maxDutyCycle |-> d])
AddDutyCycleAns(h) == AddCommand(h, [type |-> "DutyCycleAns"])
AddRxParamSetupReq(h, offset, rate, hz) ==
    AddCommand(h, [type |-> "RxParamSetupReq", rx1DrOffset |-> offset,
                   rx2DataRate |-> rate, frequencyHz |-> hz])
(* The answer is built by its default constructor: its bits are indeterminate. *)
AddRxParamSetupAns(h) == {AddCommand(h, c) : c \in RxParamSetupAns}
AddDevStatusReq(h) == AddCommand(h, [type |-> "DevStatusReq"])
AddNewChannelReq(h, i, hz, low, high) ==
    AddCommand(h, [type |-> "NewChannelReq", chIndex |-> i, frequencyHz |-> hz,
                   minDataRate |-> low, maxDataRate |-> high])

FOptsBytes(commands) == FlattenSeq([i \in DOMAIN commands |-> WriteCommand(commands[i])])
FCtrl(h) == 128 * Bit(h.adr) + 64 * Bit(h.adrAckReq) + 32 * Bit(h.ack)
            + 16 * Bit(h.fPending) + (h.fOptsLen % 16)

WriteFrameHeader(h) ==
    Reverse(AddressBytes(h.address)) \o <<FCtrl(h), h.fCnt % 256, h.fCnt \div 256>>
        \o FOptsBytes(h.commands) \o <<h.fPort>>

(* Which class a CID stands for depends on the direction.                     *)
(* In the mutant the server expects the request where the answer comes.       *)
UplinkTypeOfRequest == <<"LinkCheckReq", "LinkAdrAns", "DutyCycleAns",
                         "RxParamSetupAns", "DevStatusReq", "NewChannelAns">>
UplinkType == <<"LinkCheckReq", "LinkAdrAns", "DutyCycleAns", "RxParamSetupAns",
                "DevStatusAns", "NewChannelAns", "RxTimingSetupAns",
                "TxParamSetupAns", "DlChannelAns">>
DownlinkType == <<"LinkCheckAns", "LinkAdrReq", "DutyCycleReq", "RxParamSetupReq",
                  "DevStatusReq", "NewChannelReq", "RxTimingSetupReq",
                  "TxParamSetupReq">>

(* A CID of no class leaves a null pointer that is called; a read past the    *)
(* end of the packet fails an assertion: either way the program stops.        *)
Crash == [type |-> "Crash"]

(* The loop over FOpts, in what is left of the packet but its last byte (the  *)
(* FPort is still to come): it stops once len bytes are consumed, so the last *)
(* command may reach beyond them, and the FPort is where it ends.             *)
ReadCommands(b, len, uplink) ==
    LET table == IF uplink THEN UplinkType ELSE DownlinkType
        from[n \in 0 .. len + 5] ==
            IF n >= len THEN [commands |-> <<>>, end |-> n]
            ELSE IF n >= Len(b) \/ b[n + 1] - 1 \notin DOMAIN table
                 THEN [commands |-> <<Crash>>, end |-> n]
            ELSE LET type == table[b[n + 1] - 1]
                     next == n + SerializedSize(type)
                 IN  IF next > Len(b) THEN [commands |-> <<Crash>>, end |-> n]
                     ELSE [commands |-> <<ReadCommand(type, SubSeq(b, n + 1, next))>>
                                          \o from[next].commands,
                           end |-> from[next].end]
    IN  from[0]

ReadFrameHeader(b, uplink) ==
    LET len == b[5] % 16
        read == ReadCommands(SubSeq(b, 8, Len(b) - 1), len, uplink)
    IN  [uplink |-> uplink, address |-> AddressFromBytes(Reverse(SubSeq(b, 1, 4))),
         adr |-> Flag(b[5], 128), adrAckReq |-> Flag(b[5], 64),
         ack |-> Flag(b[5], 32), fPending |-> Flag(b[5], 16), fOptsLen |-> len,
         fCnt |-> b[6] + 256 * b[7], commands |-> read.commands,
         fPort |-> b[8 + read.end]]

FrameHeaderSize(h) == 8 + h.fOptsLen
=============================================================================
