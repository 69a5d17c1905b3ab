----------------------------- MODULE MacCommands -----------------------------
(* The MAC commands of mac-command.h/.cc: for each class the set of its       *)
(* values (its fields), what Serialize writes and what Deserialize reads.     *)
(* A buffer is a sequence of bytes; the first byte of a command is its CID.   *)
(* Reads take the buffer from the command's first byte on.                    *)
EXTENDS Integers, Sequences

Byte == 0 .. 255
Nibble == 0 .. 15
Frequency == {100 * f : f \in {0, 8670, 8681000, 8685000, 16777215}}

Bit(b) == IF b THEN 1 ELSE 0
Flag(byte, weight) == (byte \div weight) % 2 = 1
BitsOf(chMask) == {i \in 0 .. 15 : (chMask \div 2^i) % 2 = 1}

(* A frequency in Hz travels as hundreds of Hz, 24 bits, low byte first.      *)
Freq24(hz) == LET e == hz \div 100
              IN  <<e % 256, (e \div 256) % 256, (e \div 65536) % 256>>
Hz(b1, b2, b3) == 100 * (b1 + 256 * b2 + 65536 * b3)

------------------------------------------------------------------------------
(* The fields of each command.                                                *)
LinkCheckReq     == [type : {"LinkCheckReq"}]
LinkCheckAns     == [type : {"LinkCheckAns"}, margin : Byte, gwCnt : Byte]
LinkAdrReq       == [type : {"LinkAdrReq"}, dataRate : Nibble, txPower : Nibble,
                     chMask : 0 .. 2^16 - 1, chMaskCntl : 0 .. 7, nbTrans : Nibble]
LinkAdrAns       == [type : {"LinkAdrAns"}, powerAck : BOOLEAN,
                     dataRateAck : BOOLEAN, channelMaskAck : BOOLEAN]
DutyCycleReq     == [type : {"DutyCycleReq"}, maxDutyCycle : Nibble]
DutyCycleAns     == [type : {"DutyCycleAns"}]
RxParamSetupReq  == [type : {"RxParamSetupReq"}, rx1DrOffset : 0 .. 7,
                     rx2DataRate : Nibble, frequencyHz : Frequency]
RxParamSetupAns  == [type : {"RxParamSetupAns"}, rx1DrOffsetAck : BOOLEAN,
                     rx2DataRateAck : BOOLEAN, channelAck : BOOLEAN]
DevStatusReq     == [type : {"DevStatusReq"}]
DevStatusAns     == [type : {"DevStatusAns"}, battery : Byte, margin : 0 .. 63]
NewChannelReq    == [type : {"NewChannelReq"}, chIndex : Byte,
                     frequencyHz : Frequency, minDataRate : Nibble,
                     maxDataRate : Nibble]
NewChannelAns    == [type : {"NewChannelAns"}, dataRateRangeOk : BOOLEAN,
                     channelFrequencyOk : BOOLEAN]
RxTimingSetupReq == [type : {"RxTimingSetupReq"}, delay : Nibble]
RxTimingSetupAns == [type : {"RxTimingSetupAns"}]
TxParamSetupReq  == [type : {"TxParamSetupReq"}]
TxParamSetupAns  == [type : {"TxParamSetupAns"}]
DlChannelAns     == [type : {"DlChannelAns"}]

UplinkCommand ==
    UNION {LinkCheckReq, LinkAdrAns, DutyCycleAns, RxParamSetupAns, DevStatusAns, NewChannelAns,
           RxTimingSetupAns, TxParamSetupAns, DlChannelAns}

(* m_commandType, set by the constructors: four of them name DEV_STATUS_REQ.  *)
CommandType(c) ==
    IF c.type \in {"RxTimingSetupAns", "DlChannelAns",
                   "TxParamSetupReq", "TxParamSetupAns"}
    THEN "DevStatusReq" ELSE c.type

GetCIDFromMacCommand(type) ==
    CASE type \in {"LinkCheckReq", "LinkCheckAns"}         -> 2
      [] type \in {"LinkAdrReq", "LinkAdrAns"}             -> 3
      [] type \in {"DutyCycleReq", "DutyCycleAns"}         -> 4
      [] type \in {"RxParamSetupReq", "RxParamSetupAns"}   -> 5
      [] type \in {"DevStatusReq", "DevStatusAns"}         -> 6
      [] type \in {"NewChannelReq", "NewChannelAns"}       -> 7
      [] type \in {"RxTimingSetupReq", "RxTimingSetupAns"} -> 8
      [] type \in {"TxParamSetupReq", "TxParamSetupAns"}   -> 9
      [] type = "DlChannelAns"                             -> 10

CID(c) == GetCIDFromMacCommand(CommandType(c))

------------------------------------------------------------------------------
(* Serialize and Deserialize of each class.                                   *)
WriteLinkCheckReq(c) == <<CID(c)>>
ReadLinkCheckReq(b) == [type |-> "LinkCheckReq"]

WriteLinkCheckAns(c) == <<CID(c), c.margin, c.gwCnt>>
ReadLinkCheckAns(b) == [type |-> "LinkCheckAns", margin |-> b[2], gwCnt |-> b[3]]

WriteLinkAdrReq(c) ==
    <<CID(c), 16 * c.dataRate + c.txPower,
      c.chMask % 256, c.chMask \div 256, 16 * c.chMaskCntl + c.nbTrans>>
ReadLinkAdrReq(b) ==
    [type |-> "LinkAdrReq", dataRate |-> b[2] \div 16, txPower |-> b[2] % 16,
     chMask |-> b[3] + 256 * b[4],
     chMaskCntl |-> b[5] \div 16, nbTrans |-> b[5] % 16]

WriteLinkAdrAns(c) == <<CID(c), 4 * Bit(c.powerAck) + 2 * Bit(c.dataRateAck)
                                + Bit(c.channelMaskAck)>>
ReadLinkAdrAns(b) ==
    [type |-> "LinkAdrAns", powerAck |-> Flag(b[2], 4),
     dataRateAck |-> Flag(b[2], 2), channelMaskAck |-> Flag(b[2], 1)]

WriteDutyCycleReq(c) == <<CID(c), c.maxDutyCycle>>
ReadDutyCycleReq(b) == [type |-> "DutyCycleReq", maxDutyCycle |-> b[2]]

WriteDutyCycleAns(c) == <<CID(c)>>
ReadDutyCycleAns(b) == [type |-> "DutyCycleAns"]

WriteRxParamSetupReq(c) ==
    <<CID(c), 16 * c.rx1DrOffset + c.rx2DataRate>> \o Freq24(c.frequencyHz)
ReadRxParamSetupReq(b) ==
    [type |-> "RxParamSetupReq", rx1DrOffset |-> (b[2] \div 16) % 8,
     rx2DataRate |-> b[2] % 16, frequencyHz |-> Hz(b[3], b[4], b[5])]

WriteRxParamSetupAns(c) ==
    <<CID(c), 4 * Bit(c.rx1DrOffsetAck) + 2 * Bit(c.rx2DataRateAck)
              + Bit(c.channelAck)>>
ReadRxParamSetupAns(b) ==
    [type |-> "RxParamSetupAns", rx1DrOffsetAck |-> Flag(b[2], 4),
     rx2DataRateAck |-> Flag(b[2], 2), channelAck |-> Flag(b[2], 1)]

WriteDevStatusReq(c) == <<CID(c)>>
ReadDevStatusReq(b) == [type |-> "DevStatusReq"]

WriteDevStatusAns(c) == <<CID(c), c.battery, c.margin>>
ReadDevStatusAns(b) ==
    [type |-> "DevStatusAns", battery |-> b[2], margin |-> b[3]]

WriteNewChannelReq(c) ==
    <<CID(c), c.chIndex>> \o Freq24(c.frequencyHz)
        \o <<16 * c.maxDataRate + c.minDataRate>>
(* The mutant swaps the two halves of the last byte.                          *)
ReadNewChannelReqSwapped(b) ==
    [type |-> "NewChannelReq", chIndex |-> b[2],
     frequencyHz |-> Hz(b[3], b[4], b[5]),
     minDataRate |-> b[6] \div 16, maxDataRate |-> b[6] % 16]
ReadNewChannelReq(b) ==
    [type |-> "NewChannelReq", chIndex |-> b[2],
     frequencyHz |-> Hz(b[3], b[4], b[5]),
     minDataRate |-> b[6] % 16, maxDataRate |-> b[6] \div 16]

WriteNewChannelAns(c) ==
    <<CID(c), 2 * Bit(c.dataRateRangeOk) + Bit(c.channelFrequencyOk)>>
ReadNewChannelAns(b) ==
    [type |-> "NewChannelAns", dataRateRangeOk |-> Flag(b[2], 2),
     channelFrequencyOk |-> Flag(b[2], 1)]

WriteRxTimingSetupReq(c) == <<CID(c), c.delay>>
ReadRxTimingSetupReq(b) == [type |-> "RxTimingSetupReq", delay |-> b[2] % 16]

WriteRxTimingSetupAns(c) == <<CID(c)>>
ReadRxTimingSetupAns(b) == [type |-> "RxTimingSetupAns"]

WriteDlChannelAns(c) == <<CID(c)>>
ReadDlChannelAns(b) == [type |-> "DlChannelAns"]

WriteTxParamSetupReq(c) == <<CID(c)>>
ReadTxParamSetupReq(b) == [type |-> "TxParamSetupReq"]

WriteTxParamSetupAns(c) == <<CID(c)>>
ReadTxParamSetupAns(b) == [type |-> "TxParamSetupAns"]

------------------------------------------------------------------------------
(* The virtual functions of MacCommand, dispatched on the class.              *)
SerializedSize(type) ==
    CASE type \in {"LinkAdrReq", "RxParamSetupReq"} -> 5
      [] type = "NewChannelReq" -> 6
      [] type \in {"LinkCheckAns", "DevStatusAns"} -> 3
      [] type \in {"LinkAdrAns", "DutyCycleReq", "RxParamSetupAns",
                   "NewChannelAns", "RxTimingSetupReq"} -> 2
      [] OTHER -> 1

WriteCommand(c) ==
    CASE c.type = "LinkCheckReq"     -> WriteLinkCheckReq(c)
      [] c.type = "LinkCheckAns"     -> WriteLinkCheckAns(c)
      [] c.type = "LinkAdrReq"       -> WriteLinkAdrReq(c)
      [] c.type = "LinkAdrAns"       -> WriteLinkAdrAns(c)
      [] c.type = "DutyCycleReq"     -> WriteDutyCycleReq(c)
      [] c.type = "DutyCycleAns"     -> WriteDutyCycleAns(c)
      [] c.type = "RxParamSetupReq"  -> WriteRxParamSetupReq(c)
      [] c.type = "RxParamSetupAns"  -> WriteRxParamSetupAns(c)
      [] c.type = "DevStatusReq"     -> WriteDevStatusReq(c)
      [] c.type = "DevStatusAns"     -> WriteDevStatusAns(c)
      [] c.type = "NewChannelReq"    -> WriteNewChannelReq(c)
      [] c.type = "NewChannelAns"    -> WriteNewChannelAns(c)
      [] c.type = "RxTimingSetupReq" -> WriteRxTimingSetupReq(c)
      [] c.type = "RxTimingSetupAns" -> WriteRxTimingSetupAns(c)
      [] c.type = "DlChannelAns"     -> WriteDlChannelAns(c)
      [] c.type = "TxParamSetupReq"  -> WriteTxParamSetupReq(c)
      [] c.type = "TxParamSetupAns"  -> WriteTxParamSetupAns(c)

ReadCommand(type, b) ==
    CASE type = "LinkCheckReq"     -> ReadLinkCheckReq(b)
      [] type = "LinkCheckAns"     -> ReadLinkCheckAns(b)
      [] type = "LinkAdrReq"       -> ReadLinkAdrReq(b)
      [] type = "LinkAdrAns"       -> ReadLinkAdrAns(b)
      [] type = "DutyCycleReq"     -> ReadDutyCycleReq(b)
      [] type = "DutyCycleAns"     -> ReadDutyCycleAns(b)
      [] type = "RxParamSetupReq"  -> ReadRxParamSetupReq(b)
      [] type = "RxParamSetupAns"  -> ReadRxParamSetupAns(b)
      [] type = "DevStatusReq"     -> ReadDevStatusReq(b)
      [] type = "DevStatusAns"     -> ReadDevStatusAns(b)
      [] type = "NewChannelReq"    -> ReadNewChannelReq(b)
      [] type = "NewChannelAns"    -> ReadNewChannelAns(b)
      [] type = "RxTimingSetupReq" -> ReadRxTimingSetupReq(b)
      [] type = "RxTimingSetupAns" -> ReadRxTimingSetupAns(b)
      [] type = "DlChannelAns"     -> ReadDlChannelAns(b)
      [] type = "TxParamSetupReq"  -> ReadTxParamSetupReq(b)
      [] type = "TxParamSetupAns"  -> ReadTxParamSetupAns(b)
=============================================================================
