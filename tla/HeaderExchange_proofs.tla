------------------------- MODULE HeaderExchange_proofs -------------------------
(* Proofs about HeaderExchange, for any number of devices, any first address, *)
(* any payload and any number of commands in a header.                        *)
EXTENDS HeaderExchange, WellFoundedInduction, TLAPS

------------------------------------------------------------------------------
(* Sequences                                                                  *)

(* What is known of r = s \o t.                                               *)
Joins(s, t, r) ==
    /\ Len(r) = Len(s) + Len(t)
    /\ \A i \in 1 .. Len(s) : r[i] = s[i]
    /\ \A i \in 1 .. Len(t) : r[Len(s) + i] = t[i]

LEMMA Join ==
    ASSUME NEW S, NEW s \in Seq(S), NEW t \in Seq(S)
    PROVE  s \o t \in Seq(S) /\ Joins(s, t, s \o t)
  <1>1. s \o t \in Seq(S) /\ Len(s \o t) = Len(s) + Len(t)
    OBVIOUS
  <1>2. \A i \in 1 .. Len(s) : (s \o t)[i] = s[i]
    OBVIOUS
  <1>3. \A i \in 1 .. Len(t) : (s \o t)[Len(s) + i] = t[i]
    OBVIOUS
  <1> QED
    BY <1>1, <1>2, <1>3 DEF Joins

LEMMA TwoAndThree ==
    ASSUME NEW S, NEW s \in Seq(S), NEW t \in Seq(S), NEW r \in Seq(S), Len(s) = 2, Len(t) = 3, Joins(s, t, r)
    PROVE  /\ Len(r) = 5
           /\ r[1] = s[1] /\ r[2] = s[2] /\ r[3] = t[1] /\ r[4] = t[2] /\ r[5] = t[3]
  BY DEF Joins

LEMMA FiveAndOne ==
    ASSUME NEW S, NEW s \in Seq(S), NEW t \in Seq(S), NEW r \in Seq(S), Len(s) = 5, Len(t) = 1, Joins(s, t, r)
    PROVE  /\ Len(r) = 6
           /\ r[1] = s[1] /\ r[2] = s[2] /\ r[3] = s[3] /\ r[4] = s[4] /\ r[5] = s[5] /\ r[6] = t[1]
  BY DEF Joins

LEMMA JoinAll == \A S : \A s, t \in Seq(S) : s \o t \in Seq(S) /\ Joins(s, t, s \o t)
  BY Join

LEMMA Same ==
    ASSUME NEW S, NEW s \in Seq(S), NEW t \in Seq(S), Len(s) = Len(t), \A i \in 1 .. Len(s) : s[i] = t[i]
    PROVE  s = t
  OBVIOUS

LEMMA Cut == ASSUME NEW S, NEW s \in Seq(S), NEW t \in Seq(S), NEW r \in Seq(S), Joins(s, t, r)
      PROVE  SubSeq(r, 1, Len(s)) = s /\ SubSeq(r, Len(s) + 1, Len(r)) = t
  <1>1. SubSeq(r, 1, Len(s)) = s
    <2> DEFINE p == SubSeq(r, 1, Len(s))
    <2>1. p \in Seq(S) /\ Len(p) = Len(s) /\ \A i \in 1 .. Len(s) : p[i] = r[i]
      BY DEF Joins
    <2> HIDE DEF p
    <2>2. p = s
      BY <2>1, Same DEF Joins
    <2> QED
      BY <2>2 DEF p
  <1>2. SubSeq(r, Len(s) + 1, Len(r)) = t
    <2> DEFINE p == SubSeq(r, Len(s) + 1, Len(r))
    <2>1. p \in Seq(S) /\ Len(p) = Len(t) /\ \A i \in 1 .. Len(t) : p[i] = r[Len(s) + i]
      BY DEF Joins
    <2> HIDE DEF p
    <2>2. \A i \in 1 .. Len(t) : p[i] = t[i]
      BY <2>1 DEF Joins
    <2>3. p = t
      BY <2>1, <2>2, Same
    <2> QED
      BY <2>3 DEF p
  <1> QED BY <1>1, <1>2

------------------------------------------------------------------------------
(* Single commands                                                            *)

(* The answers of devices; the other ones of UplinkCommand name the type of   *)
(* another class in their constructor and are never added by a device.        *)
UplinkRead == UNION {LinkCheckReq, LinkAdrAns, DutyCycleAns, RxParamSetupAns, DevStatusAns,
                     NewChannelAns}
DownlinkRead == UNION {LinkCheckAns, LinkAdrReq, DutyCycleReq, RxParamSetupReq, DevStatusReq,
                       NewChannelReq, RxTimingSetupReq}
Commands(uplink) == IF uplink THEN UplinkRead ELSE DownlinkRead
Table(uplink) == IF uplink THEN UplinkType ELSE DownlinkType

(* Written with its CID and read by the class that the table names for it, a  *)
(* command comes out as it was.                                               *)
ReadsAs(c, uplink, b) ==
    /\ b \in Seq(Byte) /\ Len(b) = SerializedSize(c.type) /\ Len(b) \in 1 .. 6
    /\ b[1] - 1 \in DOMAIN Table(uplink) /\ Table(uplink)[b[1] - 1] = c.type
    /\ ReadCommand(c.type, b) = c
Travels(c, uplink) == ReadsAs(c, uplink, WriteCommand(c))

LEMMA BitsTravel ==
    /\ \A p, q, r \in BOOLEAN : LET n == 4 * Bit(p) + 2 * Bit(q) + Bit(r)
                                IN  /\ n \in Byte /\ Flag(n, 4) = p /\ Flag(n, 2) = q /\ Flag(n, 1) = r
    /\ \A p, q \in BOOLEAN : LET n == 2 * Bit(p) + Bit(q)
                             IN  n \in Byte /\ Flag(n, 2) = p /\ Flag(n, 1) = q
  BY DEF Bit, Flag, Byte

LEMMA FrequencyTravels ==
    ASSUME NEW hz \in Frequency
    PROVE  \E p, q, r \in Byte : Freq24(hz) = <<p, q, r>> /\ Hz(p, q, r) = hz
  <1>1. PICK f \in {0, 8670, 8681000, 8685000, 16777215} : hz = 100 * f
    BY DEF Frequency
  <1>2. hz \div 100 = f /\ f \in Nat /\ f < 16777216
    BY <1>1
  <1> DEFINE p == f % 256
             q == (f \div 256) % 256
             r == (f \div 65536) % 256
  <1>3. p \in Byte /\ q \in Byte /\ r \in Byte /\ Freq24(hz) = <<p, q, r>>
    BY <1>2 DEF Byte, Freq24
  <1>4. p + 256 * q + 65536 * r = f
    BY <1>1
  <1> QED
    BY <1>1, <1>3, <1>4 DEF Hz

(* What each class is dispatched to.                                          *)
LEMMA UplinkDispatch ==
    /\ \A c : c.type = "LinkCheckReq" => WriteCommand(c) = WriteLinkCheckReq(c) /\ CID(c) = 2
    /\ \A c : c.type = "LinkAdrAns" => WriteCommand(c) = WriteLinkAdrAns(c) /\ CID(c) = 3
    /\ \A c : c.type = "DutyCycleAns" => WriteCommand(c) = WriteDutyCycleAns(c) /\ CID(c) = 4
    /\ \A c : c.type = "RxParamSetupAns" => WriteCommand(c) = WriteRxParamSetupAns(c) /\ CID(c) = 5
    /\ \A c : c.type = "DevStatusAns" => WriteCommand(c) = WriteDevStatusAns(c) /\ CID(c) = 6
    /\ \A c : c.type = "NewChannelAns" => WriteCommand(c) = WriteNewChannelAns(c) /\ CID(c) = 7
  BY DEF WriteCommand, CID, CommandType, GetCIDFromMacCommand

LEMMA DownlinkDispatch ==
    /\ \A c : c.type = "LinkCheckAns" => WriteCommand(c) = WriteLinkCheckAns(c) /\ CID(c) = 2
    /\ \A c : c.type = "LinkAdrReq" => WriteCommand(c) = WriteLinkAdrReq(c) /\ CID(c) = 3
    /\ \A c : c.type = "DutyCycleReq" => WriteCommand(c) = WriteDutyCycleReq(c) /\ CID(c) = 4
    /\ \A c : c.type = "RxParamSetupReq" => WriteCommand(c) = WriteRxParamSetupReq(c) /\ CID(c) = 5
    /\ \A c : c.type = "DevStatusReq" => WriteCommand(c) = WriteDevStatusReq(c) /\ CID(c) = 6
    /\ \A c : c.type = "NewChannelReq" => WriteCommand(c) = WriteNewChannelReq(c) /\ CID(c) = 7
    /\ \A c : c.type = "RxTimingSetupReq" => WriteCommand(c) = WriteRxTimingSetupReq(c) /\ CID(c) = 8
  BY DEF WriteCommand, CID, CommandType, GetCIDFromMacCommand

LEMMA UplinkClasses ==
    /\ /\ SerializedSize("LinkCheckReq") = 1 /\ UplinkType[1] = "LinkCheckReq"
       /\ \A b : ReadCommand("LinkCheckReq", b) = ReadLinkCheckReq(b)
    /\ /\ SerializedSize("LinkAdrAns") = 2 /\ UplinkType[2] = "LinkAdrAns"
       /\ \A b : ReadCommand("LinkAdrAns", b) = ReadLinkAdrAns(b)
    /\ /\ SerializedSize("DutyCycleAns") = 1 /\ UplinkType[3] = "DutyCycleAns"
       /\ \A b : ReadCommand("DutyCycleAns", b) = ReadDutyCycleAns(b)
    /\ /\ SerializedSize("RxParamSetupAns") = 2 /\ UplinkType[4] = "RxParamSetupAns"
       /\ \A b : ReadCommand("RxParamSetupAns", b) = ReadRxParamSetupAns(b)
    /\ /\ SerializedSize("DevStatusAns") = 3 /\ UplinkType[5] = "DevStatusAns"
       /\ \A b : ReadCommand("DevStatusAns", b) = ReadDevStatusAns(b)
    /\ /\ SerializedSize("NewChannelAns") = 2 /\ UplinkType[6] = "NewChannelAns"
       /\ \A b : ReadCommand("NewChannelAns", b) = ReadNewChannelAns(b)
    /\ DOMAIN UplinkType = 1 .. 9
  BY DEF SerializedSize, UplinkType, ReadCommand

LEMMA DownlinkClasses ==
    /\ /\ SerializedSize("LinkCheckAns") = 3 /\ DownlinkType[1] = "LinkCheckAns"
       /\ \A b : ReadCommand("LinkCheckAns", b) = ReadLinkCheckAns(b)
    /\ /\ SerializedSize("LinkAdrReq") = 5 /\ DownlinkType[2] = "LinkAdrReq"
       /\ \A b : ReadCommand("LinkAdrReq", b) = ReadLinkAdrReq(b)
    /\ /\ SerializedSize("DutyCycleReq") = 2 /\ DownlinkType[3] = "DutyCycleReq"
       /\ \A b : ReadCommand("DutyCycleReq", b) = ReadDutyCycleReq(b)
    /\ /\ SerializedSize("RxParamSetupReq") = 5 /\ DownlinkType[4] = "RxParamSetupReq"
       /\ \A b : ReadCommand("RxParamSetupReq", b) = ReadRxParamSetupReq(b)
    /\ /\ SerializedSize("DevStatusReq") = 1 /\ DownlinkType[5] = "DevStatusReq"
       /\ \A b : ReadCommand("DevStatusReq", b) = ReadDevStatusReq(b)
    /\ /\ SerializedSize("NewChannelReq") = 6 /\ DownlinkType[6] = "NewChannelReq"
       /\ \A b : ReadCommand("NewChannelReq", b) = ReadNewChannelReq(b)
    /\ /\ SerializedSize("RxTimingSetupReq") = 2 /\ DownlinkType[7] = "RxTimingSetupReq"
       /\ \A b : ReadCommand("RxTimingSetupReq", b) = ReadRxTimingSetupReq(b)
    /\ DOMAIN DownlinkType = 1 .. 8
  BY DEF SerializedSize, DownlinkType, ReadCommand

LEMMA UplinkTravels == \A c \in UplinkRead : Travels(c, TRUE)
  <1> SUFFICES ASSUME NEW c \in UplinkRead PROVE Travels(c, TRUE)
    OBVIOUS
  <1>1. CASE c \in LinkCheckReq
    <2>1. /\ c = [type |-> "LinkCheckReq"]
      BY <1>1 DEF LinkCheckReq
    <2>2. WriteCommand(c) = WriteLinkCheckReq(c) /\ CID(c) = 2
      BY <2>1, UplinkDispatch
    <2>3. c.type = "LinkCheckReq" /\ SerializedSize(c.type) = 1 /\ \A r : ReadCommand(c.type, r) = ReadLinkCheckReq(r)
      BY <2>1, UplinkClasses
    <2>4. Table(TRUE) = UplinkType /\ 1 \in DOMAIN UplinkType /\ UplinkType[1] = c.type
      BY <2>3, UplinkClasses DEF Table
    <2> DEFINE b == <<2>>
    <2>5. WriteCommand(c) = b
      BY <2>1, <2>2 DEF WriteLinkCheckReq
    <2>6. /\ b \in Seq(Byte) /\ Len(b) = 1 /\ Len(b) \in 1 .. 6
          /\ b[1] = 2
      BY <2>1 DEF Byte
    <2> HIDE DEF b
    <2>7. ReadLinkCheckReq(b) = c
      BY <2>1, <2>6 DEF ReadLinkCheckReq
    <2>8. b[1] - 1 = 1
      BY <2>6
    <2>9. ReadsAs(c, TRUE, b)
      BY <2>3, <2>4, <2>6, <2>7, <2>8 DEF ReadsAs
    <2> QED
      BY <2>5, <2>9 DEF Travels
  <1>2. CASE c \in LinkAdrAns
    <2>1. /\ c = [type |-> "LinkAdrAns", powerAck |-> c.powerAck,
                    dataRateAck |-> c.dataRateAck, channelMaskAck |-> c.channelMaskAck]
          /\ c.powerAck \in BOOLEAN /\ c.dataRateAck \in BOOLEAN /\ c.channelMaskAck \in BOOLEAN
      BY <1>2 DEF LinkAdrAns
    <2>2. WriteCommand(c) = WriteLinkAdrAns(c) /\ CID(c) = 3
      BY <2>1, UplinkDispatch
    <2>3. c.type = "LinkAdrAns" /\ SerializedSize(c.type) = 2 /\ \A r : ReadCommand(c.type, r) = ReadLinkAdrAns(r)
      BY <2>1, UplinkClasses
    <2>4. Table(TRUE) = UplinkType /\ 2 \in DOMAIN UplinkType /\ UplinkType[2] = c.type
      BY <2>3, UplinkClasses DEF Table
    <2> DEFINE b == <<3, 4 * Bit(c.powerAck) + 2 * Bit(c.dataRateAck) + Bit(c.channelMaskAck)>>
    <2>5. WriteCommand(c) = b
      BY <2>1, <2>2 DEF WriteLinkAdrAns
    <2>6. /\ 4 * Bit(c.powerAck) + 2 * Bit(c.dataRateAck) + Bit(c.channelMaskAck) \in Byte
          /\ Flag(4 * Bit(c.powerAck) + 2 * Bit(c.dataRateAck) + Bit(c.channelMaskAck), 4) = c.powerAck
          /\ Flag(4 * Bit(c.powerAck) + 2 * Bit(c.dataRateAck) + Bit(c.channelMaskAck), 2) = c.dataRateAck
          /\ Flag(4 * Bit(c.powerAck) + 2 * Bit(c.dataRateAck) + Bit(c.channelMaskAck), 1) = c.channelMaskAck
      BY <2>1, BitsTravel
    <2>7. /\ b \in Seq(Byte) /\ Len(b) = 2 /\ Len(b) \in 1 .. 6
          /\ b[1] = 3 /\ b[2] = 4 * Bit(c.powerAck) + 2 * Bit(c.dataRateAck) + Bit(c.channelMaskAck)
      BY <2>6, <2>1 DEF Byte
    <2> HIDE DEF b
    <2>8. ReadLinkAdrAns(b) = c
      BY <2>1, <2>7, <2>6 DEF ReadLinkAdrAns
    <2>9. b[1] - 1 = 2
      BY <2>7
    <2>10. ReadsAs(c, TRUE, b)
      BY <2>3, <2>4, <2>7, <2>8, <2>9 DEF ReadsAs
    <2> QED
      BY <2>5, <2>10 DEF Travels
  <1>3. CASE c \in DutyCycleAns
    <2>1. /\ c = [type |-> "DutyCycleAns"]
      BY <1>3 DEF DutyCycleAns
    <2>2. WriteCommand(c) = WriteDutyCycleAns(c) /\ CID(c) = 4
      BY <2>1, UplinkDispatch
    <2>3. c.type = "DutyCycleAns" /\ SerializedSize(c.type) = 1 /\ \A r : ReadCommand(c.type, r) = ReadDutyCycleAns(r)
      BY <2>1, UplinkClasses
    <2>4. Table(TRUE) = UplinkType /\ 3 \in DOMAIN UplinkType /\ UplinkType[3] = c.type
      BY <2>3, UplinkClasses DEF Table
    <2> DEFINE b == <<4>>
    <2>5. WriteCommand(c) = b
      BY <2>1, <2>2 DEF WriteDutyCycleAns
    <2>6. /\ b \in Seq(Byte) /\ Len(b) = 1 /\ Len(b) \in 1 .. 6
          /\ b[1] = 4
      BY <2>1 DEF Byte
    <2> HIDE DEF b
    <2>7. ReadDutyCycleAns(b) = c
      BY <2>1, <2>6 DEF ReadDutyCycleAns
    <2>8. b[1] - 1 = 3
      BY <2>6
    <2>9. ReadsAs(c, TRUE, b)
      BY <2>3, <2>4, <2>6, <2>7, <2>8 DEF ReadsAs
    <2> QED
      BY <2>5, <2>9 DEF Travels
  <1>4. CASE c \in RxParamSetupAns
    <2>1. /\ c = [type |-> "RxParamSetupAns", rx1DrOffsetAck |-> c.rx1DrOffsetAck,
                    rx2DataRateAck |-> c.rx2DataRateAck, channelAck |-> c.channelAck]
          /\ c.rx1DrOffsetAck \in BOOLEAN /\ c.rx2DataRateAck \in BOOLEAN /\ c.channelAck \in BOOLEAN
      BY <1>4 DEF RxParamSetupAns
    <2>2. WriteCommand(c) = WriteRxParamSetupAns(c) /\ CID(c) = 5
      BY <2>1, UplinkDispatch
    <2>3. c.type = "RxParamSetupAns" /\ SerializedSize(c.type) = 2 /\ \A r : ReadCommand(c.type, r) = ReadRxParamSetupAns(r)
      BY <2>1, UplinkClasses
    <2>4. Table(TRUE) = UplinkType /\ 4 \in DOMAIN UplinkType /\ UplinkType[4] = c.type
      BY <2>3, UplinkClasses DEF Table
    <2> DEFINE b == <<5, 4 * Bit(c.rx1DrOffsetAck) + 2 * Bit(c.rx2DataRateAck) + Bit(c.channelAck)>>
    <2>5. WriteCommand(c) = b
      BY <2>1, <2>2 DEF WriteRxParamSetupAns
    <2>6. /\ 4 * Bit(c.rx1DrOffsetAck) + 2 * Bit(c.rx2DataRateAck) + Bit(c.channelAck) \in Byte
          /\ Flag(4 * Bit(c.rx1DrOffsetAck) + 2 * Bit(c.rx2DataRateAck) + Bit(c.channelAck), 4) = c.rx1DrOffsetAck
          /\ Flag(4 * Bit(c.rx1DrOffsetAck) + 2 * Bit(c.rx2DataRateAck) + Bit(c.channelAck), 2) = c.rx2DataRateAck
          /\ Flag(4 * Bit(c.rx1DrOffsetAck) + 2 * Bit(c.rx2DataRateAck) + Bit(c.channelAck), 1) = c.channelAck
      BY <2>1, BitsTravel
    <2>7. /\ b \in Seq(Byte) /\ Len(b) = 2 /\ Len(b) \in 1 .. 6
          /\ b[1] = 5 /\ b[2] = 4 * Bit(c.rx1DrOffsetAck) + 2 * Bit(c.rx2DataRateAck) + Bit(c.channelAck)
      BY <2>6, <2>1 DEF Byte
    <2> HIDE DEF b
    <2>8. ReadRxParamSetupAns(b) = c
      BY <2>1, <2>7, <2>6 DEF ReadRxParamSetupAns
    <2>9. b[1] - 1 = 4
      BY <2>7
    <2>10. ReadsAs(c, TRUE, b)
      BY <2>3, <2>4, <2>7, <2>8, <2>9 DEF ReadsAs
    <2> QED
      BY <2>5, <2>10 DEF Travels
  <1>5. CASE c \in DevStatusAns
    <2>1. /\ c = [type |-> "DevStatusAns", battery |-> c.battery, margin |-> c.margin]
          /\ c.battery \in Byte /\ c.margin \in 0 .. 63
      BY <1>5 DEF DevStatusAns
    <2>2. WriteCommand(c) = WriteDevStatusAns(c) /\ CID(c) = 6
      BY <2>1, UplinkDispatch
    <2>3. c.type = "DevStatusAns" /\ SerializedSize(c.type) = 3 /\ \A r : ReadCommand(c.type, r) = ReadDevStatusAns(r)
      BY <2>1, UplinkClasses
    <2>4. Table(TRUE) = UplinkType /\ 5 \in DOMAIN UplinkType /\ UplinkType[5] = c.type
      BY <2>3, UplinkClasses DEF Table
    <2> DEFINE b == <<6, c.battery, c.margin>>
    <2>5. WriteCommand(c) = b
      BY <2>1, <2>2 DEF WriteDevStatusAns
    <2>6. /\ b \in Seq(Byte) /\ Len(b) = 3 /\ Len(b) \in 1 .. 6
          /\ b[1] = 6 /\ b[2] = c.battery /\ b[3] = c.margin
      BY <2>1 DEF Byte
    <2> HIDE DEF b
    <2>7. ReadDevStatusAns(b) = c
      BY <2>1, <2>6 DEF ReadDevStatusAns
    <2>8. b[1] - 1 = 5
      BY <2>6
    <2>9. ReadsAs(c, TRUE, b)
      BY <2>3, <2>4, <2>6, <2>7, <2>8 DEF ReadsAs
    <2> QED
      BY <2>5, <2>9 DEF Travels
  <1>6. CASE c \in NewChannelAns
    <2>1. /\ c = [type |-> "NewChannelAns", dataRateRangeOk |-> c.dataRateRangeOk,
                    channelFrequencyOk |-> c.channelFrequencyOk]
          /\ c.dataRateRangeOk \in BOOLEAN /\ c.channelFrequencyOk \in BOOLEAN
      BY <1>6 DEF NewChannelAns
    <2>2. WriteCommand(c) = WriteNewChannelAns(c) /\ CID(c) = 7
      BY <2>1, UplinkDispatch
    <2>3. c.type = "NewChannelAns" /\ SerializedSize(c.type) = 2 /\ \A r : ReadCommand(c.type, r) = ReadNewChannelAns(r)
      BY <2>1, UplinkClasses
    <2>4. Table(TRUE) = UplinkType /\ 6 \in DOMAIN UplinkType /\ UplinkType[6] = c.type
      BY <2>3, UplinkClasses DEF Table
    <2> DEFINE b == <<7, 2 * Bit(c.dataRateRangeOk) + Bit(c.channelFrequencyOk)>>
    <2>5. WriteCommand(c) = b
      BY <2>1, <2>2 DEF WriteNewChannelAns
    <2>6. /\ 2 * Bit(c.dataRateRangeOk) + Bit(c.channelFrequencyOk) \in Byte
          /\ Flag(2 * Bit(c.dataRateRangeOk) + Bit(c.channelFrequencyOk), 2) = c.dataRateRangeOk
          /\ Flag(2 * Bit(c.dataRateRangeOk) + Bit(c.channelFrequencyOk), 1) = c.channelFrequencyOk
      BY <2>1, BitsTravel
    <2>7. /\ b \in Seq(Byte) /\ Len(b) = 2 /\ Len(b) \in 1 .. 6
          /\ b[1] = 7 /\ b[2] = 2 * Bit(c.dataRateRangeOk) + Bit(c.channelFrequencyOk)
      BY <2>6, <2>1 DEF Byte
    <2> HIDE DEF b
    <2>8. ReadNewChannelAns(b) = c
      BY <2>1, <2>7, <2>6 DEF ReadNewChannelAns
    <2>9. b[1] - 1 = 6
      BY <2>7
    <2>10. ReadsAs(c, TRUE, b)
      BY <2>3, <2>4, <2>7, <2>8, <2>9 DEF ReadsAs
    <2> QED
      BY <2>5, <2>10 DEF Travels
  <1> QED
    BY <1>1, <1>2, <1>3, <1>4, <1>5, <1>6 DEF UplinkRead

LEMMA DownlinkTravels == \A c \in DownlinkRead : Travels(c, FALSE)
  <1> SUFFICES ASSUME NEW c \in DownlinkRead PROVE Travels(c, FALSE)
    OBVIOUS
  <1>1. CASE c \in LinkCheckAns
    <2>1. /\ c = [type |-> "LinkCheckAns", margin |-> c.margin, gwCnt |-> c.gwCnt]
          /\ c.margin \in Byte /\ c.gwCnt \in Byte
      BY <1>1 DEF LinkCheckAns
    <2>2. WriteCommand(c) = WriteLinkCheckAns(c) /\ CID(c) = 2
      BY <2>1, DownlinkDispatch
    <2>3. c.type = "LinkCheckAns" /\ SerializedSize(c.type) = 3 /\ \A r : ReadCommand(c.type, r) = ReadLinkCheckAns(r)
      BY <2>1, DownlinkClasses
    <2>4. Table(FALSE) = DownlinkType /\ 1 \in DOMAIN DownlinkType /\ DownlinkType[1] = c.type
      BY <2>3, DownlinkClasses DEF Table
    <2> DEFINE b == <<2, c.margin, c.gwCnt>>
    <2>5. WriteCommand(c) = b
      BY <2>1, <2>2 DEF WriteLinkCheckAns
    <2>6. /\ b \in Seq(Byte) /\ Len(b) = 3 /\ Len(b) \in 1 .. 6
          /\ b[1] = 2 /\ b[2] = c.margin /\ b[3] = c.gwCnt
      BY <2>1 DEF Byte
    <2> HIDE DEF b
    <2>7. ReadLinkCheckAns(b) = c
      BY <2>1, <2>6 DEF ReadLinkCheckAns
    <2>8. b[1] - 1 = 1
      BY <2>6
    <2>9. ReadsAs(c, FALSE, b)
      BY <2>3, <2>4, <2>6, <2>7, <2>8 DEF ReadsAs
    <2> QED
      BY <2>5, <2>9 DEF Travels
  <1>2. CASE c \in LinkAdrReq
    <2>1. /\ c = [type |-> "LinkAdrReq", dataRate |-> c.dataRate, txPower |-> c.txPower,
                    chMask |-> c.chMask, chMaskCntl |-> c.chMaskCntl, nbTrans |-> c.nbTrans]
          /\ c.dataRate \in Nibble /\ c.txPower \in Nibble /\ c.chMask \in 0 .. 2^16 - 1 /\ c.chMaskCntl \in 0 .. 7 /\ c.nbTrans \in Nibble
      BY <1>2 DEF LinkAdrReq
    <2>2. WriteCommand(c) = WriteLinkAdrReq(c) /\ CID(c) = 3
      BY <2>1, DownlinkDispatch
    <2>3. c.type = "LinkAdrReq" /\ SerializedSize(c.type) = 5 /\ \A r : ReadCommand(c.type, r) = ReadLinkAdrReq(r)
      BY <2>1, DownlinkClasses
    <2>4. Table(FALSE) = DownlinkType /\ 2 \in DOMAIN DownlinkType /\ DownlinkType[2] = c.type
      BY <2>3, DownlinkClasses DEF Table
    <2> DEFINE b == <<3, 16 * c.dataRate + c.txPower, c.chMask % 256, c.chMask \div 256, 16 * c.chMaskCntl + c.nbTrans>>
    <2>5. WriteCommand(c) = b
      BY <2>1, <2>2 DEF WriteLinkAdrReq
    <2>6. /\ 16 * c.dataRate + c.txPower \in Byte /\ (16 * c.dataRate + c.txPower) \div 16 = c.dataRate
          /\ (16 * c.dataRate + c.txPower) % 16 = c.txPower
      BY <2>1 DEF Nibble, Byte
    <2>7. /\ 16 * c.chMaskCntl + c.nbTrans \in Byte /\ (16 * c.chMaskCntl + c.nbTrans) \div 16 = c.chMaskCntl
          /\ (16 * c.chMaskCntl + c.nbTrans) % 16 = c.nbTrans
      BY <2>1 DEF Nibble, Byte
    <2>8. /\ c.chMask % 256 \in Byte /\ c.chMask \div 256 \in Byte
          /\ (c.chMask % 256) + 256 * (c.chMask \div 256) = c.chMask
      BY <2>1 DEF Byte
    <2>9. /\ b \in Seq(Byte) /\ Len(b) = 5 /\ Len(b) \in 1 .. 6
          /\ b[1] = 3 /\ b[2] = 16 * c.dataRate + c.txPower /\ b[3] = c.chMask % 256 /\ b[4] = c.chMask \div 256 /\ b[5] = 16 * c.chMaskCntl + c.nbTrans
      BY <2>6, <2>7, <2>8, <2>1 DEF Byte, Nibble
    <2> HIDE DEF b
    <2>10. ReadLinkAdrReq(b) = c
      BY <2>1, <2>9, <2>6, <2>7, <2>8 DEF ReadLinkAdrReq
    <2>11. b[1] - 1 = 2
      BY <2>9
    <2>12. ReadsAs(c, FALSE, b)
      BY <2>3, <2>4, <2>9, <2>10, <2>11 DEF ReadsAs
    <2> QED
      BY <2>5, <2>12 DEF Travels
  <1>3. CASE c \in DutyCycleReq
    <2>1. /\ c = [type |-> "DutyCycleReq", maxDutyCycle |-> c.maxDutyCycle]
          /\ c.maxDutyCycle \in Nibble
      BY <1>3 DEF DutyCycleReq
    <2>2. WriteCommand(c) = WriteDutyCycleReq(c) /\ CID(c) = 4
      BY <2>1, DownlinkDispatch
    <2>3. c.type = "DutyCycleReq" /\ SerializedSize(c.type) = 2 /\ \A r : ReadCommand(c.type, r) = ReadDutyCycleReq(r)
      BY <2>1, DownlinkClasses
    <2>4. Table(FALSE) = DownlinkType /\ 3 \in DOMAIN DownlinkType /\ DownlinkType[3] = c.type
      BY <2>3, DownlinkClasses DEF Table
    <2> DEFINE b == <<4, c.maxDutyCycle>>
    <2>5. WriteCommand(c) = b
      BY <2>1, <2>2 DEF WriteDutyCycleReq
    <2>6. /\ b \in Seq(Byte) /\ Len(b) = 2 /\ Len(b) \in 1 .. 6
          /\ b[1] = 4 /\ b[2] = c.maxDutyCycle
      BY <2>1 DEF Byte, Nibble
    <2> HIDE DEF b
    <2>7. ReadDutyCycleReq(b) = c
      BY <2>1, <2>6 DEF ReadDutyCycleReq
    <2>8. b[1] - 1 = 3
      BY <2>6
    <2>9. ReadsAs(c, FALSE, b)
      BY <2>3, <2>4, <2>6, <2>7, <2>8 DEF ReadsAs
    <2> QED
      BY <2>5, <2>9 DEF Travels
  <1>4. CASE c \in RxParamSetupReq
    <2>1. /\ c = [type |-> "RxParamSetupReq", rx1DrOffset |-> c.rx1DrOffset,
                    rx2DataRate |-> c.rx2DataRate, frequencyHz |-> c.frequencyHz]
          /\ c.rx1DrOffset \in 0 .. 7 /\ c.rx2DataRate \in Nibble /\ c.frequencyHz \in Frequency
      BY <1>4 DEF RxParamSetupReq
    <2>2. WriteCommand(c) = WriteRxParamSetupReq(c) /\ CID(c) = 5
      BY <2>1, DownlinkDispatch
    <2>3. c.type = "RxParamSetupReq" /\ SerializedSize(c.type) = 5 /\ \A r : ReadCommand(c.type, r) = ReadRxParamSetupReq(r)
      BY <2>1, DownlinkClasses
    <2>4. Table(FALSE) = DownlinkType /\ 4 \in DOMAIN DownlinkType /\ DownlinkType[4] = c.type
      BY <2>3, DownlinkClasses DEF Table
    <2>5. PICK x, y, z \in Byte : Freq24(c.frequencyHz) = <<x, y, z>> /\ Hz(x, y, z) = c.frequencyHz
      BY <2>1, FrequencyTravels
    <2>6. /\ 16 * c.rx1DrOffset + c.rx2DataRate \in Byte /\ (16 * c.rx1DrOffset + c.rx2DataRate) \div 16 = c.rx1DrOffset /\ ((16 * c.rx1DrOffset + c.rx2DataRate) \div 16) % 8 = c.rx1DrOffset
          /\ (16 * c.rx1DrOffset + c.rx2DataRate) % 16 = c.rx2DataRate
      BY <2>1 DEF Nibble, Byte
    <2> DEFINE s == <<5, 16 * c.rx1DrOffset + c.rx2DataRate>>
               t == <<x, y, z>>
    <2>7. /\ s \in Seq(Byte) /\ Len(s) = 2 /\ s[1] = 5 /\ s[2] = 16 * c.rx1DrOffset + c.rx2DataRate
          /\ t \in Seq(Byte) /\ Len(t) = 3 /\ t[1] = x /\ t[2] = y /\ t[3] = z
      BY <2>1, <2>6 DEF Byte
    <2>8. WriteCommand(c) = s \o t
      BY <2>2, <2>5 DEF WriteRxParamSetupReq
    <2> HIDE DEF s, t
    <2> DEFINE p == s \o t
    <2>9. p \in Seq(Byte) /\ Joins(s, t, p)
      BY <2>7, Join
    <2> HIDE DEF p
    <2>10. Len(p) = 5 /\ p[1] = 5 /\ p[2] = 16 * c.rx1DrOffset + c.rx2DataRate /\ p[3] = x /\ p[4] = y /\ p[5] = z
      BY <2>7, <2>9, TwoAndThree
    <2> DEFINE b == p
    <2>11. WriteCommand(c) = b
      BY <2>8 DEF p
    <2> HIDE DEF b
    <2>12. /\ b \in Seq(Byte) /\ Len(b) = 5 /\ Len(b) \in 1 .. 6
          /\ b[1] = 5 /\ b[2] = 16 * c.rx1DrOffset + c.rx2DataRate /\ b[3] = x /\ b[4] = y /\ b[5] = z
      BY <2>9, <2>10 DEF b
    <2>13. ReadRxParamSetupReq(b) = c
      BY <2>1, <2>5, <2>6, <2>12 DEF ReadRxParamSetupReq
    <2>14. b[1] - 1 = 4
      BY <2>12
    <2>15. ReadsAs(c, FALSE, b)
      BY <2>3, <2>4, <2>12, <2>13, <2>14 DEF ReadsAs
    <2> QED
      BY <2>11, <2>15 DEF Travels
  <1>5. CASE c \in DevStatusReq
    <2>1. /\ c = [type |-> "DevStatusReq"]
      BY <1>5 DEF DevStatusReq
    <2>2. WriteCommand(c) = WriteDevStatusReq(c) /\ CID(c) = 6
      BY <2>1, DownlinkDispatch
    <2>3. c.type = "DevStatusReq" /\ SerializedSize(c.type) = 1 /\ \A r : ReadCommand(c.type, r) = ReadDevStatusReq(r)
      BY <2>1, DownlinkClasses
    <2>4. Table(FALSE) = DownlinkType /\ 5 \in DOMAIN DownlinkType /\ DownlinkType[5] = c.type
      BY <2>3, DownlinkClasses DEF Table
    <2> DEFINE b == <<6>>
    <2>5. WriteCommand(c) = b
      BY <2>1, <2>2 DEF WriteDevStatusReq
    <2>6. /\ b \in Seq(Byte) /\ Len(b) = 1 /\ Len(b) \in 1 .. 6
          /\ b[1] = 6
      BY <2>1 DEF Byte
    <2> HIDE DEF b
    <2>7. ReadDevStatusReq(b) = c
      BY <2>1, <2>6 DEF ReadDevStatusReq
    <2>8. b[1] - 1 = 5
      BY <2>6
    <2>9. ReadsAs(c, FALSE, b)
      BY <2>3, <2>4, <2>6, <2>7, <2>8 DEF ReadsAs
    <2> QED
      BY <2>5, <2>9 DEF Travels
  <1>6. CASE c \in NewChannelReq
    <2>1. /\ c = [type |-> "NewChannelReq", chIndex |-> c.chIndex,
                    frequencyHz |-> c.frequencyHz, minDataRate |-> c.minDataRate, maxDataRate |-> c.maxDataRate]
          /\ c.chIndex \in Byte /\ c.frequencyHz \in Frequency /\ c.minDataRate \in Nibble /\ c.maxDataRate \in Nibble
      BY <1>6 DEF NewChannelReq
    <2>2. WriteCommand(c) = WriteNewChannelReq(c) /\ CID(c) = 7
      BY <2>1, DownlinkDispatch
    <2>3. c.type = "NewChannelReq" /\ SerializedSize(c.type) = 6 /\ \A r : ReadCommand(c.type, r) = ReadNewChannelReq(r)
      BY <2>1, DownlinkClasses
    <2>4. Table(FALSE) = DownlinkType /\ 6 \in DOMAIN DownlinkType /\ DownlinkType[6] = c.type
      BY <2>3, DownlinkClasses DEF Table
    <2>5. PICK x, y, z \in Byte : Freq24(c.frequencyHz) = <<x, y, z>> /\ Hz(x, y, z) = c.frequencyHz
      BY <2>1, FrequencyTravels
    <2>6. /\ 16 * c.maxDataRate + c.minDataRate \in Byte /\ (16 * c.maxDataRate + c.minDataRate) \div 16 = c.maxDataRate
          /\ (16 * c.maxDataRate + c.minDataRate) % 16 = c.minDataRate
      BY <2>1 DEF Nibble, Byte
    <2> DEFINE s == <<7, c.chIndex>>
               t == <<x, y, z>>
               w == <<16 * c.maxDataRate + c.minDataRate>>
    <2>7. /\ s \in Seq(Byte) /\ Len(s) = 2 /\ s[1] = 7 /\ s[2] = c.chIndex
          /\ t \in Seq(Byte) /\ Len(t) = 3 /\ t[1] = x /\ t[2] = y /\ t[3] = z
      BY <2>1, <2>6 DEF Byte
    <2>8. w \in Seq(Byte) /\ Len(w) = 1 /\ w[1] = 16 * c.maxDataRate + c.minDataRate
      BY <2>6
    <2>9. WriteCommand(c) = (s \o t) \o w
      BY <2>2, <2>5 DEF WriteNewChannelReq
    <2> HIDE DEF s, t, w
    <2> DEFINE p == s \o t
    <2>10. p \in Seq(Byte) /\ Joins(s, t, p)
      BY <2>7, Join
    <2> HIDE DEF p
    <2>11. Len(p) = 5 /\ p[1] = 7 /\ p[2] = c.chIndex /\ p[3] = x /\ p[4] = y /\ p[5] = z
      BY <2>7, <2>10, TwoAndThree
    <2> DEFINE b == p \o w
    <2>12. WriteCommand(c) = b
      BY <2>9 DEF p
    <2>13. b \in Seq(Byte) /\ Joins(p, w, b)
      BY <2>10, <2>8, Join
    <2> HIDE DEF b
    <2>14. /\ Len(b) = 6 /\ Len(b) \in 1 .. 6 /\ b[1] = 7 /\ b[2] = c.chIndex
          /\ b[3] = x /\ b[4] = y /\ b[5] = z /\ b[6] = 16 * c.maxDataRate + c.minDataRate
      BY <2>10, <2>11, <2>8, <2>13, FiveAndOne
    <2>15. ReadNewChannelReq(b) = c
      BY <2>1, <2>5, <2>6, <2>14, <2>13 DEF ReadNewChannelReq
    <2>16. b[1] - 1 = 6
      BY <2>14, <2>13
    <2>17. ReadsAs(c, FALSE, b)
      BY <2>3, <2>4, <2>14, <2>13, <2>15, <2>16 DEF ReadsAs
    <2> QED
      BY <2>12, <2>17 DEF Travels
  <1>7. CASE c \in RxTimingSetupReq
    <2>1. /\ c = [type |-> "RxTimingSetupReq", delay |-> c.delay]
          /\ c.delay \in Nibble
      BY <1>7 DEF RxTimingSetupReq
    <2>2. WriteCommand(c) = WriteRxTimingSetupReq(c) /\ CID(c) = 8
      BY <2>1, DownlinkDispatch
    <2>3. c.type = "RxTimingSetupReq" /\ SerializedSize(c.type) = 2 /\ \A r : ReadCommand(c.type, r) = ReadRxTimingSetupReq(r)
      BY <2>1, DownlinkClasses
    <2>4. Table(FALSE) = DownlinkType /\ 7 \in DOMAIN DownlinkType /\ DownlinkType[7] = c.type
      BY <2>3, DownlinkClasses DEF Table
    <2> DEFINE b == <<8, c.delay>>
    <2>5. WriteCommand(c) = b
      BY <2>1, <2>2 DEF WriteRxTimingSetupReq
    <2>6. /\ b \in Seq(Byte) /\ Len(b) = 2 /\ Len(b) \in 1 .. 6
          /\ b[1] = 8 /\ b[2] = c.delay
      BY <2>1 DEF Byte, Nibble
    <2> HIDE DEF b
    <2>7. ReadRxTimingSetupReq(b) = c
      <3>1. c.delay % 16 = c.delay
        BY <2>1 DEF Nibble
      <3> QED
        BY <2>1, <2>6, <3>1 DEF ReadRxTimingSetupReq
    <2>8. b[1] - 1 = 7
      BY <2>6
    <2>9. ReadsAs(c, FALSE, b)
      BY <2>3, <2>4, <2>6, <2>7, <2>8 DEF ReadsAs
    <2> QED
      BY <2>5, <2>9 DEF Travels
  <1> QED
    BY <1>1, <1>2, <1>3, <1>4, <1>5, <1>6, <1>7 DEF DownlinkRead

(* The answers that name another class are one byte as well.                  *)
LEMMA WrittenInBytes == \A c \in UplinkCommand \cup DownlinkRead : WriteCommand(c) \in Seq(Byte)
  <1> SUFFICES ASSUME NEW c \in UplinkCommand \cup DownlinkRead PROVE WriteCommand(c) \in Seq(Byte)
    OBVIOUS
  <1>1. CASE c \in UplinkRead
    BY <1>1, UplinkTravels DEF Travels, ReadsAs
  <1>2. CASE c \in DownlinkRead
    BY <1>2, DownlinkTravels DEF Travels, ReadsAs
  <1>3. CASE c \in RxTimingSetupAns \cup TxParamSetupAns \cup DlChannelAns
    <2>1. c.type \in {"RxTimingSetupAns", "TxParamSetupAns", "DlChannelAns"}
      BY <1>3 DEF RxTimingSetupAns, TxParamSetupAns, DlChannelAns
    <2>2. CID(c) = 6
      BY <2>1 DEF CID, CommandType, GetCIDFromMacCommand
    <2>3. WriteCommand(c) = <<6>>
      BY <2>1, <2>2 DEF WriteCommand, WriteRxTimingSetupAns, WriteTxParamSetupAns, WriteDlChannelAns
    <2> QED
      BY <2>3 DEF Byte
  <1> QED
    BY <1>1, <1>2, <1>3 DEF UplinkCommand, UplinkRead

LEMMA CommandsTravel ==
    ASSUME NEW uplink \in BOOLEAN, NEW c \in Commands(uplink)
    PROVE  ReadsAs(c, uplink, WriteCommand(c))
  BY UplinkTravels, DownlinkTravels DEF Commands, Travels

------------------------------------------------------------------------------
(* The bytes of a list of commands: FlattenSeq, piece by piece.               *)

LEMMA Inducts ==
    ASSUME NEW S \in SUBSET Nat, 0 \in S, \A n \in S : n + 1 \in S
    PROVE  S = Nat
  <1> DEFINE T == Nat \ S
  <1> SUFFICES ASSUME T # {} PROVE FALSE
    OBVIOUS
  <1>1. PICK n \in T : \A m \in T : ~(<<m, n>> \in OpToRel(<, Nat))
    <2> HIDE DEF T
    <2>1. T \subseteq Nat
      BY DEF T
    <2> QED
      BY <2>1, NatLessThanWellFounded, WFMin
  <1>2. n \in Nat /\ n # 0 /\ n - 1 \in Nat
    OBVIOUS
  <1>3. <<n - 1, n>> \in OpToRel(<, Nat)
    BY <1>2 DEF OpToRel
  <1>4. n - 1 \in S
    BY <1>1, <1>2, <1>3
  <1> QED
    BY <1>2, <1>4

(* f holds the concatenations of the first pieces of w.                       *)
Piled(w, f, i) == IF i = 1 THEN w[i] ELSE f[i - 1] \o w[i]
Piles(w, f) == f = [i \in 1 .. Len(w) |-> Piled(w, f, i)]

LEMMA PilesExist ==
    ASSUME NEW S, NEW w \in Seq(Seq(S))
    PROVE  \E f : Piles(w, f)
  <1> DEFINE P(n) == \E f : f = [i \in 1 .. n |-> Piled(w, f, i)]
             N == {n \in Nat : P(n)}
  <1>1. 0 \in N
    <2> DEFINE f == [i \in 1 .. 0 |-> {}]
    <2>1. f = [i \in 1 .. 0 |-> Piled(w, f, i)]
      OBVIOUS
    <2> QED
      BY <2>1
  <1>2. ASSUME NEW n \in N PROVE n + 1 \in N
    <2>1. n \in Nat /\ P(n)
      OBVIOUS
    <2>2. PICK f : f = [i \in 1 .. n |-> Piled(w, f, i)]
      BY <2>1
    <2> DEFINE g == [i \in 1 .. n + 1 |-> IF i \in 1 .. n THEN f[i] ELSE Piled(w, f, n + 1)]
    <2>3. \A i \in 1 .. n : g[i] = f[i]
      BY <2>1
    <2>4. \A i \in 1 .. n + 1 : g[i] = Piled(w, g, i)
      <3>1. ASSUME NEW i \in 1 .. n + 1 PROVE Piled(w, g, i) = Piled(w, f, i)
        <4>1. i # 1 => i - 1 \in 1 .. n
          BY <2>1
        <4> HIDE DEF g
        <4> QED
          BY <4>1, <2>3 DEF Piled
      <3>2. ASSUME NEW i \in 1 .. n PROVE f[i] = Piled(w, f, i)
        BY <2>2
      <3>3. \A i \in 1 .. n + 1 : i \in 1 .. n \/ i = n + 1
        BY <2>1
      <3>4. \A i \in 1 .. n + 1 : g[i] = Piled(w, f, i)
        BY <3>2, <3>3
      <3> HIDE DEF g
      <3> QED
        BY <3>1, <3>4
    <2>5. DOMAIN g = 1 .. n + 1 /\ g = [i \in 1 .. n + 1 |-> g[i]]
      OBVIOUS
    <2> HIDE DEF g
    <2>6. g = [i \in 1 .. n + 1 |-> Piled(w, g, i)]
      BY <2>4, <2>5
    <2> QED
      BY <2>1, <2>6
  <1>3. N = Nat
    <2>1. N \in SUBSET Nat
      OBVIOUS
    <2> HIDE DEF N
    <2> QED
      BY <1>1, <1>2, <2>1, Inducts
  <1>4. Len(w) \in N
    BY <1>3
  <1> QED
    BY <1>4 DEF Piles

LEMMA FlattenedBy ==
    ASSUME NEW S, NEW w \in Seq(Seq(S)), Len(w) # 0
    PROVE  \E f : Piles(w, f) /\ FlattenSeq(w) = f[Len(w)]
  <1> DEFINE f == CHOOSE f : f = [i \in 1 .. Len(w) |-> IF i = 1 THEN w[i] ELSE f[i - 1] \o w[i]]
  <1>1. \E g : g = [i \in 1 .. Len(w) |-> IF i = 1 THEN w[i] ELSE g[i - 1] \o w[i]]
    BY PilesExist DEF Piles, Piled
  <1>2. f = [i \in 1 .. Len(w) |-> IF i = 1 THEN w[i] ELSE f[i - 1] \o w[i]]
    BY <1>1
  <1>3. FlattenSeq(w) = f[Len(w)]
    BY DEF FlattenSeq
  <1> HIDE DEF f
  <1>4. Piles(w, f)
    BY <1>2 DEF Piles, Piled
  <1> QED
    BY <1>3, <1>4

LEMMA PilesIn ==
    ASSUME NEW S, NEW w \in Seq(Seq(S)), NEW f, Piles(w, f)
    PROVE  \A i \in 1 .. Len(w) : f[i] \in Seq(S)
  <1> DEFINE N == {n \in Nat : n + 1 \in 1 .. Len(w) => f[n + 1] \in Seq(S)}
  <1>1. \A i \in 1 .. Len(w) : f[i] = Piled(w, f, i)
    BY DEF Piles
  <1>2. 0 \in N
    BY <1>1 DEF Piled
  <1>3. ASSUME NEW n \in N PROVE n + 1 \in N
    <2> SUFFICES ASSUME n + 2 \in 1 .. Len(w) PROVE f[n + 2] \in Seq(S)
      OBVIOUS
    <2>1. n \in Nat /\ n + 1 \in 1 .. Len(w) /\ n + 2 # 1 /\ (n + 2) - 1 = n + 1
      OBVIOUS
    <2>2. f[n + 1] \in Seq(S) /\ w[n + 2] \in Seq(S)
      BY <2>1
    <2>3. f[n + 2] = f[n + 1] \o w[n + 2]
      BY <1>1, <2>1 DEF Piled
    <2> QED
      BY <2>2, <2>3
  <1>4. N = Nat
    <2>1. N \in SUBSET Nat
      OBVIOUS
    <2> HIDE DEF N
    <2> QED
      BY <1>2, <1>3, <2>1, Inducts
  <1>5. ASSUME NEW i \in 1 .. Len(w) PROVE f[i] \in Seq(S)
    <2>1. i - 1 \in Nat /\ (i - 1) + 1 = i
      OBVIOUS
    <2>2. i - 1 \in N
      BY <1>4, <2>1
    <2> QED
      BY <2>1, <2>2
  <1> QED
    BY <1>5

LEMMA PilesAgree ==
    ASSUME NEW w, NEW v, NEW f, NEW g, Piles(w, f), Piles(v, g),
           NEW k \in Nat, k <= Len(w), k <= Len(v), Len(w) \in Nat, Len(v) \in Nat,
           \A i \in 1 .. k : w[i] = v[i]
    PROVE  \A i \in 1 .. k : f[i] = g[i]
  <1> DEFINE N == {n \in Nat : n + 1 \in 1 .. k => f[n + 1] = g[n + 1]}
  <1>1. \A i \in 1 .. k : f[i] = Piled(w, f, i) /\ g[i] = Piled(v, g, i)
    <2>1. \A i \in 1 .. Len(w) : f[i] = Piled(w, f, i)
      BY DEF Piles
    <2>2. \A i \in 1 .. Len(v) : g[i] = Piled(v, g, i)
      BY DEF Piles
    <2> QED
      BY <2>1, <2>2
  <1>2. 0 \in N
    BY <1>1 DEF Piled
  <1>3. ASSUME NEW n \in N PROVE n + 1 \in N
    <2> SUFFICES ASSUME n + 2 \in 1 .. k PROVE f[n + 2] = g[n + 2]
      OBVIOUS
    <2>1. n \in Nat /\ n + 1 \in 1 .. k /\ n + 2 # 1 /\ (n + 2) - 1 = n + 1
      OBVIOUS
    <2>2. f[n + 1] = g[n + 1] /\ w[n + 2] = v[n + 2]
      BY <2>1
    <2>3. f[n + 2] = f[n + 1] \o w[n + 2] /\ g[n + 2] = g[n + 1] \o v[n + 2]
      BY <1>1, <2>1 DEF Piled
    <2> QED
      BY <2>2, <2>3
  <1>4. N = Nat
    <2>1. N \in SUBSET Nat
      OBVIOUS
    <2> HIDE DEF N
    <2> QED
      BY <1>2, <1>3, <2>1, Inducts
  <1>5. ASSUME NEW i \in 1 .. k PROVE f[i] = g[i]
    <2>1. i - 1 \in Nat /\ (i - 1) + 1 = i
      OBVIOUS
    <2>2. i - 1 \in N
      BY <1>4, <2>1
    <2> QED
      BY <2>1, <2>2
  <1> QED
    BY <1>5

LEMMA FlattenIn ==
    ASSUME NEW S, NEW w \in Seq(Seq(S))
    PROVE  FlattenSeq(w) \in Seq(S)
  <1>1. CASE Len(w) = 0
    <2>1. FlattenSeq(w) = <<>>
      BY <1>1 DEF FlattenSeq
    <2>2. <<>> \in Seq(S)
      OBVIOUS
    <2> QED
      BY <2>1, <2>2
  <1>2. CASE Len(w) # 0
    BY <1>2, FlattenedBy, PilesIn
  <1> QED
    BY <1>1, <1>2

LEMMA FlattenAppend ==
    ASSUME NEW S, NEW w \in Seq(Seq(S)), NEW x \in Seq(S)
    PROVE  FlattenSeq(Append(w, x)) = FlattenSeq(w) \o x
  <1> DEFINE v == Append(w, x)
  <1>1. v \in Seq(Seq(S)) /\ Len(v) = Len(w) + 1 /\ v[Len(w) + 1] = x /\ Len(w) \in Nat
    OBVIOUS
  <1>2. \A i \in 1 .. Len(w) : v[i] = w[i]
    OBVIOUS
  <1> HIDE DEF v
  <1>3. PICK g : Piles(v, g) /\ FlattenSeq(v) = g[Len(w) + 1]
    <2>1. Len(v) # 0
      BY <1>1
    <2>2. \E g : Piles(v, g) /\ FlattenSeq(v) = g[Len(v)]
      BY <1>1, <2>1, FlattenedBy
    <2> QED
      BY <1>1, <2>2
  <1>4. g[Len(w) + 1] = Piled(v, g, Len(w) + 1)
    <2>1. \A i \in 1 .. Len(v) : g[i] = Piled(v, g, i)
      BY <1>3 DEF Piles
    <2> QED
      BY <1>1, <2>1
  <1>5. CASE Len(w) = 0
    <2>1. FlattenSeq(w) = <<>>
      BY <1>5 DEF FlattenSeq
    <2>2. FlattenSeq(v) = x
      BY <1>1, <1>3, <1>4, <1>5 DEF Piled
    <2>3. <<>> \o x = x
      OBVIOUS
    <2> QED
      BY <2>1, <2>2, <2>3 DEF v
  <1>6. CASE Len(w) # 0
    <2>1. PICK f : Piles(w, f) /\ FlattenSeq(w) = f[Len(w)]
      BY <1>6, FlattenedBy
    <2>2. Len(w) \in Nat /\ Len(w) <= Len(v) /\ Len(v) \in Nat /\ Len(w) \in 1 .. Len(w)
      BY <1>1, <1>6
    <2>3. f[Len(w)] = g[Len(w)]
      <3> DEFINE k == Len(w)
      <3>1. k \in Nat /\ k <= Len(w) /\ k <= Len(v) /\ k \in 1 .. k
        BY <2>2
      <3>2. \A i \in 1 .. k : w[i] = v[i]
        BY <1>2
      <3> HIDE DEF k
      <3>3. \A i \in 1 .. k : f[i] = g[i]
        BY <3>1, <3>2, <2>1, <1>3, <2>2, PilesAgree
      <3> QED
        BY <3>1, <3>3 DEF k
    <2>4. g[Len(w) + 1] = g[Len(w)] \o x
      <3>1. Len(w) + 1 # 1 /\ (Len(w) + 1) - 1 = Len(w)
        BY <2>2
      <3> QED
        BY <1>1, <1>4, <3>1 DEF Piled
    <2> QED
      BY <1>3, <2>1, <2>3, <2>4 DEF v
  <1> QED
    BY <1>5, <1>6

(* FOptsBytes is the bytes of one command after those of the others.          *)
Written == {c \in UplinkCommand \cup DownlinkRead : WriteCommand(c) \in Seq(Byte)}

LEMMA BytesOfNone == FOptsBytes(<<>>) = <<>>
  <1>1. Len([i \in DOMAIN <<>> |-> WriteCommand(<<>>[i])]) = 0
    OBVIOUS
  <1>2. [i \in DOMAIN <<>> |-> WriteCommand(<<>>[i])] = <<>>
    OBVIOUS
  <1> QED
    BY <1>1, <1>2 DEF FOptsBytes, FlattenSeq

LEMMA BytesOfMore ==
    ASSUME NEW cs \in Seq(Written), NEW c \in Written
    PROVE  /\ FOptsBytes(cs) \in Seq(Byte)
           /\ FOptsBytes(Append(cs, c)) = FOptsBytes(cs) \o WriteCommand(c)
  <1> DEFINE w == [i \in DOMAIN cs |-> WriteCommand(cs[i])]
             v == [i \in DOMAIN Append(cs, c) |-> WriteCommand(Append(cs, c)[i])]
             x == WriteCommand(c)
  <1>1. w \in Seq(Seq(Byte)) /\ Len(w) = Len(cs)
    <2>1. \A i \in 1 .. Len(cs) : WriteCommand(cs[i]) \in Seq(Byte)
      BY DEF Written
    <2>2. w = [i \in 1 .. Len(cs) |-> WriteCommand(cs[i])] /\ Len(cs) \in Nat
      OBVIOUS
    <2> HIDE DEF w
    <2> QED
      BY <2>1, <2>2
  <1>2. x \in Seq(Byte)
    BY DEF Written
  <1>3. v = Append(w, x)
    <2>1. DOMAIN v = 1 .. Len(cs) + 1 /\ v[Len(cs) + 1] = x
      OBVIOUS
    <2>2. \A i \in 1 .. Len(cs) : v[i] = WriteCommand(cs[i]) /\ w[i] = WriteCommand(cs[i])
      OBVIOUS
    <2>3. v \in Seq(Seq(Byte)) /\ Len(v) = Len(cs) + 1
      <3>1. \A i \in 1 .. Len(cs) + 1 : v[i] \in Seq(Byte)
        BY <2>1, <2>2, <1>2 DEF Written
      <3>2. v = [i \in 1 .. Len(cs) + 1 |-> v[i]] /\ Len(cs) + 1 \in Nat
        BY <2>1
      <3> HIDE DEF v
      <3> QED
        BY <3>1, <3>2
    <2> DEFINE u == Append(w, x)
    <2>4. u \in Seq(Seq(Byte)) /\ Len(u) = Len(w) + 1 /\ u[Len(w) + 1] = x
      BY <1>1, <1>2
    <2>5. \A i \in 1 .. Len(w) : u[i] = w[i]
      BY <1>1, <1>2
    <2> HIDE DEF u, v, w, x
    <2>6. ASSUME NEW i \in 1 .. Len(v) PROVE v[i] = u[i]
      <3>1. Len(v) = Len(w) + 1 /\ Len(w) = Len(cs) /\ Len(cs) \in Nat
        BY <1>1, <2>3
      <3>2. CASE i \in 1 .. Len(w)
        BY <3>1, <3>2, <2>2, <2>5
      <3>3. CASE i = Len(w) + 1
        BY <3>1, <3>3, <2>1, <2>4
      <3> QED
        BY <3>1, <3>2, <3>3
    <2>7. v = u
      BY <1>1, <2>3, <2>4, <2>6, Same
    <2> QED
      BY <2>7 DEF u
  <1> HIDE DEF v, w, x
  <1>4. FlattenSeq(w) \in Seq(Byte) /\ FlattenSeq(v) = FlattenSeq(w) \o x
    BY <1>1, <1>2, <1>3, FlattenIn, FlattenAppend
  <1> QED
    BY <1>4 DEF FOptsBytes, v, w, x

(* pile[k] is the bytes of the first k commands.                              *)
Stacked(cs, pile) ==
    /\ pile \in [0 .. Len(cs) -> Seq(Byte)]
    /\ pile[0] = <<>>
    /\ \A k \in 1 .. Len(cs) : pile[k] = pile[k - 1] \o WriteCommand(cs[k])

LEMMA BytesAreStacked ==
    ASSUME NEW cs \in Seq(Written)
    PROVE  \E pile : Stacked(cs, pile) /\ pile[Len(cs)] = FOptsBytes(cs)
  <1> DEFINE pile == [k \in 0 .. Len(cs) |-> FOptsBytes(SubSeq(cs, 1, k))]
  <1>1. Len(cs) \in Nat /\ SubSeq(cs, 1, Len(cs)) = cs /\ SubSeq(cs, 1, 0) = <<>>
    OBVIOUS
  <1>0. /\ FOptsBytes(SubSeq(cs, 1, 0)) = <<>>
        /\ FOptsBytes(SubSeq(cs, 1, Len(cs))) = FOptsBytes(cs)
    BY <1>1, BytesOfNone, Zenon
  <1>2. ASSUME NEW k \in 1 .. Len(cs)
        PROVE  SubSeq(cs, 1, k) = Append(SubSeq(cs, 1, k - 1), cs[k])
    <2> DEFINE p == SubSeq(cs, 1, k)
               q == SubSeq(cs, 1, k - 1)
               r == Append(q, cs[k])
    <2>1. p \in Seq(Written) /\ Len(p) = k /\ \A i \in 1 .. k : p[i] = cs[i]
      OBVIOUS
    <2>2. q \in Seq(Written) /\ Len(q) = k - 1 /\ \A i \in 1 .. k - 1 : q[i] = cs[i]
      OBVIOUS
    <2>3. cs[k] \in Written
      OBVIOUS
    <2> HIDE DEF q
    <2>4. r \in Seq(Written) /\ Len(r) = Len(q) + 1 /\ r[Len(q) + 1] = cs[k]
      BY <2>2, <2>3
    <2>5. \A i \in 1 .. Len(q) : r[i] = q[i]
      BY <2>2, <2>3
    <2> HIDE DEF p, r
    <2>6. Len(p) = Len(r) /\ \A i \in 1 .. Len(p) : p[i] = r[i]
      <3>1. Len(r) = k
        BY <2>2, <2>4
      <3>2. ASSUME NEW i \in 1 .. k PROVE p[i] = r[i]
        <4>1. CASE i \in 1 .. k - 1
          BY <2>1, <2>2, <2>5, <4>1
        <4>2. CASE i = k
          BY <2>1, <2>2, <2>4, <4>2
        <4> QED
          BY <4>1, <4>2
      <3> QED
        BY <2>1, <3>1, <3>2
    <2>7. p = r
      BY <2>1, <2>4, <2>6, Same
    <2> QED
      BY <2>7 DEF p, q, r
  <1>3. ASSUME NEW k \in 0 .. Len(cs)
        PROVE  SubSeq(cs, 1, k) \in Seq(Written)
    OBVIOUS
  <1>4. ASSUME NEW k \in 0 .. Len(cs)
        PROVE  FOptsBytes(SubSeq(cs, 1, k)) \in Seq(Byte)
    <2>1. CASE k = 0
      <3>1. FOptsBytes(SubSeq(cs, 1, k)) = <<>>
        BY <1>0, <2>1
      <3>2. <<>> \in Seq(Byte)
        OBVIOUS
      <3> QED
        BY <3>1, <3>2
    <2>2. CASE k # 0
      <3> DEFINE q == SubSeq(cs, 1, k - 1)
      <3>1. k \in 1 .. Len(cs) /\ k - 1 \in 0 .. Len(cs) /\ cs[k] \in Written
        BY <2>2
      <3>2. q \in Seq(Written) /\ SubSeq(cs, 1, k) = Append(q, cs[k])
        BY <1>2, <1>3, <3>1
      <3> HIDE DEF q
      <3>3. \A c \in Written : FOptsBytes(q) \in Seq(Byte) /\ FOptsBytes(Append(q, c)) = FOptsBytes(q) \o WriteCommand(c)
        BY <3>2, BytesOfMore
      <3>4. WriteCommand(cs[k]) \in Seq(Byte)
        BY <3>1 DEF Written
      <3>5. /\ FOptsBytes(q) \in Seq(Byte)
            /\ FOptsBytes(SubSeq(cs, 1, k)) = FOptsBytes(q) \o WriteCommand(cs[k])
        BY <3>1, <3>2, <3>3, Zenon
      <3>6. \A s, t \in Seq(Byte) : s \o t \in Seq(Byte)
        OBVIOUS
      <3> QED
        BY <3>4, <3>5, <3>6, Zenon
    <2> QED
      BY <2>1, <2>2
  <1>5. pile \in [0 .. Len(cs) -> Seq(Byte)]
    BY <1>4
  <1>6. pile[0] = <<>> /\ pile[Len(cs)] = FOptsBytes(cs)
    BY <1>0, <1>1
  <1>7. ASSUME NEW k \in 1 .. Len(cs) PROVE pile[k] = pile[k - 1] \o WriteCommand(cs[k])
    <2> DEFINE q == SubSeq(cs, 1, k - 1)
    <2>1. k - 1 \in 0 .. Len(cs) /\ k \in 0 .. Len(cs) /\ cs[k] \in Written
      OBVIOUS
    <2>2. q \in Seq(Written) /\ SubSeq(cs, 1, k) = Append(q, cs[k])
      BY <1>2, <1>3, <2>1
    <2>3. pile[k - 1] = FOptsBytes(q) /\ pile[k] = FOptsBytes(SubSeq(cs, 1, k))
      BY <2>1
    <2> HIDE DEF q, pile
    <2>4. \A c \in Written : FOptsBytes(Append(q, c)) = FOptsBytes(q) \o WriteCommand(c)
      BY <2>2, BytesOfMore
    <2> QED
      BY <2>1, <2>2, <2>3, <2>4
  <1> HIDE DEF pile
  <1> QED
    BY <1>5, <1>6, <1>7 DEF Stacked

(* What lies under stays where it is.                                         *)
LEMMA StackedKeeps ==
    ASSUME NEW cs \in Seq(Written), NEW pile, Stacked(cs, pile),
           NEW k \in 0 .. Len(cs)
    PROVE  /\ Len(pile[k]) <= Len(pile[Len(cs)])
           /\ \A i \in 1 .. Len(pile[k]) : pile[Len(cs)][i] = pile[k][i]
  <1> DEFINE Keeps(m) == /\ Len(pile[k]) <= Len(pile[m])
                         /\ \A i \in 1 .. Len(pile[k]) : pile[m][i] = pile[k][i]
             N == {n \in Nat : k + n <= Len(cs) => Keeps(k + n)}
  <1>1. k \in Nat /\ k <= Len(cs) /\ Len(cs) \in Nat
    OBVIOUS
  <1>2. \A m \in 0 .. Len(cs) : pile[m] \in Seq(Byte) /\ Len(pile[m]) \in Nat
    BY DEF Stacked
  <1>3. 0 \in N
    BY <1>1, <1>2
  <1>4. ASSUME NEW n \in N PROVE n + 1 \in N
    <2> SUFFICES ASSUME k + (n + 1) <= Len(cs) PROVE Keeps(k + (n + 1))
      OBVIOUS
    <2> DEFINE m == k + n
    <2>1. m \in 0 .. Len(cs) /\ m + 1 \in 1 .. Len(cs) /\ k + (n + 1) = m + 1 /\ (m + 1) - 1 = m /\ m + 1 \in 0 .. Len(cs)
      BY <1>1
    <2>2. Keeps(m)
      BY <1>1, <2>1
    <2> HIDE DEF m
    <2>3. pile[m + 1] = pile[m] \o WriteCommand(cs[m + 1])
      BY <2>1 DEF Stacked
    <2>4. pile[m] \in Seq(Byte) /\ WriteCommand(cs[m + 1]) \in Seq(Byte) /\ pile[m + 1] \in Seq(Byte)
      BY <1>2, <2>1 DEF Written
    <2>5. Joins(pile[m], WriteCommand(cs[m + 1]), pile[m + 1])
      BY <2>3, <2>4, Join
    <2>6. Len(pile[m]) <= Len(pile[m + 1]) /\ \A i \in 1 .. Len(pile[m]) : pile[m + 1][i] = pile[m][i]
      <3>1. \A i \in 1 .. Len(pile[m]) : pile[m + 1][i] = pile[m][i]
        BY <2>5 DEF Joins
      <3>2. Len(pile[m]) \in Nat /\ Len(WriteCommand(cs[m + 1])) \in Nat
        BY <2>4
      <3>3. Len(pile[m + 1]) = Len(pile[m]) + Len(WriteCommand(cs[m + 1]))
        BY <2>5 DEF Joins
      <3>4. \A a, b, c : a \in Nat /\ b \in Nat /\ c = a + b => a <= c
        OBVIOUS
      <3>5. Len(pile[m]) <= Len(pile[m + 1])
        BY <3>2, <3>3, <3>4, Zenon
      <3> QED
        BY <3>1, <3>5, Zenon
    <2>7. Keeps(m + 1)
      BY <1>2, <2>1, <2>2, <2>4, <2>6
    <2> QED
      BY <2>1, <2>7
  <1>5. N = Nat
    <2>1. N \in SUBSET Nat
      OBVIOUS
    <2> HIDE DEF N
    <2> QED
      BY <1>3, <1>4, <2>1, Inducts
  <1>6. Len(cs) - k \in N
    <2> HIDE DEF N
    <2> QED
      BY <1>1, <1>5
  <1>7. k + (Len(cs) - k) = Len(cs)
    BY <1>1
  <1>8. Keeps(Len(cs))
    <2> HIDE DEF Keeps
    <2> QED
      BY <1>1, <1>6, <1>7
  <1> QED
    BY <1>8
------------------------------------------------------------------------------
(* The loop of Deserialize over the commands                                  *)

LEMMA Sizes == \A type : SerializedSize(type) \in 1 .. 6
  BY DEF SerializedSize

Ended(n, commands) == [commands |-> commands, end |-> n]
ReadOn(b, table, from, n) ==
    LET type == table[b[n + 1] - 1]
        next == n + SerializedSize(type)
    IN  IF next > Len(b) THEN Ended(n, <<Crash>>)
        ELSE [commands |-> <<ReadCommand(type, SubSeq(b, n + 1, next))>> \o from[next].commands,
              end |-> from[next].end]
ReadAt(b, len, table, from, n) ==
    IF n >= len THEN Ended(n, <<>>)
    ELSE IF n >= Len(b) \/ b[n + 1] - 1 \notin DOMAIN table THEN Ended(n, <<Crash>>)
    ELSE ReadOn(b, table, from, n)
Reads(b, len, table, from) == from = [n \in 0 .. len + 5 |-> ReadAt(b, len, table, from, n)]

LEMMA ReadsForward ==
    ASSUME NEW b, NEW len \in Nat, NEW table, NEW f, NEW g, NEW n \in 0 .. len + 5,
           \A m \in n + 1 .. len + 5 : f[m] = g[m]
    PROVE  ReadAt(b, len, table, f, n) = ReadAt(b, len, table, g, n)
  <1>1. CASE n >= len
    BY <1>1 DEF ReadAt
  <1>2. CASE ~(n >= len)
    <2> DEFINE type == table[b[n + 1] - 1]
               next == n + SerializedSize(type)
    <2>1. SerializedSize(type) \in 1 .. 6
      BY Sizes
    <2> HIDE DEF type
    <2>2. next \in n + 1 .. len + 5
      BY <1>2, <2>1
    <2> HIDE DEF next
    <2>3. f[next] = g[next]
      BY <2>2
    <2>4. ReadOn(b, table, f, n) = ReadOn(b, table, g, n)
      BY <2>3, Zenon DEF ReadOn, next, type
    <2> QED
      BY <2>4, Zenon DEF ReadAt
  <1> QED
    BY <1>1, <1>2

LEMMA ReadsExist ==
    ASSUME NEW b, NEW len \in Nat, NEW table
    PROVE  \E from : Reads(b, len, table, from)
  <1> DEFINE R(f, n) == ReadAt(b, len, table, f, n)
             Good(f, k) == \A n \in 0 .. len + 5 : n + k >= len => f[n] = R(f, n)
             N == {k \in Nat : \E f : Good(f, k)}
  <1> HIDE DEF R
  <1>1. 0 \in N
    <2> DEFINE f == [n \in 0 .. len + 5 |-> Ended(n, <<>>)]
    <2>1. ASSUME NEW n \in 0 .. len + 5, n + 0 >= len PROVE f[n] = R(f, n)
      <3>1. n >= len
        BY <2>1
      <3> QED
        BY <3>1 DEF R, ReadAt
    <2> HIDE DEF f
    <2>2. Good(f, 0)
      BY <2>1
    <2> QED
      BY <2>2
  <1>2. ASSUME NEW k \in N PROVE k + 1 \in N
    <2>1. k \in Nat
      OBVIOUS
    <2>2. PICK f : Good(f, k)
      OBVIOUS
    <2> DEFINE g == [n \in 0 .. len + 5 |-> IF n + k >= len THEN f[n] ELSE R(f, n)]
    <2>3. \A n \in 0 .. len + 5 : g[n] = R(f, n) /\ (n + k >= len => g[n] = f[n])
      BY <2>2
    <2> HIDE DEF g
    <2>4. ASSUME NEW n \in 0 .. len + 5, n + (k + 1) >= len PROVE g[n] = R(g, n)
      <3>1. \A m \in n + 1 .. len + 5 : m \in 0 .. len + 5 /\ m + k >= len
        BY <2>1, <2>4
      <3>2. \A m \in n + 1 .. len + 5 : f[m] = g[m]
        BY <2>3, <3>1
      <3>3. R(f, n) = R(g, n)
        BY <3>2, ReadsForward DEF R
      <3> QED
        BY <2>3, <3>3
    <2>5. Good(g, k + 1)
      BY <2>4
    <2> QED
      BY <2>1, <2>5
  <1>3. N = Nat
    <2>1. N \in SUBSET Nat
      OBVIOUS
    <2> HIDE DEF N
    <2> QED
      BY <1>1, <1>2, <2>1, Inducts
  <1>4. PICK f : Good(f, len)
    <2>1. len \in N
      <3> HIDE DEF N
      <3> QED
        BY <1>3
    <2> QED
      BY <2>1
  <1> DEFINE g == [n \in 0 .. len + 5 |-> f[n]]
  <1>5. \A n \in 0 .. len + 5 : f[n] = R(f, n)
    BY <1>4
  <1>6. \A n \in 0 .. len + 5 : g[n] = f[n]
    OBVIOUS
  <1>7. g = [n \in 0 .. len + 5 |-> g[n]]
    OBVIOUS
  <1> HIDE DEF g
  <1>8. ASSUME NEW n \in 0 .. len + 5 PROVE g[n] = R(g, n)
    <2>1. \A m \in n + 1 .. len + 5 : f[m] = g[m]
      BY <1>6
    <2>2. R(f, n) = R(g, n)
      BY <2>1, ReadsForward DEF R
    <2> QED
      BY <1>5, <1>6, <2>2
  <1>9. Reads(b, len, table, g)
    BY <1>7, <1>8 DEF Reads, R
  <1> QED
    BY <1>9

LEMMA ReadBy ==
    ASSUME NEW b, NEW len \in Nat, NEW uplink
    PROVE  \E from : Reads(b, len, Table(uplink), from) /\ ReadCommands(b, len, uplink) = from[0]
  <1> DEFINE from == CHOOSE f : Reads(b, len, Table(uplink), f)
  <1>1. Reads(b, len, Table(uplink), from)
    BY ReadsExist
  <1>2. ReadCommands(b, len, uplink) = from[0]
    BY DEF ReadCommands, Reads, ReadAt, ReadOn, Ended, Table
  <1> HIDE DEF from
  <1> QED
    BY <1>1, <1>2

LEMMA CommandsAreWritten == \A uplink \in BOOLEAN : Commands(uplink) \subseteq Written
  <1>1. UplinkRead \subseteq UplinkCommand
    BY DEF UplinkRead, UplinkCommand
  <1> QED
    BY <1>1, WrittenInBytes DEF Commands, Written

LEMMA FirstOfRest ==
    ASSUME NEW S, NEW cs \in Seq(S), NEW k \in 0 .. Len(cs), NEW m \in k + 1 .. Len(cs)
    PROVE  <<cs[k + 1]>> \o SubSeq(cs, k + 2, m) = SubSeq(cs, k + 1, m)
  <1> DEFINE s == <<cs[k + 1]>>
             t == SubSeq(cs, k + 2, m)
             r == SubSeq(cs, k + 1, m)
  <1>0. Len(cs) \in Nat /\ k \in Nat /\ m \in Nat /\ k + 1 <= m /\ m <= Len(cs)
    OBVIOUS
  <1>1. s \in Seq(S) /\ Len(s) = 1 /\ s[1] = cs[k + 1]
    OBVIOUS
  <1>2. t \in Seq(S) /\ Len(t) = m - k - 1
    BY <1>0
  <1>3. \A i \in 1 .. m - k - 1 : t[i] = cs[k + 1 + i]
    BY <1>0
  <1>4. r \in Seq(S) /\ Len(r) = m - k
    BY <1>0
  <1>5. \A i \in 1 .. m - k : r[i] = cs[k + i]
    BY <1>0
  <1> HIDE DEF s, t, r
  <1> DEFINE q == s \o t
  <1>6. q \in Seq(S) /\ Joins(s, t, q)
    BY <1>1, <1>2, Join
  <1> HIDE DEF q
  <1>7. Len(q) = m - k /\ q[1] = cs[k + 1] /\ \A i \in 1 .. m - k - 1 : q[1 + i] = t[i]
    BY <1>0, <1>1, <1>2, <1>6 DEF Joins
  <1>8. ASSUME NEW i \in 1 .. m - k PROVE q[i] = r[i]
    <2>1. CASE i = 1
      BY <1>0, <1>5, <1>7, <2>1
    <2>2. CASE i # 1
      <3>1. i - 1 \in 1 .. m - k - 1 /\ 1 + (i - 1) = i /\ k + 1 + (i - 1) = k + i
        BY <1>0, <2>2
      <3>2. q[i] = t[i - 1]
        BY <1>7, <3>1
      <3>3. t[i - 1] = cs[k + i]
        BY <1>3, <3>1
      <3> QED
        BY <1>5, <3>2, <3>3
    <2> QED
      BY <2>1, <2>2
  <1>9. q = r
    BY <1>4, <1>6, <1>7, <1>8, Same
  <1> QED
    BY <1>9 DEF q, s, t, r

(* The commands and the end that are read from the first byte of command k+1. *)
ReadFrom(cs, pile, len, from, k) ==
    \E m \in k .. Len(cs) :
        /\ from[Len(pile[k])] = Ended(Len(pile[m]), SubSeq(cs, k + 1, m))
        /\ Len(pile[m]) >= len

LEMMA ReadsCommand ==
    ASSUME NEW uplink \in BOOLEAN, NEW cs \in Seq(Commands(uplink)), NEW pile, Stacked(cs, pile),
           NEW b \in Seq(Byte), NEW len \in Nat, NEW from, Reads(b, len, Table(uplink), from),
           Len(pile[Len(cs)]) <= Len(b), \A i \in 1 .. Len(pile[Len(cs)]) : b[i] = pile[Len(cs)][i],
           NEW k \in 0 .. Len(cs), k < Len(cs), Len(pile[k]) < len,
           ReadFrom(cs, pile, len, from, k + 1)
    PROVE  ReadFrom(cs, pile, len, from, k)
  <1> DEFINE c == cs[k + 1]
             w == WriteCommand(c)
             p == Len(pile[k])
             next == Len(pile[k + 1])
             all == pile[Len(cs)]
  <1>1. k + 1 \in 1 .. Len(cs) /\ k + 1 \in 0 .. Len(cs) /\ (k + 1) - 1 = k /\ Len(cs) \in Nat /\ k \in Nat
    OBVIOUS
  <1>2. cs \in Seq(Written)
    BY CommandsAreWritten
  <1>3. c \in Commands(uplink)
    BY <1>1
  <1>4. ReadsAs(c, uplink, w)
    BY <1>3, CommandsTravel
  <1>5. pile[k] \in Seq(Byte) /\ pile[k + 1] \in Seq(Byte) /\ pile[k + 1] = pile[k] \o w
    BY <1>1 DEF Stacked
  <1>6. w \in Seq(Byte) /\ Len(w) \in 1 .. 6 /\ Len(w) = SerializedSize(c.type)
    BY <1>4 DEF ReadsAs
  <1>7. next <= Len(all) /\ \A i \in 1 .. next : all[i] = pile[k + 1][i]
    BY <1>1, <1>2, StackedKeeps
  <1>8. Joins(pile[k], w, pile[k + 1])
    BY <1>5, <1>6, Join
  <1>9. p \in Nat /\ next = p + Len(w)
    BY <1>5, <1>8 DEF Joins
  <1>10. \A i \in 1 .. Len(w) : pile[k + 1][p + i] = w[i]
    BY <1>8 DEF Joins
  <1>11. Len(all) <= Len(b) /\ Len(b) \in Nat /\ \A i \in 1 .. Len(all) : b[i] = all[i]
    OBVIOUS
  <1>12. Len(all) \in Nat
    <2>1. Len(cs) \in 0 .. Len(cs)
      BY <1>1
    <2>2. all \in Seq(Byte)
      BY <2>1 DEF Stacked
    <2> QED
      BY <2>2
  <1> HIDE DEF c, w, p, next, all
  <1>13. ASSUME NEW i \in 1 .. Len(w) PROVE b[p + i] = w[i]
    <2>1. p + i \in 1 .. next /\ p + i \in 1 .. Len(all)
      BY <1>6, <1>7, <1>9, <1>12
    <2> QED
      BY <1>7, <1>10, <1>11, <2>1
  <1>14. next <= Len(b) /\ p < Len(b) /\ next = p + SerializedSize(c.type) /\ next \in Nat
    BY <1>6, <1>7, <1>9, <1>11, <1>12
  <1>15. /\ b[p + 1] - 1 \in DOMAIN Table(uplink) /\ Table(uplink)[b[p + 1] - 1] = c.type
    <2>1. b[p + 1] = w[1]
      BY <1>6, <1>13
    <2> QED
      BY <1>4, <2>1 DEF ReadsAs
  <1>16. SubSeq(b, p + 1, next) = w
    <2> DEFINE q == SubSeq(b, p + 1, next)
    <2>1. q \in Seq(Byte) /\ Len(q) = next - p
      BY <1>9, <1>14
    <2>2. \A i \in 1 .. next - p : q[i] = b[p + i]
      BY <1>9, <1>14
    <2> HIDE DEF q
    <2>3. Len(q) = Len(w) /\ next - p = Len(w)
      BY <1>6, <1>9, <2>1
    <2>4. \A i \in 1 .. Len(q) : q[i] = w[i]
      BY <1>13, <2>2, <2>3
    <2>5. q = w
      BY <1>6, <2>1, <2>3, <2>4, Same
    <2> QED
      BY <2>5 DEF q
  <1>17. ReadCommand(c.type, w) = c
    BY <1>4 DEF ReadsAs
  <1>18. p \in 0 .. len + 5 /\ ~(p >= len)
    BY <1>9 DEF p
  <1>19. from[p] = ReadOn(b, Table(uplink), from, p)
    <2>1. from[p] = ReadAt(b, len, Table(uplink), from, p)
      BY <1>18 DEF Reads
    <2>2. ~(p >= Len(b))
      BY <1>9, <1>11, <1>14
    <2> QED
      BY <2>1, <2>2, <1>15, <1>18 DEF ReadAt
  <1>20. ~(next > Len(b))
    BY <1>11, <1>14
  <1>21. from[p] = [commands |-> <<c>> \o from[next].commands, end |-> from[next].end]
    <2> DEFINE type == Table(uplink)[b[p + 1] - 1]
    <2>1. type = c.type /\ p + SerializedSize(type) = next
      BY <1>14, <1>15
    <2> HIDE DEF type
    <2>2. ReadOn(b, Table(uplink), from, p) =
            IF next > Len(b) THEN Ended(p, <<Crash>>)
            ELSE [commands |-> <<ReadCommand(type, SubSeq(b, p + 1, next))>> \o from[next].commands,
                  end |-> from[next].end]
      BY <2>1, Zenon DEF ReadOn, type
    <2> QED
      BY <1>16, <1>17, <1>19, <1>20, <2>1, <2>2
  <1>22. PICK m \in k + 1 .. Len(cs) :
            /\ from[next] = Ended(Len(pile[m]), SubSeq(cs, k + 2, m))
            /\ Len(pile[m]) >= len
    <2>1. (k + 1) + 1 = k + 2
      BY <1>1
    <2> QED
      BY <2>1 DEF ReadFrom, next
  <1>23. from[next].commands = SubSeq(cs, k + 2, m) /\ from[next].end = Len(pile[m])
    BY <1>22 DEF Ended
  <1>24. <<c>> \o SubSeq(cs, k + 2, m) = SubSeq(cs, k + 1, m)
    BY <1>1, FirstOfRest DEF c
  <1>25. from[p] = Ended(Len(pile[m]), SubSeq(cs, k + 1, m))
    BY <1>21, <1>23, <1>24 DEF Ended
  <1>26. m \in k .. Len(cs)
    BY <1>1
  <1> QED
    BY <1>22, <1>25, <1>26 DEF ReadFrom, p

(* A prefix of the commands is read, up to the first one that ends at len or  *)
(* beyond.                                                                    *)
LEMMA ReadsBack ==
    ASSUME NEW uplink \in BOOLEAN, NEW cs \in Seq(Commands(uplink)),
           NEW b \in Seq(Byte), NEW len \in Nat, len <= Len(FOptsBytes(cs)),
           Len(FOptsBytes(cs)) <= Len(b),
           \A i \in 1 .. Len(FOptsBytes(cs)) : b[i] = FOptsBytes(cs)[i]
    PROVE  \E m \in 0 .. Len(cs) :
              /\ ReadCommands(b, len, uplink).commands = SubSeq(cs, 1, m)
              /\ ReadCommands(b, len, uplink).end \in Nat
              /\ len <= ReadCommands(b, len, uplink).end
              /\ ReadCommands(b, len, uplink).end <= Len(FOptsBytes(cs))
              /\ ReadCommands(b, len, uplink).end = Len(FOptsBytes(cs)) => m = Len(cs)
  <1>1. cs \in Seq(Written)
    BY CommandsAreWritten
  <1>2. PICK pile : Stacked(cs, pile) /\ pile[Len(cs)] = FOptsBytes(cs)
    BY <1>1, BytesAreStacked
  <1>3. PICK from : Reads(b, len, Table(uplink), from) /\ ReadCommands(b, len, uplink) = from[0]
    BY ReadBy
  <1>4. Len(cs) \in Nat
    OBVIOUS
  <1>5. \A k \in 0 .. Len(cs) : Len(pile[k]) \in Nat
    BY DEF Stacked
  <1>6. ASSUME NEW k \in 0 .. Len(cs), Len(pile[k]) >= len, Len(pile[k]) <= len + 5
        PROVE  ReadFrom(cs, pile, len, from, k)
    <2>1. Len(pile[k]) \in 0 .. len + 5
      BY <1>5, <1>6
    <2>2. from[Len(pile[k])] = Ended(Len(pile[k]), <<>>)
      BY <1>3, <1>6, <2>1 DEF Reads, ReadAt
    <2>3. SubSeq(cs, k + 1, k) = <<>> /\ k \in k .. Len(cs)
      OBVIOUS
    <2> QED
      BY <1>6, <2>2, <2>3 DEF ReadFrom
  <1> DEFINE N == {n \in Nat : n <= Len(cs) /\ Len(pile[Len(cs) - n]) <= len + 5
                                 => ReadFrom(cs, pile, len, from, Len(cs) - n)}
  <1>7. 0 \in N
    <2>1. Len(cs) \in 0 .. Len(cs) /\ Len(cs) - 0 = Len(cs)
      BY <1>4
    <2>2. Len(pile[Len(cs)]) >= len
      BY <1>2, <1>5, <2>1
    <2>3. Len(pile[Len(cs)]) <= len + 5 => ReadFrom(cs, pile, len, from, Len(cs))
      BY <1>6, <2>1, <2>2
    <2> QED
      BY <2>1, <2>3
  <1>8. ASSUME NEW n \in N PROVE n + 1 \in N
    <2> DEFINE k == Len(cs) - (n + 1)
    <2> SUFFICES ASSUME n + 1 <= Len(cs), Len(pile[k]) <= len + 5
                 PROVE  ReadFrom(cs, pile, len, from, k)
      OBVIOUS
    <2>1. n \in Nat /\ k \in 0 .. Len(cs) /\ k < Len(cs) /\ k + 1 \in 1 .. Len(cs) /\ k + 1 = Len(cs) - n
          /\ (k + 1) - 1 = k /\ k + 1 \in 0 .. Len(cs) /\ k \in Nat
      BY <1>4
    <2>2. Len(pile[k + 1]) <= len + 5 => ReadFrom(cs, pile, len, from, k + 1)
      BY <2>1
    <2> HIDE DEF k
    <2>3. CASE Len(pile[k]) >= len
      BY <1>6, <2>1, <2>3
    <2>4. CASE Len(pile[k]) < len
      <3>1. pile[k + 1] = pile[k] \o WriteCommand(cs[k + 1]) /\ pile[k] \in Seq(Byte)
        BY <1>2, <2>1 DEF Stacked
      <3>2. cs[k + 1] \in Commands(uplink)
        BY <2>1
      <3>3. WriteCommand(cs[k + 1]) \in Seq(Byte) /\ Len(WriteCommand(cs[k + 1])) \in 1 .. 6
        BY <3>2, CommandsTravel DEF ReadsAs
      <3>4. Len(pile[k + 1]) = Len(pile[k]) + Len(WriteCommand(cs[k + 1]))
        <4>1. Joins(pile[k], WriteCommand(cs[k + 1]), pile[k + 1])
          BY <3>1, <3>3, Join
        <4> QED
          BY <4>1 DEF Joins
      <3>5. Len(pile[k + 1]) <= len + 5
        <4>1. \A p \in Nat, size \in 1 .. 6 : p < len => p + size <= len + 5
          OBVIOUS
        <4>2. Len(pile[k]) \in Nat
          BY <1>5, <2>1
        <4> QED
          BY <2>4, <3>3, <3>4, <4>1, <4>2, Zenon
      <3> QED
        BY <1>2, <1>3, <2>1, <2>2, <2>4, <3>5, ReadsCommand
    <2> QED
      BY <1>5, <2>1, <2>3, <2>4
  <1>9. N = Nat
    <2>1. N \in SUBSET Nat
      OBVIOUS
    <2> HIDE DEF N
    <2> QED
      BY <1>7, <1>8, <2>1, Inducts
  <1>10. ReadFrom(cs, pile, len, from, 0)
    <2>1. Len(cs) \in N
      <3> HIDE DEF N
      <3> QED
        BY <1>4, <1>9
    <2>2. Len(cs) - Len(cs) = 0 /\ Len(cs) <= Len(cs)
      BY <1>4
    <2>3. Len(pile[0]) <= len + 5
      <3>1. pile[0] = <<>>
        BY <1>2 DEF Stacked
      <3>2. Len(<<>>) = 0
        OBVIOUS
      <3> QED
        BY <3>1, <3>2
    <2>4. Len(cs) <= Len(cs) /\ Len(pile[Len(cs) - Len(cs)]) <= len + 5
            => ReadFrom(cs, pile, len, from, Len(cs) - Len(cs))
      BY <2>1
    <2> QED
      BY <2>2, <2>3, <2>4
  <1>11. Len(pile[0]) = 0 /\ 0 + 1 = 1
    BY <1>2 DEF Stacked
  <1>12. PICK m \in 0 .. Len(cs) :
           /\ from[0] = Ended(Len(pile[m]), SubSeq(cs, 1, m))
           /\ Len(pile[m]) >= len
    BY <1>10, <1>11 DEF ReadFrom
  <1>13. from[0].commands = SubSeq(cs, 1, m) /\ from[0].end = Len(pile[m])
    BY <1>12 DEF Ended
  <1>14. Len(pile[m]) <= Len(pile[Len(cs)])
    BY <1>1, <1>2, StackedKeeps
  <1>15. ASSUME m # Len(cs) PROVE Len(pile[m]) # Len(pile[Len(cs)])
    <2>1. m + 1 \in 1 .. Len(cs) /\ (m + 1) - 1 = m /\ m + 1 \in 0 .. Len(cs)
      BY <1>4, <1>15
    <2>2. pile[m + 1] = pile[m] \o WriteCommand(cs[m + 1]) /\ pile[m] \in Seq(Byte)
      BY <1>2, <2>1 DEF Stacked
    <2>3. cs[m + 1] \in Commands(uplink)
      BY <2>1
    <2>4. WriteCommand(cs[m + 1]) \in Seq(Byte) /\ Len(WriteCommand(cs[m + 1])) \in 1 .. 6
      BY <2>3, CommandsTravel DEF ReadsAs
    <2>5. Len(pile[m + 1]) = Len(pile[m]) + Len(WriteCommand(cs[m + 1]))
      <3>1. Joins(pile[m], WriteCommand(cs[m + 1]), pile[m + 1])
        BY <2>2, <2>4, Join
      <3> QED
        BY <3>1 DEF Joins
    <2>6. Len(pile[m + 1]) <= Len(pile[Len(cs)])
      BY <1>1, <1>2, <2>1, StackedKeeps
    <2>7. Len(pile[Len(cs)]) \in Nat
      BY <1>4, <1>5
    <2>8. \A p \in Nat, size \in 1 .. 6, all \in Nat : p + size <= all => p # all
      OBVIOUS
    <2>9. Len(pile[m]) \in Nat
      BY <1>5
    <2>10. Len(pile[m]) + Len(WriteCommand(cs[m + 1])) <= Len(pile[Len(cs)])
      BY <2>5, <2>6
    <2> QED
      BY <2>4, <2>7, <2>8, <2>9, <2>10, Zenon
  <1> QED
    BY <1>2, <1>3, <1>5, <1>12, <1>13, <1>14, <1>15
------------------------------------------------------------------------------
(* Addresses                                                                  *)

LEMMA Powers == IdRange = 128 /\ AddrRange = 33554432 /\ 2^24 = 16777216 /\ 2^16 = 65536
  BY SMT DEF IdRange, AddrRange

LEMMA AddressFields ==
    ASSUME NEW a \in Address
    PROVE  /\ a.nwkId \in 0 .. IdRange - 1 /\ a.nwkAddr \in 0 .. AddrRange - 1
           /\ a = [nwkId |-> a.nwkId, nwkAddr |-> a.nwkAddr]
  BY SMT DEF Address

Fits(id, n) == id \in Nat /\ n \in Nat /\ id < 128 /\ n < 33554432
Word(id, n, p, q, r, s) ==
    /\ p = 2 * id + n \div 16777216 /\ q = (n \div 65536) % 256
    /\ r = (n \div 256) % 256 /\ s = n % 256
    /\ p \div 2 = id
    /\ (p % 2) * 16777216 + q * 65536 + r * 256 + s = n

LEMMA WordTravels ==
    ASSUME NEW id, NEW n, Fits(id, n)
    PROVE  \E p, q, r, s \in Byte : Word(id, n, p, q, r, s)
  <1> USE DEF Fits
  <1> DEFINE p == 2 * id + n \div 16777216
             q == (n \div 65536) % 256
             r == (n \div 256) % 256
             s == n % 256
  <1>1. n \div 16777216 \in 0 .. 1
    BY SMT
  <1>2. p \in Byte /\ p \div 2 = id /\ p % 2 = n \div 16777216
    BY <1>1, SMT DEF Byte
  <1>3. q \in Byte /\ r \in Byte /\ s \in Byte
    BY SMT DEF Byte
  <1>4. (n \div 16777216) * 16777216 + q * 65536 + r * 256 + s = n
    BY SMT
  <1>5. Word(id, n, p, q, r, s)
    BY <1>2, <1>4, SMT DEF Word
  <1> HIDE DEF p, q, r, s
  <1> QED
    BY <1>2, <1>3, <1>5

LEMMA AddressBytesOf ==
    ASSUME NEW a \in Address
    PROVE  /\ AddressBytes(a) \in Seq(Byte) /\ Len(AddressBytes(a)) = 4
           /\ \A b \in Seq(Byte) : Len(b) = 4 /\ (\A i \in 1 .. 4 : b[i] = AddressBytes(a)[i])
                => AddressFromBytes(b) = a
  <1> DEFINE id == a.nwkId
             n == a.nwkAddr
  <1>1. Fits(id, n)
    <2>1. id \in 0 .. IdRange - 1 /\ n \in 0 .. AddrRange - 1
      BY AddressFields
    <2> HIDE DEF id, n
    <2>2. IdRange \in Nat /\ AddrRange \in Nat
      BY Powers, SMT
    <2>3. id \in Nat /\ n \in Nat /\ id < IdRange /\ n < AddrRange
      BY <2>1, <2>2
    <2> QED
      BY <2>3, Powers, SMT DEF Fits
  <1>2. AddressBytes(a) = <<2 * id + n \div 2^24, (n \div 2^16) % 256, (n \div 256) % 256, n % 256>>
    BY DEF AddressBytes
  <1>3. a = [nwkId |-> id, nwkAddr |-> n]
    BY AddressFields
  <1> HIDE DEF id, n
  <1>4. PICK p, q, r, s \in Byte : Word(id, n, p, q, r, s)
    BY <1>1, WordTravels
  <1>5. /\ p = 2 * id + n \div 2^24 /\ q = (n \div 2^16) % 256
        /\ (p % 2) * 2^24 + q * 2^16 + r * 256 + s = n
        /\ r = (n \div 256) % 256 /\ s = n % 256 /\ p \div 2 = id
    BY <1>4, Powers, SMT DEF Word
  <1>6. AddressBytes(a) = <<p, q, r, s>>
    BY <1>2, <1>5
  <1>7. p \div 2 = id /\ AddressOf(id, n) = a
    <2>1. id % 128 = id /\ n % 33554432 = n
      BY <1>1, SMT DEF Fits
    <2> QED
      BY <1>3, <1>5, <2>1, Powers, SMT DEF AddressOf, NwkID, NwkAddr
  <1>8. ASSUME NEW b \in Seq(Byte), Len(b) = 4, \A i \in 1 .. 4 : b[i] = AddressBytes(a)[i]
        PROVE  AddressFromBytes(b) = a
    <2>1. b[1] = p /\ b[2] = q /\ b[3] = r /\ b[4] = s
      BY <1>6, <1>8
    <2> QED
      BY <1>5, <1>7, <2>1 DEF AddressFromBytes
  <1> QED
    BY <1>6, <1>8

LEMMA Reversed ==
    ASSUME NEW S, NEW s \in Seq(S)
    PROVE  /\ Reverse(s) \in Seq(S) /\ Len(Reverse(s)) = Len(s)
           /\ \A i \in 1 .. Len(s) : Reverse(s)[i] = s[Len(s) - i + 1]
  <1>1. Reverse(s) = [i \in 1 .. Len(s) |-> s[(Len(s) - i) + 1]]
    BY DEF Reverse
  <1>2. \A i \in 1 .. Len(s) : (Len(s) - i) + 1 \in 1 .. Len(s)
    OBVIOUS
  <1>3. \A i \in 1 .. Len(s) : s[(Len(s) - i) + 1] \in S
    BY <1>2
  <1> HIDE DEF Reverse
  <1> QED
    BY <1>1, <1>3

LEMMA FourReversed ==
    ASSUME NEW s \in Seq(Byte), Len(s) = 4
    PROVE  /\ Reverse(s) \in Seq(Byte) /\ Len(Reverse(s)) = 4
           /\ \A i \in 1 .. 4 : Reverse(s)[i] = s[5 - i]
  <1> DEFINE n == Len(s)
  <1>1. n = 4
    OBVIOUS
  <1>2. Reverse(s) \in Seq(Byte) /\ Len(Reverse(s)) = n
    BY Reversed
  <1>3. \A i \in 1 .. n : Reverse(s)[i] = s[n - i + 1]
    BY Reversed
  <1> HIDE DEF n
  <1>4. \A i \in 1 .. 4 : i \in 1 .. n /\ n - i + 1 = 5 - i
    BY <1>1
  <1> QED
    BY <1>1, <1>2, <1>3, <1>4

(* An address comes out of the first four bytes of a frame header.            *)
LEMMA AddressTravels ==
    ASSUME NEW a \in Address, NEW r \in Seq(Byte), Len(r) = 4,
           \A i \in 1 .. 4 : r[i] = Reverse(AddressBytes(a))[i]
    PROVE  AddressFromBytes(Reverse(r)) = a
  <1> DEFINE s == AddressBytes(a)
             b == Reverse(r)
  <1>1. s \in Seq(Byte) /\ Len(s) = 4
    BY AddressBytesOf
  <1> HIDE DEF s
  <1>2. \A i \in 1 .. 4 : r[i] = s[5 - i]
    BY <1>1, FourReversed DEF s
  <1>3. b \in Seq(Byte) /\ Len(b) = 4 /\ \A i \in 1 .. 4 : b[i] = r[5 - i]
    BY FourReversed
  <1> HIDE DEF b
  <1>4. \A i \in 1 .. 4 : b[i] = s[i]
    <2>1. \A i \in 1 .. 4 : 5 - i \in 1 .. 4 /\ 5 - (5 - i) = i
      OBVIOUS
    <2> QED
      BY <1>2, <1>3, <2>1
  <1>5. AddressFromBytes(b) = a
    BY <1>3, <1>4, AddressBytesOf DEF s
  <1> QED
    BY <1>5 DEF b
------------------------------------------------------------------------------
(* The other fields of the two headers                                        *)

LEMMA OctetOfBits ==
    ASSUME NEW a \in 0 .. 1, NEW b \in 0 .. 1, NEW c \in 0 .. 1, NEW d \in 0 .. 1, NEW m \in 0 .. 15
    PROVE  LET x == 128 * a + 64 * b + 32 * c + 16 * d + m
           IN  /\ x \in 0 .. 255 /\ x % 16 = m
               /\ (x \div 128) % 2 = a /\ (x \div 64) % 2 = b
               /\ (x \div 32) % 2 = c /\ (x \div 16) % 2 = d
  BY SMT

(* The flags and the length in the first byte behind the address.             *)
LEMMA FCtrlTravels ==
    ASSUME NEW h, h.adr \in BOOLEAN, h.adrAckReq \in BOOLEAN, h.ack \in BOOLEAN,
           h.fPending \in BOOLEAN, h.fOptsLen \in Nat
    PROVE  /\ FCtrl(h) \in Byte /\ FCtrl(h) % 16 = h.fOptsLen % 16
           /\ Flag(FCtrl(h), 128) = h.adr /\ Flag(FCtrl(h), 64) = h.adrAckReq
           /\ Flag(FCtrl(h), 32) = h.ack /\ Flag(FCtrl(h), 16) = h.fPending
  <1> DEFINE m == h.fOptsLen % 16
             x == FCtrl(h)
             a == Bit(h.adr)
             b == Bit(h.adrAckReq)
             c == Bit(h.ack)
             d == Bit(h.fPending)
  <1>1. m \in 0 .. 15
    OBVIOUS
  <1>2. x = 128 * a + 64 * b + 32 * c + 16 * d + m
    BY DEF FCtrl
  <1>3. /\ a \in 0 .. 1 /\ (a = 1) = h.adr /\ b \in 0 .. 1 /\ (b = 1) = h.adrAckReq
        /\ c \in 0 .. 1 /\ (c = 1) = h.ack /\ d \in 0 .. 1 /\ (d = 1) = h.fPending
    BY DEF Bit
  <1> HIDE DEF m, x, a, b, c, d
  <1>4. /\ x \in 0 .. 255 /\ x % 16 = m
        /\ (x \div 128) % 2 = a /\ (x \div 64) % 2 = b
        /\ (x \div 32) % 2 = c /\ (x \div 16) % 2 = d
    BY <1>1, <1>2, <1>3, OctetOfBits
  <1>5. /\ x \in Byte /\ x % 16 = m
        /\ Flag(x, 128) = h.adr /\ Flag(x, 64) = h.adrAckReq
        /\ Flag(x, 32) = h.ack /\ Flag(x, 16) = h.fPending
    BY <1>3, <1>4 DEF Flag, Byte
  <1> QED
    BY <1>5 DEF m, x

LEMMA CountTravels ==
    ASSUME NEW n \in Nat, n < 65536
    PROVE  n % 256 \in Byte /\ n \div 256 \in Byte /\ (n % 256) + 256 * (n \div 256) = n
  BY SMT DEF Byte

LEMMA MacHeaderTravels ==
    ASSUME NEW m \in MacHeader
    PROVE  /\ WriteMacHeader(m) \in Seq(Byte) /\ Len(WriteMacHeader(m)) = 1
           /\ \A b : b[1] = WriteMacHeader(m)[1] => ReadMacHeader(b) = m
  <1> DEFINE t == m.mtype
             j == m.major
  <1>1. t \in 0 .. 7 /\ j \in 0 .. 3 /\ m = [mtype |-> t, major |-> j]
    BY DEF MacHeader, JOIN_REQUEST, JOIN_ACCEPT, UNCONFIRMED_DATA_UP, UNCONFIRMED_DATA_DOWN,
           CONFIRMED_DATA_UP, CONFIRMED_DATA_DOWN, PROPRIETARY
  <1>2. WriteMacHeader(m) = <<32 * t + j>>
    BY DEF WriteMacHeader
  <1> HIDE DEF t, j
  <1>3. 32 * t + j \in Byte /\ (32 * t + j) \div 32 = t /\ (32 * t + j) % 4 = j
    BY <1>1, SMT DEF Byte
  <1> DEFINE x == 32 * t + j
  <1> HIDE DEF x
  <1>4. <<x>> \in Seq(Byte) /\ Len(<<x>>) = 1 /\ <<x>>[1] = x
    BY <1>3 DEF x
  <1>5. WriteMacHeader(m) = <<x>> /\ x \div 32 = t /\ x % 4 = j
    BY <1>2, <1>3 DEF x
  <1>6. ASSUME NEW b, b[1] = x PROVE ReadMacHeader(b) = m
    BY <1>1, <1>5, <1>6 DEF ReadMacHeader
  <1> QED
    BY <1>4, <1>5, <1>6
------------------------------------------------------------------------------
(* The packet                                                                 *)

(* Where the parts of a frame header and the payload lie: the address, the    *)
(* three bytes behind it, the commands, the port.                             *)
LaidOut(rest, R, C, O, p, P) ==
    /\ rest \in Seq(Byte) /\ Len(rest) = 8 + Len(O) + Len(P)
    /\ \A i \in 1 .. 4 : rest[i] = R[i]
    /\ \A i \in 1 .. 3 : rest[4 + i] = C[i]
    /\ \A i \in 1 .. Len(O) : rest[7 + i] = O[i]
    /\ rest[8 + Len(O)] = p
    /\ \A i \in 1 .. Len(P) : rest[8 + Len(O) + i] = P[i]

LEMMA HeaderLaidOut ==
    ASSUME NEW R \in Seq(Byte), Len(R) = 4, NEW C \in Seq(Byte), Len(C) = 3,
           NEW O \in Seq(Byte), NEW p \in Byte
    PROVE  /\ LaidOut(R \o C \o O \o <<p>>, R, C, O, p, <<>>)
           /\ Len(R \o C \o O \o <<p>>) = 8 + Len(O)
  <1> DEFINE E == <<p>>
             q == R \o C
             u == q \o O
             v == u \o E
  <1>0. E \in Seq(Byte) /\ Len(E) = 1 /\ E[1] = p
    OBVIOUS
  <1>1. q \in Seq(Byte) /\ Joins(R, C, q)
    BY Join
  <1> HIDE DEF q, E
  <1>2. u \in Seq(Byte) /\ Joins(q, O, u)
    BY <1>1, Join
  <1> HIDE DEF u
  <1>3. v \in Seq(Byte) /\ Joins(u, E, v)
    BY <1>0, <1>2, Join
  <1> HIDE DEF v
  <1>4. Len(q) = 7 /\ Len(O) \in Nat /\ Len(u) = 7 + Len(O) /\ Len(v) = 8 + Len(O)
    <2>1. Len(q) = Len(R) + Len(C) /\ Len(u) = Len(q) + Len(O) /\ Len(v) = Len(u) + Len(E)
      BY <1>1, <1>2, <1>3 DEF Joins
    <2>2. Len(O) \in Nat
      OBVIOUS
    <2> QED
      BY <1>0, <2>1, <2>2
  <1>5. \A i \in 1 .. 4 : v[i] = R[i]
    <2>1. \A i \in 1 .. 4 : q[i] = R[i]
      BY <1>1 DEF Joins
    <2>2. \A i \in 1 .. 4 : u[i] = q[i]
      BY <1>2, <1>4 DEF Joins
    <2>3. \A i \in 1 .. 4 : v[i] = u[i]
      BY <1>3, <1>4 DEF Joins
    <2> QED
      BY <2>1, <2>2, <2>3
  <1>6. \A i \in 1 .. 3 : v[4 + i] = C[i]
    <2>1. \A i \in 1 .. 3 : q[4 + i] = C[i]
      BY <1>1 DEF Joins
    <2>2. \A i \in 1 .. 3 : u[4 + i] = q[4 + i]
      BY <1>2, <1>4 DEF Joins
    <2>3. \A i \in 1 .. 3 : v[4 + i] = u[4 + i]
      BY <1>3, <1>4 DEF Joins
    <2> QED
      BY <2>1, <2>2, <2>3
  <1>7. \A i \in 1 .. Len(O) : v[7 + i] = O[i]
    <2>1. \A i \in 1 .. Len(O) : u[7 + i] = O[i]
      BY <1>2, <1>4 DEF Joins
    <2>2. \A i \in 1 .. Len(O) : v[7 + i] = u[7 + i]
      BY <1>3, <1>4 DEF Joins
    <2> QED
      BY <2>1, <2>2
  <1>8. v[8 + Len(O)] = p
    <2>1. v[Len(u) + 1] = E[1]
      BY <1>0, <1>3 DEF Joins
    <2>2. Len(u) + 1 = 8 + Len(O)
      BY <1>4
    <2> QED
      BY <1>0, <2>1, <2>2
  <1>9. Len(<<>>) = 0
    OBVIOUS
  <1>10. LaidOut(v, R, C, O, p, <<>>)
    BY <1>3, <1>4, <1>5, <1>6, <1>7, <1>8, <1>9 DEF LaidOut
  <1> QED
    BY <1>4, <1>10 DEF v, u, q, E

(* The MAC header before it is taken off, the payload stays behind it.        *)
LEMMA PacketLaidOut ==
    ASSUME NEW w \in Seq(Byte), Len(w) = 1, NEW f, NEW R, NEW C, NEW O \in Seq(Byte), NEW p,
           LaidOut(f, R, C, O, p, <<>>), NEW P \in Seq(Byte), NEW b, b = w \o f \o P
    PROVE  /\ b \in Seq(Byte) /\ b # <<>> /\ b[1] = w[1]
           /\ LaidOut(Tail(b), R, C, O, p, P)
  <1> DEFINE x == w \o f
             y == x \o P
             z == Tail(y)
  <1>1. f \in Seq(Byte) /\ Len(f) = 8 + Len(O) /\ Len(O) \in Nat /\ Len(P) \in Nat
    BY DEF LaidOut
  <1>2. x \in Seq(Byte) /\ Joins(w, f, x)
    BY <1>1, Join
  <1> HIDE DEF x
  <1>3. y \in Seq(Byte) /\ Joins(x, P, y)
    BY <1>2, Join
  <1> HIDE DEF y
  <1>4. Len(x) = 9 + Len(O) /\ Len(y) = 9 + Len(O) + Len(P)
    <2>1. Len(x) = Len(w) + Len(f) /\ Len(y) = Len(x) + Len(P)
      BY <1>2, <1>3 DEF Joins
    <2> QED
      BY <1>1, <2>1
  <1>5. y # <<>>
    BY <1>1, <1>3, <1>4
  <1>6. /\ z \in Seq(Byte) /\ Len(z) = 8 + Len(O) + Len(P)
        /\ \A i \in 1 .. 8 + Len(O) + Len(P) : z[i] = y[i + 1]
    BY <1>1, <1>3, <1>4, <1>5
  <1> HIDE DEF z
  <1>7. y[1] = w[1]
    <2>1. x[1] = w[1]
      BY <1>2 DEF Joins
    <2>2. y[1] = x[1]
      BY <1>1, <1>3, <1>4 DEF Joins
    <2> QED
      BY <2>1, <2>2
  <1>8. \A i \in 1 .. 8 + Len(O) : z[i] = f[i]
    <2>1. \A i \in 1 .. 8 + Len(O) : x[1 + i] = f[i]
      BY <1>1, <1>2 DEF Joins
    <2>2. \A i \in 1 .. 8 + Len(O) : y[i + 1] = x[1 + i]
      BY <1>1, <1>3, <1>4 DEF Joins
    <2>3. \A i \in 1 .. 8 + Len(O) : i \in 1 .. 8 + Len(O) + Len(P)
      BY <1>1
    <2> QED
      BY <1>6, <2>1, <2>2, <2>3
  <1>9. \A i \in 1 .. Len(P) : z[8 + Len(O) + i] = P[i]
    <2>1. \A i \in 1 .. Len(P) : y[9 + Len(O) + i] = P[i]
      BY <1>1, <1>3, <1>4 DEF Joins
    <2>2. \A i \in 1 .. Len(P) : /\ 8 + Len(O) + i \in 1 .. 8 + Len(O) + Len(P)
                                 /\ 8 + Len(O) + i + 1 = 9 + Len(O) + i
      BY <1>1
    <2> QED
      BY <1>6, <2>1, <2>2
  <1>10. /\ \A i \in 1 .. 4 : i \in 1 .. 8 + Len(O)
         /\ \A i \in 1 .. 3 : 4 + i \in 1 .. 8 + Len(O)
         /\ \A i \in 1 .. Len(O) : 7 + i \in 1 .. 8 + Len(O)
         /\ 8 + Len(O) \in 1 .. 8 + Len(O)
    BY <1>1
  <1>11. LaidOut(z, R, C, O, p, P)
    <2>1. /\ \A i \in 1 .. 4 : f[i] = R[i]
          /\ \A i \in 1 .. 3 : f[4 + i] = C[i]
          /\ \A i \in 1 .. Len(O) : f[7 + i] = O[i]
          /\ f[8 + Len(O)] = p
      BY DEF LaidOut
    <2> QED
      BY <1>6, <1>8, <1>9, <1>10, <2>1, Zenon DEF LaidOut
  <1>12. b = y
    BY DEF x, y
  <1> QED
    BY <1>3, <1>5, <1>7, <1>11, <1>12 DEF z

(* The frame headers that can be written, and the packet of one.              *)
Header(uplink) ==
    [uplink : {uplink}, fPort : Byte, address : Address, adr : BOOLEAN, adrAckReq : BOOLEAN,
     ack : BOOLEAN, fPending : BOOLEAN, fOptsLen : Nat, fCnt : 0 .. 2^16 - 1,
     commands : Seq(Written)]
FBytes(h) == <<FCtrl(h), h.fCnt % 256, h.fCnt \div 256>>
Carries(rest, h, P) ==
    LaidOut(rest, Reverse(AddressBytes(h.address)), FBytes(h), FOptsBytes(h.commands), h.fPort, P)

LEMMA HeaderFields ==
    ASSUME NEW uplink \in BOOLEAN, NEW h \in Header(uplink)
    PROVE  /\ h = [uplink |-> uplink, fPort |-> h.fPort, address |-> h.address, adr |-> h.adr,
                   adrAckReq |-> h.adrAckReq, ack |-> h.ack, fPending |-> h.fPending,
                   fOptsLen |-> h.fOptsLen, fCnt |-> h.fCnt, commands |-> h.commands]
           /\ h.fPort \in Byte /\ h.address \in Address /\ h.adr \in BOOLEAN
           /\ h.adrAckReq \in BOOLEAN /\ h.ack \in BOOLEAN /\ h.fPending \in BOOLEAN
           /\ h.fOptsLen \in Nat /\ h.fCnt \in 0 .. 2^16 - 1 /\ h.commands \in Seq(Written)
  <1> DEFINE N == 0 .. 2^16 - 1
  <1>1. h \in [uplink : {uplink}, fPort : Byte, address : Address, adr : BOOLEAN, adrAckReq : BOOLEAN,
               ack : BOOLEAN, fPending : BOOLEAN, fOptsLen : Nat, fCnt : N, commands : Seq(Written)]
    BY DEF Header
  <1> HIDE DEF N
  <1>2. h = [uplink |-> uplink, fPort |-> h.fPort, address |-> h.address, adr |-> h.adr,
             adrAckReq |-> h.adrAckReq, ack |-> h.ack, fPending |-> h.fPending,
             fOptsLen |-> h.fOptsLen, fCnt |-> h.fCnt, commands |-> h.commands]
    BY <1>1
  <1>3. /\ h.fPort \in Byte /\ h.address \in Address /\ h.adr \in BOOLEAN
        /\ h.adrAckReq \in BOOLEAN /\ h.ack \in BOOLEAN /\ h.fPending \in BOOLEAN
        /\ h.fOptsLen \in Nat /\ h.fCnt \in N /\ h.commands \in Seq(Written)
    BY <1>1
  <1> QED
    BY <1>2, <1>3 DEF N

LEMMA BytesInBytes == \A cs \in Seq(Written) : FOptsBytes(cs) \in Seq(Byte)
  <1> TAKE cs \in Seq(Written)
  <1>1. CASE cs = <<>>
    <2>1. <<>> \in Seq(Byte)
      OBVIOUS
    <2> QED
      BY <1>1, <2>1, BytesOfNone
  <1>2. CASE cs # <<>>
    <2>1. \E c : c \in Written
      BY <1>2
    <2> QED
      BY <2>1, BytesOfMore
  <1> QED
    BY <1>1, <1>2

LEMMA FBytesTravel ==
    ASSUME NEW uplink \in BOOLEAN, NEW h \in Header(uplink)
    PROVE  /\ FBytes(h) \in Seq(Byte) /\ Len(FBytes(h)) = 3
           /\ FBytes(h)[1] % 16 = h.fOptsLen % 16
           /\ Flag(FBytes(h)[1], 128) = h.adr /\ Flag(FBytes(h)[1], 64) = h.adrAckReq
           /\ Flag(FBytes(h)[1], 32) = h.ack /\ Flag(FBytes(h)[1], 16) = h.fPending
           /\ FBytes(h)[2] + 256 * FBytes(h)[3] = h.fCnt
  <1> DEFINE x == FCtrl(h)
             y == h.fCnt % 256
             z == h.fCnt \div 256
  <1>1. /\ x \in Byte /\ x % 16 = h.fOptsLen % 16
        /\ Flag(x, 128) = h.adr /\ Flag(x, 64) = h.adrAckReq
        /\ Flag(x, 32) = h.ack /\ Flag(x, 16) = h.fPending
    BY HeaderFields, FCtrlTravels
  <1>2. y \in Byte /\ z \in Byte /\ y + 256 * z = h.fCnt
    <2>1. h.fCnt \in 0 .. 2^16 - 1
      BY HeaderFields
    <2>2. h.fCnt \in Nat /\ h.fCnt < 65536
      BY <2>1, Powers, SMT
    <2> QED
      BY <2>2, CountTravels
  <1>3. FBytes(h) = <<x, y, z>>
    BY DEF FBytes
  <1> HIDE DEF x, y, z
  <1>4. /\ <<x, y, z>> \in Seq(Byte) /\ Len(<<x, y, z>>) = 3
        /\ <<x, y, z>>[1] = x /\ <<x, y, z>>[2] = y /\ <<x, y, z>>[3] = z
    BY <1>1, <1>2
  <1> QED
    BY <1>1, <1>2, <1>3, <1>4

LEMMA FrameWritten ==
    ASSUME NEW uplink \in BOOLEAN, NEW h \in Header(uplink)
    PROVE  Carries(WriteFrameHeader(h), h, <<>>)
  <1> DEFINE R == Reverse(AddressBytes(h.address))
             O == FOptsBytes(h.commands)
             C == FBytes(h)
             p == h.fPort
  <1>1. R \in Seq(Byte) /\ Len(R) = 4
    BY HeaderFields, AddressBytesOf, FourReversed
  <1>2. O \in Seq(Byte) /\ p \in Byte
    BY HeaderFields, BytesInBytes
  <1>3. C \in Seq(Byte) /\ Len(C) = 3
    BY FBytesTravel
  <1>4. WriteFrameHeader(h) = R \o C \o O \o <<p>>
    BY DEF WriteFrameHeader, FBytes
  <1> HIDE DEF R, O, C, p
  <1>5. LaidOut(R \o C \o O \o <<p>>, R, C, O, p, <<>>)
    BY <1>1, <1>2, <1>3, HeaderLaidOut
  <1>6. LaidOut(WriteFrameHeader(h), R, C, O, p, <<>>)
    BY <1>4, <1>5
  <1> QED
    BY <1>6 DEF Carries, R, O, C, p

(* The bytes of the commands as the loop over them sees them.                 *)
LEMMA CommandsSeen ==
    ASSUME NEW rest, NEW R, NEW C, NEW O \in Seq(Byte), NEW p, NEW P \in Seq(Byte),
           LaidOut(rest, R, C, O, p, P), NEW b, b = SubSeq(rest, 8, Len(rest) - 1)
    PROVE  /\ b \in Seq(Byte) /\ Len(O) <= Len(b)
           /\ \A i \in 1 .. Len(O) : b[i] = O[i]
  <1>1. /\ rest \in Seq(Byte) /\ Len(rest) = 8 + Len(O) + Len(P)
        /\ \A i \in 1 .. Len(O) : rest[7 + i] = O[i]
    BY DEF LaidOut
  <1>2. Len(O) \in Nat /\ Len(P) \in Nat
    OBVIOUS
  <1>3. b = SubSeq(rest, 8, 7 + Len(O) + Len(P))
    <2>1. Len(rest) - 1 = 7 + Len(O) + Len(P)
      BY <1>1, <1>2
    <2> QED
      BY <2>1
  <1>4. /\ b \in Seq(Byte) /\ Len(b) = Len(O) + Len(P)
        /\ \A i \in 1 .. Len(O) + Len(P) : b[i] = rest[7 + i]
    BY <1>1, <1>2, <1>3
  <1>5. \A i \in 1 .. Len(O) : b[i] = O[i]
    BY <1>1, <1>2, <1>4
  <1> QED
    BY <1>2, <1>4, <1>5

(* Whatever table its commands are read with, the address is the device's.    *)
LEMMA AddressRead ==
    ASSUME NEW uplink \in BOOLEAN, NEW h \in Header(uplink), NEW direction \in BOOLEAN,
           NEW P \in Seq(Byte), NEW rest, Carries(rest, h, P)
    PROVE  ReadFrameHeader(rest, direction).address = h.address
  <1> DEFINE R == Reverse(AddressBytes(h.address))
             r == SubSeq(rest, 1, 4)
             O == FOptsBytes(h.commands)
  <1>1. ReadFrameHeader(rest, direction).address = AddressFromBytes(Reverse(r))
    BY DEF ReadFrameHeader
  <1>2. O \in Seq(Byte) /\ h.address \in Address
    BY HeaderFields, BytesInBytes
  <1>3. rest \in Seq(Byte) /\ Len(rest) = 8 + Len(O) + Len(P) /\ \A i \in 1 .. 4 : rest[i] = R[i]
    BY DEF Carries, LaidOut
  <1> HIDE DEF R, O
  <1>4. r \in Seq(Byte) /\ Len(r) = 4 /\ \A i \in 1 .. 4 : r[i] = rest[i]
    <2>1. Len(O) \in Nat /\ Len(P) \in Nat
      BY <1>2
    <2>2. Len(rest) \in Nat /\ 4 <= Len(rest)
      BY <1>3, <2>1
    <2> QED
      BY <1>3, <2>2
  <1> HIDE DEF r
  <1>5. \A i \in 1 .. 4 : r[i] = Reverse(AddressBytes(h.address))[i]
    BY <1>3, <1>4 DEF R
  <1>6. AddressFromBytes(Reverse(r)) = h.address
    BY <1>2, <1>4, <1>5, AddressTravels
  <1> QED
    BY <1>1, <1>6

LEMMA ThreeRead ==
    ASSUME NEW rest, NEW h, NEW P, Carries(rest, h, P)
    PROVE  rest[5] = FBytes(h)[1] /\ rest[6] = FBytes(h)[2] /\ rest[7] = FBytes(h)[3]
  <1>1. \A i \in 1 .. 3 : rest[4 + i] = FBytes(h)[i]
    BY Zenon DEF Carries, LaidOut
  <1>2. 1 \in 1 .. 3 /\ 2 \in 1 .. 3 /\ 3 \in 1 .. 3 /\ 4 + 1 = 5 /\ 4 + 2 = 6 /\ 4 + 3 = 7
    OBVIOUS
  <1> DEFINE x == FBytes(h)
  <1> HIDE DEF x
  <1>3. rest[4 + 1] = x[1] /\ rest[4 + 2] = x[2] /\ rest[4 + 3] = x[3]
    BY <1>1, <1>2, Zenon DEF x
  <1>4. rest[5] = x[1] /\ rest[6] = x[2] /\ rest[7] = x[3]
    BY <1>2, <1>3
  <1> QED
    BY <1>4 DEF x

(* The commands read are the first ones written.                              *)
LEMMA PrefixRead ==
    ASSUME NEW uplink \in BOOLEAN, NEW h \in Header(uplink), h.commands \in Seq(Commands(uplink)),
           h.fOptsLen = Len(FOptsBytes(h.commands)) % 256,
           NEW P \in Seq(Byte), NEW rest, Carries(rest, h, P)
    PROVE  \E m \in 0 .. Len(h.commands) :
              ReadFrameHeader(rest, uplink).commands = SubSeq(h.commands, 1, m)
  <1> DEFINE O == FOptsBytes(h.commands)
             b == SubSeq(rest, 8, Len(rest) - 1)
             len == rest[5] % 16
             cs == h.commands
  <1>1. ReadFrameHeader(rest, uplink).commands = ReadCommands(b, len, uplink).commands
    BY DEF ReadFrameHeader
  <1>2. O \in Seq(Byte)
    BY HeaderFields, BytesInBytes
  <1>3. b \in Seq(Byte) /\ Len(O) <= Len(b) /\ \A i \in 1 .. Len(O) : b[i] = O[i]
    BY <1>2, CommandsSeen DEF Carries
  <1>4. len = h.fOptsLen % 16
    <2>1. rest[5] = FBytes(h)[1]
      BY ThreeRead
    <2>2. FBytes(h)[1] % 16 = h.fOptsLen % 16
      BY FBytesTravel
    <2> QED
      BY <2>1, <2>2
  <1>5. len \in Nat /\ len <= Len(O)
    <2> DEFINE n == Len(O)
    <2>1. n \in Nat /\ len = (n % 256) % 16
      BY <1>2, <1>4
    <2> HIDE DEF n, len
    <2>2. len \in Nat /\ len <= n
      BY <2>1, SMT
    <2> QED
      BY <2>2 DEF n
  <1>6. cs \in Seq(Commands(uplink))
    OBVIOUS
  <1> HIDE DEF b, len, cs
  <1>7. /\ len <= Len(FOptsBytes(cs)) /\ Len(FOptsBytes(cs)) <= Len(b)
        /\ \A i \in 1 .. Len(FOptsBytes(cs)) : b[i] = FOptsBytes(cs)[i]
    BY <1>3, <1>5 DEF cs
  <1>8. \E m \in 0 .. Len(cs) : ReadCommands(b, len, uplink).commands = SubSeq(cs, 1, m)
    BY <1>3, <1>5, <1>6, <1>7, ReadsBack
  <1> QED
    BY <1>1, <1>8 DEF cs

(* With at most 15 bytes of commands everything comes out as it was.          *)
LEMMA WholeRead ==
    ASSUME NEW uplink \in BOOLEAN, NEW h \in Header(uplink), h.commands \in Seq(Commands(uplink)),
           h.fOptsLen = Len(FOptsBytes(h.commands)), h.fOptsLen <= 15,
           NEW P \in Seq(Byte), NEW rest, Carries(rest, h, P)
    PROVE  /\ ReadFrameHeader(rest, uplink) = h
           /\ SubSeq(rest, FrameHeaderSize(h) + 1, Len(rest)) = P
  <1> DEFINE O == FOptsBytes(h.commands)
             b == SubSeq(rest, 8, Len(rest) - 1)
             len == rest[5] % 16
             cs == h.commands
             read == ReadCommands(b, len, uplink)
  <1>1. O \in Seq(Byte)
    BY HeaderFields, BytesInBytes
  <1>2. b \in Seq(Byte) /\ Len(O) <= Len(b) /\ \A i \in 1 .. Len(O) : b[i] = O[i]
    BY <1>1, CommandsSeen DEF Carries
  <1>3. len = h.fOptsLen
    <2>1. rest[5] = FBytes(h)[1]
      BY ThreeRead
    <2>2. FBytes(h)[1] % 16 = h.fOptsLen % 16
      BY FBytesTravel
    <2>3. h.fOptsLen \in Nat
      BY HeaderFields
    <2> DEFINE n == h.fOptsLen
    <2>4. len = n % 16
      BY <2>1, <2>2, Zenon
    <2>6. n \in Nat /\ n <= 15
      BY <2>3
    <2> HIDE DEF n, len
    <2>5. len = n
      BY <2>4, <2>6, SMT
    <2> QED
      BY <2>5 DEF n
  <1>4. len = Len(O) /\ len \in Nat
    BY <1>1, <1>3
  <1>5. cs \in Seq(Commands(uplink))
    OBVIOUS
  <1>6. ReadFrameHeader(rest, uplink)
          = [uplink |-> uplink, address |-> AddressFromBytes(Reverse(SubSeq(rest, 1, 4))),
             adr |-> Flag(rest[5], 128), adrAckReq |-> Flag(rest[5], 64),
             ack |-> Flag(rest[5], 32), fPending |-> Flag(rest[5], 16), fOptsLen |-> len,
             fCnt |-> rest[6] + 256 * rest[7], commands |-> read.commands,
             fPort |-> rest[8 + read.end]]
    BY DEF ReadFrameHeader
  <1>7. read.commands = cs /\ read.end = len
    <2> HIDE DEF b, len, cs, O
    <2>1. /\ len <= Len(FOptsBytes(cs)) /\ Len(FOptsBytes(cs)) <= Len(b)
          /\ \A i \in 1 .. Len(FOptsBytes(cs)) : b[i] = FOptsBytes(cs)[i]
          /\ len = Len(FOptsBytes(cs))
      BY <1>1, <1>2, <1>4 DEF O, cs
    <2> HIDE DEF read
    <2>2. PICK m \in 0 .. Len(cs) :
              /\ read.commands = SubSeq(cs, 1, m)
              /\ read.end \in Nat
              /\ len <= read.end
              /\ read.end <= Len(FOptsBytes(cs))
              /\ read.end = Len(FOptsBytes(cs)) => m = Len(cs)
      <3>1. b \in Seq(Byte) /\ len \in Nat
        BY <1>2, <1>4
      <3>2. /\ len <= Len(FOptsBytes(cs)) /\ Len(FOptsBytes(cs)) <= Len(b)
            /\ \A i \in 1 .. Len(FOptsBytes(cs)) : b[i] = FOptsBytes(cs)[i]
        BY <2>1
      <3> QED
        BY <1>5, <3>1, <3>2, ReadsBack DEF read
    <2>3. read.end = len /\ m = Len(cs)
      <3> DEFINE e == read.end
                 n == Len(FOptsBytes(cs))
      <3>1. e \in Nat /\ len <= e /\ e <= n /\ (e = n => m = Len(cs))
        BY <2>2, Zenon
      <3>2. len = n
        BY <2>1, Zenon
      <3> HIDE DEF e, n
      <3>3. e = len /\ e = n
        BY <1>4, <3>1, <3>2
      <3> QED
        BY <3>1, <3>3, Zenon DEF e
    <2>4. SubSeq(cs, 1, Len(cs)) = cs
      BY <1>5
    <2> QED
      BY <2>2, <2>3, <2>4
  <1>8. rest[8 + Len(O)] = h.fPort
    BY Zenon DEF Carries, LaidOut
  <1>9. /\ Flag(rest[5], 128) = h.adr /\ Flag(rest[5], 64) = h.adrAckReq
        /\ Flag(rest[5], 32) = h.ack /\ Flag(rest[5], 16) = h.fPending
    <2>1. rest[5] = FBytes(h)[1]
      BY ThreeRead
    <2>2. /\ Flag(FBytes(h)[1], 128) = h.adr /\ Flag(FBytes(h)[1], 64) = h.adrAckReq
          /\ Flag(FBytes(h)[1], 32) = h.ack /\ Flag(FBytes(h)[1], 16) = h.fPending
      BY FBytesTravel
    <2> QED
      BY <2>1, <2>2, Zenon
  <1>10. rest[6] + 256 * rest[7] = h.fCnt
    <2>1. rest[6] = FBytes(h)[2] /\ rest[7] = FBytes(h)[3]
      BY ThreeRead
    <2>2. FBytes(h)[2] + 256 * FBytes(h)[3] = h.fCnt
      BY FBytesTravel
    <2> QED
      BY <2>1, <2>2, Zenon
  <1>11. AddressFromBytes(Reverse(SubSeq(rest, 1, 4))) = h.address
    <2>1. ReadFrameHeader(rest, uplink).address = AddressFromBytes(Reverse(SubSeq(rest, 1, 4)))
      BY DEF ReadFrameHeader
    <2> QED
      BY <2>1, AddressRead
  <1>12. h = [uplink |-> uplink, fPort |-> h.fPort, address |-> h.address, adr |-> h.adr,
              adrAckReq |-> h.adrAckReq, ack |-> h.ack, fPending |-> h.fPending,
              fOptsLen |-> h.fOptsLen, fCnt |-> h.fCnt, commands |-> h.commands]
    BY HeaderFields
  <1>13. ReadFrameHeader(rest, uplink) = h
    <2> HIDE DEF b, len, O, read
    <2>1. rest[8 + read.end] = h.fPort
      BY <1>4, <1>7, <1>8
    <2>2. ReadFrameHeader(rest, uplink)
            = [uplink |-> uplink, address |-> h.address, adr |-> h.adr, adrAckReq |-> h.adrAckReq,
               ack |-> h.ack, fPending |-> h.fPending, fOptsLen |-> h.fOptsLen, fCnt |-> h.fCnt,
               commands |-> cs, fPort |-> h.fPort]
      BY <1>3, <1>6, <1>7, <1>9, <1>10, <1>11, <2>1, Zenon
    <2> QED
      BY <1>12, <2>2
  <1>14. SubSeq(rest, FrameHeaderSize(h) + 1, Len(rest)) = P
    <2> DEFINE n == Len(O)
               k == Len(P)
               q == SubSeq(rest, 9 + n, 8 + n + k)
    <2>1. FrameHeaderSize(h) + 1 = 9 + n /\ n \in Nat /\ k \in Nat
      BY <1>1, <1>3, <1>4 DEF FrameHeaderSize
    <2>2. rest \in Seq(Byte) /\ Len(rest) = 8 + n + k /\ \A i \in 1 .. k : rest[8 + n + i] = P[i]
      BY DEF Carries, LaidOut
    <2> HIDE DEF n
    <2>3. q \in Seq(Byte) /\ Len(q) = k /\ \A i \in 1 .. k : q[i] = rest[8 + n + i]
      <3> HIDE DEF k
      <3> QED
        BY <2>1, <2>2
    <2> HIDE DEF q
    <2>4. \A i \in 1 .. k : q[i] = P[i]
      BY <2>2, <2>3
    <2>5. q = P
      BY <2>3, <2>4, Same
    <2> QED
      BY <2>1, <2>2, <2>5 DEF q
  <1> QED
    BY <1>13, <1>14
------------------------------------------------------------------------------
(* What senders add                                                           *)

Added(uplink) == IF uplink THEN UplinkRead \cup Answers ELSE DownlinkRead

LEMMA AddedIsWritten ==
    ASSUME NEW uplink \in BOOLEAN, NEW c \in Added(uplink)
    PROVE  c \in Written /\ Len(WriteCommand(c)) = SerializedSize(c.type)
  <1>1. c \in UplinkCommand \cup DownlinkRead
    BY AnswersAssumption DEF Added, UplinkRead, UplinkCommand
  <1>2. c \in Written
    BY <1>1, WrittenInBytes DEF Written
  <1>3. c \in Commands(uplink) \cup RxTimingSetupAns \cup TxParamSetupAns \cup DlChannelAns
    BY AnswersAssumption DEF Added, Commands, UplinkRead, UplinkCommand
  <1>4. CASE c \in Commands(uplink)
    BY <1>2, <1>4, CommandsTravel DEF Travels, ReadsAs
  <1>5. CASE c \in RxTimingSetupAns
    <2>1. c.type = "RxTimingSetupAns"
      BY <1>5 DEF RxTimingSetupAns
    <2>2. WriteCommand(c) = <<CID(c)>> /\ SerializedSize(c.type) = 1
      BY <2>1 DEF WriteCommand, WriteRxTimingSetupAns, SerializedSize
    <2> QED
      BY <1>2, <2>2
  <1>6. CASE c \in TxParamSetupAns
    <2>1. c.type = "TxParamSetupAns"
      BY <1>6 DEF TxParamSetupAns
    <2>2. WriteCommand(c) = <<CID(c)>> /\ SerializedSize(c.type) = 1
      BY <2>1 DEF WriteCommand, WriteTxParamSetupAns, SerializedSize
    <2> QED
      BY <1>2, <2>2
  <1>7. CASE c \in DlChannelAns
    <2>1. c.type = "DlChannelAns"
      BY <1>7 DEF DlChannelAns
    <2>2. WriteCommand(c) = <<CID(c)>> /\ SerializedSize(c.type) = 1
      BY <2>1 DEF WriteCommand, WriteDlChannelAns, SerializedSize
    <2> QED
      BY <1>2, <2>2
  <1> QED
    BY <1>3, <1>4, <1>5, <1>6, <1>7

LEMMA UplinkGiven ==
    ASSUME NEW h, NEW g \in UplinkAdded(h)
    PROVE  \E c \in Added(TRUE) : g = AddCommand(h, c)
  <1>1. CASE g = AddLinkCheckReq(h)
    <2>1. [type |-> "LinkCheckReq"] \in Added(TRUE)
      BY DEF Added, UplinkRead, LinkCheckReq
    <2> QED
      BY <1>1, <2>1, Zenon DEF AddLinkCheckReq
  <1>2. CASE g = AddDutyCycleAns(h)
    <2>1. [type |-> "DutyCycleAns"] \in Added(TRUE)
      BY DEF Added, UplinkRead, DutyCycleAns
    <2> QED
      BY <1>2, <2>1, Zenon DEF AddDutyCycleAns
  <1>3. CASE \E mask \in BOOLEAN : g = AddLinkAdrAns(h, TRUE, FALSE, mask)
    <2>1. PICK mask \in BOOLEAN : g = AddLinkAdrAns(h, TRUE, FALSE, mask)
      BY <1>3
    <2> DEFINE c == [type |-> "LinkAdrAns", powerAck |-> TRUE, dataRateAck |-> FALSE,
                     channelMaskAck |-> mask]
    <2>2. c \in Added(TRUE)
      <3>1. c \in LinkAdrAns
        BY DEF LinkAdrAns
      <3> QED
        BY <3>1, Zenon DEF Added, UplinkRead
    <2> QED
      BY <2>1, <2>2, Zenon DEF AddLinkAdrAns
  <1>4. CASE g \in AddRxParamSetupAns(h)
    <2>1. RxParamSetupAns \subseteq Added(TRUE)
      BY Zenon DEF Added, UplinkRead
    <2> QED
      BY <1>4, <2>1, Zenon DEF AddRxParamSetupAns
  <1>5. CASE \E c \in Answers : g = AddCommand(h, c)
    BY <1>5, Zenon DEF Added
  <1> QED
    BY <1>1, <1>2, <1>3, <1>4, <1>5, Zenon DEF UplinkAdded

LEMMA MaskOfFour == ChannelMask({0, 1, 2, 8}) \in 0 .. 2^16 - 1
  <1>1. /\ 2^0 = 1 /\ 2^1 = 2 /\ 2^2 = 4 /\ 2^3 = 8 /\ 2^4 = 16 /\ 2^5 = 32 /\ 2^6 = 64
        /\ 2^7 = 128 /\ 2^8 = 256 /\ 2^9 = 512 /\ 2^10 = 1024 /\ 2^11 = 2048
        /\ 2^12 = 4096 /\ 2^13 = 8192 /\ 2^14 = 16384 /\ 2^15 = 32768
    BY SMT
  <1>2. ASSUME NEW i \in 0 .. 15 PROVE ((263 \div 2^i) % 2 = 1) <=> i \in {0, 1, 2, 8}
    <2>1. \/ i = 0 \/ i = 1 \/ i = 2 \/ i = 3 \/ i = 4 \/ i = 5 \/ i = 6 \/ i = 7
          \/ i = 8 \/ i = 9 \/ i = 10 \/ i = 11 \/ i = 12 \/ i = 13 \/ i = 14 \/ i = 15
      BY SMT
    <2>2. CASE i = 0
      BY <1>1, <2>2, SMT
    <2>3. CASE i = 1
      BY <1>1, <2>3, SMT
    <2>4. CASE i = 2
      BY <1>1, <2>4, SMT
    <2>5. CASE i = 3
      BY <1>1, <2>5, SMT
    <2>6. CASE i = 4
      BY <1>1, <2>6, SMT
    <2>7. CASE i = 5
      BY <1>1, <2>7, SMT
    <2>8. CASE i = 6
      BY <1>1, <2>8, SMT
    <2>9. CASE i = 7
      BY <1>1, <2>9, SMT
    <2>10. CASE i = 8
      BY <1>1, <2>10, SMT
    <2>11. CASE i = 9
      BY <1>1, <2>11, SMT
    <2>12. CASE i = 10
      BY <1>1, <2>12, SMT
    <2>13. CASE i = 11
      BY <1>1, <2>13, SMT
    <2>14. CASE i = 12
      BY <1>1, <2>14, SMT
    <2>15. CASE i = 13
      BY <1>1, <2>15, SMT
    <2>16. CASE i = 14
      BY <1>1, <2>16, SMT
    <2>17. CASE i = 15
      BY <1>1, <2>17, SMT
    <2> QED
      BY <2>1, <2>2, <2>3, <2>4, <2>5, <2>6, <2>7, <2>8, <2>9, <2>10, <2>11, <2>12, <2>13, <2>14, <2>15, <2>16, <2>17, Zenon
  <1>3. BitsOf(263) = {0, 1, 2, 8}
    <2>1. \A i \in {0, 1, 2, 8} : i \in 0 .. 15
      BY SMT
    <2> DEFINE B == BitsOf(263)
               E(i) == (263 \div 2^i) % 2 = 1
    <2>2. \A i : i \in B <=> i \in 0 .. 15 /\ E(i)
      BY DEF BitsOf
    <2>3. \A i \in 0 .. 15 : E(i) <=> i \in {0, 1, 2, 8}
      BY <1>2
    <2> HIDE DEF B, E
    <2>4. \A i : i \in B <=> i \in {0, 1, 2, 8}
      BY <2>1, <2>2, <2>3, Zenon
    <2> QED
      BY <2>4 DEF B
  <1>4. 263 \in 0 .. 2^16 - 1
    BY Powers, SMT
  <1> QED
    BY <1>3, <1>4, Zenon DEF ChannelMask

Hz868 == 868100000
Hz867 == 867000

LEMMA DownlinkIs ==
    ASSUME NEW h
    PROVE  DownlinkAdded(h) =
             {AddLinkCheckAns(h, 20, 3), AddLinkAdrReq(h, 5, 3, {0, 1, 2, 8}, 1),
              AddDutyCycleReq(h, 15), AddRxParamSetupReq(h, 5, 3, Hz868),
              AddDevStatusReq(h), AddNewChannelReq(h, 3, Hz867, 1, 5),
              AddCommand(h, [type |-> "RxTimingSetupReq", delay |-> 15])}
  BY SMT DEF DownlinkAdded, Hz868, Hz867

LEMMA DownlinkGiven ==
    ASSUME NEW h, NEW g \in DownlinkAdded(h)
    PROVE  \E c \in Added(FALSE) : g = AddCommand(h, c)
  <1>0. Added(FALSE) = DownlinkRead
    BY DEF Added
  <1>1. CASE g = AddLinkCheckAns(h, 20, 3)
    <2>1. [type |-> "LinkCheckAns", margin |-> 20, gwCnt |-> 3] \in LinkCheckAns
      BY DEF LinkCheckAns, Byte
    <2> QED
      BY <1>0, <1>1, <2>1, Zenon DEF AddLinkCheckAns, DownlinkRead
  <1>2. CASE g = AddLinkAdrReq(h, 5, 3, {0, 1, 2, 8}, 1)
    <2> DEFINE mask == ChannelMask({0, 1, 2, 8})
               c == [type |-> "LinkAdrReq", dataRate |-> 5, txPower |-> 3, chMask |-> mask,
                     chMaskCntl |-> 0, nbTrans |-> 1]
               N == 0 .. 2^16 - 1
    <2>1. g = AddCommand(h, c)
      BY <1>2, Zenon DEF AddLinkAdrReq
    <2>2. mask \in N
      BY MaskOfFour
    <2> HIDE DEF mask, N
    <2>3. c \in [type : {"LinkAdrReq"}, dataRate : Nibble, txPower : Nibble,
                 chMask : N, chMaskCntl : 0 .. 7, nbTrans : Nibble]
      BY <2>2 DEF Nibble
    <2> HIDE DEF c
    <2>4. c \in LinkAdrReq
      BY <2>3 DEF LinkAdrReq, N
    <2> QED
      BY <1>0, <2>1, <2>4, Zenon DEF DownlinkRead
  <1>3. CASE g = AddDutyCycleReq(h, 15)
    <2>1. [type |-> "DutyCycleReq", maxDutyCycle |-> 15] \in DutyCycleReq
      BY DEF DutyCycleReq, Nibble
    <2> QED
      BY <1>0, <1>3, <2>1, Zenon DEF AddDutyCycleReq, DownlinkRead
  <1>4. CASE g = AddRxParamSetupReq(h, 5, 3, Hz868)
    <2> DEFINE hz == Hz868
               c == [type |-> "RxParamSetupReq", rx1DrOffset |-> 5, rx2DataRate |-> 3,
                     frequencyHz |-> hz]
    <2>1. hz \in Frequency
      BY SMT DEF Frequency, Hz868
    <2>2. g = AddCommand(h, c)
      BY <1>4, Zenon DEF AddRxParamSetupReq
    <2> HIDE DEF hz
    <2>3. c \in RxParamSetupReq
      BY <2>1 DEF RxParamSetupReq, Nibble
    <2> HIDE DEF c
    <2> QED
      BY <1>0, <2>2, <2>3, Zenon DEF DownlinkRead
  <1>5. CASE g = AddDevStatusReq(h)
    <2>1. [type |-> "DevStatusReq"] \in DevStatusReq
      BY DEF DevStatusReq
    <2> QED
      BY <1>0, <1>5, <2>1, Zenon DEF AddDevStatusReq, DownlinkRead
  <1>6. CASE g = AddNewChannelReq(h, 3, Hz867, 1, 5)
    <2> DEFINE hz == Hz867
               c == [type |-> "NewChannelReq", chIndex |-> 3, frequencyHz |-> hz,
                     minDataRate |-> 1, maxDataRate |-> 5]
    <2>1. hz \in Frequency
      BY SMT DEF Frequency, Hz867
    <2>2. g = AddCommand(h, c)
      BY <1>6, Zenon DEF AddNewChannelReq
    <2> HIDE DEF hz
    <2>3. c \in NewChannelReq
      BY <2>1 DEF NewChannelReq, Nibble, Byte
    <2> HIDE DEF c
    <2> QED
      BY <1>0, <2>2, <2>3, Zenon DEF DownlinkRead
  <1>7. CASE g = AddCommand(h, [type |-> "RxTimingSetupReq", delay |-> 15])
    <2>1. [type |-> "RxTimingSetupReq", delay |-> 15] \in RxTimingSetupReq
      BY DEF RxTimingSetupReq, Nibble
    <2> QED
      BY <1>0, <1>7, <2>1, Zenon DEF DownlinkRead
  <1> QED
    BY <1>1, <1>2, <1>3, <1>4, <1>5, <1>6, <1>7, DownlinkIs, Zenon
------------------------------------------------------------------------------
(* The invariant                                                              *)

(* The addresses follow the first one within its network; each installed      *)
(* device has a status of its own.                                            *)
AddressAt(i) == AddressOf(FirstAddress.nwkId, FirstAddress.nwkAddr + (i - 1))
Installed ==
    /\ generator = AddressAt(Len(addresses) + 1)
    /\ addresses \in Seq(Address) /\ Len(addresses) <= Devices
    /\ \A i \in 1 .. Len(addresses) : addresses[i] = AddressAt(i)
    /\ statuses = DOMAIN addresses

(* A header m, h that is being written for the device with that address.      *)
Begun(m, h, address) ==
    /\ m \in MacHeader
    /\ h \in Header(IsUplink(m)) /\ h.address = address
    /\ h.commands \in Seq(Added(IsUplink(m))) /\ Len(h.commands) <= MaxCommands
    /\ h.fOptsLen = Len(FOptsBytes(h.commands)) % 256
    /\ Len(FOptsBytes(h.commands)) <= 6 * Len(h.commands)
Packet(m, h) == WriteMacHeader(m) \o WriteFrameHeader(h) \o Payload
Made(b, direction) ==
    LET m == ReadMacHeader(b)
        h == ReadFrameHeader(Tail(b), IsUplink(m))
    IN  [mac |-> m, frame |-> h,
         payload |-> SubSeq(Tail(b), FrameHeaderSize(h) + 1, Len(Tail(b))),
         lookup |-> ReadFrameHeader(Tail(b), direction)]

Underway ==
    /\ sender \in 0 .. Len(addresses) /\ macHdr \in MacHeader
    /\ sender = 0 => wire = <<>> /\ received = <<>>
    /\ sender # 0 => Begun(macHdr, frameHdr, addresses[sender])
    /\ wire # <<>> => wire = Packet(macHdr, frameHdr)
    /\ received # <<>> => /\ wire # <<>>
                          /\ \E direction \in BOOLEAN : received = <<Made(wire, direction)>>
Inv == Installed /\ Underway

LEMMA Ranges == AddrRange \in Nat /\ AddrRange >= 1 /\ IdRange \in Nat /\ IdRange >= 1
  BY Powers, SMT

LEMMA Divided ==
    ASSUME NEW W \in Nat, W >= 1, NEW k \in Nat
    PROVE  k % W \in 0 .. W - 1 /\ k \div W \in Nat /\ k = W * (k \div W) + (k % W)
  OBVIOUS

LEMMA DividedOnce ==
    ASSUME NEW W \in Nat, W >= 1, NEW d \in Nat, NEW e \in Nat,
           NEW r \in 0 .. W - 1, NEW s \in 0 .. W - 1, W * d + r = W * e + s
    PROVE  d = e /\ r = s
  OBVIOUS

LEMMA CloseTogether ==
    ASSUME NEW W \in Nat, NEW k \in Nat, NEW m \in Nat, k - m < W, m - k < W,
           NEW d \in Nat, NEW e \in Nat, NEW r \in Nat, k = W * d + r, m = W * e + r
    PROVE  d = e
  OBVIOUS

(* Counting on round the end of a range, and no number twice in one round.    *)
LEMMA RangeWraps ==
    ASSUME NEW W \in Nat, W >= 1, NEW n \in Nat
    PROVE  /\ \A i \in Nat : (((n + i) % W) + 1) % W = (n + (i + 1)) % W
           /\ \A i, j \in 0 .. W - 1 : (n + i) % W = (n + j) % W => i = j
  <1>1. ASSUME NEW i \in Nat PROVE (((n + i) % W) + 1) % W = (n + (i + 1)) % W
    <2> DEFINE k == n + i
               d == k \div W
               r == k % W
               x == (k + 1) % W
               y == (k + 1) \div W
    <2>1. k \in Nat /\ k + 1 \in Nat /\ n + (i + 1) = k + 1
      OBVIOUS
    <2> HIDE DEF k
    <2>2. d \in Nat /\ r \in 0 .. W - 1 /\ k = W * d + r
      BY <2>1, Divided
    <2>3. y \in Nat /\ x \in 0 .. W - 1 /\ k + 1 = W * y + x
      BY <2>1, Divided
    <2> HIDE DEF d, r, x, y
    <2>4. ASSUME r + 1 < W PROVE (r + 1) % W = x
      <3> DEFINE s == r + 1
      <3>1. s \in 0 .. W - 1 /\ s \in Nat /\ W * d + s = W * y + x
        BY <2>2, <2>3, <2>4
      <3>2. s % W \in 0 .. W - 1 /\ s \div W \in Nat /\ s = W * (s \div W) + (s % W)
        BY <3>1, Divided
      <3> HIDE DEF s
      <3>3. x = s
        BY <2>2, <2>3, <3>1, DividedOnce
      <3>4. W * 0 + s = W * (s \div W) + (s % W)
        BY <3>1, <3>2
      <3>5. s % W = s
        BY <3>1, <3>2, <3>4, DividedOnce
      <3> QED
        BY <3>3, <3>5 DEF s
    <2>5. ASSUME r + 1 = W PROVE (r + 1) % W = x
      <3> DEFINE z == 0
                 c == d + 1
                 u == W \div W
                 v == W % W
      <3>1. z \in 0 .. W - 1 /\ c \in Nat /\ W * c + z = W * y + x
        BY <2>2, <2>3, <2>5
      <3>2. v \in 0 .. W - 1 /\ u \in Nat /\ W = W * u + v
        BY Divided
      <3>3. 1 \in Nat /\ W * 1 + z = W
        OBVIOUS
      <3> HIDE DEF c, z, u, v
      <3>4. x = z
        BY <2>3, <3>1, DividedOnce
      <3>5. v = z
        BY <3>1, <3>2, <3>3, DividedOnce
      <3>6. W % W = x
        BY <3>4, <3>5 DEF v
      <3> QED
        BY <2>5, <3>6
    <2>6. (r + 1) % W = x
      BY <2>2, <2>4, <2>5
    <2>7. n + (i + 1) = (n + i) + 1
      OBVIOUS
    <2> QED
      BY <2>6, <2>7 DEF x, r, k
  <1>2. ASSUME NEW i \in 0 .. W - 1, NEW j \in 0 .. W - 1, (n + i) % W = (n + j) % W
        PROVE  i = j
    <2> DEFINE k == n + i
               m == n + j
               d == k \div W
               e == m \div W
               r == k % W
    <2>1. k \in Nat /\ m \in Nat /\ k - m < W /\ m - k < W
      OBVIOUS
    <2>2. r = m % W
      BY <1>2
    <2>3. d \in Nat /\ r \in Nat /\ k = W * d + r
      BY <2>1, Divided
    <2>4. e \in Nat /\ m = W * e + (m % W)
      BY <2>1, Divided
    <2> HIDE DEF d, e, r, k, m
    <2>5. m = W * e + r
      BY <2>2, <2>4
    <2>6. d = e
      BY <2>1, <2>3, <2>4, <2>5, CloseTogether
    <2>7. k = m
      BY <2>3, <2>5, <2>6
    <2> QED
      BY <2>7 DEF k, m
  <1> QED
    BY <1>1, <1>2

LEMMA AddressesWrap ==
    ASSUME NEW n \in Nat
    PROVE  /\ \A i \in Nat : (((n + i) % AddrRange) + 1) % AddrRange = (n + (i + 1)) % AddrRange
           /\ \A i, j \in 0 .. AddrRange - 1 :
                 (n + i) % AddrRange = (n + j) % AddrRange => i = j
  <1> DEFINE W == AddrRange
  <1>1. W \in Nat /\ W >= 1
    BY Ranges
  <1> HIDE DEF W
  <1>2. /\ \A i \in Nat : (((n + i) % W) + 1) % W = (n + (i + 1)) % W
        /\ \A i, j \in 0 .. W - 1 : (n + i) % W = (n + j) % W => i = j
    BY <1>1, RangeWraps
  <1> QED
    BY <1>2 DEF W

LEMMA First ==
    /\ FirstAddress.nwkId \in 0 .. IdRange - 1 /\ FirstAddress.nwkAddr \in Nat
    /\ FirstAddress.nwkId % IdRange = FirstAddress.nwkId
  <1> DEFINE id == FirstAddress.nwkId
             n == FirstAddress.nwkAddr
  <1>1. id \in 0 .. IdRange - 1 /\ n \in 0 .. AddrRange - 1
    BY FirstAddressAssumption, AddressFields
  <1> HIDE DEF id, n
  <1>2. n \in Nat 
    BY <1>1, Ranges
  <1>3. id % IdRange = id
    BY <1>1, Ranges
  <1> QED
    BY <1>1, <1>2, <1>3 DEF id, n

LEMMA AddressAtIs ==
    ASSUME NEW i \in Nat, i >= 1
    PROVE  /\ AddressAt(i) \in Address
           /\ AddressAt(i) = [nwkId |-> FirstAddress.nwkId,
                              nwkAddr |-> (FirstAddress.nwkAddr + (i - 1)) % AddrRange]
  <1> DEFINE id == FirstAddress.nwkId
             n == FirstAddress.nwkAddr
             k == i - 1
             r == (n + k) % AddrRange
  <1>1. id \in 0 .. IdRange - 1 /\ n \in Nat /\ id % IdRange = id
    BY First
  <1>2. k \in Nat
    OBVIOUS
  <1> HIDE DEF id, n, k
  <1>3. r \in 0 .. AddrRange - 1 /\ NwkAddr(n + k) = r
    <2>1. n + k \in Nat
      BY <1>1, <1>2
    <2>2. r \in 0 .. AddrRange - 1
      BY <2>1, Ranges, Divided
    <2>3. NwkAddr(n + k) = r
      BY Ranges DEF NwkAddr
    <2> HIDE DEF r
    <2> QED
      BY <2>2, <2>3
  <1> HIDE DEF r
  <1>4. AddressAt(i) = [nwkId |-> id, nwkAddr |-> r]
    BY <1>1, <1>3 DEF AddressAt, AddressOf, NwkID, id, n, k
  <1>5. [nwkId |-> id, nwkAddr |-> r] \in Address
    BY <1>1, <1>3 DEF Address
  <1> QED
    BY <1>4, <1>5 DEF id, r, n, k

(* The generator goes on to the next address, round the end of the network.   *)
LEMMA AddressFollows ==
    ASSUME NEW i \in Nat, i >= 1
    PROVE  AfterNextAddress(AddressAt(i)) = AddressAt(i + 1)
  <1> DEFINE id == FirstAddress.nwkId
             n == FirstAddress.nwkAddr
             k == i - 1
             r == (n + k) % AddrRange
             q == (n + (k + 1)) % AddrRange
  <1>1. id \in 0 .. IdRange - 1 /\ n \in Nat /\ id % IdRange = id
    BY First
  <1>2. AddressAt(i) = [nwkId |-> id, nwkAddr |-> r]
    BY AddressAtIs
  <1>3. AddressAt(i + 1) = [nwkId |-> id, nwkAddr |-> q]
    <2>1. i + 1 \in Nat /\ i + 1 >= 1 /\ (i + 1) - 1 = (i - 1) + 1
      OBVIOUS
    <2> QED
      BY <2>1, AddressAtIs
  <1>4. k \in Nat
    OBVIOUS
  <1> HIDE DEF id, n, k
  <1>5. (r + 1) % AddrRange = q
    BY <1>1, <1>4, AddressesWrap
  <1>6. NwkAddr(r + 1) = q
    <2> HIDE DEF r, q
    <2> QED
      BY <1>5, Ranges DEF NwkAddr
  <1> HIDE DEF r, q
  <1>7. AfterNextAddress(AddressAt(i)) = AddressOf(id, r + 1)
    BY <1>2 DEF AfterNextAddress
  <1>8. AddressOf(id, r + 1) = [nwkId |-> id, nwkAddr |-> q]
    BY <1>1, <1>6 DEF AddressOf, NwkID
  <1> QED
    BY <1>3, <1>7, <1>8

LEMMA AddressesDiffer ==
    ASSUME NEW i \in 1 .. AddrRange, NEW j \in 1 .. AddrRange, AddressAt(i) = AddressAt(j)
    PROVE  i = j
  <1> DEFINE n == FirstAddress.nwkAddr
             k == i - 1
             m == j - 1
  <1>1. n \in Nat
    BY First
  <1>2. i \in Nat /\ i >= 1 /\ j \in Nat /\ j >= 1
    BY Ranges
  <1>3. (n + k) % AddrRange = (n + m) % AddrRange
    BY <1>2, AddressAtIs
  <1>4. k \in 0 .. AddrRange - 1 /\ m \in 0 .. AddrRange - 1
    BY Ranges
  <1> HIDE DEF n, k, m
  <1>5. k = m
    BY <1>1, <1>3, <1>4, AddressesWrap
  <1> QED
    BY <1>2, <1>5 DEF k, m

LEMMA SameAddress ==
    ASSUME NEW a \in Address, NEW b \in Address
    PROVE  Equivalent(a, b) <=> a = b
  <1>1. /\ a.nwkId \in 0 .. IdRange - 1 /\ a.nwkAddr \in 0 .. AddrRange - 1
        /\ b.nwkId \in 0 .. IdRange - 1 /\ b.nwkAddr \in 0 .. AddrRange - 1
        /\ a = [nwkId |-> a.nwkId, nwkAddr |-> a.nwkAddr]
        /\ b = [nwkId |-> b.nwkId, nwkAddr |-> b.nwkAddr]
    BY AddressFields
  <1>2. /\ a.nwkId \in Int /\ a.nwkAddr \in Int /\ b.nwkId \in Int /\ b.nwkAddr \in Int
    BY <1>1
  <1>3. Equivalent(a, b) <=> a.nwkId = b.nwkId /\ a.nwkAddr = b.nwkAddr
    BY <1>2 DEF Equivalent, Less
  <1> QED
    BY <1>1, <1>3

LEMMA InitInv == Init => Inv
  <1> SUFFICES ASSUME Init PROVE Inv
    OBVIOUS
  <1>1. generator = AddressAt(Len(addresses) + 1)
    <2>1. generator = AddressOf(FirstAddress.nwkId, FirstAddress.nwkAddr)
      BY DEF Init, Generator
    <2>2. FirstAddress.nwkAddr + ((Len(addresses) + 1) - 1) = FirstAddress.nwkAddr
      BY First DEF Init
    <2> QED
      BY <2>1, <2>2, Zenon DEF AddressAt
  <1>2. Installed
    <2>1. addresses = <<>> /\ statuses = {} /\ Len(addresses) = 0
      BY DEF Init
    <2>2. addresses \in Seq(Address) /\ DOMAIN addresses = {} /\ 1 .. Len(addresses) = {}
      BY <2>1
    <2>3. Len(addresses) <= Devices
      BY <2>1, DevicesAssumption, Ranges
    <2> QED
      BY <1>1, <2>1, <2>2, <2>3 DEF Installed
  <1>3. Underway
    <2>1. sender = 0 /\ wire = <<>> /\ received = <<>> /\ Len(addresses) = 0
      BY DEF Init
    <2>2. macHdr \in MacHeader
      BY DEF Init, MacHeader
    <2> QED
      BY <2>1, <2>2 DEF Underway
  <1> QED
    BY <1>2, <1>3 DEF Inv

(* The device that is installed gets a status of its own.                     *)
LEMMA InstallInv == ASSUME Inv, Install PROVE Inv'
  <1> DEFINE n == Len(addresses)
             a == AddressAt(n + 1)
             next == Append(addresses, a)
  <1>1. /\ generator = a /\ addresses \in Seq(Address) /\ n \in Nat /\ n < Devices
        /\ \A i \in 1 .. n : addresses[i] = AddressAt(i)
        /\ statuses = DOMAIN addresses
    BY DEF Inv, Installed, Install
  <1>2. /\ addresses' = next /\ generator' = AfterNextAddress(a)
        /\ statuses' = IF Known(a) = {} THEN statuses \cup {n + 1} ELSE statuses
    BY <1>1 DEF Install, NextAddress, AddNode
  <1>3. sender = 0 /\ UNCHANGED <<sender, macHdr, frameHdr, wire, received>>
    BY DEF Install
  <1>4. n + 1 \in Nat /\ n + 1 >= 1 /\ n + 1 <= Devices /\ Devices <= AddrRange /\ Devices \in Nat
    BY <1>1, DevicesAssumption, Ranges
  <1>5. a \in Address
    BY <1>4, AddressAtIs
  <1>6. Known(a) = {}
    <2> SUFFICES ASSUME NEW d \in statuses, Equivalent(addresses[d], a) PROVE FALSE
      BY DEF Known
    <2>1. d \in 1 .. n /\ addresses[d] \in Address
      BY <1>1
    <2>2. addresses[d] = a
      BY <1>5, <2>1, SameAddress
    <2>3. AddressAt(d) = AddressAt(n + 1)
      BY <1>1, <2>1, <2>2
    <2>4. d \in 1 .. AddrRange /\ n + 1 \in 1 .. AddrRange
      BY <1>1, <1>4, <2>1, Ranges
    <2>5. d = n + 1
      BY <2>3, <2>4, AddressesDiffer
    <2> QED
      BY <1>1, <2>1, <2>5
  <1>7. /\ next \in Seq(Address) /\ Len(next) = n + 1 /\ next[n + 1] = a
        /\ \A i \in 1 .. n : next[i] = addresses[i]
    <2> HIDE DEF a
    <2> QED
      BY <1>1, <1>5
  <1>8. statuses' = 1 .. n + 1
    <2>1. statuses = 1 .. n
      BY <1>1
    <2>2. (1 .. n) \cup {n + 1} = 1 .. n + 1
      BY <1>1
    <2> QED
      BY <1>2, <1>6, <2>1, <2>2
  <1>9. generator' = AddressAt((n + 1) + 1)
    BY <1>2, <1>4, AddressFollows
  <1> HIDE DEF a, next
  <1>10. \A i \in 1 .. n + 1 : next[i] = AddressAt(i)
    <2> TAKE i \in 1 .. n + 1
    <2>1. CASE i \in 1 .. n
      BY <1>1, <1>7, <2>1
    <2>2. CASE i = n + 1
      BY <1>7, <2>2 DEF a
    <2> QED
      BY <1>1, <2>1, <2>2
  <1>11. Installed'
    <2>1. Len(next) = n + 1 /\ DOMAIN next = 1 .. n + 1
      BY <1>7
    <2> HIDE DEF n
    <2> QED
      BY <1>2, <1>4, <1>7, <1>8, <1>9, <1>10, <2>1 DEF Installed
  <1>12. Underway'
    <2>1. macHdr \in MacHeader /\ wire = <<>> /\ received = <<>>
      BY <1>3 DEF Inv, Underway
    <2>2. 0 \in 0 .. Len(addresses')
      BY <1>2, <1>4, <1>7
    <2> QED
      BY <1>3, <2>1, <2>2 DEF Underway
  <1> QED
    BY <1>11, <1>12 DEF Inv

LEMMA InstalledKept == ASSUME Inv, UNCHANGED <<generator, addresses, statuses>> PROVE Installed'
  BY DEF Inv, Installed

Empty(h, x) == h.address = x /\ h.commands = <<>> /\ h.fOptsLen = 0

LEMMA HeaderBegun ==
    ASSUME NEW up, NEW x \in Address, NEW adr \in BOOLEAN, NEW ack \in BOOLEAN,
           NEW fCnt \in 0 .. 2^16 - 1, NEW req \in BOOLEAN, NEW h,
           h = [FrameHeader0(up, x) EXCEPT !.fPort = 1, !.adr = adr, !.ack = ack,
                                           !.fCnt = fCnt, !.adrAckReq = req]
    PROVE  h \in Header(up) /\ Empty(h, x)
  <1> DEFINE N == 0 .. 2^16 - 1
             S == Seq(Written)
             F == [uplink : {up}, fPort : Byte, address : Address, adr : BOOLEAN,
                   adrAckReq : BOOLEAN, ack : BOOLEAN, fPending : BOOLEAN, fOptsLen : Nat,
                   fCnt : N, commands : S]
             f0 == FrameHeader0(up, x)
             f1 == [f0 EXCEPT !.fPort = 1]
             f2 == [f1 EXCEPT !.adr = adr]
             f3 == [f2 EXCEPT !.ack = ack]
             f4 == [f3 EXCEPT !.fCnt = fCnt]
             f5 == [f4 EXCEPT !.adrAckReq = req]
  <1>6. <<>> \in S /\ 0 \in N /\ 0 \in Byte /\ 1 \in Byte
    BY Powers, SMT DEF Byte
  <1>7. Header(up) = F
    BY DEF Header
  <1>8. h = f5
    OBVIOUS
  <1>9. fCnt \in N
    OBVIOUS
  <1> HIDE DEF N, S, f5, f4, f3, f2, f1
  <1>0. f0 \in F /\ Empty(f0, x)
    BY <1>6 DEF FrameHeader0, Empty
  <1> HIDE DEF f0
  <1>1. f1 \in F /\ Empty(f1, x)
    BY <1>0, <1>6 DEF Empty, f1
  <1>2. f2 \in F /\ Empty(f2, x)
    BY <1>1 DEF Empty, f2
  <1>3. f3 \in F /\ Empty(f3, x)
    BY <1>2 DEF Empty, f3
  <1>4. f4 \in F /\ Empty(f4, x)
    BY <1>3, <1>9 DEF Empty, f4
  <1>5. f5 \in F /\ Empty(f5, x)
    BY <1>4 DEF Empty, f5
  <1> HIDE DEF F
  <1> QED
    BY <1>5, <1>7, <1>8, Zenon

(* A header begins without commands.                                          *)
LEMMA BeginInv == ASSUME Inv, Begin PROVE Inv'
  <1>1. PICK d \in DOMAIN addresses, ack \in BOOLEAN, adr \in BOOLEAN, fCnt \in FrameCounters,
             mtype \in {UNCONFIRMED_DATA_UP, CONFIRMED_DATA_UP, UNCONFIRMED_DATA_DOWN} :
             /\ sender' = d
             /\ macHdr' = [mtype |-> mtype, major |-> 1]
             /\ frameHdr' = [FrameHeader0(IsUplink(macHdr'), addresses[d]) EXCEPT
                               !.fPort = 1, !.adr = adr, !.ack = ack, !.fCnt = fCnt,
                               !.adrAckReq = adr /\ IsUplink(macHdr')]
    BY DEF Begin
  <1>2. sender = 0 /\ UNCHANGED <<generator, addresses, statuses, wire, received>>
    BY DEF Begin
  <1>3. wire = <<>> /\ received = <<>>
    BY <1>2 DEF Inv, Underway
  <1>4. addresses \in Seq(Address)
    BY DEF Inv, Installed
  <1>5. d \in 1 .. Len(addresses) /\ addresses[d] \in Address
    BY <1>4
  <1>6. macHdr' \in MacHeader
    BY <1>1 DEF MacHeader
  <1> DEFINE up == IsUplink(macHdr')
             h == frameHdr'
             req == adr /\ up
  <1>7. up \in BOOLEAN /\ req \in BOOLEAN
    BY DEF IsUplink
  <1>8. fCnt \in 0 .. 2^16 - 1
    BY FrameCountersAssumption
  <1> DEFINE x == addresses[d]
  <1>9. h = [FrameHeader0(up, x) EXCEPT !.fPort = 1, !.adr = adr, !.ack = ack,
                                        !.fCnt = fCnt, !.adrAckReq = req]
    BY <1>1, Zenon
  <1>10. <<>> \in Seq(Added(up)) /\ Len(<<>>) = 0
    OBVIOUS
  <1> HIDE DEF h, req, x, up
  <1>11. x \in Address
    BY <1>5 DEF x
  <1>12. h \in Header(up) /\ Empty(h, x)
    BY <1>7, <1>8, <1>9, <1>11, HeaderBegun
  <1>13. Len(FOptsBytes(<<>>)) = 0 /\ MaxCommands \in Nat
    BY BytesOfNone, MaxCommandsAssumption
  <1>14. Begun(macHdr', h, x)
    <2>1. h.commands \in Seq(Added(up)) /\ Len(h.commands) <= MaxCommands
      BY <1>10, <1>12, <1>13 DEF Empty
    <2>2. h.fOptsLen = Len(FOptsBytes(h.commands)) % 256
      BY <1>12, <1>13 DEF Empty
    <2>3. Len(FOptsBytes(h.commands)) <= 6 * Len(h.commands)
      BY <1>10, <1>12, <1>13 DEF Empty
    <2> QED
      BY <1>6, <1>12, <2>1, <2>2, <2>3, Zenon DEF Begun, up, Empty
  <1>15. Underway'
    <2>1. sender' \in 0 .. Len(addresses')
      BY <1>1, <1>2, <1>4, <1>5
    <2>2. Begun(macHdr', frameHdr', addresses'[sender'])
      BY <1>1, <1>2, <1>14, Zenon DEF h, x
    <2>3. wire' = <<>> /\ received' = <<>>
      BY <1>2, <1>3
    <2> QED
      BY <1>6, <2>1, <2>2, <2>3, Zenon DEF Underway
  <1>16. Installed'
    BY <1>2, InstalledKept
  <1> QED
    BY <1>15, <1>16 DEF Inv

LEMMA Longer ==
    ASSUME NEW S, NEW s \in Seq(S), NEW c \in S
    PROVE  Append(s, c) \in Seq(S) /\ Len(Append(s, c)) = Len(s) + 1
  OBVIOUS

(* One command more, and its bytes behind those of the others.                *)
LEMMA AddCommandKeeps ==
    ASSUME NEW m, NEW h, NEW x, Begun(m, h, x), Len(h.commands) < MaxCommands,
           NEW c \in Added(IsUplink(m)), NEW g, g = AddCommand(h, c)
    PROVE  Begun(m, g, x)
  <1> DEFINE up == IsUplink(m)
             size == SerializedSize(c.type)
             N == 0 .. 2^16 - 1
             S == Seq(Written)
             F == [uplink : {up}, fPort : Byte, address : Address, adr : BOOLEAN,
                   adrAckReq : BOOLEAN, ack : BOOLEAN, fPending : BOOLEAN, fOptsLen : Nat,
                   fCnt : N, commands : S]
             cs == Append(h.commands, c)
             total == (h.fOptsLen + size) % 256
             f == [h EXCEPT !.commands = cs]
             sum == (f.fOptsLen + size) % 256
  <1>1. /\ m \in MacHeader /\ h \in F /\ h.address = x
        /\ h.commands \in Seq(Added(up)) /\ Len(h.commands) <= MaxCommands
        /\ h.fOptsLen = Len(FOptsBytes(h.commands)) % 256
        /\ Len(FOptsBytes(h.commands)) <= 6 * Len(h.commands)
    BY Zenon DEF Begun, Header
  <1>2. up \in BOOLEAN
    BY DEF IsUplink
  <1>3. c \in Written /\ Len(WriteCommand(c)) = size
    BY <1>2, AddedIsWritten, Zenon
  <1>4. h.commands \in S
    BY <1>1
  <1>5. cs \in S /\ cs \in Seq(Added(up)) /\ Len(cs) = Len(h.commands) + 1
    <2>1. cs \in S
      BY <1>3, <1>4, Longer
    <2>2. h.commands \in Seq(Added(up)) /\ c \in Added(up)
      BY <1>1
    <2> QED
      BY <2>1, <2>2, Longer
  <1>6. /\ FOptsBytes(h.commands) \in Seq(Byte)
        /\ FOptsBytes(cs) = FOptsBytes(h.commands) \o WriteCommand(c)
    BY <1>3, <1>4, BytesOfMore
  <1>7. size \in 1 .. 6
    BY Sizes
  <1>8. Len(FOptsBytes(cs)) = Len(FOptsBytes(h.commands)) + size
    <2>1. WriteCommand(c) \in Seq(Byte)
      BY <1>3 DEF Written
    <2> DEFINE p == FOptsBytes(h.commands)
               q == WriteCommand(c)
               r == FOptsBytes(cs)
    <2>2. p \in Seq(Byte) /\ q \in Seq(Byte) /\ r = p \o q /\ Len(q) = size
      BY <1>3, <1>6, <2>1, Zenon
    <2> HIDE DEF p, q, r, size
    <2>3. Len(p \o q) = Len(p) + Len(q)
      BY <2>2, JoinAll DEF Joins
    <2>4. Len(r) = Len(p) + size
      BY <2>2, <2>3, Zenon
    <2> QED
      BY <2>4 DEF p, r
  <1>9. g = [f EXCEPT !.fOptsLen = sum]
    BY Zenon DEF AddCommand
  <1> DEFINE l == Len(FOptsBytes(h.commands))
             k == Len(FOptsBytes(cs))
  <1>10. l \in Nat /\ k = l + size /\ h.fOptsLen = l % 256 /\ l <= 6 * Len(h.commands)
    <2>1. l \in Nat
      BY <1>6
    <2>2. h.fOptsLen = l % 256 /\ l <= 6 * Len(h.commands)
      BY <1>1, Zenon
    <2> QED
      BY <1>8, <2>1, <2>2, Zenon
  <1>11. total = k % 256 /\ total \in Nat
    <2>1. total = (h.fOptsLen + size) % 256
      OBVIOUS
    <2> HIDE DEF l, k, size, total
    <2> QED
      BY <1>7, <1>10, <2>1, SMT
  <1>12. k <= 6 * Len(cs)
    <2>1. Len(h.commands) \in Nat
      BY <1>4
    <2> HIDE DEF l, k, size, cs
    <2> QED
      BY <1>5, <1>7, <1>10, <2>1
  <1> HIDE DEF cs, S, N, l, f, size
  <1>13. f \in F /\ f.address = x /\ f.commands = cs /\ f.fOptsLen = h.fOptsLen
    BY <1>1, <1>5 DEF f
  <1>17. sum = total
    BY <1>13
  <1> HIDE DEF total, sum
  <1>14. g \in F /\ g.address = x /\ g.commands = cs /\ g.fOptsLen = total
    BY <1>9, <1>11, <1>13, <1>17
  <1> HIDE DEF F
  <1>15. g \in Header(up)
    BY <1>14 DEF Header, F, N, S
  <1>16. Len(h.commands) \in Nat /\ Len(cs) <= MaxCommands
    BY <1>4, <1>5, MaxCommandsAssumption DEF S
  <1> QED
    BY <1>1, <1>5, <1>11, <1>12, <1>14, <1>15, <1>16, Zenon DEF Begun

LEMMA AddInv == ASSUME Inv, Add PROVE Inv'
  <1>1. /\ sender # 0 /\ wire = <<>> /\ Len(frameHdr.commands) < MaxCommands
        /\ UNCHANGED <<generator, addresses, statuses, sender, macHdr, wire, received>>
    BY DEF Add
  <1>2. frameHdr' \in IF IsUplink(macHdr) THEN UplinkAdded(frameHdr) ELSE DownlinkAdded(frameHdr)
    BY Zenon DEF Add
  <1>3. /\ sender \in 0 .. Len(addresses) /\ macHdr \in MacHeader /\ received = <<>>
        /\ Begun(macHdr, frameHdr, addresses[sender])
    BY <1>1 DEF Inv, Underway
  <1>4. \E c \in Added(IsUplink(macHdr)) : frameHdr' = AddCommand(frameHdr, c)
    <2>1. CASE IsUplink(macHdr)
      <3>1. frameHdr' \in UplinkAdded(frameHdr) /\ IsUplink(macHdr) = TRUE
        BY <1>2, <2>1
      <3> QED
        BY <3>1, UplinkGiven, Zenon
    <2>2. CASE ~IsUplink(macHdr)
      <3>1. frameHdr' \in DownlinkAdded(frameHdr)
        BY <1>2, <2>2, Zenon
      <3>2. IsUplink(macHdr) = FALSE
        BY <2>2 DEF IsUplink
      <3> QED
        BY <3>1, <3>2, DownlinkGiven, Zenon
    <2> QED
      BY <2>1, <2>2
  <1>5. Begun(macHdr, frameHdr', addresses[sender])
    BY <1>1, <1>3, <1>4, AddCommandKeeps, Zenon
  <1>6. Underway'
    BY <1>1, <1>3, <1>5, Zenon DEF Underway
  <1> QED
    BY <1>1, <1>6, InstalledKept DEF Inv

LEMMA SendInv == ASSUME Inv, Send PROVE Inv'
  <1>1. /\ sender # 0 /\ wire = <<>> /\ wire' = Packet(macHdr, frameHdr)
        /\ UNCHANGED <<generator, addresses, statuses, sender, macHdr, frameHdr, received>>
    BY Zenon DEF Send, Packet
  <1>2. received = <<>>
    BY <1>1, Zenon DEF Inv, Underway
  <1>3. Underway'
    BY <1>1, <1>2, Zenon DEF Inv, Underway
  <1> QED
    BY <1>1, <1>3, InstalledKept DEF Inv

LEMMA ReceiveInv == ASSUME Inv, Receive PROVE Inv'
  <1>1. /\ wire # <<>> /\ received = <<>>
        /\ UNCHANGED <<generator, addresses, statuses, sender, macHdr, frameHdr, wire>>
    BY DEF Receive
  <1>2. \E direction \in BOOLEAN : received' = <<Made(wire, direction)>>
    BY Zenon DEF Receive, Made
  <1>3. sender # 0
    BY <1>1, Zenon DEF Inv, Underway
  <1>4. Underway'
    BY <1>1, <1>2, <1>3, Zenon DEF Inv, Underway
  <1> QED
    BY <1>1, <1>4, InstalledKept DEF Inv

LEMMA FinishInv == ASSUME Inv, Finish PROVE Inv'
  <1>1. /\ sender' = 0 /\ wire' = <<>> /\ received' = <<>>
        /\ UNCHANGED <<generator, addresses, statuses, macHdr>>
    BY DEF Finish
  <1>2. 0 \in 0 .. Len(addresses)
    BY DEF Inv, Installed
  <1>3. Underway'
    BY <1>1, <1>2, Zenon DEF Inv, Underway
  <1> QED
    BY <1>1, <1>3, InstalledKept DEF Inv

(* The invariant that the theorems rest on.                                   *)
THEOREM Invariance == Spec => []Inv
  <1>1. Inv /\ [Next]_vars => Inv'
    <2> SUFFICES ASSUME Inv, [Next]_vars PROVE Inv'
      OBVIOUS
    <2>1. CASE UNCHANGED vars
      <3>1. UNCHANGED <<generator, addresses, statuses, sender, macHdr, frameHdr, wire, received>>
        BY <2>1 DEF vars
      <3>2. Installed'
        BY <3>1, InstalledKept
      <3>3. Underway'
        BY <3>1, Zenon DEF Inv, Underway
      <3> QED
        BY <3>2, <3>3 DEF Inv
    <2> QED
      BY <2>1, InstallInv, BeginInv, AddInv, SendInv, ReceiveInv, FinishInv, Zenon DEF Next
  <1> QED
    BY <1>1, InitInv, PTL DEF Spec

LEMMA PacketRead ==
    \A m \in MacHeader, uplink \in BOOLEAN : \A h \in Header(uplink) :
        /\ Packet(m, h) \in Seq(Byte) /\ ReadMacHeader(Packet(m, h)) = m
        /\ Carries(Tail(Packet(m, h)), h, Payload)
  <1> TAKE m \in MacHeader, uplink \in BOOLEAN
  <1> TAKE h \in Header(uplink)
  <1> DEFINE R == Reverse(AddressBytes(h.address))
             O == FOptsBytes(h.commands)
             C == FBytes(h)
             p == h.fPort
             f == WriteFrameHeader(h)
             w == WriteMacHeader(m)
             b == Packet(m, h)
  <1>1. O \in Seq(Byte)
    BY HeaderFields, BytesInBytes
  <1>2. LaidOut(f, R, C, O, p, <<>>)
    BY FrameWritten DEF Carries
  <1>3. w \in Seq(Byte) /\ Len(w) = 1
    BY MacHeaderTravels
  <1>9. \A x : x[1] = w[1] => ReadMacHeader(x) = m
    BY MacHeaderTravels
  <1> HIDE DEF R, O, C, p, f, w
  <1>4. b = w \o f \o Payload
    BY Zenon DEF w, f, Packet
  <1>6. /\ b \in Seq(Byte) /\ b # <<>> /\ b[1] = w[1] /\ LaidOut(Tail(b), R, C, O, p, Payload)
    BY <1>1, <1>2, <1>3, <1>4, PayloadAssumption, PacketLaidOut
  <1>7. ReadMacHeader(b) = m
    BY <1>9, <1>6, Zenon
  <1>8. Carries(Tail(b), h, Payload)
    BY <1>6, Zenon DEF Carries, R, O, C, p
  <1> QED
    BY <1>6, <1>7, <1>8

LEMMA PacketOf ==
    ASSUME Inv, wire # <<>>
    PROVE  /\ sender \in 1 .. Len(addresses) /\ Begun(macHdr, frameHdr, addresses[sender])
           /\ IsUplink(macHdr) \in BOOLEAN
           /\ wire \in Seq(Byte) /\ ReadMacHeader(wire) = macHdr
           /\ Carries(Tail(wire), frameHdr, Payload)
  <1>1. sender # 0 /\ sender \in 0 .. Len(addresses) /\ wire = Packet(macHdr, frameHdr)
    BY Zenon DEF Inv, Underway
  <1>2. Begun(macHdr, frameHdr, addresses[sender])
    BY <1>1, Zenon DEF Inv, Underway
  <1>3. sender \in 1 .. Len(addresses)
    BY <1>1 DEF Inv, Installed
  <1> DEFINE up == IsUplink(macHdr)
  <1>4. macHdr \in MacHeader /\ frameHdr \in Header(up)
    BY <1>2, Zenon DEF Begun
  <1>5. up \in BOOLEAN
    BY DEF IsUplink
  <1>6. wire = Packet(macHdr, frameHdr)
    BY <1>1
  <1> HIDE DEF up
  <1>7. wire \in Seq(Byte) /\ ReadMacHeader(wire) = macHdr /\ Carries(Tail(wire), frameHdr, Payload)
    BY <1>4, <1>5, <1>6, PacketRead, Zenon
  <1> QED
    BY <1>2, <1>3, <1>5, <1>7 DEF up

(* What the receiver made of it.                                              *)
LEMMA MadeOf ==
    ASSUME Inv, received # <<>>
    PROVE  /\ wire # <<>> /\ Len(received) = 1
           /\ received[1].mac = ReadMacHeader(wire)
           /\ received[1].frame = ReadFrameHeader(Tail(wire), IsUplink(macHdr))
           /\ received[1].payload
                = SubSeq(Tail(wire), FrameHeaderSize(received[1].frame) + 1, Len(Tail(wire)))
           /\ \E direction \in BOOLEAN :
                received[1].lookup = ReadFrameHeader(Tail(wire), direction)
  <1>1. wire # <<>>
    BY Zenon DEF Inv, Underway
  <1>2. PICK direction \in BOOLEAN : received = <<Made(wire, direction)>>
    BY Zenon DEF Inv, Underway
  <1> DEFINE r == Made(wire, direction)
             h == ReadFrameHeader(Tail(wire), IsUplink(ReadMacHeader(wire)))
  <1>3. /\ r.mac = ReadMacHeader(wire) /\ r.frame = h
        /\ r.payload = SubSeq(Tail(wire), FrameHeaderSize(h) + 1, Len(Tail(wire)))
        /\ r.lookup = ReadFrameHeader(Tail(wire), direction)
    BY DEF Made
  <1>4. ReadMacHeader(wire) = macHdr
    BY <1>1, PacketOf
  <1> HIDE DEF r
  <1>5. received[1] = r /\ Len(received) = 1
    BY <1>2 DEF r
  <1> HIDE DEF h
  <1>6. h = ReadFrameHeader(Tail(wire), IsUplink(macHdr))
    BY <1>4, Zenon DEF h
  <1> QED
    BY <1>1, <1>3, <1>5, <1>6, Zenon

(* The types of the variables.                                                *)
THEOREM TypesKept == Spec => []TypeOK
  <1>1. Inv => TypeOK
    <2> SUFFICES ASSUME Inv PROVE TypeOK
      OBVIOUS
    <2>1. /\ addresses \in Seq(Address) /\ Len(addresses) <= Devices /\ statuses = DOMAIN addresses
          /\ generator = AddressAt(Len(addresses) + 1)
      BY DEF Inv, Installed
    <2>2. generator \in Address
      <3>1. Len(addresses) + 1 \in Nat /\ Len(addresses) + 1 >= 1
        BY <2>1
      <3> QED
        BY <2>1, <3>1, AddressAtIs
    <2>3. sender \in 0 .. Len(addresses) /\ macHdr \in MacHeader
      BY Zenon DEF Inv, Underway
    <2>4. wire \in Seq(Byte)
      <3>1. CASE wire = <<>>
        BY <3>1
      <3>2. CASE wire # <<>>
        BY <3>2, PacketOf
      <3> QED
        BY <3>1, <3>2
    <2>5. Len(received) <= 1
      <3>1. CASE received = <<>>
        BY <3>1
      <3>2. CASE received # <<>>
        <4>1. Len(received) = 1
          BY <3>2, MadeOf
        <4> QED
          BY <4>1
      <3> QED
        BY <3>1, <3>2
    <2> QED
      BY <2>1, <2>2, <2>3, <2>4, <2>5 DEF TypeOK
  <1> QED
    BY <1>1, Invariance, PTL

(* For any number of devices up to the 2^25 addresses of a network, wherever  *)
(* the first address is, however many commands a header has and whatever      *)
(* table they are looked up with: the address of the packet finds the status  *)
(* of its device and no other.                                                *)
THEOREM OwnerIsFound == Spec => []OneOwner
  <1>1. Inv => OneOwner
    <2> SUFFICES ASSUME Inv, received # <<>>
                 PROVE  Known(received[1].lookup.address) = {sender}
      BY DEF OneOwner
    <2>1. wire # <<>>
      BY MadeOf
    <2>2. PICK direction \in BOOLEAN : received[1].lookup = ReadFrameHeader(Tail(wire), direction)
      BY MadeOf
    <2> DEFINE up == IsUplink(macHdr)
    <2>3. /\ sender \in 1 .. Len(addresses) /\ Begun(macHdr, frameHdr, addresses[sender])
          /\ up \in BOOLEAN /\ Carries(Tail(wire), frameHdr, Payload)
      BY <2>1, PacketOf
    <2>4. frameHdr \in Header(up) /\ frameHdr.address = addresses[sender]
      BY <2>3, Zenon DEF Begun
    <2> HIDE DEF up
    <2>5. ReadFrameHeader(Tail(wire), direction).address = frameHdr.address
      BY <2>3, <2>4, PayloadAssumption, AddressRead
    <2>6. received[1].lookup.address = addresses[sender]
      BY <2>2, <2>4, <2>5, Zenon
    <2>7. /\ addresses \in Seq(Address) /\ Len(addresses) <= Devices
          /\ \A i \in 1 .. Len(addresses) : addresses[i] = AddressAt(i)
          /\ statuses = 1 .. Len(addresses)
      BY DEF Inv, Installed
    <2>8. \A d \in 1 .. Len(addresses) : d \in 1 .. AddrRange
      BY <2>7, DevicesAssumption, Ranges
    <2>9. ASSUME NEW d \in statuses PROVE Equivalent(addresses[d], addresses[sender]) <=> d = sender
      <3>1. d \in 1 .. Len(addresses) /\ addresses[d] \in Address /\ addresses[sender] \in Address
        BY <2>3, <2>7
      <3>2. Equivalent(addresses[d], addresses[sender]) <=> addresses[d] = addresses[sender]
        BY <3>1, SameAddress
      <3>3. addresses[d] = addresses[sender] => d = sender
        <4> SUFFICES ASSUME addresses[d] = addresses[sender] PROVE d = sender
          OBVIOUS
        <4>1. AddressAt(d) = AddressAt(sender)
          BY <2>3, <2>7, <3>1
        <4> QED
          BY <2>3, <2>8, <3>1, <4>1, AddressesDiffer
      <3> QED
        BY <3>2, <3>3
    <2>10. Known(addresses[sender]) = {sender}
      BY <2>3, <2>7, <2>9, Zenon DEF Known
    <2> QED
      BY <2>6, <2>10, Zenon
  <1> QED
    BY <1>1, Invariance, PTL

(* A device adds none of the three answers whose constructor names the type   *)
(* of another command (DeviceCommands has no handler for them).  With such    *)
(* answers, whatever the number of commands, their bytes and those of the     *)
(* payload, the receiver runs none that was not sent and reads no further.    *)
THEOREM NoneIsInvented ==
    ASSUME Answers \subseteq UplinkRead
    PROVE  Spec => []NothingInvented
  <1>1. Inv => NothingInvented
    <2> SUFFICES ASSUME Inv, received # <<>>
                 PROVE  IsPrefix(received[1].frame.commands, frameHdr.commands)
      BY DEF NothingInvented
    <2> DEFINE up == IsUplink(macHdr)
               cs == frameHdr.commands
               read == received[1].frame.commands
    <2>1. wire # <<>> /\ received[1].frame = ReadFrameHeader(Tail(wire), up)
      BY MadeOf
    <2>2. /\ Begun(macHdr, frameHdr, addresses[sender])
          /\ up \in BOOLEAN /\ Carries(Tail(wire), frameHdr, Payload)
      BY <2>1, PacketOf
    <2>3. /\ frameHdr \in Header(up) /\ cs \in Seq(Added(up))
          /\ frameHdr.fOptsLen = Len(FOptsBytes(cs)) % 256
      BY <2>2, Zenon DEF Begun
    <2>4. Added(up) = Commands(up)
      BY DEF Added, Commands
    <2>5. cs \in Seq(Commands(up))
      BY <2>3, <2>4, Zenon
    <2> HIDE DEF up
    <2>6. \E m \in 0 .. Len(cs) : ReadFrameHeader(Tail(wire), up).commands = SubSeq(cs, 1, m)
      BY <2>2, <2>3, <2>5, PayloadAssumption, PrefixRead
    <2>7. PICK m \in 0 .. Len(cs) : read = SubSeq(cs, 1, m)
      BY <2>1, <2>6, Zenon
    <2> HIDE DEF cs, read
    <2>8. Len(read) = m /\ m <= Len(cs) /\ \A i \in 1 .. Len(read) : read[i] = cs[i]
      BY <2>5, <2>7
    <2>9. IsPrefix(read, cs)
      BY <2>5, <2>7, <2>8 DEF IsPrefix
    <2> QED
      BY <2>9 DEF read, cs
  <1> QED
    BY <1>1, Invariance, PTL

(* MAC commands of at most 15 bytes, every other field and the payload come   *)
(* out as they went in.  fOptsLen is the number of those bytes as long as it  *)
(* has not come round at 256, hence the bound on the commands of a header.    *)
THEOREM PacketsComeThrough ==
    ASSUME Answers \subseteq UplinkRead, 6 * MaxCommands < 256
    PROVE  Spec => []RoundTrip
  <1>1. Inv => RoundTrip
    <2> SUFFICES ASSUME Inv, received # <<>>, frameHdr.fOptsLen <= 15
                 PROVE  /\ received[1].mac = macHdr /\ received[1].frame = frameHdr
                        /\ received[1].payload = Payload
      BY DEF RoundTrip
    <2> DEFINE up == IsUplink(macHdr)
               cs == frameHdr.commands
               l == Len(FOptsBytes(cs))
    <2>1. /\ wire # <<>> /\ received[1].frame = ReadFrameHeader(Tail(wire), up)
          /\ received[1].mac = ReadMacHeader(wire)
      BY MadeOf
    <2>2. received[1].payload
            = SubSeq(Tail(wire), FrameHeaderSize(received[1].frame) + 1, Len(Tail(wire)))
      BY MadeOf
    <2>3. /\ Begun(macHdr, frameHdr, addresses[sender]) /\ ReadMacHeader(wire) = macHdr
          /\ up \in BOOLEAN /\ Carries(Tail(wire), frameHdr, Payload)
      BY <2>1, PacketOf
    <2>4. /\ frameHdr \in Header(up) /\ cs \in Seq(Added(up)) /\ Len(cs) <= MaxCommands
          /\ frameHdr.fOptsLen = l % 256 /\ l <= 6 * Len(cs)
      BY <2>3, Zenon DEF Begun
    <2>5. Added(up) = Commands(up)
      BY DEF Added, Commands
    <2>6. cs \in Seq(Commands(up)) /\ cs \in Seq(Written)
      BY <2>4, <2>5, HeaderFields, <2>3
    <2>7. l \in Nat
      <3>1. FOptsBytes(cs) \in Seq(Byte)
        BY <2>6, BytesInBytes
      <3> QED
        BY <3>1
    <2>8. frameHdr.fOptsLen = l
      <3> DEFINE n == frameHdr.fOptsLen
                 k == Len(cs)
      <3>1. k \in Nat /\ k <= MaxCommands /\ n = l % 256 /\ l <= 6 * k /\ MaxCommands \in Nat
        BY <2>4, <2>6, MaxCommandsAssumption
      <3> HIDE DEF n, k, l
      <3>2. n = l
        BY <2>7, <3>1, SMT
      <3> QED
        BY <3>2 DEF n
    <2> HIDE DEF up
    <2>9. /\ ReadFrameHeader(Tail(wire), up) = frameHdr
          /\ SubSeq(Tail(wire), FrameHeaderSize(frameHdr) + 1, Len(Tail(wire))) = Payload
      <3> DEFINE rest == Tail(wire)
                 h == frameHdr
      <3>1. up \in BOOLEAN /\ h \in Header(up) /\ Carries(rest, h, Payload)
        BY <2>3, <2>4
      <3>2. h.commands \in Seq(Commands(up)) /\ h.fOptsLen = Len(FOptsBytes(h.commands))
        BY <2>6, <2>8
      <3>3. h.fOptsLen <= 15
        OBVIOUS
      <3> HIDE DEF rest, h
      <3>4. ReadFrameHeader(rest, up) = h /\ SubSeq(rest, FrameHeaderSize(h) + 1, Len(rest)) = Payload
        BY <3>1, <3>2, <3>3, PayloadAssumption, WholeRead
      <3> QED
        BY <3>4 DEF rest, h
    <2> QED
      BY <2>1, <2>2, <2>3, <2>9, Zenon
  <1> QED
    BY <1>1, Invariance, PTL
==============================================================================
