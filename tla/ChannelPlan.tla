----------------------------- MODULE ChannelPlan -----------------------------
(* The logical channels of a device or gateway, the sub-bands they lie in and *)
(* the tables of a region: SubBand, LogicalLoraChannel,                       *)
(* LogicalLoraChannelHelper, the look-ups of LorawanMac and the parameters    *)
(* that LorawanMacHelper gives every MAC.  Frequencies are in Hz, powers in   *)
(* dBm, times in ticks; a duty cycle of 1/n is kept as n.                     *)
EXTENDS Integers, Sequences, FiniteSetsExt

\* The first element of a std::vector has index 0.
At(vector, i) == vector[i + 1]
Throws(vector, i) == i >= Len(vector)          \* vector::at(i)

------------------------------------------------------------------------------
(* Sub-bands: both ends are outside.                                          *)
SubBand(first, last, dutyInverse, maxTxPower) ==
    [first |-> first, last |-> last, dutyInverse |-> dutyInverse, maxTxPower |-> maxTxPower]
ContainsFrequency(band, frequency) == frequency > band.first /\ frequency < band.last

(* GetSubBandFromFrequency: the index of the first one that contains the      *)
(* frequency; OutOfBand stands for the null pointer.                          *)
OutOfBand == 0
BandsOf(bands, frequency) == {b \in DOMAIN bands : ContainsFrequency(bands[b], frequency)}
GetSubBandFromFrequency(bands, frequency) ==
    IF BandsOf(bands, frequency) = {} THEN OutOfBand ELSE Min(BandsOf(bands, frequency))
IsFrequencyValid(bands, frequency) == GetSubBandFromFrequency(bands, frequency) # OutOfBand
GetTxPowerForChannel(bands, frequency) ==
    bands[GetSubBandFromFrequency(bands, frequency)].maxTxPower

(* next[b] is the m_nextTransmissionTime of the sub-band with index b.        *)
GetWaitTime(bands, next, frequency, now) ==
    Max({next[GetSubBandFromFrequency(bands, frequency)] - now, 0})
AddEvent(bands, next, frequency, now, duration) ==
    LET b == GetSubBandFromFrequency(bands, frequency)
    IN  [next EXCEPT ![b] = now + duration * bands[b].dutyInverse]

------------------------------------------------------------------------------
(* Channels: a function on the slots in use, out of those the region has.     *)
LogicalChannel(frequency, minDr, maxDr) ==
    [frequency |-> frequency, minDr |-> minDr, maxDr |-> maxDr, enabled |-> TRUE]
Exists(channels, i) == i \in DOMAIN channels
SetChannel(channels, i, channel) ==
    [j \in DOMAIN channels \cup {i} |-> IF j = i THEN channel ELSE channels[j]]

(* Each existing channel is enabled or disabled by a mask, a set of indices;  *)
(* in the mutant the wrong way round.                                         *)
SwappedMask(channels, mask) ==
    [i \in DOMAIN channels |-> [channels[i] EXCEPT !.enabled = i \notin mask]]
ApplyMask(channels, mask) == [i \in DOMAIN channels |-> [channels[i] EXCEPT !.enabled = i \in mask]]

Supports(channel, dr) == channel.minDr <= dr /\ dr <= channel.maxDr

(* Enabled channels for a data rate and a power, as their indices.            *)
GetCompatibleTxChannels(channels, bands, dr, power) ==
    {i \in DOMAIN channels : /\ channels[i].enabled
                             /\ Supports(channels[i], dr)
                             /\ power <= GetTxPowerForChannel(bands, channels[i].frequency)}

(* An enabled channel whose frequency lies in no sub-band: the assertion of   *)
(* GetTxPowerForChannel stops the program.                                    *)
AssertsInBand(channels, bands) ==
    \E i \in DOMAIN channels :
        channels[i].enabled /\ ~IsFrequencyValid(bands, channels[i].frequency)

------------------------------------------------------------------------------
(* The tables of a region.  0 and -1 are the code's own words for "no".       *)
SfForDataRate == <<12, 11, 10, 9, 8, 7, 7>>
BandwidthForDataRate == <<125000, 125000, 125000, 125000, 125000, 125000, 250000>>
MaxMacPayloadForDataRate == <<59, 59, 59, 123, 230, 230, 230, 230>>
TxDbmForTxPower == <<14, 12, 10, 8, 6, 4, 2, 0>>
ReplyDataRateMatrix ==
    [dr \in 0 .. 7 |-> [offset \in 0 .. 5 |-> Max({dr - offset, 0})]]

GetSfFromDataRate(dr) == IF Throws(SfForDataRate, dr) THEN 0 ELSE At(SfForDataRate, dr)

(* The test lets the size of the table pass, and vector::at throws.           *)
BandwidthThrows(dr) == dr = Len(BandwidthForDataRate)
GetBandwidthFromDataRate(dr) ==
    IF dr > Len(BandwidthForDataRate) THEN 0 ELSE At(BandwidthForDataRate, dr)
ValidDataRate(dr) == GetSfFromDataRate(dr) # 0 /\ GetBandwidthFromDataRate(dr) # 0

GetDbmForTxPower(index) ==
    IF Throws(TxDbmForTxPower, index) THEN -1 ELSE At(TxDbmForTxPower, index)

(* The sub-bands and the channels a device starts with.                       *)
Regions == {"ALOHA", "EU", "SingleChannel"}
AlohaBands == <<SubBand(868000000, 868600000, 1, 14)>>
AlohaChannels == [i \in {0} |-> LogicalChannel(868100000, 0, 5)]

EuBands == <<SubBand(863000000, 865000000, 1000, 14), SubBand(865000000, 868000000, 100, 14),
             SubBand(868000000, 868600000, 100, 14), SubBand(868700000, 869200000, 1000, 14),
             SubBand(869400000, 869650000, 10, 27), SubBand(869700000, 870000000, 100, 14)>>
EuChannels == [i \in 0 .. 2 |-> LogicalChannel(868100000 + 200000 * i, 0, 5)]

SingleChannelBands == <<SubBand(868000000, 868600000, 100, 14)>>
SingleChannelChannels == AlohaChannels

Bands(region) == CASE region = "ALOHA" -> AlohaBands
                   [] region = "EU" -> EuBands
                   [] region = "SingleChannel" -> SingleChannelBands
Channels(region) == CASE region = "ALOHA" -> AlohaChannels
                      [] region = "EU" -> EuChannels
                      [] region = "SingleChannel" -> SingleChannelChannels
Slots(region) == 0 .. (IF region = "EU" THEN 15 ELSE 0)

(* A gateway of the single-channel region has the sub-bands of EU.  In ALOHA  *)
(* it has none for the frequency of the second window below.                  *)
GatewayBands(region) == IF region = "ALOHA" THEN AlohaBands ELSE EuBands

\* The second receive window of every region.
SecondWindowDataRate == 0
SecondWindowFrequency == 869525000

------------------------------------------------------------------------------
(* The data rate a device starts with, by the power its best gateway receives *)
(* from it at 14 dBm (in quarters of a dB), or from a distribution.           *)
EndDeviceSensitivity == <<-496, -508, -520, -532, -540, -548>>   \* SF7 .. SF12
SetSpreadingFactorsUp(rxPowers) ==
    LET above == {i \in 0 .. 5 : Max(rxPowers) > At(EndDeviceSensitivity, i)}
    IN  IF above = {} THEN 0 ELSE 5 - Min(above)

(* A draw strictly between two cumulated shares gives the data rate between   *)
(* them, one exactly on a share gives data rate 0.                            *)
SetSpreadingFactorsGivenDistribution(cumulated, draw) ==
    LET above == {i \in 0 .. 4 : draw < At(cumulated, i)}
    IN  IF above = {} \/ draw \in {At(cumulated, i) : i \in 0 .. 4} THEN 0
        ELSE 5 - Min(above)
=============================================================================
