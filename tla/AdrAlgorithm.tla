---------------------------- MODULE AdrAlgorithm ----------------------------
(* The algorithm by which the network server adapts the data rate and the     *)
(* power of a device, AdrComponent: pure functions of the received powers of  *)
(* its last packets.  Ratios and received powers are in quarters of a dB,     *)
(* transmission powers in dBm as in the code; NoiseFloor rounds               *)
(* 174 - 10 log10(B) - NF = 117.03 dB.                                        *)
EXTENDS Integers, FiniteSetsExt

CombiningMethod == {"AVERAGE", "MAXIMUM", "MINIMUM"}

Db == 4
NoiseFloor == 117 * Db
Threshold == <<-80, -70, -60, -50, -40, -30>>     \* data rates 0 to 5
StepSize == 3 * Db

minSpreadingFactor == 7
minTransmissionPower == 2
maxTransmissionPower == 14

SfToDr(sf) == IF sf \in 8 .. 12 THEN 12 - sf ELSE 5
ThresholdOf(sf) == Threshold[SfToDr(sf) + 1]

RxPowerToSNR(rxPower) == rxPower + NoiseFloor

------------------------------------------------------------------------------
(* One value from the powers a packet was received with, rx[g] by each        *)
(* gateway g that received it, and one from several packets.  An average is   *)
(* kept as its numerator and the number of values, so as not to be rounded.   *)
Values(f) == {f[x] : x \in DOMAIN f}
SumOf(f) == MapThenSumSet(LAMBDA x : f[x], DOMAIN f)

(* The units are fine enough for two gateways.                                *)
GetMinTxFromGateways(rx) == Min(Values(rx))
GetMaxTxFromGateways(rx) == Max(Values(rx))
GetAverageTxFromGateways(rx) == SumOf(rx) \div Cardinality(DOMAIN rx)
GetReceivedPower(method, rx) ==
    CASE method = "AVERAGE" -> GetAverageTxFromGateways(rx)
      [] method = "MAXIMUM" -> GetMaxTxFromGateways(rx)
      [] method = "MINIMUM" -> GetMinTxFromGateways(rx)

(* packets[i] is such an rx; the code looks at the last historyRange of them. *)
SNRs(method, packets) ==
    [i \in DOMAIN packets |-> RxPowerToSNR(GetReceivedPower(method, packets[i]))]
Ratio(sum, count) == [sum |-> sum, count |-> count]
GetMinSNR(method, packets) == Ratio(Min(Values(SNRs(method, packets))), 1)
GetMaxSNR(method, packets) == Ratio(Max(Values(SNRs(method, packets))), 1)
GetAverageSNR(method, packets) == Ratio(SumOf(SNRs(method, packets)),
                                        Cardinality(DOMAIN packets))
CombinedSNR(historyAveraging, tpAveraging, packets) ==
    CASE historyAveraging = "AVERAGE" -> GetAverageSNR(tpAveraging, packets)
      [] historyAveraging = "MAXIMUM" -> GetMaxSNR(tpAveraging, packets)
      [] historyAveraging = "MINIMUM" -> GetMinSNR(tpAveraging, packets)

------------------------------------------------------------------------------
(* The margin over the threshold in whole steps of 3 dB, rounded down; the    *)
(* mutant rounds up.                                                          *)
StepsRoundedUp(snr, sf) ==
    (snr.sum - snr.count * ThresholdOf(sf) + StepSize * snr.count - 1)
        \div (StepSize * snr.count)
Steps(snr, sf) == (snr.sum - snr.count * ThresholdOf(sf)) \div (StepSize * snr.count)

AtMost(a, b) == IF a <= b THEN a ELSE b

(* The loops of AdrImplementation, by how often they are run: steps lower the *)
(* spreading factor first and the power, by 2 dB each, with what is left of   *)
(* them; negative ones raise the power.                                       *)
SfDecrements(steps, sf) ==
    IF steps > 0 /\ sf > minSpreadingFactor THEN AtMost(steps, sf - minSpreadingFactor) ELSE 0
RoundsOf2Db(gap) == IF gap > 0 THEN (gap + 1) \div 2 ELSE 0
PowerDecrements(left, power) ==
    IF left > 0 THEN AtMost(left, RoundsOf2Db(power - minTransmissionPower)) ELSE 0
PowerIncrements(steps, power) ==
    IF steps < 0 THEN AtMost(-steps, RoundsOf2Db(maxTransmissionPower - power)) ELSE 0

NewSf(snr, sf) == sf - SfDecrements(Steps(snr, sf), sf)
NewTxPower(snr, sf, power) ==
    LET steps == Steps(snr, sf)
    IN  power - 2 * PowerDecrements(steps - SfDecrements(steps, sf), power)
              + 2 * PowerIncrements(steps, power)

AdrImplementation(snr, sf, power) ==
    [dataRate |-> SfToDr(NewSf(snr, sf)), txPower |-> NewTxPower(snr, sf, power)]

(* Its two assertions: a power from 0 to 14 dBm, and an even one.             *)
InTxPowerRange(power) == 0 <= power /\ power <= 14 /\ power % 2 = 0
TxPowerIndexFromOne(power) == 8 - power \div 2       \* mutant
GetTxPowerIndex(power) == 7 - power \div 2

(* What a power of a dB more or less does to the ratio.                       *)
Margin(snr, sf) == snr - ThresholdOf(sf)
=============================================================================
