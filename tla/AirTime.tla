------------------------------ MODULE AirTime ------------------------------
(* How long a frame is on the air: LoraPhy::GetOnAirTime, in microseconds,    *)
(* exactly, for the bandwidths of the regions.                                *)
EXTENDS Integers, Sequences

UInt32Values == 65536 * 65536
Chips == <<128, 256, 512, 1024, 2048, 4096>>                    \* 2^sf, SF7 .. SF12

GetTSym(sf, bandwidth) == Chips[sf - 6] * (1000000 \div bandwidth)

(* The parameters of end devices and gateways: the optimization for symbols   *)
(* of more than 16 ms.                                                        *)
LongSymbol == 16000
TxParameters(sf, bandwidth) ==
    [sf |-> sf, headerDisabled |-> FALSE, codingRate |-> 1, bandwidth |-> bandwidth,
     nPreamble |-> 8, crcEnabled |-> TRUE,
     lowDataRateOptimization |-> GetTSym(sf, bandwidth) > LongSymbol]

Ceil(n, d) == -((-n) \div d)
Flag(b) == IF b THEN 1 ELSE 0

(* The size is a uint32_t, and so is 8 * pl - 4 * sf + 28: a frame of one or  *)
(* two bytes at a high spreading factor would be on the air for months.       *)
Unsigned(n) == IF n < 0 THEN n + UInt32Values ELSE n
Numerator(size, params) ==
    Unsigned(8 * size - 4 * params.sf + 28)
        + 16 * Flag(params.crcEnabled) - 20 * Flag(params.headerDisabled)
Denominator(params) == 4 * (params.sf - 2 * Flag(params.lowDataRateOptimization))
PayloadSymbols(size, params) ==
    LET n == Ceil(Numerator(size, params), Denominator(params)) * (params.codingRate + 4)
    IN  8 + (IF n > 0 THEN n ELSE 0)

(* The preamble has 4.25 symbols more than nPreamble.                         *)
GetOnAirTime(size, params) ==
    ((4 * params.nPreamble + 17 + 4 * PayloadSymbols(size, params))
        * GetTSym(params.sf, params.bandwidth)) \div 4
=============================================================================
