----------------------------- MODULE MCGateway -----------------------------
(* Instances of Gateway for TLC. *)
EXTENDS Gateway

\* A sub-band with a duty cycle rests much longer than a downlink lasts.
LongRest == [b \in SubBand |-> 3 * TxTime]
=============================================================================
