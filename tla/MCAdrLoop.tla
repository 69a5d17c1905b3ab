------------------------------ MODULE MCAdrLoop ------------------------------
(* Two gateways; path losses in quarters of a dB.  On the first link the      *)
(* power can be lowered, too far by a server that goes by the best packets;   *)
(* the second one needs the low data rates.                                   *)
EXTENDS AdrLoop

MCPathLosses == {<<4 * 135, 4 * 136>>, <<4 * 148, 4 * 151>>}
MCShares == <<100, 100, 100, 100, 100, 100>>
MCMethods == {<<"MINIMUM", "AVERAGE">>, <<"MAXIMUM", "MAXIMUM">>}

NewChannel(frequency, minDr, maxDr) ==
    [type |-> "NewChannelReq", chIndex |-> 3, frequencyHz |-> frequency,
     minDataRate |-> minDr, maxDataRate |-> maxDr]

\* A channel that is added and, by the mask of the ADR component, taken away
\* again; one that is refused; a link check.
MCRequestSets == {{NewChannel(868450000, 0, 6)}, {NewChannel(868450000, 3, 7)},
                  {[type |-> "LinkCheckReq"]}}

\* A channel in another sub-band, where the default ones may be resting.
MCOtherBand == {{NewChannel(867100000, 0, 5)}}
=============================================================================
