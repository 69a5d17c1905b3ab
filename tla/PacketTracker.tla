---------------------------- MODULE PacketTracker ----------------------------
(* LoraPacketTracker: what became of every uplink at every gateway, collected *)
(* from the trace sources of MACs and PHYs by the pointer to the packet.      *)
(* std::map::insert does nothing to a key that is there.                      *)
EXTENDS Integers, FiniteSets

PhyPacketOutcome ==
    {"RECEIVED", "INTERFERED", "NO_MORE_RECEIVERS", "UNDER_SENSITIVITY", "LOST_BECAUSE_TX"}

(* The trackers are functions on the packets (and, inside, on the gateways)   *)
(* that have an entry.                                                        *)
NewTracker == [phy |-> <<>>,            \* m_packetTracker
               mac |-> <<>>,            \* m_macPacketTracker
               aborted |-> FALSE]       \* NS_ABORT_MSG

Insert(map, key, value) ==
    [k \in DOMAIN map \cup {key} |-> IF k \in DOMAIN map THEN map[k] ELSE value]

MacTransmissionCallback(t, p, now) ==
    [t EXCEPT !.mac = Insert(@, p, [sendTime |-> now, receptionTimes |-> <<>>])]
MacGwReceptionCallback(t, p, gw, now) ==
    IF p \in DOMAIN t.mac THEN [t EXCEPT !.mac[p].receptionTimes = Insert(@, gw, now)]
                          ELSE [t EXCEPT !.aborted = TRUE]

TransmissionCallback(t, p, now) ==
    [t EXCEPT !.phy = Insert(@, p, [sendTime |-> now, outcomes |-> <<>>])]

(* PacketReceptionCallback, InterferenceCallback, NoMoreReceiversCallback,    *)
(* UnderSensitivityCallback, LostBecauseTxCallback.                           *)
OutcomeCallback(t, p, gw, outcome) ==
    [t EXCEPT !.phy[p].outcomes = Insert(@, gw, outcome)]

------------------------------------------------------------------------------
(* Counting, over the packets that were sent in an interval.                  *)
SentBetween(map, start, stop) ==
    {p \in DOMAIN map : start <= map[p].sendTime /\ map[p].sendTime <= stop}
CountPhyPacketsPerGw(t, start, stop, gw) ==
    LET sent == SentBetween(t.phy, start, stop)
        With(outcome) == {p \in sent : gw \in DOMAIN t.phy[p].outcomes
                                       /\ t.phy[p].outcomes[gw] = outcome}
    IN  [outcome \in PhyPacketOutcome \cup {"SENT"} |->
            Cardinality(IF outcome = "SENT" THEN sent ELSE With(outcome))]

CountMacPacketsGlobally(t, start, stop) ==
    LET sent == SentBetween(t.mac, start, stop)
    IN  [sent |-> Cardinality(sent),
         received |-> Cardinality({p \in sent : t.mac[p].receptionTimes # <<>>})]
=============================================================================
