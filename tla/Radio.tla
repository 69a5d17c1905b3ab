-------------------------------- MODULE Radio --------------------------------
(* The radio channel with one gateway and one end device on it, and further   *)
(* devices that only send: LoraChannel, the two simple PHYs with their lists  *)
(* of signals (Interference), the energy meter of the end device              *)
(* (RadioEnergy) and the packet tracker (PacketTracker) that hears of it all. *)
(* MAC and applications are the environment: when a device sends and when it  *)
(* opens a receive window.  A propagation delay is shorter than a tick.       *)
EXTENDS Interference, RadioEnergy, PacketTracker, TLC

CONSTANTS OtherPackets,         \* uplinks of the other devices
          OwnPackets,           \* uplinks of the end device
          Downlinks,            \* of the gateway
          MaxAttempts,          \* transmissions of an uplink
          Signals,              \* of each packet: the shapes it may have, with power at each end
          Powers,               \* transmission powers of the end device
          Window,               \* the frequency and SF it listens to
          NumPaths,             \* reception paths of the gateway
          Matrix,               \* the collision matrix
          Callbacks,            \* what an energy depletion callback may do
          MaxTime               \* bound on the clock

ASSUME CountsAssumption == MaxAttempts \in Nat \ {0} /\ NumPaths \in Nat /\ MaxTime \in Nat
ASSUME CallbacksAssumption == Callbacks \subseteq {"none", "STANDBY", "SLEEP"}
ASSUME PowersAssumption == Powers \subseteq DOMAIN TxCurrentOf
ASSUME SignalsAssumption == \A p \in OtherPackets \cup OwnPackets \cup Downlinks :
                               \A s \in Signals[p] : s.duration \in Nat \ {0}

VARIABLES now, attempts, flight, gw, ed, radio, tracker,
          \* seen from outside:
          arrived,              \* every signal that has reached an antenna
          missed,               \* those that came while the gateway transmitted
          received,             \* those that the gateway has received
          spent                 \* energy the states of the radio have taken

vars == <<now, attempts, flight, gw, ed, radio, tracker, arrived, missed, received, spent>>
outside == <<arrived, missed, received, spent>>

Packets == OtherPackets \cup OwnPackets \cup Downlinks
Uplinks == OtherPackets \cup OwnPackets

(* A retransmission sends the copy that DoSend has made of the packet.        *)
Pointer(id) == IF id[2] = 1 THEN <<id[1], "packet">> ELSE <<id[1], "copy">>
IsUplink(id) == id[1] \in Uplinks

EndDeviceSensitivity == 7 :> -124 @@ 8 :> -127 @@ 9 :> -130 @@ 10 :> -133 @@ 11 :> -135 @@ 12 :> -137
GatewaySensitivity == [sf \in SF |-> -130 - (5 * (sf - 7)) \div 2]       \* dBm, rounded

Init == /\ now = 0 /\ attempts = [p \in Packets |-> 0] /\ flight = {}
        /\ gw = [transmitting |-> {}, isTransmitting |-> FALSE, events |-> {}, receiving |-> {}]
        /\ ed = [transmitting |-> {}, power |-> 0, events |-> {}, receiving |-> {}]
        /\ \E c \in Callbacks : radio = NewRadio(c)
        /\ tracker = NewTracker
        /\ arrived = [gw |-> {}, ed |-> {}] /\ missed = {} /\ received = {} /\ spent = 0

------------------------------------------------------------------------------
(* LoraChannel::Send: to every PHY but the sender.                            *)
Broadcast(sender, id, s) ==
    flight' = flight \cup {[to |-> r, id |-> id, signal |-> s] : r \in {"gw", "ed"} \ {sender}}

NextId(p) == <<p, attempts[p] + 1>>
OnAir(p) == \/ \E x \in flight : x.id[1] = p
            \/ \E e \in arrived.gw \cup arrived.ed : e.id[1] = p /\ e.end > now
MaySend(p) == /\ attempts[p] < MaxAttempts /\ ~OnAir(p)
              /\ attempts' = [attempts EXCEPT ![p] = @ + 1]

(* The traces of DoSend and of the PHY: the MAC tells of new packets only.    *)
TrackSending(t, id) ==
    LET phy == TransmissionCallback(t, Pointer(id), now)
    IN  IF id[2] = 1 THEN MacTransmissionCallback(phy, Pointer(id), now) ELSE phy

OtherSends(p) == /\ MaySend(p)
                 /\ \E s \in Signals[p] : Broadcast("other", NextId(p), s)
                 /\ tracker' = TrackSending(tracker, NextId(p))
                 /\ UNCHANGED <<now, gw, ed, radio, outside>>

(* SimpleEndDeviceLoraPhy::Send                                               *)
OwnSends(p) == /\ radio.phy \in {"STANDBY", "SLEEP"} /\ ed.transmitting = {}
               /\ MaySend(p)
               /\ \E s \in Signals[p], power \in Powers :
                     /\ radio' \in SwitchToTx(radio, power, now)
                     /\ ed' = [ed EXCEPT !.power = power,
                                         !.transmitting = @ \cup {[id |-> NextId(p), end |-> now + s.duration]}]
                     /\ Broadcast("ed", NextId(p), s)
               /\ tracker' = TrackSending(tracker, NextId(p))
               /\ UNCHANGED <<now, gw, outside>>

(* SimpleGatewayLoraPhy::Send interrupts all receptions.                      *)
Outcome(t, id, outcome) ==
    IF IsUplink(id) THEN OutcomeCallback(t, Pointer(id), "gw", outcome) ELSE t
LostSilently(t, events) == t           \* a mutant: nobody is told
LostBecauseTx(t, events) ==
    LET lost == {Pointer(e.id) : e \in {e \in events : IsUplink(e.id)}}
        Lost(q) == OutcomeCallback(t, q, "gw", "LOST_BECAUSE_TX").phy[q]
    IN  [t EXCEPT !.phy = [q \in DOMAIN t.phy |-> IF q \in lost THEN Lost(q) ELSE t.phy[q]]]
GatewaySends(p) ==
    /\ attempts[p] = 0 /\ attempts' = [attempts EXCEPT ![p] = 1]
    /\ \E s \in Signals[p] :
          /\ Broadcast("gw", NextId(p), s)
          /\ gw' = [gw EXCEPT !.receiving = {}, !.isTransmitting = TRUE,
                              !.transmitting = @ \cup {[id |-> NextId(p), end |-> now + s.duration]}]
    /\ tracker' = LostBecauseTx(tracker, gw.receiving)
    /\ UNCHANGED <<now, ed, radio, outside>>

------------------------------------------------------------------------------
(* LoraChannel::Receive and StartReceive of the two PHYs                      *)
EventOf(x) == Event(x.id, now, x.signal.duration, x.signal.power[x.to], x.signal.sf,
                    x.signal.frequency)

(* Only in STANDBY, and on the frequency and the spreading factor it is set   *)
(* to, does the end device lock on a signal; it lists every one.              *)
CanLock(e) == /\ radio.phy = "STANDBY"
              /\ e.frequency = Window.frequency /\ e.sf = Window.sf
              /\ e.rxPower >= EndDeviceSensitivity[e.sf]
EndDeviceStartReceive(e) ==
    /\ ed' = [ed EXCEPT !.events = Add(@, e, now),
                        !.receiving = IF CanLock(e) THEN @ \cup {e} ELSE @]
    /\ radio' \in IF CanLock(e) THEN SwitchToRx(radio, now) ELSE {radio}
    /\ UNCHANGED <<gw, tracker, missed>>

(* A gateway that transmits returns before it lists the signal.               *)
GatewayStartReceive(e) ==
    /\ IF gw.isTransmitting
       THEN /\ tracker' = Outcome(tracker, e.id, "LOST_BECAUSE_TX")
            /\ missed' = missed \cup {e}
            /\ UNCHANGED gw
       ELSE LET free == Cardinality(gw.receiving) < NumPaths
                heard == e.rxPower >= GatewaySensitivity[e.sf]
            IN  /\ gw' = [gw EXCEPT !.events = Add(@, e, now),
                                    !.receiving = IF free /\ heard THEN @ \cup {e} ELSE @]
                /\ tracker' = IF ~free THEN Outcome(tracker, e.id, "NO_MORE_RECEIVERS")
                              ELSE IF ~heard THEN Outcome(tracker, e.id, "UNDER_SENSITIVITY")
                              ELSE tracker
                /\ UNCHANGED missed
    /\ UNCHANGED <<ed, radio>>

Deliver == \E x \in flight :
    LET e == EventOf(x)
    IN  /\ flight' = flight \ {x}
        /\ arrived' = [arrived EXCEPT ![x.to] = @ \cup {e}]
        /\ IF x.to = "ed" THEN EndDeviceStartReceive(e) ELSE GatewayStartReceive(e)
        /\ UNCHANGED <<now, attempts, received, spent>>

------------------------------------------------------------------------------
(* EndReceive and TxFinished of the two PHYs                                  *)
Ending(pending) == {e \in pending : e.end = now}

EndDeviceEndReceive == \E e \in Ending(ed.receiving) :
    /\ ed' = [ed EXCEPT !.receiving = @ \ {e}]
    /\ radio' \in SwitchToStandby(radio, now)
    /\ UNCHANGED <<now, attempts, flight, gw, tracker, outside>>

(* The gateway's MAC forwards an uplink and tells the tracker of it.          *)
ForwardUplink(t, id) ==
    IF IsUplink(id) THEN MacGwReceptionCallback(t, Pointer(id), "gw", now) ELSE t
GatewayEndReceive == \E e \in Ending(gw.receiving) :
    LET destroyed == IsDestroyedByInterference(Matrix, gw.events, e) # 0
    IN  /\ gw' = [gw EXCEPT !.receiving = @ \ {e}]
        /\ tracker' = IF destroyed THEN Outcome(tracker, e.id, "INTERFERED")
                      ELSE ForwardUplink(Outcome(tracker, e.id, "RECEIVED"), e.id)
        /\ received' = IF destroyed THEN received ELSE received \cup {e}
        /\ UNCHANGED <<now, attempts, flight, ed, radio, arrived, missed, spent>>

EndDeviceTxFinished == \E x \in Ending(ed.transmitting) :
    /\ ed' = [ed EXCEPT !.transmitting = @ \ {x}]
    /\ radio' \in SwitchToStandby(radio, now)
    /\ UNCHANGED <<now, attempts, flight, gw, tracker, outside>>

GatewayTxFinished == \E x \in Ending(gw.transmitting) :
    /\ gw' = [gw EXCEPT !.transmitting = @ \ {x}, !.isTransmitting = FALSE]
    /\ UNCHANGED <<now, attempts, flight, ed, radio, tracker, outside>>

------------------------------------------------------------------------------
(* The MAC of the end device opens and closes windows between transmissions.  *)
OpenWindow == /\ radio.phy = "SLEEP" /\ ed.transmitting = {}
              /\ radio' \in SwitchToStandby(radio, now)
              /\ UNCHANGED <<now, attempts, flight, gw, ed, tracker, outside>>
CloseWindow == /\ radio.phy = "STANDBY" /\ ed.transmitting = {} /\ ed.receiving = {}
               /\ radio' \in SwitchToSleep(radio, now)
               /\ UNCHANGED <<now, attempts, flight, gw, ed, tracker, outside>>

(* The energy source finds itself empty at one of its own updates.            *)
SourceRunsDry == /\ ~radio.depleted
                 /\ radio' = HandleEnergyDepletion(radio, now)
                 /\ UNCHANGED <<now, attempts, flight, gw, ed, tracker, outside>>

TrueCurrent == IF radio.phy = "TX" THEN TxCurrentOf[ed.power] ELSE Current[radio.phy]
Tick == /\ now < MaxTime /\ flight = {}
        /\ Ending(gw.receiving \cup ed.receiving) = {}
        /\ Ending(gw.transmitting \cup ed.transmitting) = {}
        /\ now' = now + 1 /\ spent' = spent + TrueCurrent
        /\ UNCHANGED <<attempts, flight, gw, ed, radio, tracker, arrived, missed, received>>

(* A failed assertion ends the program.                                       *)
Alive == ~radio.asserted /\ ~tracker.aborted

Next == /\ Alive
        /\ \/ \E p \in OtherPackets : OtherSends(p)
           \/ \E p \in OwnPackets : OwnSends(p)
           \/ \E p \in Downlinks : GatewaySends(p)
           \/ Deliver
           \/ EndDeviceEndReceive
           \/ GatewayEndReceive
           \/ EndDeviceTxFinished
           \/ GatewayTxFinished
           \/ OpenWindow
           \/ CloseWindow
           \/ SourceRunsDry
           \/ Tick
Spec == Init /\ [][Next]_vars

------------------------------------------------------------------------------
(* As long as a reception lasts, every signal that overlaps it is listed,     *)
(* although the lists are cleaned and signals arrive in every state of the    *)
(* radio.  What a transmitting gateway does not list is left out here.        *)
Listed(pending, events, signals) ==
    \A e \in pending, i \in signals : GetOverlapTime(e, i) # 0 => i \in events
InterferersAreListed == /\ Listed(ed.receiving, ed.events, arrived.ed)
                        /\ Listed(gw.receiving, gw.events, arrived.gw \ missed)

(* Of two signals on one frequency and spreading factor that overlap for most *)
(* of their time a gateway receives at most one.                              *)
Smaller(a, b) == IF a <= b THEN a ELSE b
Larger(a, b) == IF a >= b THEN a ELSE b
Overlap(a, b) == Larger(0, Smaller(a.end, b.end) - Larger(a.start, b.start))
Collide(a, b) == /\ a.frequency = b.frequency /\ a.sf = b.sf
                 /\ 16 * Overlap(a, b) * Overlap(a, b) > Duration(a) * Duration(b)
NoDoubleCapture == \A a, b \in received : a # b => ~Collide(a, b)

(* The energy model charges every moment with the state the radio was in,     *)
(* also when the energy source calls back into a change of state.             *)
EnergyIsAccounted == radio.asserted \/ EnergyUntil(radio, now) = spent

(* Once everything has been heard, each uplink counts once: with the outcome  *)
(* that it had, and as received at the MAC exactly if at the PHY.             *)
AllHeard == flight = {} /\ gw.receiving = {}
CountsAddUp ==
    LET phy == CountPhyPacketsPerGw(tracker, 0, MaxTime, "gw")
        mac == CountMacPacketsGlobally(tracker, 0, MaxTime)
    IN  AllHeard => /\ phy["SENT"] = MapThenSumSet(LAMBDA o : phy[o], PhyPacketOutcome)
                    /\ phy["RECEIVED"] = Cardinality({e \in received : IsUplink(e.id)})
                    /\ mac.received = phy["RECEIVED"]

(* What comments and assertions of the code say, and the code does not do     *)

(* simple-end-device-lora-phy.cc:109 "We need to do this regardless of our    *)
(* state or frequency, since these could change (and making the interference  *)
(* relevant) while the interference is still incoming."                       *)
GatewayListsAll == Listed(gw.receiving, gw.events, arrived.gw)

(* lora-packet-tracker.cc of MacGwReceptionCallback: every packet that a      *)
(* gateway's MAC reports is found in the tracker.                             *)
PacketIsFound == ~tracker.aborted
=============================================================================
