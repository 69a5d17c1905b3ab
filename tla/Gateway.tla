------------------------------- MODULE Gateway -------------------------------
(***************************************************************************)
(* A gateway of the lorawan module: GatewayLorawanMac and the PHY below it *)
(* (GatewayLoraPhy, SimpleGatewayLoraPhy) with its parallel reception      *)
(* paths. The frames on the channel and the server's orders to transmit    *)
(* are its environment. As in ClassAEndDevice, a method is an operator     *)
(* from a gateway, which is a record, to a gateway.                        *)
(***************************************************************************)
EXTENDS Integers, Sequences, FiniteSets, EventQueue

CONSTANTS Frame,            \* the frames that reach the gateway, each once
          Uplink,           \* those that come from devices
          None,             \* what a free reception path is locked on
          NumPaths,         \* how many reception paths it has
          RxTimes,          \* ticks a frame is on the air
          TxTime,           \* ticks a downlink is on the air
          SubBand,          \* the sub-bands it may transmit in
          Rest,             \* ticks a sub-band rests from the start of a downlink
          MaxOrders         \* bound on the orders to transmit

ASSUME FrameAssumption == Uplink \subseteq Frame /\ None \notin Frame
ASSUME CountAssumption == NumPaths \in Nat /\ MaxOrders \in Nat
ASSUME TimeAssumption == /\ RxTimes \subseteq Nat \ {0}
                         /\ TxTime \in Nat \ {0}
                         /\ Rest \in [SubBand -> Nat]
                         /\ \A b \in SubBand : Rest[b] >= TxTime

Path == 1 .. NumPaths

\* The trace sources that tell what has become of a frame.
Traces == {"m_successfullyReceivedPacket", "m_interferedPacket", "m_underSensitivity",
           "m_noMoreDemodulators", "m_noReceptionBecauseTransmitting"}

\* What the simulator runs later for the gateway.
EndReceiveOf(f) == [kind |-> "EndReceive", frame |-> f]
TxFinishedCall == [kind |-> "TxFinished", frame |-> None]
Call == { EndReceiveOf(f) : f \in Frame } \cup {TxFinishedCall}

VARIABLES gw,               \* the gateway
          arrived,          \* frames that have reached it so far
          orders            \* orders to transmit so far

vars == <<gw, arrived, orders>>

NewGateway == [transmitting |-> FALSE,                   \* m_isTransmitting
               paths |-> [p \in Path |-> None],          \* m_event of each path
               occupied |-> 0,                           \* m_occupiedReceptionPaths
               rest |-> [b \in SubBand |-> 0],           \* GetWaitTime
               events |-> {},                            \* the simulator's events
               \* What the outside has seen:
               outcome |-> [f \in Frame |-> <<>>],       \* traces fired for a frame
               forwarded |-> {},                         \* frames given to the net device
               aborted |-> 0,                            \* orders refused
               clashed |-> {}]             \* frames on the air during a transmission

------------------------------------------------------------------------------
(* PHY: receiving *)

Sending(g) == IsPending(g.events, TxFinishedCall)
FreePaths(g) == { p \in Path : g.paths[p] = None }
Locked(g) == { g.paths[p] : p \in Path } \ {None}

Trace(g, f, what) == [g EXCEPT !.outcome[f] = Append(@, what)]

\* LockOnEvent on the first free path of the list: on some free path, as no
\* path is different from another. The mutant does not count it in.
LockUncounted(g, f, d) == LET p == CHOOSE q \in FreePaths(g) : TRUE
                          IN  [g EXCEPT !.paths[p] = f,
                                        !.events = Schedule(@, EndReceiveOf(f), d)]
Lock(g, f, d) == LET p == CHOOSE q \in FreePaths(g) : TRUE
                 IN  [g EXCEPT !.paths[p] = f,
                               !.occupied = @ + 1,
                               !.events = Schedule(@, EndReceiveOf(f), d)]

\* audible: the frame is above the sensitivity for its spreading factor. In
\* the mutant the gateway listens while it transmits.
ReceiveAlways(g, f, d, audible) ==
    IF FreePaths(g) = {} THEN Trace(g, f, "m_noMoreDemodulators")
    ELSE IF ~audible THEN Trace(g, f, "m_underSensitivity")
    ELSE Lock(g, f, d)
StartReceive(g, f, d, audible) ==
    IF g.transmitting THEN Trace(g, f, "m_noReceptionBecauseTransmitting")
    ELSE IF FreePaths(g) = {} THEN Trace(g, f, "m_noMoreDemodulators")
    ELSE IF ~audible THEN Trace(g, f, "m_underSensitivity")
    ELSE Lock(g, f, d)

\* The path that is locked on f is freed.
Free(g, f) == [g EXCEPT !.paths = [p \in Path |-> IF @[p] = f THEN None ELSE @[p]],
                        !.occupied = @ - 1]

\* The MAC forwards uplinks only.
Receive(g, f) == [g EXCEPT !.forwarded = IF f \in Uplink THEN @ \cup {f} ELSE @]

\* In the mutant a destroyed frame goes on to be received.
ReceiveDestroyed(g, f, destroyed) ==
    Free(Receive(Trace(IF destroyed THEN Trace(g, f, "m_interferedPacket") ELSE g,
                       f, "m_successfullyReceivedPacket"), f), f)
EndReceive(g, f, destroyed) ==
    Free(IF destroyed THEN Trace(g, f, "m_interferedPacket")
         ELSE Receive(Trace(g, f, "m_successfullyReceivedPacket"), f),
         f)

------------------------------------------------------------------------------
(* PHY and MAC: transmitting *)

\* Every reception is interrupted: traced, its path freed, its EndReceive
\* cancelled. One mutant forgets to cancel, the other to trace.
FreeAll(g) ==
    [g EXCEPT !.outcome = [f \in Frame |->
                  IF f \in Locked(g) THEN Append(@[f], "m_noReceptionBecauseTransmitting")
                  ELSE @[f]],
              !.paths = [p \in Path |-> None]]
CancelAll(g) == [g EXCEPT !.paths = [p \in Path |-> None],
                          !.events = Cancel(@, { EndReceiveOf(f) : f \in Locked(g) })]
Interrupt(g) == [FreeAll(g) EXCEPT !.events = Cancel(@, { EndReceiveOf(f) : f \in Locked(g) })]

PhySend(g) == [Interrupt(g) EXCEPT
                  !.events = Schedule(@, TxFinishedCall, TxTime),
                  !.transmitting = TRUE,
                  !.clashed = @ \cup Locked(g)]

\* GatewayLorawanMac::Send in sub-band b: the duty cycle aborts it silently.
Send(g, b) == IF g.rest[b] > 0 THEN [g EXCEPT !.aborted = @ + 1]
              ELSE PhySend([g EXCEPT !.rest[b] = Rest[b]])

TxFinished(g) == [g EXCEPT !.transmitting = FALSE]

------------------------------------------------------------------------------
(* Steps *)

Init == gw = NewGateway /\ arrived = {} /\ orders = 0

Arrive(f) == /\ f \notin arrived
             /\ arrived' = arrived \cup {f}
             /\ \E d \in RxTimes, audible \in BOOLEAN :
                    gw' = StartReceive([gw EXCEPT !.clashed = IF Sending(gw) THEN @ \cup {f}
                                                              ELSE @],
                                       f, d, audible)
             /\ UNCHANGED orders

Order(b) == /\ orders < MaxOrders
            /\ orders' = orders + 1
            /\ gw' = Send(gw, b)
            /\ UNCHANGED arrived

Popped(e) == [gw EXCEPT !.events = @ \ {e}]

RunEndReceive == \E e \in Due(gw.events), destroyed \in BOOLEAN :
                     /\ e.what.kind = "EndReceive"
                     /\ gw' = EndReceive(Popped(e), e.what.frame, destroyed)
                     /\ UNCHANGED <<arrived, orders>>

RunTxFinished == \E e \in Due(gw.events) :
                     /\ e.what = TxFinishedCall
                     /\ gw' = TxFinished(Popped(e))
                     /\ UNCHANGED <<arrived, orders>>

Elapsed(g) == [g EXCEPT !.events = Elapse(@),
                        !.rest = [b \in SubBand |-> IF @[b] > 0 THEN @[b] - 1 ELSE 0]]

Tick == /\ ~SomeDue(gw.events)
        /\ gw' = Elapsed(gw)
        /\ UNCHANGED <<arrived, orders>>

Next == \/ \E f \in Frame : Arrive(f)
        \/ \E b \in SubBand : Order(b)
        \/ RunEndReceive
        \/ RunTxFinished
        \/ Tick

Spec == Init /\ [][Next]_vars

\* The simulator's clock and events go on; channel and server owe nothing.
FairSpec == Spec /\ WF_vars(RunEndReceive \/ RunTxFinished \/ Tick)

------------------------------------------------------------------------------
(* Properties *)

Queues == SUBSET Entries(Call)

Gateways == [transmitting : BOOLEAN, paths : [Path -> Frame \cup {None}],
             occupied : Nat, rest : [SubBand -> Nat], events : Queues,
             outcome : [Frame -> Seq(Traces)], forwarded : SUBSET Uplink,
             aborted : Nat, clashed : SUBSET Frame]

\* Types: the number of occupied paths, in particular, is never negative.
TypeOK == gw \in Gateways /\ arrived \subseteq Frame /\ orders \in 0 .. MaxOrders

\* A reception path is locked on a frame exactly as long as the end of its
\* reception is still to come, and no two paths are locked on one frame.
PathsMatchQueue(g) == \A f \in Frame : f \in Locked(g) <=> IsPending(g.events, EndReceiveOf(f))
PathsDiffer(g) == \A p, q \in Path : g.paths[p] = g.paths[q] /\ p # q => g.paths[p] = None
PathsAreLocked == PathsMatchQueue(gw) /\ PathsDiffer(gw)

\* One trace source tells what has become of a frame, and tells it once, also
\* if a downlink interrupts the reception.
OneOutcome == \A f \in Frame : Len(gw.outcome[f]) <= 1

\* And it does tell it, of every frame that arrives.
EveryFrameIsTraced == \A f \in Frame : f \in arrived ~> gw.outcome[f] # <<>>

\* No frame is received that was on the air while the gateway transmitted.
HalfDuplex == gw.forwarded \cap gw.clashed = {}

(* What comments of the code say, and the code does not do *)

\* gateway-lora-phy.cc:112 "Number of currently occupied reception paths"
CountsPaths == gw.occupied = Cardinality(Locked(gw))

\* gateway-lora-phy.h:203 "Flag indicating whether a transmission is going on",
\* once the events that are due have run.
FlagTellsTransmission == ~SomeDue(gw.events) => (gw.transmitting <=> Sending(gw))
==============================================================================
