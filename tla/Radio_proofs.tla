----------------------------- MODULE Radio_proofs -----------------------------
(* Proofs about Radio, for any number of packets, any signals, powers and     *)
(* currents, and for every depletion callback of one switch:                  *)
(*   EnergyAccounted     the energy model charges what the radio takes        *)
(*   InterferersListed   a pending reception has all its interferers listed,  *)
(*                       if no frame lasts longer than OldEventThreshold      *)
(*   OneCapture          of two colliding signals at most one is received,    *)
(*                       under the same condition and if all have an energy   *)
(*   EachCountsOnce      the tracker's counts add up, if no uplink is sent    *)
(*                       twice                                                *)
(* and, of GetOnAirTime, that the unsigned arithmetic does no harm to frames  *)
(* that have their headers, that air time grows with the size, and which      *)
(* frames are short enough for the list of signals (FramesThatOutlastTheList).*)
(* Sums over sets are folds: the facts about them go by well-founded          *)
(* induction over the subsets of a finite set.                                *)
EXTENDS Radio, AirTime, FiniteSetTheorems, TLAPS

(* The overlap of two signals is the length of the intersection of their      *)
(* intervals, whichever comes first.                                          *)
THEOREM OverlapIsIntersection ==
    ASSUME NEW a, NEW b,
           a.start \in Int, a.end \in Int, b.start \in Int, b.end \in Int,
           a.start <= a.end, b.start <= b.end
    PROVE  /\ GetOverlapTime(a, b) = Overlap(a, b)
           /\ GetOverlapTime(a, b) = GetOverlapTime(b, a)
  BY DEF GetOverlapTime, Overlap, Smaller, Larger

------------------------------------------------------------------------------
(* Energy *)

RadioType ==
    [phy : RadioState, state : RadioState, lastUpdate : Int, total : Int, txCurrent : Nat,
     pending : Int, superseded : BOOLEAN, depleted : BOOLEAN,
     onDepletion : {"none", "STANDBY", "SLEEP"}, asserted : BOOLEAN]

(* Between two events no change of state is pending.                          *)
Quiet(m) == m \in RadioType /\ m.pending = 0 /\ m.superseded = FALSE

EdShape == ed = [transmitting |-> ed.transmitting, power |-> ed.power,
                 events |-> ed.events, receiving |-> ed.receiving]

(* The model knows the state of the PHY and the current of its transmission.  *)
InStep == /\ radio.state = radio.phy
          /\ radio.phy = "TX" => /\ ed.power \in DOMAIN TxCurrentOf
                                 /\ radio.txCurrent = TxCurrentOf[ed.power]
          /\ EnergyUntil(radio, now) = spent

EnergyInv == /\ now \in Nat /\ spent \in Int /\ EdShape
             /\ Quiet(radio)
             /\ ~radio.asserted => InStep

LEMMA CurrentIsInt == \A m \in RadioType : CurrentA(m) \in Nat
  BY CurrentAssumption DEF RadioType, CurrentA

LEMMA ZeroTime == \A t, c \in Int : (t - t) * c = 0
  OBVIOUS

LEMMA OneMoreTick == \A d, c \in Int : (d + 1) * c = d * c + c
  OBVIOUS

(* A charge collects what the state has taken so far.                         *)
LEMMA Charged ==
    ASSUME NEW m \in RadioType, NEW t \in Int
    PROVE  /\ Charge(m, t) \in RadioType
           /\ Charge(m, t).total = EnergyUntil(m, t)
           /\ Charge(m, t) = [m EXCEPT !.total = EnergyUntil(m, t), !.lastUpdate = t,
                                       !.pending = m.pending + 1]
  <1>1. CurrentA(m) \in Int /\ m.total \in Int /\ m.lastUpdate \in Int /\ m.pending \in Int
    BY CurrentIsInt DEF RadioType
  <1>2. (t - m.lastUpdate) * CurrentA(m) \in Int
    BY <1>1
  <1>3. EnergyUntil(m, t) \in Int
    BY <1>1, <1>2 DEF EnergyUntil
  <1>4. Charge(m, t) = [m EXCEPT !.total = EnergyUntil(m, t), !.lastUpdate = t,
                                 !.pending = m.pending + 1]
    BY DEF Charge, EnergyUntil, RadioType
  <1>5. \A x, p \in Int :
           /\ [m EXCEPT !.total = x, !.lastUpdate = t, !.pending = p] \in RadioType
           /\ [m EXCEPT !.total = x, !.lastUpdate = t, !.pending = p].total = x
    BY DEF RadioType
  <1>6. m.pending + 1 \in Int
    BY <1>1
  <1>7. /\ [m EXCEPT !.total = EnergyUntil(m, t), !.lastUpdate = t, !.pending = m.pending + 1]
              \in RadioType
        /\ [m EXCEPT !.total = EnergyUntil(m, t), !.lastUpdate = t, !.pending = m.pending + 1].total
              = EnergyUntil(m, t)
    BY <1>3, <1>5, <1>6, Zenon
  <1> QED
    BY <1>4, <1>7, Zenon

(* Charged twice at one moment is charged once.                               *)
LEMMA ChargedNow ==
    ASSUME NEW m \in RadioType, NEW t \in Int, m.lastUpdate = t
    PROVE  EnergyUntil(m, t) = m.total
  <1>1. CurrentA(m) \in Int /\ m.total \in Int
    BY CurrentIsInt DEF RadioType
  <1>2. (t - t) * CurrentA(m) = 0
    BY <1>1, ZeroTime
  <1> QED
    BY <1>1, <1>2 DEF EnergyUntil

(* What Settle, a call from within the callback, a depletion and a change of  *)
(* state make of a radio.                                                     *)
Settled(m, new, r) ==
    /\ r \in RadioType
    /\ m.superseded = FALSE => r.state = new
    /\ m.superseded = TRUE => r.state = m.state
    /\ m.pending > 1 => r.superseded = TRUE
    /\ m.pending <= 1 => r.superseded = FALSE
    /\ r.pending = m.pending - 1
    /\ r.phy = m.phy /\ r.total = m.total /\ r.lastUpdate = m.lastUpdate
    /\ r.txCurrent = m.txCurrent
CallDone(m, new, t, r) ==
    /\ r \in RadioType /\ r.phy = new /\ r.state = new
    /\ r.total = EnergyUntil(m, t) /\ r.lastUpdate = t /\ r.txCurrent = m.txCurrent
    /\ r.pending = m.pending
    /\ m.pending > 0 => r.superseded = TRUE
    /\ m.pending = 0 => r.superseded = FALSE
DepletionDone(m, t, r) ==
    /\ r \in RadioType /\ r.txCurrent = m.txCurrent /\ r.pending = m.pending
    /\ \/ /\ r.phy = m.phy /\ r.state = m.state /\ r.superseded = FALSE
          /\ r.total = m.total /\ r.lastUpdate = m.lastUpdate
       \/ /\ r.phy \in {"STANDBY", "SLEEP"} /\ r.state = r.phy
          /\ r.total = EnergyUntil(m, t) /\ r.lastUpdate = t
          /\ m.pending > 0 => r.superseded = TRUE
          /\ m.pending = 0 => r.superseded = FALSE
ChangeDone(m, new, t, r) ==
    /\ Quiet(r) /\ r.lastUpdate = t /\ r.total = EnergyUntil(m, t)
    /\ r.state = r.phy /\ r.txCurrent = m.txCurrent
    /\ r.phy # new => r.phy \in {"STANDBY", "SLEEP"}

(* Settling a charge that nothing has overtaken, or that a callback has.      *)
LEMMA Settles ==
    ASSUME NEW m \in RadioType, NEW new \in RadioState, NEW r, r = Settle(m, new)
    PROVE  Settled(m, new, r)
  <1> DEFINE st == IF m.superseded THEN m.state ELSE new
             b == m.pending > 1
             p == m.pending - 1
  <1>1. st \in RadioState /\ b \in BOOLEAN /\ p \in Int
    BY DEF RadioType
  <1>2. r = [m EXCEPT !.state = st, !.superseded = b, !.pending = p]
    BY DEF Settle
  <1>3. /\ m.superseded = FALSE => st = new
        /\ m.superseded = TRUE => st = m.state
        /\ m.pending > 1 => b = TRUE
        /\ m.pending <= 1 => b = FALSE
    BY DEF RadioType
  <1> HIDE DEF st, b
  <1>4. r \in RadioType
    BY <1>1, <1>2 DEF RadioType
  <1> QED
    BY <1>2, <1>3, <1>4 DEF RadioType, Settled

(* What a call from within the callback leaves behind.                        *)
LEMMA CalledBack ==
    ASSUME NEW m \in RadioType, NEW t \in Int, NEW new \in {"STANDBY", "SLEEP"},
           m.superseded = FALSE, m.pending \in Nat,
           NEW r, r = Called(m, new, t)
    PROVE  CallDone(m, new, t, r)
  <1> DEFINE failed == m.asserted \/ (new = "SLEEP" /\ m.phy # "STANDBY")
             s == [m EXCEPT !.phy = new, !.asserted = failed]
             c == Charge(s, t)
  <1>1. failed \in BOOLEAN /\ new \in RadioState
    BY DEF RadioState
  <1>2. r = Settle(c, new)
    BY DEF Called
  <1> HIDE DEF failed
  <1>3. /\ s \in RadioType /\ s.lastUpdate = m.lastUpdate /\ s.total = m.total
        /\ s.phy = new /\ s.state = m.state /\ s.pending = m.pending
        /\ s.superseded = FALSE /\ s.txCurrent = m.txCurrent
    BY <1>1 DEF RadioType
  <1> HIDE DEF s
  <1>4. EnergyUntil(s, t) = EnergyUntil(m, t)
    BY <1>3 DEF EnergyUntil, CurrentA
  <1>5. c \in RadioType /\ c = [s EXCEPT !.total = EnergyUntil(m, t), !.lastUpdate = t,
                                         !.pending = m.pending + 1]
    BY <1>3, <1>4, Charged
  <1> HIDE DEF c
  <1>6. /\ c.phy = new /\ c.total = EnergyUntil(m, t) /\ c.lastUpdate = t
        /\ c.pending = m.pending + 1 /\ c.superseded = FALSE /\ c.txCurrent = m.txCurrent
    BY <1>3, <1>5 DEF RadioType
  <1>7. Settled(c, new, r)
    BY <1>1, <1>2, <1>5, Settles
  <1> HIDE DEF c
  <1> QED
    BY <1>6, <1>7 DEF Settled, CallDone

LEMMA Depleted ==
    ASSUME NEW m \in RadioType, NEW t \in Int, m.superseded = FALSE,
           m.pending \in Nat, NEW r, r = HandleEnergyDepletion(m, t)
    PROVE  DepletionDone(m, t, r)
  <1> DEFINE d == [m EXCEPT !.depleted = TRUE]
  <1>1. /\ d \in RadioType /\ d.lastUpdate = m.lastUpdate /\ d.superseded = FALSE /\ d.phy = m.phy
        /\ d.state = m.state /\ d.total = m.total /\ d.txCurrent = m.txCurrent
        /\ d.pending = m.pending
    BY DEF RadioType
  <1>2. CASE m.onDepletion = "none"
    <2>1. r = d
      BY <1>2 DEF HandleEnergyDepletion
    <2> HIDE DEF d
    <2> QED
      BY <1>1, <2>1 DEF DepletionDone
  <1>3. CASE m.onDepletion # "none"
    <2>1. m.onDepletion \in {"STANDBY", "SLEEP"}
      BY <1>3 DEF RadioType
    <2>2. r = Called(d, m.onDepletion, t)
      BY <1>3 DEF HandleEnergyDepletion
    <2> HIDE DEF d
    <2>3. CallDone(d, m.onDepletion, t, r)
      BY <1>1, <2>1, <2>2, CalledBack
    <2>4. EnergyUntil(d, t) = EnergyUntil(m, t)
      BY <1>1 DEF EnergyUntil, CurrentA
    <2> QED
      BY <1>1, <2>1, <2>3, <2>4 DEF CallDone, DepletionDone
  <1> QED
    BY <1>2, <1>3

(* A change of state, whether or not the energy source calls back.            *)
LEMMA Changed ==
    ASSUME NEW m, NEW t \in Int, NEW new \in RadioState, NEW r,
           Quiet(m), m.phy = new, r \in ChangeState(m, new, t)
    PROVE  ChangeDone(m, new, t, r)
  <1> DEFINE c == Charge(m, t)
  <1>1. m \in RadioType /\ m.pending = 0 /\ m.superseded = FALSE
    BY DEF Quiet
  <1>2. c \in RadioType /\ c = [m EXCEPT !.total = EnergyUntil(m, t), !.lastUpdate = t,
                                         !.pending = m.pending + 1]
    BY <1>1, Charged
  <1>3. r \in {Settle(q, new) : q \in UpdateEnergySource(c, t)}
    BY DEF ChangeState
  <1> HIDE DEF c
  <1>4. /\ c.total = EnergyUntil(m, t) /\ c.lastUpdate = t /\ c.pending = 1
        /\ c.superseded = FALSE /\ c.phy = new /\ c.txCurrent = m.txCurrent
    BY <1>1, <1>2 DEF RadioType
  <1>5. PICK q \in UpdateEnergySource(c, t) : r = Settle(q, new)
    BY <1>3
  <1>6. CASE q = c
    <2>1. Settled(c, new, r)
      BY <1>2, <1>5, <1>6, Settles
    <2> QED
      BY <1>4, <2>1 DEF Settled, ChangeDone, Quiet
  <1>7. CASE q = HandleEnergyDepletion(c, t)
    <2>0. c \in RadioType /\ c.lastUpdate = t /\ c.superseded = FALSE /\ c.pending \in Nat
      BY <1>2, <1>4
    <2>1. DepletionDone(c, t, q)
      BY <1>7, <2>0, Depleted
    <2>4. EnergyUntil(c, t) = c.total
      BY <2>0, ChargedNow
    <2>2. q \in RadioType
      BY <2>1 DEF DepletionDone
    <2>3. Settled(q, new, r)
      BY <1>5, <2>2, Settles
    <2> QED
      BY <1>4, <2>1, <2>3, <2>4 DEF DepletionDone, Settled, ChangeDone, Quiet
  <1> QED
    BY <1>5, <1>6, <1>7 DEF UpdateEnergySource

(* A switch at one moment takes no energy and keeps PHY and model in step.    *)
InStepAt(m, t, e) == Quiet(m) /\ m.state = m.phy /\ EnergyUntil(m, t) = e

LEMMA Switched ==
    ASSUME NEW m, NEW new \in RadioState, NEW allowed, NEW t \in Int, NEW e, NEW r,
           InStepAt(m, t, e), r \in Switch(m, new, allowed, t)
    PROVE  /\ InStepAt(r, t, e) /\ r.txCurrent = m.txCurrent
           /\ r.phy # new => r.phy \in {"STANDBY", "SLEEP"}
  <1> DEFINE failed == m.asserted \/ m.phy \notin allowed
             s == [m EXCEPT !.phy = new, !.asserted = failed]
  <1>1. m \in RadioType /\ m.pending = 0 /\ m.superseded = FALSE /\ EnergyUntil(m, t) = e
    BY DEF InStepAt, Quiet
  <1>2. r \in ChangeState(s, new, t)
    BY DEF Switch
  <1>3. failed \in BOOLEAN
    OBVIOUS
  <1> HIDE DEF failed
  <1>4. /\ s \in RadioType /\ s.phy = new /\ s.pending = 0 /\ s.superseded = FALSE
        /\ s.total = m.total /\ s.lastUpdate = m.lastUpdate /\ s.state = m.state
        /\ s.txCurrent = m.txCurrent
    BY <1>1, <1>3 DEF RadioType
  <1> HIDE DEF s
  <1>5. EnergyUntil(s, t) = e
    BY <1>1, <1>4 DEF EnergyUntil, CurrentA
  <1>6. ChangeDone(s, new, t, r)
    BY <1>2, <1>4, Changed DEF Quiet
  <1>7. r \in RadioType /\ r.lastUpdate = t
    BY <1>6 DEF ChangeDone, Quiet
  <1>8. EnergyUntil(r, t) = r.total
    BY <1>7, ChargedNow
  <1> QED
    BY <1>4, <1>5, <1>6, <1>8 DEF ChangeDone, InStepAt

LEMMA SwitchedToTx ==
    ASSUME NEW m, NEW power \in DOMAIN TxCurrentOf, NEW t \in Int, NEW e, NEW r,
           InStepAt(m, t, e), m.phy # "TX", r \in SwitchToTx(m, power, t)
    PROVE  /\ InStepAt(r, t, e)
           /\ r.phy = "TX" => r.txCurrent = TxCurrentOf[power]
  <1> DEFINE s == [m EXCEPT !.txCurrent = TxCurrentOf[power]]
  <1>1. m \in RadioType /\ m.pending = 0 /\ m.superseded = FALSE /\ m.state = m.phy
        /\ EnergyUntil(m, t) = e
    BY DEF InStepAt, Quiet
  <1>2. TxCurrentOf[power] \in Nat
    BY CurrentAssumption
  <1>3. /\ s \in RadioType /\ s.phy = m.phy /\ s.pending = 0 /\ s.superseded = FALSE
        /\ s.total = m.total /\ s.lastUpdate = m.lastUpdate /\ s.state = m.state
        /\ s.txCurrent = TxCurrentOf[power]
    BY <1>1, <1>2 DEF RadioType
  <1>4. r \in Switch(s, "TX", RadioState \ {"RX"}, t)
    BY DEF SwitchToTx
  <1> HIDE DEF s
  <1>5. EnergyUntil(s, t) = e
    BY <1>1, <1>3 DEF EnergyUntil, CurrentA
  <1>6. InStepAt(s, t, e)
    BY <1>1, <1>3, <1>5 DEF InStepAt, Quiet
  <1>7. "TX" \in RadioState
    BY DEF RadioState
  <1> QED
    BY <1>3, <1>4, <1>6, <1>7, Switched

LEMMA RanDry ==
    ASSUME NEW m, NEW t \in Int, NEW e, NEW r, InStepAt(m, t, e),
           r = HandleEnergyDepletion(m, t)
    PROVE  /\ InStepAt(r, t, e) /\ r.txCurrent = m.txCurrent
           /\ r.phy = "TX" => m.phy = "TX"
  <1>1. m \in RadioType /\ m.pending = 0 /\ m.superseded = FALSE /\ m.state = m.phy
        /\ EnergyUntil(m, t) = e
    BY DEF InStepAt, Quiet
  <1>2. DepletionDone(m, t, r)
    <2>1. m \in RadioType /\ m.superseded = FALSE /\ m.pending \in Nat
      BY <1>1
    <2> QED
      BY <2>1, Depleted
  <1>3. CASE r.phy = m.phy /\ r.state = m.state /\ r.superseded = FALSE
             /\ r.total = m.total /\ r.lastUpdate = m.lastUpdate
    <2>1. EnergyUntil(r, t) = e
      BY <1>1, <1>2, <1>3 DEF DepletionDone, EnergyUntil, CurrentA
    <2> QED
      BY <1>1, <1>2, <1>3, <2>1 DEF DepletionDone, InStepAt, Quiet
  <1>4. CASE r.phy \in {"STANDBY", "SLEEP"} /\ r.state = r.phy
             /\ r.total = EnergyUntil(m, t) /\ r.lastUpdate = t /\ r.superseded = FALSE
    <2>1. EnergyUntil(r, t) = r.total
      BY <1>2, <1>4, ChargedNow DEF DepletionDone
    <2> QED
      BY <1>1, <1>2, <1>4, <2>1 DEF DepletionDone, InStepAt, Quiet
  <1> QED
    BY <1>1, <1>2, <1>3, <1>4 DEF DepletionDone

------------------------------------------------------------------------------
LEMMA InitialRadio ==
    ASSUME NEW c \in Callbacks
    PROVE  InStepAt(NewRadio(c), 0, 0)
  <1>1. c \in {"none", "STANDBY", "SLEEP"} /\ Current["TX"] \in Nat
    BY CallbacksAssumption, CurrentAssumption DEF RadioState
  <1>2. NewRadio(c) \in RadioType
    BY <1>1 DEF NewRadio, RadioType, RadioState
  <1>3. NewRadio(c).lastUpdate = 0 /\ NewRadio(c).total = 0
    BY DEF NewRadio
  <1>4. EnergyUntil(NewRadio(c), 0) = 0
    BY <1>2, <1>3, ChargedNow
  <1> QED
    BY <1>2, <1>4 DEF InStepAt, Quiet, NewRadio

LEMMA EnergyInit == Init => EnergyInv
  <1> SUFFICES ASSUME Init PROVE EnergyInv
    OBVIOUS
  <1>1. PICK c \in Callbacks : radio = NewRadio(c)
    BY DEF Init
  <1>2. InStepAt(radio, 0, 0)
    BY <1>1, InitialRadio
  <1>3. radio.phy = "SLEEP"
    BY <1>1 DEF NewRadio
  <1> QED
    BY <1>2, <1>3 DEF Init, EnergyInv, EdShape, InStep, InStepAt

LEMMA EnergyStep == EnergyInv /\ [Next]_vars => EnergyInv'
  <1> SUFFICES ASSUME EnergyInv, Next PROVE EnergyInv'
    <2>1. CASE UNCHANGED vars
      BY <2>1 DEF EnergyInv, EdShape, InStep, Quiet, vars, outside
    <2> QED
      BY <2>1
  <1>1. /\ InStepAt(radio, now, spent) /\ now \in Int /\ now \in Nat /\ spent \in Int /\ EdShape
        /\ radio.phy = "TX" => /\ ed.power \in DOMAIN TxCurrentOf
                               /\ radio.txCurrent = TxCurrentOf[ed.power]
    BY DEF Next, Alive, EnergyInv, InStep, InStepAt
  <1>2. ASSUME UNCHANGED <<now, spent>>, EdShape', InStepAt(radio', now, spent),
               radio'.phy = "TX" => /\ ed'.power \in DOMAIN TxCurrentOf
                                    /\ radio'.txCurrent = TxCurrentOf[ed'.power]
        PROVE  EnergyInv'
    BY <1>1, <1>2 DEF EnergyInv, InStep, InStepAt
  <1>3. ASSUME UNCHANGED <<now, spent, radio>>, EdShape', ed'.power = ed.power
        PROVE  EnergyInv'
    BY <1>1, <1>2, <1>3
  <1>4. ASSUME NEW new \in RadioState \ {"TX"}, NEW allowed,
               radio' \in Switch(radio, new, allowed, now), UNCHANGED <<now, spent>>, EdShape'
        PROVE  EnergyInv'
    <2>1. InStepAt(radio', now, spent) /\ radio'.phy # "TX"
      BY <1>1, <1>4, Switched
    <2> QED
      BY <1>2, <1>4, <2>1
  <1>5. {"STANDBY", "RX", "SLEEP"} \subseteq RadioState \ {"TX"}
    BY DEF RadioState
  <1>6. ASSUME NEW p, OtherSends(p) PROVE EnergyInv'
    BY <1>1, <1>3, <1>6 DEF OtherSends, outside, EdShape
  <1>7. ASSUME NEW p, OwnSends(p) PROVE EnergyInv'
    <2>1. PICK s \in Signals[p], power \in Powers :
              /\ radio' \in SwitchToTx(radio, power, now)
              /\ ed' = [ed EXCEPT !.power = power,
                                  !.transmitting = @ \cup {[id |-> NextId(p), end |-> now + s.duration]}]
      BY <1>7 DEF OwnSends
    <2>2. power \in DOMAIN TxCurrentOf /\ radio.phy # "TX" /\ UNCHANGED <<now, spent>>
      BY <1>7, PowersAssumption DEF OwnSends, outside
    <2>3. InStepAt(radio', now, spent) /\ (radio'.phy = "TX" => radio'.txCurrent = TxCurrentOf[power])
      BY <1>1, <2>1, <2>2, SwitchedToTx
    <2>4. EdShape' /\ ed'.power = power
      BY <1>1, <2>1 DEF EdShape
    <2> QED
      BY <1>2, <2>2, <2>3, <2>4
  <1>8. ASSUME NEW p, GatewaySends(p) PROVE EnergyInv'
    BY <1>1, <1>3, <1>8 DEF GatewaySends, outside, EdShape
  <1>9. CASE Deliver
    <2>1. PICK x \in flight :
              /\ IF x.to = "ed" THEN EndDeviceStartReceive(EventOf(x)) ELSE GatewayStartReceive(EventOf(x))
              /\ UNCHANGED <<now, spent>>
      BY <1>9 DEF Deliver
    <2> DEFINE e == EventOf(x)
    <2>2. CASE GatewayStartReceive(e)
      BY <1>1, <1>3, <2>1, <2>2 DEF GatewayStartReceive, EdShape
    <2>3. CASE EndDeviceStartReceive(e)
      <3>1. EdShape' /\ ed'.power = ed.power
        BY <1>1, <2>3 DEF EndDeviceStartReceive, EdShape
      <3>2. CASE CanLock(e)
        BY <1>4, <1>5, <2>1, <2>3, <3>1, <3>2 DEF EndDeviceStartReceive, SwitchToRx
      <3>3. CASE ~CanLock(e)
        BY <1>3, <2>1, <2>3, <3>1, <3>3 DEF EndDeviceStartReceive
      <3> QED
        BY <3>2, <3>3
    <2> QED
      BY <2>1, <2>2, <2>3
  <1>10. CASE EndDeviceEndReceive
    <2>1. radio' \in SwitchToStandby(radio, now) /\ UNCHANGED <<now, spent>> /\ EdShape'
      BY <1>1, <1>10 DEF EndDeviceEndReceive, outside, EdShape
    <2> QED
      BY <1>4, <1>5, <2>1 DEF SwitchToStandby
  <1>11. CASE GatewayEndReceive
    BY <1>1, <1>3, <1>11 DEF GatewayEndReceive, EdShape
  <1>12. CASE EndDeviceTxFinished
    <2>1. radio' \in SwitchToStandby(radio, now) /\ UNCHANGED <<now, spent>> /\ EdShape'
      BY <1>1, <1>12 DEF EndDeviceTxFinished, outside, EdShape
    <2> QED
      BY <1>4, <1>5, <2>1 DEF SwitchToStandby
  <1>13. CASE GatewayTxFinished
    BY <1>1, <1>3, <1>13 DEF GatewayTxFinished, outside, EdShape
  <1>14. CASE OpenWindow
    BY <1>1, <1>4, <1>5, <1>14 DEF OpenWindow, SwitchToStandby, outside, EdShape
  <1>15. CASE CloseWindow
    BY <1>1, <1>4, <1>5, <1>15 DEF CloseWindow, SwitchToSleep, outside, EdShape
  <1>16. CASE SourceRunsDry
    <2>1. radio' = HandleEnergyDepletion(radio, now) /\ UNCHANGED <<now, spent, ed>>
      BY <1>16 DEF SourceRunsDry, outside
    <2>2. /\ InStepAt(radio', now, spent) /\ radio'.txCurrent = radio.txCurrent
          /\ radio'.phy = "TX" => radio.phy = "TX"
      BY <1>1, <2>1, RanDry
    <2> QED
      BY <1>1, <1>2, <2>1, <2>2 DEF EdShape
  <1>17. CASE Tick
    <2>1. now' = now + 1 /\ spent' = spent + TrueCurrent /\ UNCHANGED <<ed, radio>>
      BY <1>17 DEF Tick
    <2>2. radio \in RadioType /\ radio.state = radio.phy /\ EnergyUntil(radio, now) = spent
      BY <1>1 DEF InStepAt, Quiet
    <2>3. CurrentA(radio) = TrueCurrent /\ CurrentA(radio) \in Nat
      BY <1>1, <2>2, CurrentIsInt DEF CurrentA, TrueCurrent
    <2>4. radio.lastUpdate \in Int /\ radio.total \in Int
      BY <2>2 DEF RadioType
    <2>5. EnergyUntil(radio, now + 1) = spent + CurrentA(radio)
      <3> DEFINE d == now - radio.lastUpdate
      <3>1. d \in Int /\ (now + 1) - radio.lastUpdate = d + 1
        BY <1>1, <2>4
      <3>2. (d + 1) * CurrentA(radio) = d * CurrentA(radio) + CurrentA(radio)
        BY <2>3, <3>1, OneMoreTick
      <3>3. d * CurrentA(radio) \in Int
        BY <2>3, <3>1
      <3>4. /\ EnergyUntil(radio, now + 1) = radio.total + (d + 1) * CurrentA(radio)
            /\ spent = radio.total + d * CurrentA(radio)
        <4>1. EnergyUntil(radio, now + 1)
                = radio.total + ((now + 1) - radio.lastUpdate) * CurrentA(radio)
          BY DEF EnergyUntil
        <4>2. EnergyUntil(radio, now) = radio.total + (now - radio.lastUpdate) * CurrentA(radio)
          BY DEF EnergyUntil
        <4> QED
          BY <2>2, <3>1, <4>1, <4>2, Zenon
      <3> QED
        BY <2>3, <2>4, <3>2, <3>3, <3>4
    <2>6. spent' \in Int /\ now' \in Nat
      BY <1>1, <2>1, <2>3
    <2> QED
      BY <1>1, <2>1, <2>3, <2>5, <2>6 DEF EnergyInv, EdShape, InStep, InStepAt
  <1> QED
    BY <1>6, <1>7, <1>8, <1>9, <1>10, <1>11, <1>12, <1>13, <1>14, <1>15, <1>16, <1>17 DEF Next

(* The energy model has charged exactly what the states and transmissions of  *)
(* the radio have taken, at every moment and for every depletion callback.    *)
THEOREM EnergyAccounted == Spec => []EnergyIsAccounted
  <1>1. EnergyInv => EnergyIsAccounted
    BY DEF EnergyInv, InStep, EnergyIsAccounted
  <1> QED
    BY <1>1, EnergyInit, EnergyStep, PTL DEF Spec

------------------------------------------------------------------------------
(* Interferers *)

(* A signal that overlaps another ends after that one has started.            *)
LEMMA OverlapEnds ==
    ASSUME NEW e, NEW i, GetOverlapTime(e, i) # 0
    PROVE  ~(i.end <= e.start)
  BY DEF GetOverlapTime

(* What a list may have erased ended OldEventThreshold ago.                   *)
Kept(events, signals) == \A i \in signals : i.end + OldEventThreshold >= now => i \in events

LEMMA AddKeeps ==
    ASSUME NEW events, NEW signals, NEW e, Kept(events, signals)
    PROVE  Kept(Add(events, e, now), signals \cup {e})
  BY DEF Kept, Add, CleanOldEvents

ShortFrames == \A p \in Packets : \A s \in Signals[p] : s.duration <= OldEventThreshold

IsInterval(e) == e.start \in Int /\ e.end \in Int
Pending(e) == IsInterval(e) /\ e.end >= now /\ e.end - e.start <= OldEventThreshold

ListShape == /\ EdShape
             /\ gw = [transmitting |-> gw.transmitting, isTransmitting |-> gw.isTransmitting,
                      events |-> gw.events, receiving |-> gw.receiving]
             /\ arrived = [gw |-> arrived.gw, ed |-> arrived.ed]
ListInv == /\ now \in Nat /\ ListShape
           /\ \A x \in flight : /\ x.to \in {"gw", "ed"} /\ x.signal.duration \in Nat
                               /\ x.signal.duration <= OldEventThreshold
           /\ \A e \in arrived.gw \cup arrived.ed : IsInterval(e)
           /\ \A e \in gw.receiving \cup ed.receiving : Pending(e)
           /\ Kept(ed.events, arrived.ed)
           /\ Kept(gw.events, arrived.gw \ missed)

LEMMA ListInit == Init => ListInv
  BY DEF Init, ListInv, ListShape, EdShape, Kept, Pending, IsInterval

LEMMA SignalSent ==
    ASSUME ListInv, ShortFrames, NEW sender, NEW p \in Packets, NEW id, NEW s \in Signals[p],
           Broadcast(sender, id, s)
    PROVE  \A x \in flight' : /\ x.to \in {"gw", "ed"} /\ x.signal.duration \in Nat
                             /\ x.signal.duration <= OldEventThreshold
  BY SignalsAssumption DEF Broadcast, ListInv, ShortFrames, Packets

LEMMA ListStep == ShortFrames /\ ListInv /\ [Next]_vars => ListInv'
  <1> SUFFICES ASSUME ShortFrames, ListInv, Next PROVE ListInv'
    <2>1. CASE UNCHANGED vars
      BY <2>1 DEF ListInv, ListShape, EdShape, Kept, Pending, IsInterval, vars, outside
    <2> QED
      BY <2>1
  <1> USE ThresholdAssumption
  <1>1. ASSUME UNCHANGED <<now, arrived, missed>>, ListShape',
               gw'.events = gw.events, ed'.events = ed.events,
               gw'.receiving \subseteq gw.receiving, ed'.receiving \subseteq ed.receiving,
               \A x \in flight' : /\ x.to \in {"gw", "ed"} /\ x.signal.duration \in Nat
                                /\ x.signal.duration <= OldEventThreshold
        PROVE  ListInv'
    BY <1>1 DEF ListInv, Kept, Pending
  <1>2. ListShape
    BY DEF ListInv
  <1>3. ASSUME UNCHANGED <<now, arrived, missed, flight>>, ListShape',
               gw'.events = gw.events, ed'.events = ed.events,
               gw'.receiving \subseteq gw.receiving, ed'.receiving \subseteq ed.receiving
        PROVE  ListInv'
    BY <1>1, <1>3 DEF ListInv
  <1>4. ASSUME NEW p \in OtherPackets, OtherSends(p) PROVE ListInv'
    <2>1. PICK s \in Signals[p] : Broadcast("other", NextId(p), s)
      BY <1>4 DEF OtherSends
    <2>2. UNCHANGED <<now, arrived, missed, gw, ed>> /\ p \in Packets
      BY <1>4 DEF OtherSends, outside, Packets
    <2> QED
      BY <1>1, <1>2, <2>1, <2>2, SignalSent DEF ListShape, EdShape
  <1>5. ASSUME NEW p \in OwnPackets, OwnSends(p) PROVE ListInv'
    <2>1. PICK s \in Signals[p], power \in Powers :
              /\ ed' = [ed EXCEPT !.power = power,
                                  !.transmitting = @ \cup {[id |-> NextId(p), end |-> now + s.duration]}]
              /\ Broadcast("ed", NextId(p), s)
      BY <1>5 DEF OwnSends
    <2>2. UNCHANGED <<now, arrived, missed, gw>> /\ p \in Packets
      BY <1>5 DEF OwnSends, outside, Packets
    <2>3. ListShape' /\ ed'.events = ed.events /\ ed'.receiving = ed.receiving
      BY <1>2, <2>1, <2>2 DEF ListShape, EdShape
    <2> QED
      BY <1>1, <2>1, <2>2, <2>3, SignalSent
  <1>6. ASSUME NEW p \in Downlinks, GatewaySends(p) PROVE ListInv'
    <2>1. PICK s \in Signals[p] :
              /\ Broadcast("gw", NextId(p), s)
              /\ gw' = [gw EXCEPT !.receiving = {}, !.isTransmitting = TRUE,
                          !.transmitting = @ \cup {[id |-> NextId(p), end |-> now + s.duration]}]
      BY <1>6 DEF GatewaySends
    <2>2. UNCHANGED <<now, arrived, missed, ed>> /\ p \in Packets
      BY <1>6 DEF GatewaySends, outside, Packets
    <2>3. ListShape' /\ gw'.events = gw.events /\ gw'.receiving = {}
      BY <1>2, <2>1, <2>2 DEF ListShape, EdShape
    <2> QED
      BY <1>1, <2>1, <2>2, <2>3, SignalSent
  <1>7. CASE Deliver
    <2>1. PICK x \in flight :
              LET e == EventOf(x)
              IN  /\ flight' = flight \ {x}
                  /\ arrived' = [arrived EXCEPT ![x.to] = @ \cup {e}]
                  /\ IF x.to = "ed" THEN EndDeviceStartReceive(e) ELSE GatewayStartReceive(e)
                  /\ UNCHANGED now
      BY <1>7 DEF Deliver
    <2> DEFINE e == EventOf(x)
    <2>2. /\ x.to \in {"gw", "ed"} /\ x.signal.duration \in Nat
          /\ x.signal.duration <= OldEventThreshold /\ now \in Nat
      BY DEF ListInv
    <2>3. e.start = now /\ e.end = now + x.signal.duration
      BY DEF EventOf, Event
    <2> HIDE DEF e
    <2>4. IsInterval(e) /\ Pending(e)
      BY <2>2, <2>3 DEF IsInterval, Pending
    <2>5. CASE x.to = "ed"
      <3>1. /\ arrived'.ed = arrived.ed \cup {e} /\ arrived'.gw = arrived.gw
            /\ UNCHANGED <<gw, missed, now>> /\ ListShape'
            /\ ed'.events = Add(ed.events, e, now)
            /\ ed'.receiving \subseteq ed.receiving \cup {e}
        BY <1>2, <2>1, <2>5 DEF EndDeviceStartReceive, ListShape, EdShape, e
      <3>2. Kept(ed'.events, arrived'.ed)
        BY <3>1, AddKeeps DEF ListInv
      <3> QED
        BY <2>1, <2>4, <3>1, <3>2 DEF ListInv, Kept, Pending
    <2>6. CASE x.to = "gw"
      <3>1. /\ arrived'.gw = arrived.gw \cup {e} /\ arrived'.ed = arrived.ed
            /\ UNCHANGED <<ed, now>> /\ ListShape'
        BY <1>2, <2>1, <2>6 DEF GatewayStartReceive, ListShape, EdShape, e
      <3>2. CASE gw.isTransmitting
        <4>1. missed' = missed \cup {e} /\ UNCHANGED gw
          BY <2>1, <2>6, <3>2 DEF GatewayStartReceive, e
        <4> QED
          BY <2>1, <2>4, <3>1, <4>1 DEF ListInv, Kept, Pending
      <3>3. CASE ~gw.isTransmitting
        <4>1. /\ missed' = missed /\ gw'.events = Add(gw.events, e, now)
              /\ gw'.receiving \subseteq gw.receiving \cup {e}
          BY <1>2, <2>1, <2>6, <3>3 DEF GatewayStartReceive, ListShape, e
        <4>2. Kept(gw'.events, (arrived.gw \ missed) \cup {e})
          BY <4>1, AddKeeps DEF ListInv
        <4>3. Kept(gw'.events, arrived'.gw \ missed')
          BY <3>1, <4>1, <4>2 DEF Kept
        <4> QED
          BY <2>1, <2>4, <3>1, <4>1, <4>3 DEF ListInv, Kept, Pending
      <3> QED
        BY <3>2, <3>3
    <2> QED
      BY <2>2, <2>5, <2>6
  <1>8. CASE EndDeviceEndReceive
    BY <1>2, <1>3, <1>8 DEF EndDeviceEndReceive, outside, ListShape, EdShape
  <1>9. CASE GatewayEndReceive
    BY <1>2, <1>3, <1>9 DEF GatewayEndReceive, ListShape, EdShape
  <1>10. CASE EndDeviceTxFinished
    BY <1>2, <1>3, <1>10 DEF EndDeviceTxFinished, outside, ListShape, EdShape
  <1>11. CASE GatewayTxFinished
    BY <1>2, <1>3, <1>11 DEF GatewayTxFinished, outside, ListShape, EdShape
  <1>12. CASE OpenWindow \/ CloseWindow \/ SourceRunsDry
    BY <1>2, <1>3, <1>12 DEF OpenWindow, CloseWindow, SourceRunsDry, outside, ListShape, EdShape
  <1>13. CASE Tick
    <2>1. /\ now' = now + 1 /\ UNCHANGED <<flight, gw, ed, arrived, missed>>
          /\ Ending(gw.receiving \cup ed.receiving) = {}
      BY <1>13 DEF Tick
    <2>2. \A e \in gw.receiving \cup ed.receiving : Pending(e)'
      BY <2>1 DEF ListInv, Pending, IsInterval, Ending
    <2>3. Kept(ed.events, arrived.ed)' /\ Kept(gw.events, arrived.gw \ missed)'
      BY <2>1 DEF ListInv, Kept, IsInterval
    <2> QED
      BY <2>1, <2>2, <2>3 DEF ListInv, ListShape, EdShape
  <1> QED
    BY <1>4, <1>5, <1>6, <1>7, <1>8, <1>9, <1>10, <1>11, <1>12, <1>13 DEF Next

(* While a reception lasts every signal that overlaps it is in its list, for  *)
(* any number of signals, if no frame is longer than OldEventThreshold.       *)
THEOREM InterferersListed ==
    ASSUME ShortFrames
    PROVE  Spec => []InterferersAreListed
  <1>1. ListInv => InterferersAreListed
    <2> SUFFICES ASSUME ListInv PROVE InterferersAreListed
      OBVIOUS
    <2>1. ASSUME NEW pending, NEW events, NEW signals, Kept(events, signals),
                 \A e \in pending : Pending(e), \A i \in signals : IsInterval(i)
          PROVE  Listed(pending, events, signals)
      <3> SUFFICES ASSUME NEW e \in pending, NEW i \in signals, GetOverlapTime(e, i) # 0
                   PROVE  i \in events
        BY DEF Listed
      <3>1. i.end > e.start /\ i.end \in Int /\ e.start \in Int /\ e.end \in Int
        BY <2>1, OverlapEnds DEF Pending, IsInterval
      <3>2. i.end + OldEventThreshold >= now
        BY <2>1, <3>1, ThresholdAssumption DEF Pending, ListInv
      <3> QED
        BY <2>1, <3>2 DEF Kept
    <2> QED
      BY <2>1 DEF ListInv, InterferersAreListed
  <1> QED
    BY <1>1, ListInit, ListStep, PTL DEF Spec

------------------------------------------------------------------------------
(* Finite sums.  Induction goes by sets: the smallest counterexample.         *)

LEMMA Inducts ==
    ASSUME NEW S \in SUBSET Nat, 0 \in S, \A n \in S : n + 1 \in S
    PROVE  S = Nat
  <1> DEFINE T == Nat \ S
  <1> SUFFICES ASSUME T # {} PROVE FALSE
    OBVIOUS
  <1>1. PICK n \in T : \A m \in T : ~(<<m, n>> \in OpToRel(<, Nat))
    <2> HIDE DEF T
    <2>1. T \subseteq Nat
      BY DEF T
    <2> QED
      BY <2>1, NatLessThanWellFounded, WFMin
  <1>2. n \in Nat /\ n # 0 /\ n - 1 \in Nat
    OBVIOUS
  <1>3. <<n - 1, n>> \in OpToRel(<, Nat)
    BY <1>2 DEF OpToRel
  <1>4. n - 1 \in S
    BY <1>1, <1>2, <1>3
  <1> QED
    BY <1>2, <1>4

LEMMA SmallestSet ==
    ASSUME NEW S, IsFiniteSet(S), NEW F \in SUBSET (SUBSET S), F # {}
    PROVE  \E T \in F : \A U \in F : U \subseteq T => U = T
  <1>1. IsWellFoundedOn(StrictSubsetOrdering(S), SUBSET S)
    BY FS_StrictSubsetOrderingWellFounded, FS_FiniteSubsetsOfFinite
  <1>2. PICK T \in F : \A U \in F : ~(<<U, T>> \in StrictSubsetOrdering(S))
    BY <1>1, WFMin
  <1>3. ASSUME NEW U \in F, U \subseteq T, U # T PROVE FALSE
    <2>1. <<U, T>> \in StrictSubsetOrdering(S)
      BY <1>3 DEF StrictSubsetOrdering
    <2> QED
      BY <1>2, <2>1
  <1> QED
    BY <1>3

(* The partial sums of f, in the order in which a fold takes the elements.    *)
First(s) == CHOOSE x \in s : TRUE
SumAt(f, sum, s) == IF s = {} THEN 0 ELSE f[First(s)] + sum[s \ {First(s)}]

Sums(f, sum, S) == sum = [s \in SUBSET S |-> SumAt(f, sum, s)]

LEMMA FirstIn == \A s : s # {} => First(s) \in s
  BY DEF First

LEMMA SumsExist ==
    ASSUME NEW S, IsFiniteSet(S), NEW f
    PROVE  \E sum : Sums(f, sum, S)
  <1> DEFINE Upto(n, sum) == \A s \in SUBSET S : Cardinality(s) <= n => sum[s] = SumAt(f, sum, s)
             N == {n \in Nat : \E sum : Upto(n, sum)}
  <1>1. \A s \in SUBSET S : IsFiniteSet(s) /\ Cardinality(s) \in Nat
                            /\ Cardinality(s) <= Cardinality(S)
                            /\ (Cardinality(s) = 0 <=> s = {})
    BY FS_Subset, FS_CardinalityType, FS_EmptySet
  <1>2. 0 \in N
    <2> DEFINE sum == [s \in SUBSET S |-> 0]
    <2>1. Upto(0, sum)
      BY <1>1 DEF SumAt
    <2> QED
      BY <2>1
  <1>3. ASSUME NEW n \in N PROVE n + 1 \in N
    <2>1. PICK sum : Upto(n, sum)
      OBVIOUS
    <2> DEFINE more == [s \in SUBSET S |-> IF Cardinality(s) <= n THEN sum[s] ELSE SumAt(f, sum, s)]
    <2>2. \A s \in SUBSET S : more[s] = SumAt(f, sum, s)
      BY <2>1
    <2>3. ASSUME NEW s \in SUBSET S, Cardinality(s) <= n + 1, s # {}
          PROVE  /\ s \ {First(s)} \in SUBSET S
                 /\ Cardinality(s \ {First(s)}) <= n
      <3>1. First(s) \in s
        BY <2>3, FirstIn
      <3> HIDE DEF N
      <3>2. Cardinality(s \ {First(s)}) = Cardinality(s) - 1
        BY <1>1, <3>1, FS_RemoveElement
      <3>3. n \in Nat
        BY DEF N
      <3> QED
        BY <1>1, <2>3, <3>2, <3>3
    <2>4. Upto(n + 1, more)
      <3> SUFFICES ASSUME NEW s \in SUBSET S, Cardinality(s) <= n + 1
                   PROVE  more[s] = SumAt(f, more, s)
        OBVIOUS
      <3>1. CASE s = {}
        BY <2>2, <3>1 DEF SumAt
      <3>2. CASE s # {}
        <4>1. more[s \ {First(s)}] = sum[s \ {First(s)}]
          BY <2>3, <3>2
        <4> HIDE DEF more
        <4> QED
          BY <2>2, <3>2, <4>1 DEF SumAt
      <3> QED
        BY <3>1, <3>2
    <2> HIDE DEF Upto, more
    <2>5. n + 1 \in Nat
      OBVIOUS
    <2> QED
      BY <2>4, <2>5
  <1>4. Cardinality(S) \in N
    <2> HIDE DEF N
    <2>1. N = Nat
      <3>1. N \in SUBSET Nat
        BY DEF N
      <3> QED
        BY <1>2, <1>3, <3>1, Inducts
    <2> QED
      BY <1>1, <2>1
  <1>5. PICK sum : \A s \in SUBSET S : sum[s] = SumAt(f, sum, s)
    BY <1>1, <1>4
  <1> DEFINE total == [s \in SUBSET S |-> sum[s]]
  <1>6. \A s \in SUBSET S : total[s] = SumAt(f, total, s)
    BY <1>5, FirstIn DEF SumAt
  <1>7. total = [s \in SUBSET S |-> SumAt(f, total, s)]
    <2>1. total = [s \in SUBSET S |-> total[s]]
      OBVIOUS
    <2> HIDE DEF total
    <2> QED
      BY <1>6, <2>1
  <1> QED
    BY <1>7 DEF Sums

(* A sum of natural numbers is one, and at least as large as each of them.    *)
LEMMA SumBounds ==
    ASSUME NEW S, IsFiniteSet(S), NEW f, \A x \in S : f[x] \in Nat,
           NEW sum, Sums(f, sum, S)
    PROVE  sum[S] \in Nat /\ \A x \in S : f[x] <= sum[S]
  <1> DEFINE Bounds(s) == sum[s] \in Nat /\ \A x \in s : f[x] <= sum[s]
  <1>1. ASSUME NEW s \in SUBSET S, NEW x \in s, NEW rest \in SUBSET S,
               s = rest \cup {x}, sum[s] = f[x] + sum[rest], Bounds(rest)
        PROVE  Bounds(s)
    <2>1. f[x] \in Nat /\ sum[rest] \in Nat /\ sum[s] \in Nat /\ f[x] <= sum[s]
      BY <1>1
    <2>2. ASSUME NEW y \in rest PROVE f[y] <= sum[s]
      <3>1. f[y] <= sum[rest] /\ f[y] \in Nat
        BY <1>1
      <3> QED
        BY <1>1, <2>1, <3>1
    <2> QED
      BY <1>1, <2>1, <2>2
  <1>2. ASSUME NEW s \in SUBSET S, s # {}
        PROVE  /\ First(s) \in s /\ s \ {First(s)} \in SUBSET S
               /\ s = (s \ {First(s)}) \cup {First(s)}
               /\ sum[s] = f[First(s)] + sum[s \ {First(s)}]
    BY <1>2, FirstIn DEF SumAt, Sums
  <1>3. Bounds({})
    BY DEF SumAt, Sums
  <1> HIDE DEF Bounds
  <1> DEFINE F == {s \in SUBSET S : ~Bounds(s)}
  <1>4. F = {}
    <2> SUFFICES ASSUME F # {} PROVE FALSE
      OBVIOUS
    <2>1. PICK s \in F : \A u \in F : u \subseteq s => u = s
      <3>1. F \in SUBSET (SUBSET S)
        OBVIOUS
      <3> HIDE DEF F
      <3> QED
        BY <3>1, SmallestSet
    <2>2. s \in SUBSET S /\ s # {} /\ ~Bounds(s)
      BY <1>3
    <2> DEFINE rest == s \ {First(s)}
    <2>3. First(s) \in s /\ rest \in SUBSET S
      BY <1>2, <2>2
    <2>4. rest \notin F
      <3> HIDE DEF F
      <3> QED
        BY <2>1, <2>3
    <2>5. Bounds(rest)
      BY <2>3, <2>4
    <2> QED
      BY <1>1, <1>2, <2>2, <2>3, <2>5
  <1>5. Bounds(S)
    BY <1>4
  <1> QED
    BY <1>5 DEF Bounds

------------------------------------------------------------------------------
(* Captures *)

Energy(e) == DbmToW(e.rxPower)
Meets(a, b) == a.frequency = b.frequency /\ a.sf = b.sf

(* What IsDestroyedByInterference demands of a signal and one that it meets.  *)
Outweighs(a, b) == Meets(a, b) => Duration(a) * Energy(a) >= 4 * (GetOverlapTime(a, b) * Energy(b))

(* The interference that a signal meets is at least that of each interferer.  *)
EnergyAt(e, sum, s) ==
    IF s = {} THEN 0
    ELSE GetOverlapTime(e, CHOOSE x \in s : TRUE) * DbmToW((CHOOSE x \in s : TRUE).rxPower)
         + sum[s \ {CHOOSE x \in s : TRUE}]

LEMMA InterferenceOfEach ==
    ASSUME NEW events, IsFiniteSet(events), NEW e, NEW sf,
           \A i \in events : GetOverlapTime(e, i) * Energy(i) \in Nat
    PROVE  /\ CumulativeInterferenceEnergy(events, e, sf) \in Nat
           /\ \A i \in Interferers(events, e, sf) :
                 GetOverlapTime(e, i) * Energy(i) <= CumulativeInterferenceEnergy(events, e, sf)
  <1> DEFINE S == Interferers(events, e, sf)
             f == [i \in S |-> GetOverlapTime(e, i) * Energy(i)]
             sum == CHOOSE sum : sum = [s \in SUBSET S |-> EnergyAt(e, sum, s)]
  <1>1. CumulativeInterferenceEnergy(events, e, sf) = sum[S]
    BY DEF CumulativeInterferenceEnergy, MapThenSumSet, MapThenFoldSet, EnergyAt
  <1>2. S \subseteq events /\ IsFiniteSet(S)
    BY FS_Subset DEF Interferers
  <1>3. \A x \in S : f[x] \in Nat
    BY <1>2
  <1>4. PICK some : Sums(f, some, S)
    <2> HIDE DEF S, f
    <2> QED
      BY <1>2, SumsExist
  <1>5. ASSUME NEW any, NEW s \in SUBSET S
        PROVE  SumAt(f, any, s) = EnergyAt(e, any, s)
    <2> HIDE DEF S
    <2>1. s # {} => First(s) \in S
      BY FirstIn
    <2>2. s # {} => f[First(s)] = GetOverlapTime(e, First(s)) * DbmToW(First(s).rxPower)
      BY <2>1 DEF Energy
    <2> HIDE DEF f
    <2> QED
      BY <2>2 DEF SumAt, First, EnergyAt
  <1> HIDE DEF S, f
  <1>6. \A any : Sums(f, any, S) <=> any = [s \in SUBSET S |-> EnergyAt(e, any, s)]
    <2> TAKE any
    <2>1. \A s \in SUBSET S : SumAt(f, any, s) = EnergyAt(e, any, s)
      BY <1>5
    <2>2. [s \in SUBSET S |-> SumAt(f, any, s)] = [s \in SUBSET S |-> EnergyAt(e, any, s)]
      BY <2>1
    <2> QED
      BY <2>2 DEF Sums
  <1>7. sum = [s \in SUBSET S |-> EnergyAt(e, sum, s)]
    BY <1>4, <1>6
  <1> HIDE DEF sum
  <1>8. sum[S] \in Nat /\ \A x \in S : f[x] <= sum[S]
    BY <1>2, <1>3, <1>6, <1>7, SumBounds
  <1> QED
    BY <1>1, <1>8 DEF S, f

(* Six decibels of isolation from its own spreading factor, or all there is.  *)
LEMMA OwnIsolation == \A k \in 1 .. 6 : CollisionSnir(Matrix)[k][k] \in {6, Unlimited}
  <1> SUFFICES ASSUME NEW k \in 1 .. 6 PROVE CollisionSnir(Matrix)[k][k] \in {6, Unlimited}
    OBVIOUS
  <1>1. k = 1 \/ k = 2 \/ k = 3 \/ k = 4 \/ k = 5 \/ k = 6
    OBVIOUS
  <1>2. CollisionSnirGoursaud[k][k] = 6
    BY <1>1 DEF CollisionSnirGoursaud
  <1>3. CollisionSnirAloha[k][k] = Unlimited
    BY DEF CollisionSnirAloha
  <1> QED
    BY <1>2, <1>3 DEF CollisionSnir

LEMMA SixDecibels == LinearRatio(6) = 4
  BY DEF LinearRatio

LEMMA NoneDestroys ==
    ASSUME NEW matrix, NEW events, NEW e, IsDestroyedByInterference(matrix, events, e) = 0,
           NEW sf \in SF
    PROVE  Survives(Duration(e) * Energy(e), CumulativeInterferenceEnergy(events, e, sf),
                    CollisionSnir(matrix)[e.sf - 6][sf - 6])
  <1> DEFINE by == {f \in SF : ~Survives(Duration(e) * DbmToW(e.rxPower),
                                         CumulativeInterferenceEnergy(events, e, f),
                                         CollisionSnir(matrix)[e.sf - 6][f - 6])}
  <1>1. IsDestroyedByInterference(matrix, events, e) = IF by = {} THEN 0 ELSE Min(by)
    BY DEF IsDestroyedByInterference
  <1>2. by \subseteq SF
    OBVIOUS
  <1> HIDE DEF by
  <1>3. by # {} => Min(by) \in by
    <2> SUFFICES ASSUME by # {} PROVE \E x \in by : \A y \in by : x <= y
      BY DEF Min
    <2>1. \A y \in by : y = 7 \/ y = 8 \/ y = 9 \/ y = 10 \/ y = 11 \/ y = 12
      BY <1>2 DEF SF
    <2> QED
      BY <2>1
  <1>4. by = {}
    BY <1>1, <1>2, <1>3 DEF SF
  <1> QED
    BY <1>4 DEF by, Energy

LEMMA SurvivorOutweighs ==
    ASSUME NEW events, IsFiniteSet(events), NEW e, e.sf \in SF,
           Duration(e) * Energy(e) \in Nat,
           \A i \in events : GetOverlapTime(e, i) * Energy(i) \in Nat,
           IsDestroyedByInterference(Matrix, events, e) = 0
    PROVE  \A i \in events : i # e => Outweighs(e, i)
  <1> DEFINE I == CumulativeInterferenceEnergy(events, e, e.sf)
             E == Duration(e) * Energy(e)
  <1> SUFFICES ASSUME NEW i \in events, i # e, Meets(e, i)
               PROVE  E >= 4 * (GetOverlapTime(e, i) * Energy(i))
    BY DEF Outweighs
  <1>1. i \in Interferers(events, e, e.sf)
    BY DEF Interferers, Meets
  <1>2. I \in Nat /\ GetOverlapTime(e, i) * Energy(i) <= I
    BY <1>1, InterferenceOfEach
  <1>3. Survives(E, I, CollisionSnir(Matrix)[e.sf - 6][e.sf - 6])
    BY NoneDestroys
  <1>4. CollisionSnir(Matrix)[e.sf - 6][e.sf - 6] \in {6, Unlimited}
    <2>1. e.sf - 6 \in 1 .. 6
      BY DEF SF
    <2> HIDE DEF I, E
    <2> QED
      BY <2>1, OwnIsolation
  <1> HIDE DEF I, E
  <1>5. Survives(E, I, 6) \/ Survives(E, I, Unlimited)
    BY <1>3, <1>4
  <1>6. I = 0 \/ E >= 4 * I
    BY <1>5, SixDecibels DEF Survives, Unlimited
  <1> DEFINE x == GetOverlapTime(e, i) * Energy(i)
  <1>7. x \in Nat /\ x <= I /\ E \in Nat
    BY <1>2 DEF E
  <1> HIDE DEF x
  <1>8. E >= 4 * x
    BY <1>2, <1>6, <1>7
  <1> QED
    BY <1>8 DEF x

(* A frame that a gateway hears has some energy.                              *)
Audible == \A p \in Packets : \A s \in Signals[p] : s.sf \in SF /\ DbmToW(s.power["gw"]) \in Nat \ {0}

Fit(s) == /\ s.duration \in Nat \ {0} /\ s.duration <= OldEventThreshold
          /\ s.sf \in SF /\ DbmToW(s.power["gw"]) \in Nat \ {0}
Whole(e) == /\ e.start \in Nat /\ e.end \in Nat /\ e.start < e.end
            /\ e.end - e.start <= OldEventThreshold
            /\ e.sf \in SF /\ Energy(e) \in Nat \ {0}
GwShape == gw = [transmitting |-> gw.transmitting, isTransmitting |-> gw.isTransmitting,
                 events |-> gw.events, receiving |-> gw.receiving]

(* What the gateway receives, or may still receive, is in its list as long as *)
(* it can overlap a reception; and what it has received was stronger than     *)
(* each of the others it met.                                                 *)
CaptureInv ==
    /\ now \in Nat /\ GwShape /\ IsFiniteSet(gw.events)
    /\ \A x \in flight : x.to \in {"gw", "ed"} /\ Fit(x.signal)
    /\ \A e \in gw.events \cup gw.receiving \cup received : Whole(e)
    /\ \A e \in gw.receiving : e.end >= now
    /\ \A e \in received : e.end <= now
    /\ Kept(gw.events, gw.receiving \cup received)
    /\ \A a \in received, b \in received \cup gw.receiving : b # a => Outweighs(a, b)

LEMMA CaptureInit == Init => CaptureInv
  BY FS_EmptySet DEF Init, CaptureInv, GwShape, Kept

LEMMA FitSent ==
    ASSUME CaptureInv, ShortFrames, Audible, NEW sender, NEW p \in Packets, NEW id,
           NEW s \in Signals[p], Broadcast(sender, id, s)
    PROVE  \A x \in flight' : x.to \in {"gw", "ed"} /\ Fit(x.signal)
  <1>1. Fit(s)
    BY SignalsAssumption DEF ShortFrames, Audible, Fit, Packets
  <1> QED
    BY <1>1 DEF Broadcast, CaptureInv

LEMMA WholeNumbers ==
    ASSUME NEW a, NEW b, Whole(a), Whole(b)
    PROVE  /\ Duration(a) \in Nat /\ Duration(a) > 0 /\ Energy(a) \in Nat /\ Energy(a) > 0
           /\ Duration(a) * Energy(a) \in Nat
           /\ GetOverlapTime(a, b) \in Nat
           /\ GetOverlapTime(a, b) * Energy(b) \in Nat
           /\ GetOverlapTime(a, b) = Overlap(a, b)
           /\ GetOverlapTime(a, b) = GetOverlapTime(b, a)
  <1>1. Duration(a) \in Nat /\ Duration(a) > 0 /\ Energy(a) \in Nat /\ Energy(a) > 0
        /\ Energy(b) \in Nat
    BY DEF Whole, Duration
  <1>2. GetOverlapTime(a, b) \in Nat
    BY DEF Whole, GetOverlapTime
  <1>3. Duration(a) * Energy(a) \in Nat /\ GetOverlapTime(a, b) * Energy(b) \in Nat
    BY <1>1, <1>2
  <1>4. a.start \in Int /\ a.end \in Int /\ b.start \in Int /\ b.end \in Int
        /\ a.start <= a.end /\ b.start <= b.end
    BY DEF Whole
  <1>5. GetOverlapTime(a, b) = Overlap(a, b) /\ GetOverlapTime(a, b) = GetOverlapTime(b, a)
    BY <1>4, OverlapIsIntersection
  <1> QED
    BY <1>1, <1>2, <1>3, <1>5

LEMMA ApartOutweighs ==
    ASSUME NEW a, NEW b, Whole(a), Whole(b), a.end <= b.start \/ b.end <= a.start
    PROVE  Outweighs(a, b)
  <1>1. GetOverlapTime(a, b) = 0
    BY DEF GetOverlapTime
  <1>2. Duration(a) * Energy(a) \in Nat /\ Energy(b) \in Nat
    BY WholeNumbers
  <1>3. 4 * (0 * Energy(b)) = 0
    BY <1>2
  <1> QED
    BY <1>1, <1>2, <1>3 DEF Outweighs

LEMMA AddFinite ==
    ASSUME NEW events, IsFiniteSet(events), NEW e
    PROVE  IsFiniteSet(Add(events, e, now)) /\ Add(events, e, now) \subseteq events \cup {e}
  <1>1. IsFiniteSet(events \cup {e})
    BY FS_AddElement
  <1>2. Add(events, e, now) \subseteq events \cup {e}
    BY DEF Add, CleanOldEvents
  <1> QED
    BY <1>1, <1>2, FS_Subset

(* The gateway's list and receptions change at a start of reception ...       *)
LEMMA CaptureDeliver ==
    ASSUME CaptureInv, Deliver
    PROVE  CaptureInv'
  <1> USE ThresholdAssumption
  <1>1. PICK x \in flight :
            LET e == EventOf(x)
            IN  /\ flight' = flight \ {x}
                /\ IF x.to = "ed" THEN EndDeviceStartReceive(e) ELSE GatewayStartReceive(e)
                /\ UNCHANGED <<now, received>>
    BY DEF Deliver
  <1> DEFINE e == EventOf(x)
  <1>2. UNCHANGED <<now, received>> /\ \A y \in flight' : y.to \in {"gw", "ed"} /\ Fit(y.signal)
    BY <1>1 DEF CaptureInv
  <1>3. ASSUME UNCHANGED gw PROVE CaptureInv'
    BY <1>2, <1>3 DEF CaptureInv, GwShape, Kept
  <1>4. CASE x.to = "ed" \/ gw.isTransmitting
    <2>1. UNCHANGED gw
      BY <1>1, <1>4 DEF CaptureInv, EndDeviceStartReceive, GatewayStartReceive
    <2> QED
      BY <1>3, <2>1
  <1>5. CASE x.to = "gw" /\ ~gw.isTransmitting
    <2>1. GwShape' /\ gw'.events = Add(gw.events, e, now)
          /\ gw'.receiving \subseteq gw.receiving \cup {e} /\ gw.receiving \subseteq gw'.receiving
      BY <1>1, <1>5 DEF CaptureInv, GwShape, GatewayStartReceive
    <2>2. Whole(e) /\ e.start = now /\ e.end >= now
      <3>1. Fit(x.signal) /\ now \in Nat
        BY DEF CaptureInv
      <3> QED
        BY <1>5, <3>1 DEF Fit, Whole, Energy, EventOf, Event
    <2> HIDE DEF e
    <2>3. IsFiniteSet(gw'.events) /\ gw'.events \subseteq gw.events \cup {e}
      BY <2>1, AddFinite DEF CaptureInv
    <2>4. \A i \in gw'.events \cup gw'.receiving \cup received' : Whole(i)
      BY <1>2, <2>1, <2>2, <2>3 DEF CaptureInv
    <2>5. Kept(gw.events, gw.receiving \cup received)
      BY DEF CaptureInv
    <2>6. Kept(gw'.events, (gw.receiving \cup received) \cup {e})
      BY <2>1, <2>5, AddKeeps
    <2>7. Kept(gw.events, gw.receiving \cup received)'
      BY <1>2, <2>1, <2>6 DEF Kept
    <2>8. ASSUME NEW a \in received, NEW b \in received \cup gw'.receiving, b # a
          PROVE  Outweighs(a, b)
      <3>1. CASE b \in received \cup gw.receiving
        BY <2>8, <3>1 DEF CaptureInv
      <3>2. CASE b = e
        <4>1. Whole(a) /\ a.end <= b.start
          BY <2>2, <3>2 DEF CaptureInv
        <4> QED
          BY <2>2, <3>2, <4>1, ApartOutweighs
      <3> QED
        BY <2>1, <3>1, <3>2
    <2> QED
      BY <1>2, <2>1, <2>2, <2>3, <2>4, <2>7, <2>8 DEF CaptureInv
  <1> QED
    BY <1>4, <1>5 DEF CaptureInv

(* ... and at the end of one, which is where a frame is judged.               *)
LEMMA CaptureEndReceive ==
    ASSUME CaptureInv, GatewayEndReceive
    PROVE  CaptureInv'
  <1> USE ThresholdAssumption
  <1>1. PICK e \in Ending(gw.receiving) :
            LET destroyed == IsDestroyedByInterference(Matrix, gw.events, e) # 0
            IN  /\ gw' = [gw EXCEPT !.receiving = @ \ {e}]
                /\ received' = IF destroyed THEN received ELSE received \cup {e}
                /\ UNCHANGED <<now, flight>>
    BY DEF GatewayEndReceive
  <1>2. e \in gw.receiving /\ e.end = now /\ Whole(e)
    BY DEF Ending, CaptureInv
  <1>3. GwShape' /\ gw'.events = gw.events /\ gw'.receiving = gw.receiving \ {e}
        /\ UNCHANGED <<now, flight>> /\ received' \subseteq received \cup {e}
    BY <1>1 DEF CaptureInv, GwShape
  <1>4. ASSUME IsDestroyedByInterference(Matrix, gw.events, e) = 0,
               NEW b \in received \cup gw.receiving, b # e
        PROVE  Outweighs(e, b)
    <2>1. Whole(b) /\ b.end \in Nat /\ e.start \in Nat
      BY <1>2 DEF CaptureInv, Whole
    <2>2. CASE b.end <= e.start
      BY <1>2, <2>1, <2>2, ApartOutweighs
    <2>3. CASE b.end > e.start
      <3>1. b \in gw.events
        BY <1>2, <2>1, <2>3 DEF CaptureInv, Kept, Whole
      <3>2. IsFiniteSet(gw.events) /\ e.sf \in SF /\ Duration(e) * Energy(e) \in Nat
        BY <1>2, WholeNumbers DEF CaptureInv, Whole
      <3>3. \A i \in gw.events : GetOverlapTime(e, i) * Energy(i) \in Nat
        BY <1>2, WholeNumbers DEF CaptureInv
      <3> QED
        BY <1>4, <3>1, <3>2, <3>3, SurvivorOutweighs
    <2> QED
      BY <2>1, <2>2, <2>3
  <1>5. \A a \in received', b \in received' \cup gw'.receiving : b # a => Outweighs(a, b)
    <2>1. \A b \in received' \cup gw'.receiving : b \in received \cup gw.receiving
      BY <1>2, <1>3
    <2>2. \A a \in received, b \in received \cup gw.receiving : b # a => Outweighs(a, b)
      BY DEF CaptureInv
    <2>3. e \in received' =>
             e \in received \/ IsDestroyedByInterference(Matrix, gw.events, e) = 0
      BY <1>1
    <2> QED
      BY <1>3, <1>4, <2>1, <2>2, <2>3
  <1>6. Kept(gw.events, gw.receiving \cup received)'
    BY <1>2, <1>3 DEF CaptureInv, Kept
  <1> QED
    BY <1>2, <1>3, <1>5, <1>6 DEF CaptureInv

LEMMA CaptureStep == ShortFrames /\ Audible /\ CaptureInv /\ [Next]_vars => CaptureInv'
  <1> SUFFICES ASSUME ShortFrames, Audible, CaptureInv, Next PROVE CaptureInv'
    <2>1. CASE UNCHANGED vars
      BY <2>1 DEF CaptureInv, GwShape, Kept, vars, outside
    <2> QED
      BY <2>1
  <1> USE ThresholdAssumption
  <1>1. ASSUME UNCHANGED <<now, received>>, GwShape', gw'.events = gw.events,
               gw'.receiving \subseteq gw.receiving,
               \A x \in flight' : x.to \in {"gw", "ed"} /\ Fit(x.signal)
        PROVE  CaptureInv'
    BY <1>1 DEF CaptureInv, Kept
  <1>2. GwShape /\ \A x \in flight : x.to \in {"gw", "ed"} /\ Fit(x.signal)
    BY DEF CaptureInv
  <1>3. ASSUME UNCHANGED <<now, received, gw, flight>> PROVE CaptureInv'
    BY <1>1, <1>2, <1>3 DEF GwShape
  <1>4. ASSUME NEW p \in OtherPackets, OtherSends(p) PROVE CaptureInv'
    <2>1. PICK s \in Signals[p] : Broadcast("other", NextId(p), s)
      BY <1>4 DEF OtherSends
    <2>2. UNCHANGED <<now, received, gw>> /\ p \in Packets
      BY <1>4 DEF OtherSends, outside, Packets
    <2> QED
      BY <1>1, <1>2, <2>1, <2>2, FitSent DEF GwShape
  <1>5. ASSUME NEW p \in OwnPackets, OwnSends(p) PROVE CaptureInv'
    <2>1. PICK s \in Signals[p] : Broadcast("ed", NextId(p), s)
      BY <1>5 DEF OwnSends
    <2>2. UNCHANGED <<now, received, gw>> /\ p \in Packets
      BY <1>5 DEF OwnSends, outside, Packets
    <2> QED
      BY <1>1, <1>2, <2>1, <2>2, FitSent DEF GwShape
  <1>6. ASSUME NEW p \in Downlinks, GatewaySends(p) PROVE CaptureInv'
    <2>1. PICK s \in Signals[p] :
              /\ Broadcast("gw", NextId(p), s)
              /\ gw' = [gw EXCEPT !.receiving = {}, !.isTransmitting = TRUE,
                          !.transmitting = @ \cup {[id |-> NextId(p), end |-> now + s.duration]}]
      BY <1>6 DEF GatewaySends
    <2>2. UNCHANGED <<now, received>> /\ p \in Packets
      BY <1>6 DEF GatewaySends, outside, Packets
    <2>3. GwShape' /\ gw'.events = gw.events /\ gw'.receiving = {}
      BY <1>2, <2>1 DEF GwShape
    <2> QED
      BY <1>1, <2>1, <2>2, <2>3, FitSent
  <1>7. CASE Deliver
    BY <1>7, CaptureDeliver
  <1>8. CASE GatewayEndReceive
    BY <1>8, CaptureEndReceive
  <1>9. CASE GatewayTxFinished
    <2>1. GwShape' /\ gw'.events = gw.events /\ gw'.receiving = gw.receiving
          /\ UNCHANGED <<now, received, flight>>
      BY <1>2, <1>9 DEF GatewayTxFinished, GwShape, outside
    <2> QED
      BY <1>1, <1>2, <2>1
  <1>10. CASE EndDeviceEndReceive \/ EndDeviceTxFinished \/ OpenWindow \/ CloseWindow \/ SourceRunsDry
    BY <1>3, <1>10 DEF EndDeviceEndReceive, EndDeviceTxFinished, OpenWindow, CloseWindow,
                       SourceRunsDry, outside
  <1>11. CASE Tick
    <2>1. /\ now' = now + 1 /\ UNCHANGED <<flight, gw, received>>
          /\ Ending(gw.receiving \cup ed.receiving) = {}
      BY <1>11 DEF Tick
    <2>2. \A e \in gw.receiving : e.end >= now'
      BY <2>1 DEF CaptureInv, Whole, Ending
    <2>3. \A e \in received : e.end <= now'
      BY <2>1 DEF CaptureInv, Whole
    <2>4. Kept(gw.events, gw.receiving \cup received)'
      BY <2>1 DEF CaptureInv, Kept, Whole
    <2> QED
      BY <2>1, <2>2, <2>3, <2>4 DEF CaptureInv, GwShape
  <1> QED
    BY <1>4, <1>5, <1>6, <1>7, <1>8, <1>9, <1>10, <1>11 DEF Next

(* Two frames cannot both be four times as strong as the other over the time  *)
(* that they share.                                                           *)
LEMMA NotBoth ==
    ASSUME NEW p \in Nat, NEW q \in Nat, NEW d \in Nat, NEW e \in Nat, NEW v \in Nat,
           p > 0, q > 0, d * p >= 4 * (v * q), e * q >= 4 * (v * p)
    PROVE  16 * v * v <= d * e
  <1>1. (d * p) * (e * q) >= (4 * (v * q)) * (e * q)
    <2>1. d * p \in Nat /\ e * q \in Nat /\ 4 * (v * q) \in Nat
      OBVIOUS
    <2>2. \A x, y, z \in Nat : x >= y => x * z >= y * z
      OBVIOUS
    <2> QED
      BY <2>1, <2>2
  <1>2. (4 * (v * q)) * (e * q) >= (4 * (v * q)) * (4 * (v * p))
    <2>1. e * q \in Nat /\ 4 * (v * p) \in Nat /\ 4 * (v * q) \in Nat
      OBVIOUS
    <2>2. \A x, y, z \in Nat : x >= y => z * x >= z * y
      OBVIOUS
    <2> QED
      BY <2>1, <2>2
  <1>3. (d * p) * (e * q) = (d * e) * (p * q)
    OBVIOUS
  <1>4. (4 * (v * q)) * (4 * (v * p)) = (16 * v * v) * (p * q)
    OBVIOUS
  <1>5. p * q \in Nat /\ p * q > 0 /\ d * e \in Nat /\ 16 * v * v \in Nat
    OBVIOUS
  <1>6. (d * e) * (p * q) >= (16 * v * v) * (p * q)
    <2>1. /\ (d * p) * (e * q) \in Int /\ (4 * (v * q)) * (e * q) \in Int
          /\ (4 * (v * q)) * (4 * (v * p)) \in Int
      OBVIOUS
    <2> QED
      BY <1>1, <1>2, <1>3, <1>4, <2>1
  <1>7. \A x, y, z \in Nat : z > 0 /\ x * z >= y * z => x >= y
    OBVIOUS
  <1> DEFINE x == d * e
             y == 16 * v * v
             z == p * q
  <1>8. x \in Nat /\ y \in Nat /\ z \in Nat /\ z > 0 /\ x * z >= y * z
    BY <1>5, <1>6
  <1> HIDE DEF x, y, z
  <1>9. x >= y
    BY <1>7, <1>8
  <1>10. y <= x
    BY <1>8, <1>9
  <1> QED
    BY <1>10 DEF x, y

(* Of two frames that collide for most of their time the gateway receives at  *)
(* most one, whatever else is on the air, if no frame is longer than          *)
(* OldEventThreshold.                                                         *)
THEOREM OneCapture ==
    ASSUME ShortFrames, Audible
    PROVE  Spec => []NoDoubleCapture
  <1>1. CaptureInv => NoDoubleCapture
    <2> SUFFICES ASSUME CaptureInv, NEW a \in received, NEW b \in received, a # b, Collide(a, b)
                 PROVE  FALSE
      BY DEF NoDoubleCapture
    <2> DEFINE v == Overlap(a, b)
    <2>1. Whole(a) /\ Whole(b) /\ Outweighs(a, b) /\ Outweighs(b, a)
      BY DEF CaptureInv
    <2>2. Meets(a, b) /\ Meets(b, a)
      BY DEF Collide, Meets
    <2>3. GetOverlapTime(a, b) = v /\ GetOverlapTime(b, a) = v /\ v \in Nat
      BY <2>1, WholeNumbers
    <2>4. /\ Duration(a) * Energy(a) >= 4 * (v * Energy(b))
          /\ Duration(b) * Energy(b) >= 4 * (v * Energy(a))
      <3> HIDE DEF v
      <3> QED
        BY <2>1, <2>2, <2>3 DEF Outweighs
    <2>5. /\ Duration(a) \in Nat /\ Energy(a) \in Nat /\ Energy(a) > 0
          /\ Duration(b) \in Nat /\ Energy(b) \in Nat /\ Energy(b) > 0
      BY <2>1, WholeNumbers
    <2>6. 16 * v * v > Duration(a) * Duration(b)
      BY DEF Collide
    <2> HIDE DEF v
    <2>7. 16 * v * v <= Duration(a) * Duration(b)
      BY <2>3, <2>4, <2>5, NotBoth
    <2>8. 16 * v * v \in Int /\ Duration(a) * Duration(b) \in Int
      BY <2>3, <2>5
    <2> QED
      BY <2>6, <2>7, <2>8
  <1> QED
    BY <1>1, ShortFrames, Audible, CaptureInit, CaptureStep, PTL DEF Spec

------------------------------------------------------------------------------
(* Counts                                                                     *)
(* What the tracker knows: uplinks sent, those without an outcome, those with *)
(* a given one, and those that the gateway's MAC has reported.                *)
Sent(t) == DOMAIN t.phy
Open(t) == {q \in DOMAIN t.phy : "gw" \notin DOMAIN t.phy[q].outcomes}
With(t, o) == {q \in DOMAIN t.phy : "gw" \in DOMAIN t.phy[q].outcomes /\ t.phy[q].outcomes["gw"] = o}
Reported(t) == {q \in DOMAIN t.mac : t.mac[q].receptionTimes # <<>>}

TrackerShape(t) ==
    /\ t = [phy |-> t.phy, mac |-> t.mac, aborted |-> t.aborted]
    /\ t.phy = [q \in DOMAIN t.phy |-> t.phy[q]]
    /\ t.mac = [q \in DOMAIN t.mac |-> t.mac[q]]
    /\ \A q \in DOMAIN t.phy :
          t.phy[q] = [sendTime |-> t.phy[q].sendTime, outcomes |-> t.phy[q].outcomes]
    /\ \A q \in DOMAIN t.mac :
          t.mac[q] = [sendTime |-> t.mac[q].sendTime, receptionTimes |-> t.mac[q].receptionTimes]

SameMac(t, r) == r.mac = t.mac /\ Reported(r) = Reported(t)
SameTimes(t, r) == \A q \in DOMAIN t.phy : r.phy[q].sendTime = t.phy[q].sendTime

LEMMA NothingHeard == DOMAIN <<>> = {}
  OBVIOUS

(* A new packet has no outcome yet.                                           *)
NewPacketDone(t, q, r) ==
    /\ TrackerShape(r) /\ r.aborted = t.aborted
    /\ Sent(r) = Sent(t) \cup {q} /\ DOMAIN r.mac = DOMAIN t.mac \cup {q}
    /\ Open(r) = Open(t) \cup {q} /\ Reported(r) = Reported(t)
    /\ \A o : With(r, o) = With(t, o)
    /\ SameTimes(t, r) /\ r.phy[q].sendTime = now
    /\ \A k \in DOMAIN t.mac : r.mac[k].sendTime = t.mac[k].sendTime
    /\ r.mac[q].sendTime = now

LEMMA NewPacket ==
    ASSUME NEW t, TrackerShape(t), NEW id, id[2] = 1, NEW q, q = Pointer(id),
           q \notin DOMAIN t.phy, q \notin DOMAIN t.mac, NEW r, r = TrackSending(t, id)
    PROVE  NewPacketDone(t, q, r)
  <1> DEFINE inPhy == [sendTime |-> now, outcomes |-> <<>>]
             inMac == [sendTime |-> now, receptionTimes |-> <<>>]
             phy == Insert(t.phy, q, inPhy)
             mac == Insert(t.mac, q, inMac)
  <1>1. r = [t EXCEPT !.phy = phy, !.mac = mac]
    BY DEF TrackSending, TransmissionCallback, MacTransmissionCallback, TrackerShape
  <1>2. inPhy = [sendTime |-> inPhy.sendTime, outcomes |-> inPhy.outcomes]
        /\ inPhy.sendTime = now /\ "gw" \notin DOMAIN inPhy.outcomes
    BY NothingHeard
  <1>3. inMac = [sendTime |-> inMac.sendTime, receptionTimes |-> inMac.receptionTimes]
        /\ inMac.sendTime = now /\ inMac.receptionTimes = <<>>
    OBVIOUS
  <1> HIDE DEF inPhy, inMac
  <1>4. /\ DOMAIN phy = DOMAIN t.phy \cup {q} /\ phy[q] = inPhy
        /\ \A k \in DOMAIN t.phy : phy[k] = t.phy[k]
        /\ phy = [k \in DOMAIN phy |-> phy[k]]
    BY DEF Insert
  <1>5. /\ DOMAIN mac = DOMAIN t.mac \cup {q} /\ mac[q] = inMac
        /\ \A k \in DOMAIN t.mac : mac[k] = t.mac[k]
        /\ mac = [k \in DOMAIN mac |-> mac[k]]
    BY DEF Insert
  <1> HIDE DEF phy, mac
  <1>6. r.phy = phy /\ r.mac = mac /\ r.aborted = t.aborted
        /\ r = [phy |-> r.phy, mac |-> r.mac, aborted |-> r.aborted]
    BY <1>1 DEF TrackerShape
  <1>7. TrackerShape(r)
    BY <1>2, <1>3, <1>4, <1>5, <1>6 DEF TrackerShape
  <1>8. Open(r) = Open(t) \cup {q} /\ \A o : With(r, o) = With(t, o)
    BY <1>2, <1>4, <1>6 DEF Open, With
  <1>9. Reported(r) = Reported(t)
    BY <1>3, <1>5, <1>6 DEF Reported
  <1> QED
    BY <1>2, <1>3, <1>4, <1>5, <1>6, <1>7, <1>8, <1>9 DEF NewPacketDone, Sent, SameTimes

(* An outcome closes a packet.                                                *)
ClosedDone(t, q, o, r) ==
    /\ TrackerShape(r) /\ r.aborted = t.aborted /\ SameMac(t, r) /\ SameTimes(t, r)
    /\ Sent(r) = Sent(t) /\ Open(r) = Open(t) \ {q}
    /\ With(r, o) = With(t, o) \cup {q}
    /\ \A other : other # o => With(r, other) = With(t, other)

LEMMA Closed ==
    ASSUME NEW t, TrackerShape(t), NEW q \in Open(t), NEW o, NEW r,
           r = OutcomeCallback(t, q, "gw", o)
    PROVE  ClosedDone(t, q, o, r)
  <1> DEFINE outcomes == Insert(t.phy[q].outcomes, "gw", o)
             status == [t.phy[q] EXCEPT !.outcomes = outcomes]
             phy == [t.phy EXCEPT ![q] = status]
  <1>1. r = [t EXCEPT !.phy = phy] /\ q \in DOMAIN t.phy /\ "gw" \notin DOMAIN t.phy[q].outcomes
    BY DEF OutcomeCallback, Open
  <1>2. "gw" \in DOMAIN outcomes /\ outcomes["gw"] = o
    BY <1>1 DEF Insert
  <1> HIDE DEF outcomes
  <1>3. /\ status = [sendTime |-> status.sendTime, outcomes |-> status.outcomes]
        /\ status.sendTime = t.phy[q].sendTime /\ status.outcomes = outcomes
    BY <1>1 DEF TrackerShape
  <1> HIDE DEF status
  <1>4. /\ DOMAIN phy = DOMAIN t.phy /\ phy[q] = status
        /\ \A k \in DOMAIN t.phy : k # q => phy[k] = t.phy[k]
        /\ phy = [k \in DOMAIN phy |-> phy[k]]
    BY <1>1
  <1> HIDE DEF phy
  <1>5. r.phy = phy /\ r.mac = t.mac /\ r.aborted = t.aborted
        /\ r = [phy |-> r.phy, mac |-> r.mac, aborted |-> r.aborted]
    BY <1>1 DEF TrackerShape
  <1>6. TrackerShape(r)
    BY <1>3, <1>4, <1>5 DEF TrackerShape
  <1>7. SameMac(t, r) /\ SameTimes(t, r) /\ Sent(r) = Sent(t)
    BY <1>3, <1>4, <1>5 DEF SameMac, SameTimes, Sent, Reported
  <1>8. Open(r) = Open(t) \ {q}
    BY <1>2, <1>3, <1>4, <1>5 DEF Open
  <1>9. With(r, o) = With(t, o) \cup {q} /\ \A other : other # o => With(r, other) = With(t, other)
    BY <1>1, <1>2, <1>3, <1>4, <1>5 DEF With
  <1> QED
    BY <1>5, <1>6, <1>7, <1>8, <1>9 DEF ClosedDone

(* The gateway's MAC reports a packet that the tracker knows.                 *)
LEMMA ForwardedDone ==
    ASSUME NEW t, TrackerShape(t), NEW id, IsUplink(id), NEW q, q = Pointer(id), q \in DOMAIN t.mac,
           NEW r, r = ForwardUplink(t, id)
    PROVE  /\ TrackerShape(r) /\ r.aborted = t.aborted /\ r.phy = t.phy
           /\ DOMAIN r.mac = DOMAIN t.mac /\ Reported(r) = Reported(t) \cup {q}
           /\ \A k \in DOMAIN t.mac : r.mac[k].sendTime = t.mac[k].sendTime
  <1> DEFINE times == Insert(t.mac[q].receptionTimes, "gw", now)
             status == [t.mac[q] EXCEPT !.receptionTimes = times]
             mac == [t.mac EXCEPT ![q] = status]
  <1>1. r = [t EXCEPT !.mac = mac]
    BY DEF ForwardUplink, MacGwReceptionCallback
  <1>2. times # <<>>
    <2>1. "gw" \in DOMAIN times
      BY DEF Insert
    <2> HIDE DEF times
    <2> QED
      BY <2>1, NothingHeard
  <1> HIDE DEF times
  <1>3. /\ status = [sendTime |-> status.sendTime, receptionTimes |-> status.receptionTimes]
        /\ status.sendTime = t.mac[q].sendTime /\ status.receptionTimes = times
    BY DEF TrackerShape
  <1> HIDE DEF status
  <1>4. /\ DOMAIN mac = DOMAIN t.mac /\ mac[q] = status
        /\ \A k \in DOMAIN t.mac : k # q => mac[k] = t.mac[k]
        /\ mac = [k \in DOMAIN mac |-> mac[k]]
    BY DEF TrackerShape
  <1> HIDE DEF mac
  <1>5. r.mac = mac /\ r.phy = t.phy /\ r.aborted = t.aborted
        /\ r = [phy |-> r.phy, mac |-> r.mac, aborted |-> r.aborted]
    BY <1>1 DEF TrackerShape
  <1>6. TrackerShape(r)
    BY <1>3, <1>4, <1>5 DEF TrackerShape
  <1>7. Reported(r) = Reported(t) \cup {q}
    BY <1>2, <1>3, <1>4, <1>5 DEF Reported
  <1> QED
    BY <1>3, <1>4, <1>5, <1>6, <1>7

(* A gateway that begins to transmit closes all it was receiving.             *)
LEMMA AllLost ==
    ASSUME NEW t, TrackerShape(t), NEW events,
           \A e \in events : IsUplink(e.id) /\ Pointer(e.id) \in Open(t),
           NEW r, r = LostBecauseTx(t, events)
    PROVE  /\ TrackerShape(r) /\ r.aborted = t.aborted /\ SameMac(t, r) /\ SameTimes(t, r)
           /\ Sent(r) = Sent(t) /\ Open(r) = Open(t) \ {Pointer(e.id) : e \in events}
           /\ With(r, "LOST_BECAUSE_TX") =
                 With(t, "LOST_BECAUSE_TX") \cup {Pointer(e.id) : e \in events}
           /\ \A o : o # "LOST_BECAUSE_TX" => With(r, o) = With(t, o)
  <1> DEFINE lost == {Pointer(e.id) : e \in events}
             Lost(q) == OutcomeCallback(t, q, "gw", "LOST_BECAUSE_TX").phy[q]
             phy == [q \in DOMAIN t.phy |-> IF q \in lost THEN Lost(q) ELSE t.phy[q]]
  <1>1. {Pointer(e.id) : e \in {e \in events : IsUplink(e.id)}} = lost /\ lost \subseteq Open(t)
    OBVIOUS
  <1>2. r = [t EXCEPT !.phy = phy]
    BY <1>1 DEF LostBecauseTx
  <1>3. ASSUME NEW q \in Open(t)
        PROVE  /\ Lost(q) = [sendTime |-> Lost(q).sendTime, outcomes |-> Lost(q).outcomes]
               /\ Lost(q).sendTime = t.phy[q].sendTime
               /\ "gw" \in DOMAIN Lost(q).outcomes /\ Lost(q).outcomes["gw"] = "LOST_BECAUSE_TX"
    <2> DEFINE s == OutcomeCallback(t, q, "gw", "LOST_BECAUSE_TX")
    <2>1. ClosedDone(t, q, "LOST_BECAUSE_TX", s)
      BY Closed
    <2> HIDE DEF s
    <2>2. q \in DOMAIN t.phy /\ q \in DOMAIN s.phy /\ q \in With(s, "LOST_BECAUSE_TX")
      BY <2>1 DEF ClosedDone, Open, Sent
    <2>3. /\ s.phy[q] = [sendTime |-> s.phy[q].sendTime, outcomes |-> s.phy[q].outcomes]
          /\ s.phy[q].sendTime = t.phy[q].sendTime
          /\ "gw" \in DOMAIN s.phy[q].outcomes /\ s.phy[q].outcomes["gw"] = "LOST_BECAUSE_TX"
      BY <2>1, <2>2 DEF ClosedDone, TrackerShape, SameTimes, With
    <2> QED
      BY <2>3 DEF s
  <1> HIDE DEF lost, Lost
  <1>4. /\ DOMAIN phy = DOMAIN t.phy /\ phy = [q \in DOMAIN phy |-> phy[q]]
        /\ \A q \in DOMAIN t.phy : phy[q] = IF q \in lost THEN Lost(q) ELSE t.phy[q]
    OBVIOUS
  <1> HIDE DEF phy
  <1>5. r.phy = phy /\ r.mac = t.mac /\ r.aborted = t.aborted
        /\ r = [phy |-> r.phy, mac |-> r.mac, aborted |-> r.aborted]
    BY <1>2 DEF TrackerShape
  <1>6. \A q \in lost : q \in DOMAIN t.phy /\ "gw" \notin DOMAIN t.phy[q].outcomes
    BY <1>1 DEF Open
  <1>7. TrackerShape(r)
    BY <1>1, <1>3, <1>4, <1>5 DEF TrackerShape
  <1>8. SameMac(t, r) /\ SameTimes(t, r) /\ Sent(r) = Sent(t)
    BY <1>1, <1>3, <1>4, <1>5 DEF SameMac, SameTimes, Sent, Reported
  <1>9. Open(r) = Open(t) \ lost
    BY <1>1, <1>3, <1>4, <1>5 DEF Open
  <1>10. With(r, "LOST_BECAUSE_TX") = With(t, "LOST_BECAUSE_TX") \cup lost
    BY <1>1, <1>3, <1>4, <1>5, <1>6 DEF With
  <1>11. \A o : o # "LOST_BECAUSE_TX" => With(r, o) = With(t, o)
    BY <1>1, <1>3, <1>4, <1>5, <1>6 DEF With
  <1> QED
    BY <1>5, <1>7, <1>8, <1>9, <1>10, <1>11 DEF lost

(* Every uplink is sent once and its tracker entry is open exactly as long as *)
(* its signal is on the way to the gateway or being received there.           *)
Coming(id) == IsUplink(id) /\ id[2] = 1 /\ Pointer(id) \in Open(tracker)
ToGateway == {x \in flight : x.to = "gw"}

CountShape == /\ now \in 0 .. MaxTime /\ attempts \in [Packets -> 0 .. 1]
              /\ GwShape /\ TrackerShape(tracker) /\ tracker.aborted = FALSE
SentOnce == /\ IsFiniteSet(Sent(tracker)) /\ DOMAIN tracker.mac = Sent(tracker)
            /\ \A q \in Sent(tracker) : /\ tracker.phy[q].sendTime \in 0 .. now
                                        /\ tracker.mac[q].sendTime \in 0 .. now
                                        /\ \E p \in Uplinks : q = <<p, "packet">> /\ attempts[p] = 1
OnTheWay == /\ \A x \in ToGateway : Coming(x.id)
            /\ \A e \in gw.receiving : Coming(e.id)
            /\ \A q \in Open(tracker) : \/ \E x \in ToGateway : Pointer(x.id) = q
                                        \/ \E e \in gw.receiving : Pointer(e.id) = q
            /\ \A x, y \in ToGateway : Pointer(x.id) = Pointer(y.id) => x = y
            /\ \A d, e \in gw.receiving : Pointer(d.id) = Pointer(e.id) => d = e
            /\ \A x \in ToGateway, e \in gw.receiving : Pointer(x.id) # Pointer(e.id)
Closures == /\ \A q \in Sent(tracker) \ Open(tracker) : \E o \in PhyPacketOutcome : q \in With(tracker, o)
            /\ Reported(tracker) = With(tracker, "RECEIVED")
            /\ \A e \in received : IsUplink(e.id) /\ Pointer(e.id) \in With(tracker, "RECEIVED")
            /\ IsFiniteSet(received)
            /\ Cardinality(received) = Cardinality(With(tracker, "RECEIVED"))
CountInv == CountShape /\ SentOnce /\ OnTheWay /\ Closures
ToSomeone == \A x \in flight : x.to \in {"gw", "ed"}

LEMMA CountInit == Init => CountInv
  <1> SUFFICES ASSUME Init PROVE CountInv
    OBVIOUS
  <1>1. /\ now = 0 /\ attempts = [p \in Packets |-> 0] /\ flight = {} /\ received = {}
        /\ gw = [transmitting |-> {}, isTransmitting |-> FALSE, events |-> {}, receiving |-> {}]
        /\ tracker = [phy |-> <<>>, mac |-> <<>>, aborted |-> FALSE]
    BY DEF Init, NewTracker
  <1>2. Sent(tracker) = {} /\ Open(tracker) = {} /\ DOMAIN tracker.mac = {}
        /\ Reported(tracker) = {} /\ With(tracker, "RECEIVED") = {}
    BY <1>1, NothingHeard DEF Sent, Open, With, Reported
  <1>3. TrackerShape(tracker)
    <2>1. <<>> = [q \in DOMAIN <<>> |-> <<>>[q]]
      OBVIOUS
    <2>2. tracker.phy = <<>> /\ tracker.mac = <<>>
      BY <1>1
    <2> QED
      BY <1>1, <2>1, <2>2, NothingHeard DEF TrackerShape
  <1>4. CountShape
    BY <1>1, <1>3, CountsAssumption DEF CountShape, GwShape
  <1>5. SentOnce
    BY <1>2, FS_EmptySet DEF SentOnce
  <1>6. OnTheWay
    BY <1>1, <1>2 DEF OnTheWay, ToGateway
  <1>7. Closures
    BY <1>1, <1>2, FS_EmptySet DEF Closures, Sent
  <1> QED
    BY <1>4, <1>5, <1>6, <1>7 DEF CountInv

(* ... an uplink is sent                                                      *)
LEMMA CountSends ==
    ASSUME CountInv, MaxAttempts = 1, NEW p \in Uplinks, MaySend(p),
           NEW sender \in {"other", "ed"}, NEW s, NEW id, id = NextId(p), Broadcast(sender, id, s),
           tracker' = TrackSending(tracker, id), UNCHANGED <<now, gw, received>>
    PROVE  CountInv'
  <1> DEFINE q == <<p, "packet">>
             x == [to |-> "gw", id |-> id, signal |-> s]
  <1>1. attempts[p] = 0 /\ attempts' = [attempts EXCEPT ![p] = 1] /\ p \in Packets
    <2>1. p \in Packets /\ attempts[p] \in 0 .. 1
      BY DEF Packets, Uplinks, CountInv, CountShape
    <2>2. attempts[p] < 1 /\ attempts' = [attempts EXCEPT ![p] = attempts[p] + 1]
      BY DEF MaySend
    <2>3. attempts[p] = 0
      BY <2>1, <2>2
    <2> QED
      BY <2>1, <2>2, <2>3
  <1>2. id[1] = p /\ id[2] = 1 /\ Pointer(id) = q /\ IsUplink(id)
    BY <1>1 DEF NextId, Pointer, IsUplink
  <1>3. x.to = "gw" /\ x.id = id /\ ToGateway' = ToGateway \cup {x}
    BY DEF Broadcast, ToGateway
  <1>4. q \notin Sent(tracker)
    <2> SUFFICES ASSUME q \in Sent(tracker) PROVE FALSE
      OBVIOUS
    <2>1. PICK r \in Uplinks : q = <<r, "packet">> /\ attempts[r] = 1
      BY DEF CountInv, SentOnce
    <2> QED
      BY <1>1, <2>1
  <1> HIDE DEF x
  <1>5. NewPacketDone(tracker, q, tracker')
    <2>1. q \notin DOMAIN tracker.phy /\ q \notin DOMAIN tracker.mac /\ TrackerShape(tracker)
      BY <1>4 DEF CountInv, CountShape, SentOnce, Sent
    <2>2. tracker' = TrackSending(tracker, id) /\ q = Pointer(id) /\ id[2] = 1
      BY <1>2
    <2> HIDE DEF q
    <2>3. \A r : r = TrackSending(tracker, id) => NewPacketDone(tracker, q, r)
      BY <2>1, <2>2, NewPacket
    <2> QED
      BY <2>2, <2>3
  <1>6. /\ TrackerShape(tracker') /\ tracker'.aborted = tracker.aborted
        /\ Sent(tracker') = Sent(tracker) \cup {q} /\ DOMAIN tracker'.mac = DOMAIN tracker.mac \cup {q}
        /\ Open(tracker') = Open(tracker) \cup {q} /\ Reported(tracker') = Reported(tracker)
        /\ \A o : With(tracker', o) = With(tracker, o)
    BY <1>5 DEF NewPacketDone
  <1>7. /\ \A k \in Sent(tracker) : tracker'.phy[k].sendTime = tracker.phy[k].sendTime
        /\ \A k \in DOMAIN tracker.mac : tracker'.mac[k].sendTime = tracker.mac[k].sendTime
        /\ tracker'.phy[q].sendTime = now /\ tracker'.mac[q].sendTime = now
    BY <1>5 DEF NewPacketDone, SameTimes, Sent
  <1>8. CountShape'
    BY <1>1, <1>6 DEF CountInv, CountShape, GwShape
  <1>9. SentOnce'
    <2>1. IsFiniteSet(Sent(tracker'))
      <3>1. IsFiniteSet(Sent(tracker)) /\ Sent(tracker') = Sent(tracker) \cup {q}
        BY <1>6 DEF CountInv, SentOnce
      <3>2. IsFiniteSet(Sent(tracker) \cup {q})
        BY <3>1, FS_AddElement
      <3> QED
        BY <3>1, <3>2
    <2>2. now \in 0 .. now
      BY DEF CountInv, CountShape
    <2>3. ASSUME NEW k \in Sent(tracker')
          PROVE  /\ tracker'.phy[k].sendTime \in 0 .. now /\ tracker'.mac[k].sendTime \in 0 .. now
                 /\ \E r \in Uplinks : k = <<r, "packet">> /\ attempts'[r] = 1
      <3>1. CASE k = q
        BY <1>1, <1>7, <2>2, <3>1 DEF CountInv, CountShape
      <3>2. CASE k \in Sent(tracker)
        <4>1. PICK r \in Uplinks : k = <<r, "packet">> /\ attempts[r] = 1
          BY <3>2 DEF CountInv, SentOnce
        <4>2. attempts'[r] = 1
          BY <1>1, <4>1 DEF CountInv, CountShape
        <4> QED
          BY <1>7, <3>2, <4>1, <4>2 DEF CountInv, SentOnce
      <3> QED
        BY <1>6, <2>3, <3>1, <3>2
    <2> QED
      BY <1>6, <2>1, <2>3 DEF CountInv, SentOnce
  <1>10. OnTheWay'
    <2>1. \A i : Coming(i) => Pointer(i) \in Open(tracker) /\ Pointer(i) # q /\ Coming(i)'
      BY <1>4, <1>6 DEF Coming, Sent, Open
    <2>2. Coming(id)'
      BY <1>2, <1>6 DEF Coming
    <2>3. /\ \A y \in ToGateway : Coming(y.id) /\ Coming(y.id)' /\ Pointer(y.id) # q
          /\ \A e \in gw.receiving : Coming(e.id) /\ Coming(e.id)' /\ Pointer(e.id) # q
      BY <2>1 DEF CountInv, OnTheWay
    <2>4. Pointer(x.id) = q /\ Coming(x.id)' /\ gw'.receiving = gw.receiving
      BY <1>2, <1>3, <2>2
    <2> HIDE DEF q
    <2>5. \A y \in ToGateway' : Coming(y.id)'
      BY <1>3, <2>3, <2>4
    <2>6. \A e \in gw'.receiving : Coming(e.id)'
      BY <2>3, <2>4
    <2>7. \A k \in Open(tracker') : \/ \E y \in ToGateway' : Pointer(y.id) = k
                                    \/ \E e \in gw'.receiving : Pointer(e.id) = k
      BY <1>3, <1>6, <2>4 DEF CountInv, OnTheWay
    <2>8. \A y, z \in ToGateway' : Pointer(y.id) = Pointer(z.id) => y = z
      BY <1>3, <2>3, <2>4 DEF CountInv, OnTheWay
    <2>9. \A d, e \in gw'.receiving : Pointer(d.id) = Pointer(e.id) => d = e
      BY <2>4 DEF CountInv, OnTheWay
    <2>10. \A y \in ToGateway', e \in gw'.receiving : Pointer(y.id) # Pointer(e.id)
      BY <1>3, <2>3, <2>4 DEF CountInv, OnTheWay
    <2> QED
      BY <2>5, <2>6, <2>7, <2>8, <2>9, <2>10 DEF OnTheWay
  <1>11. Closures'
    <2>1. Sent(tracker') \ Open(tracker') \subseteq Sent(tracker) \ Open(tracker)
      BY <1>6
    <2>2. received' = received /\ With(tracker', "RECEIVED") = With(tracker, "RECEIVED")
      BY <1>6
    <2>3. \A k \in Sent(tracker') \ Open(tracker') : \E o \in PhyPacketOutcome : k \in With(tracker', o)
      BY <1>6, <2>1 DEF CountInv, Closures
    <2> QED
      BY <1>6, <2>2, <2>3 DEF CountInv, Closures
  <1> QED
    BY <1>8, <1>9, <1>10, <1>11 DEF CountInv

(* ... a signal that is not received gets another outcome                     *)
LEMMA CountCloses ==
    ASSUME CountInv, NEW id, Coming(id), NEW o \in PhyPacketOutcome, o # "RECEIVED",
           tracker' = Outcome(tracker, id, o), UNCHANGED <<now, attempts, received>>,
           GwShape',
           ToGateway' \subseteq ToGateway, gw'.receiving \subseteq gw.receiving,
           \A x \in ToGateway : x \in ToGateway' <=> Pointer(x.id) # Pointer(id),
           \A e \in gw.receiving : e \in gw'.receiving <=> Pointer(e.id) # Pointer(id)
    PROVE  CountInv'
  <1> DEFINE q == Pointer(id)
  <1>1. q \in Open(tracker) /\ tracker' = OutcomeCallback(tracker, q, "gw", o)
    BY DEF Coming, Outcome
  <1> HIDE DEF q
  <1>2. ClosedDone(tracker, q, o, tracker')
    BY <1>1, Closed DEF CountInv, CountShape
  <1>3. /\ TrackerShape(tracker') /\ tracker'.aborted = tracker.aborted
        /\ tracker'.mac = tracker.mac /\ Reported(tracker') = Reported(tracker)
        /\ Sent(tracker') = Sent(tracker) /\ Open(tracker') = Open(tracker) \ {q}
        /\ With(tracker', o) = With(tracker, o) \cup {q}
        /\ \A other : other # o => With(tracker', other) = With(tracker, other)
        /\ \A k \in Sent(tracker) : tracker'.phy[k].sendTime = tracker.phy[k].sendTime
    BY <1>2 DEF ClosedDone, SameMac, SameTimes, Sent
  <1>4. CountShape'
    BY <1>3 DEF CountInv, CountShape
  <1>5. SentOnce'
    BY <1>3 DEF CountInv, SentOnce
  <1>6. OnTheWay'
    <2>1. \A i : Coming(i) /\ Pointer(i) # q => Coming(i)'
      BY <1>3 DEF Coming
    <2>2. /\ \A x \in ToGateway : x \in ToGateway' <=> Pointer(x.id) # q
          /\ \A e \in gw.receiving : e \in gw'.receiving <=> Pointer(e.id) # q
      BY DEF q
    <2> QED
      BY <1>3, <2>1, <2>2 DEF CountInv, OnTheWay
  <1>7. Closures'
    <2>1. With(tracker', "RECEIVED") = With(tracker, "RECEIVED")
      BY <1>3
    <2>2. ASSUME NEW k \in Sent(tracker') \ Open(tracker')
          PROVE  \E other \in PhyPacketOutcome : k \in With(tracker', other)
      <3>1. CASE k = q
        BY <1>3, <3>1
      <3>2. CASE k # q
        <4>1. PICK other \in PhyPacketOutcome : k \in With(tracker, other)
          BY <1>3, <3>2 DEF CountInv, Closures
        <4>2. k \in With(tracker', other)
          BY <1>3, <4>1
        <4> QED
          BY <4>1, <4>2
      <3> QED
        BY <3>1, <3>2
    <2> QED
      BY <1>3, <2>1, <2>2 DEF CountInv, Closures
  <1> QED
    BY <1>4, <1>5, <1>6, <1>7 DEF CountInv

(* ... nothing that concerns the tracker happens                              *)
LEMMA CountKeeps ==
    ASSUME CountInv, UNCHANGED <<attempts, tracker, received>>,
           now' \in now .. MaxTime, GwShape', ToGateway' = ToGateway, gw'.receiving = gw.receiving
    PROVE  CountInv'
  <1>1. now \in Nat /\ now' \in 0 .. MaxTime
    BY CountsAssumption DEF CountInv, CountShape
  <1>2. CountShape'
    BY <1>1 DEF CountInv, CountShape
  <1>3. SentOnce'
    BY <1>1 DEF CountInv, SentOnce
  <1>4. OnTheWay'
    <2>1. \A i : Coming(i) => Coming(i)'
      BY DEF Coming
    <2> QED
      BY <2>1 DEF CountInv, OnTheWay
  <1>5. Closures'
    BY DEF CountInv, Closures
  <1> QED
    BY <1>2, <1>3, <1>4, <1>5 DEF CountInv

(* ... a signal begins to be received                                         *)
LEMMA CountBegins ==
    ASSUME CountInv, UNCHANGED <<now, attempts, tracker, received>>, GwShape',
           NEW x \in ToGateway, NEW e, e.id = x.id, ToGateway' = ToGateway \ {x},
           gw'.receiving = gw.receiving \cup {e}
    PROVE  CountInv'
  <1>1. CountShape' /\ SentOnce' /\ Closures'
    BY DEF CountInv, CountShape, SentOnce, Closures
  <1>2. Open(tracker') = Open(tracker) /\ \A i : Coming(i) => Coming(i)'
    BY DEF Coming
  <1>3. /\ \A y \in ToGateway' : Coming(y.id)'
        /\ \A d \in gw'.receiving : Coming(d.id)'
    BY <1>2 DEF CountInv, OnTheWay
  <1>4. \A q \in Open(tracker') : \/ \E y \in ToGateway' : Pointer(y.id) = q
                                  \/ \E d \in gw'.receiving : Pointer(d.id) = q
    BY <1>2 DEF CountInv, OnTheWay
  <1>5. \A y, z \in ToGateway' : Pointer(y.id) = Pointer(z.id) => y = z
    BY DEF CountInv, OnTheWay
  <1>6. \A d, f \in gw'.receiving : Pointer(d.id) = Pointer(f.id) => d = f
    BY DEF CountInv, OnTheWay
  <1>7. \A y \in ToGateway', d \in gw'.receiving : Pointer(y.id) # Pointer(d.id)
    BY DEF CountInv, OnTheWay
  <1> QED
    BY <1>1, <1>3, <1>4, <1>5, <1>6, <1>7 DEF CountInv, OnTheWay

(* ... the gateway transmits and loses what it was receiving                  *)
LEMMA CountInterrupts ==
    ASSUME CountInv, UNCHANGED <<now, received>>, attempts' \in [Packets -> 0 .. 1],
           \A p \in Packets : attempts[p] = 1 => attempts'[p] = 1,
           GwShape', ToGateway' = ToGateway, gw'.receiving = {},
           tracker' = LostBecauseTx(tracker, gw.receiving)
    PROVE  CountInv'
  <1> DEFINE lost == {Pointer(e.id) : e \in gw.receiving}
             o == "LOST_BECAUSE_TX"
  <1>1. /\ TrackerShape(tracker') /\ tracker'.aborted = tracker.aborted
        /\ SameMac(tracker, tracker') /\ SameTimes(tracker, tracker')
        /\ Sent(tracker') = Sent(tracker) /\ Open(tracker') = Open(tracker) \ lost
        /\ With(tracker', o) = With(tracker, o) \cup lost
        /\ \A other : other # o => With(tracker', other) = With(tracker, other)
    <2>1. /\ TrackerShape(tracker)
          /\ \A e \in gw.receiving : IsUplink(e.id) /\ Pointer(e.id) \in Open(tracker)
      BY DEF CountInv, CountShape, OnTheWay, Coming
    <2> QED
      BY <2>1, AllLost
  <1>2. /\ \A e \in gw.receiving : Pointer(e.id) \in lost
        /\ \A x \in ToGateway : Pointer(x.id) \notin lost
    BY DEF CountInv, OnTheWay
  <1> HIDE DEF lost
  <1>3. CountShape'
    BY <1>1 DEF CountInv, CountShape
  <1>4. SentOnce'
    <2>1. /\ \A k \in Sent(tracker) : tracker'.phy[k].sendTime = tracker.phy[k].sendTime
          /\ tracker'.mac = tracker.mac /\ Sent(tracker') = Sent(tracker)
      BY <1>1 DEF SameMac, SameTimes, Sent
    <2>2. \A p \in Uplinks : p \in Packets
      BY DEF Uplinks, Packets
    <2>3. \A k \in Sent(tracker) : \E p \in Uplinks : k = <<p, "packet">> /\ attempts'[p] = 1
      BY <2>2 DEF CountInv, SentOnce
    <2> QED
      BY <2>1, <2>3 DEF CountInv, SentOnce
  <1>5. OnTheWay'
    <2>1. \A i : Coming(i) /\ Pointer(i) \notin lost => Coming(i)'
      BY <1>1 DEF Coming
    <2> QED
      BY <1>1, <1>2, <2>1 DEF CountInv, OnTheWay
  <1>6. Closures'
    <2>1. /\ Reported(tracker') = Reported(tracker)
          /\ With(tracker', "RECEIVED") = With(tracker, "RECEIVED")
      BY <1>1 DEF SameMac
    <2>2. ASSUME NEW k \in Sent(tracker') \ Open(tracker')
          PROVE  \E other \in PhyPacketOutcome : k \in With(tracker', other)
      <3>1. CASE k \in lost
        BY <1>1, <3>1 DEF PhyPacketOutcome
      <3>2. CASE k \notin lost
        <4>1. PICK other \in PhyPacketOutcome : k \in With(tracker, other)
          BY <1>1, <3>2 DEF CountInv, Closures
        <4>2. k \in With(tracker', other)
          BY <1>1, <4>1
        <4> QED
          BY <4>1, <4>2
      <3> QED
        BY <3>1, <3>2
    <2> QED
      BY <2>1, <2>2 DEF CountInv, Closures
  <1> QED
    BY <1>3, <1>4, <1>5, <1>6 DEF CountInv

(* ... an uplink is received and reported                                     *)
LEMMA CountReceives ==
    ASSUME CountInv, UNCHANGED <<now, attempts>>, NEW e \in gw.receiving,
           GwShape', ToGateway' = ToGateway, gw'.receiving = gw.receiving \ {e},
           tracker' = ForwardUplink(Outcome(tracker, e.id, "RECEIVED"), e.id),
           received' = received \cup {e}
    PROVE  CountInv'
  <1> DEFINE q == Pointer(e.id)
             id == e.id
             o == "RECEIVED"
             t == OutcomeCallback(tracker, q, "gw", o)
  <1>1. Coming(id) /\ IsUplink(id) /\ q \in Open(tracker) /\ TrackerShape(tracker)
    BY DEF CountInv, CountShape, OnTheWay, Coming
  <1>2. tracker' = ForwardUplink(t, id)
    BY <1>1 DEF Outcome
  <1>3. ClosedDone(tracker, q, o, t)
    BY <1>1, Closed
  <1> HIDE DEF t
  <1>4. /\ TrackerShape(t) /\ t.aborted = tracker.aborted /\ t.mac = tracker.mac
        /\ Reported(t) = Reported(tracker)
        /\ Sent(t) = Sent(tracker) /\ Open(t) = Open(tracker) \ {q}
        /\ With(t, o) = With(tracker, o) \cup {q}
        /\ \A other : other # o => With(t, other) = With(tracker, other)
        /\ \A k \in Sent(tracker) : t.phy[k].sendTime = tracker.phy[k].sendTime
    BY <1>3 DEF ClosedDone, SameMac, SameTimes, Sent
  <1>5. q \in Sent(tracker) /\ q \in DOMAIN t.mac
    BY <1>1, <1>4 DEF CountInv, SentOnce, Open, Sent
  <1>6. /\ TrackerShape(tracker') /\ tracker'.aborted = t.aborted /\ tracker'.phy = t.phy
        /\ DOMAIN tracker'.mac = DOMAIN t.mac /\ Reported(tracker') = Reported(t) \cup {q}
        /\ \A k \in DOMAIN t.mac : tracker'.mac[k].sendTime = t.mac[k].sendTime
    <2> HIDE DEF q, id
    <2>1. q = Pointer(id)
      BY DEF q, id
    <2> QED
      BY <1>1, <1>2, <1>4, <1>5, <2>1, ForwardedDone
  <1>7. /\ Sent(tracker') = Sent(tracker) /\ Open(tracker') = Open(tracker) \ {q}
        /\ With(tracker', o) = With(tracker, o) \cup {q}
        /\ \A other : other # o => With(tracker', other) = With(tracker, other)
    <2>1. Sent(tracker') = Sent(t) /\ Open(tracker') = Open(t) /\ \A any : With(tracker', any) = With(t, any)
      BY <1>6 DEF Sent, Open, With
    <2> QED
      BY <1>4, <2>1
  <1>8. CountShape'
    BY <1>4, <1>6 DEF CountInv, CountShape
  <1>9. SentOnce'
    BY <1>4, <1>6, <1>7 DEF CountInv, SentOnce
  <1>10. OnTheWay'
    <2>1. \A i : Coming(i) /\ Pointer(i) # q => Coming(i)'
      BY <1>7 DEF Coming
    <2>2. /\ \A x \in ToGateway : Pointer(x.id) # q
          /\ \A d \in gw.receiving : d # e => Pointer(d.id) # q
      BY DEF CountInv, OnTheWay
    <2> QED
      BY <1>7, <2>1, <2>2 DEF CountInv, OnTheWay
  <1>11. Closures'
    <2>1. q \notin With(tracker, o) /\ e \notin received
      BY <1>1 DEF CountInv, Closures, Open, With
    <2>2. IsFiniteSet(With(tracker, o))
      <3>1. With(tracker, o) \subseteq Sent(tracker) /\ IsFiniteSet(Sent(tracker))
        BY DEF CountInv, SentOnce, With, Sent
      <3> QED
        BY <3>1, FS_Subset
    <2>3. Cardinality(With(tracker, o) \cup {q}) = Cardinality(With(tracker, o)) + 1
      BY <2>1, <2>2, FS_AddElement
    <2>4. /\ IsFiniteSet(received \cup {e})
          /\ Cardinality(received \cup {e}) = Cardinality(received) + 1
      BY <2>1, FS_AddElement DEF CountInv, Closures
    <2>5. Cardinality(received') = Cardinality(With(tracker', o)) /\ IsFiniteSet(received')
      BY <1>7, <2>3, <2>4 DEF CountInv, Closures
    <2>6. Reported(tracker') = With(tracker', o)
      BY <1>4, <1>6, <1>7 DEF CountInv, Closures
    <2>7. \A d \in received' : IsUplink(d.id) /\ Pointer(d.id) \in With(tracker', o)
      BY <1>1, <1>7 DEF CountInv, Closures
    <2>8. ASSUME NEW k \in Sent(tracker') \ Open(tracker')
          PROVE  \E other \in PhyPacketOutcome : k \in With(tracker', other)
      <3>1. CASE k = q
        BY <1>7, <3>1 DEF PhyPacketOutcome
      <3>2. CASE k # q
        <4>1. PICK other \in PhyPacketOutcome : k \in With(tracker, other)
          BY <1>7, <3>2 DEF CountInv, Closures
        <4>2. k \in With(tracker', other)
          BY <1>7, <4>1
        <4> QED
          BY <4>1, <4>2
      <3> QED
        BY <3>1, <3>2
    <2> QED
      BY <2>5, <2>6, <2>7, <2>8 DEF Closures
  <1> QED
    BY <1>8, <1>9, <1>10, <1>11 DEF CountInv

(* A signal reaches a gateway that transmits, that has no receiver left, or   *)
(* that does not hear it; or it begins to be received.                        *)
LEMMA CountDeliver == ASSUME CountInv, ToSomeone, Deliver PROVE CountInv'
  <1>1. PICK x \in flight :
            LET e == EventOf(x)
            IN  /\ flight' = flight \ {x}
                /\ IF x.to = "ed" THEN EndDeviceStartReceive(e) ELSE GatewayStartReceive(e)
                /\ UNCHANGED <<now, attempts, received>>
    BY DEF Deliver
  <1> DEFINE e == EventOf(x)
  <1>2. e.id = x.id /\ now \in now .. MaxTime
    BY CountsAssumption DEF EventOf, Event, CountInv, CountShape
  <1> HIDE DEF e
  <1>3. CASE x.to = "ed"
    <2>1. UNCHANGED <<gw, tracker>> /\ ToGateway' = ToGateway
      BY <1>1, <1>3 DEF EndDeviceStartReceive, ToGateway, e
    <2>2. GwShape'
      BY <2>1 DEF CountInv, CountShape, GwShape
    <2> QED
      BY <1>1, <1>2, <2>1, <2>2, CountKeeps
  <1>4. CASE x.to # "ed"
    <2>1. /\ GatewayStartReceive(e) /\ flight' = flight \ {x}
          /\ UNCHANGED <<now, attempts, received>>
      BY <1>1, <1>4 DEF e
    <2>2. CASE x.to # "gw"
      <3>1. ToGateway' = ToGateway
        BY <2>1, <2>2 DEF ToGateway
      <3> QED
        BY <1>4, <2>2 DEF ToSomeone
    <2>3. CASE x.to = "gw"
      <3>1. x \in ToGateway /\ ToGateway' = ToGateway \ {x} /\ Coming(e.id)
        BY <1>2, <2>1, <2>3 DEF ToGateway, CountInv, OnTheWay
      <3>2. GwShape'
        BY <2>1 DEF GatewayStartReceive, CountInv, CountShape, GwShape
      <3>3. ASSUME NEW o \in PhyPacketOutcome, o # "RECEIVED",
                   tracker' = Outcome(tracker, e.id, o), gw'.receiving = gw.receiving
            PROVE  CountInv'
        <4>1. /\ \A y \in ToGateway : y \in ToGateway' <=> Pointer(y.id) # Pointer(e.id)
              /\ \A d \in gw.receiving : d \in gw'.receiving <=> Pointer(d.id) # Pointer(e.id)
          BY <1>2, <3>1, <3>3 DEF CountInv, OnTheWay
        <4>2. ToGateway' \subseteq ToGateway /\ gw'.receiving \subseteq gw.receiving
          BY <3>1, <3>3
        <4> QED
          BY <2>1, <3>1, <3>2, <3>3, <4>1, <4>2, CountCloses
      <3>4. \/ \E o \in PhyPacketOutcome : /\ o # "RECEIVED" /\ tracker' = Outcome(tracker, e.id, o)
                                           /\ gw'.receiving = gw.receiving
            \/ tracker' = tracker /\ gw'.receiving = gw.receiving \cup {e}
        BY <2>1 DEF GatewayStartReceive, PhyPacketOutcome, CountInv, CountShape, GwShape
      <3>5. CASE tracker' = tracker /\ gw'.receiving = gw.receiving \cup {e}
        BY <1>2, <2>1, <3>1, <3>2, <3>5, CountBegins
      <3> QED
        BY <3>3, <3>4, <3>5
    <2> QED
      BY <2>2, <2>3
  <1> QED
    BY <1>3, <1>4

(* A reception ends: the signal was destroyed, or the uplink is received.     *)
LEMMA CountEndReceive == ASSUME CountInv, GatewayEndReceive PROVE CountInv'
  <1>1. PICK e \in gw.receiving :
            LET destroyed == IsDestroyedByInterference(Matrix, gw.events, e) # 0
            IN  /\ gw' = [gw EXCEPT !.receiving = @ \ {e}]
                /\ tracker' = IF destroyed THEN Outcome(tracker, e.id, "INTERFERED")
                              ELSE ForwardUplink(Outcome(tracker, e.id, "RECEIVED"), e.id)
                /\ received' = IF destroyed THEN received ELSE received \cup {e}
                /\ UNCHANGED <<now, attempts, flight>>
    BY DEF GatewayEndReceive, Ending
  <1>2. /\ GwShape' /\ gw'.receiving = gw.receiving \ {e} /\ ToGateway' = ToGateway
        /\ UNCHANGED <<now, attempts>>
    BY <1>1 DEF CountInv, CountShape, GwShape, ToGateway
  <1>3. Coming(e.id)
    BY DEF CountInv, OnTheWay
  <1>4. CASE tracker' = Outcome(tracker, e.id, "INTERFERED") /\ received' = received
    <2>1. /\ \A y \in ToGateway : y \in ToGateway' <=> Pointer(y.id) # Pointer(e.id)
          /\ \A d \in gw.receiving : d \in gw'.receiving <=> Pointer(d.id) # Pointer(e.id)
      BY <1>2 DEF CountInv, OnTheWay
    <2>2. ToGateway' \subseteq ToGateway /\ gw'.receiving \subseteq gw.receiving
      BY <1>2
    <2>3. "INTERFERED" \in PhyPacketOutcome
      BY DEF PhyPacketOutcome
    <2> QED
      BY <1>2, <1>3, <1>4, <2>1, <2>2, <2>3, CountCloses
  <1>5. CASE /\ tracker' = ForwardUplink(Outcome(tracker, e.id, "RECEIVED"), e.id)
             /\ received' = received \cup {e}
    BY <1>2, <1>5, CountReceives
  <1> QED
    BY <1>1, <1>4, <1>5

LEMMA AlwaysToSomeone == ToSomeone /\ [Next]_vars => ToSomeone'
  <1> SUFFICES ASSUME ToSomeone, [Next]_vars PROVE ToSomeone'
    OBVIOUS
  <1>1. ASSUME NEW sender, NEW id, NEW s, Broadcast(sender, id, s) PROVE ToSomeone'
    BY <1>1 DEF ToSomeone, Broadcast
  <1>2. CASE \E p : OtherSends(p) \/ OwnSends(p) \/ GatewaySends(p)
    BY <1>1, <1>2 DEF OtherSends, OwnSends, GatewaySends
  <1>3. CASE Deliver
    <2>1. PICK x \in flight : flight' = flight \ {x}
      BY <1>3 DEF Deliver
    <2> QED
      BY <2>1 DEF ToSomeone
  <1>4. CASE UNCHANGED flight
    BY <1>4 DEF ToSomeone
  <1> QED
    BY <1>2, <1>3, <1>4 DEF Next, vars, EndDeviceEndReceive, GatewayEndReceive,
       EndDeviceTxFinished, GatewayTxFinished, OpenWindow, CloseWindow, SourceRunsDry, Tick

LEMMA CountStep == MaxAttempts = 1 /\ ToSomeone /\ CountInv /\ [Next]_vars => CountInv'
  <1> SUFFICES ASSUME MaxAttempts = 1, ToSomeone, CountInv, [Next]_vars PROVE CountInv'
    OBVIOUS
  <1>1. now \in now .. MaxTime /\ GwShape
    BY CountsAssumption DEF CountInv, CountShape
  <1>2. ASSUME UNCHANGED <<now, attempts, flight, gw, tracker, received>> PROVE CountInv'
    <2>1. GwShape' /\ ToGateway' = ToGateway /\ gw'.receiving = gw.receiving
      BY <1>1, <1>2 DEF GwShape, ToGateway
    <2> QED
      BY <1>1, <1>2, <2>1, CountKeeps
  <1>3. ASSUME NEW p \in OtherPackets, OtherSends(p) PROVE CountInv'
    <2>1. PICK s \in Signals[p] : Broadcast("other", NextId(p), s)
      BY <1>3 DEF OtherSends
    <2>2. /\ MaySend(p) /\ UNCHANGED <<now, gw, received>>
          /\ tracker' = TrackSending(tracker, NextId(p))
      BY <1>3 DEF OtherSends, outside
    <2>3. p \in Uplinks
      BY DEF Uplinks
    <2> QED
      BY <2>1, <2>2, <2>3, CountSends
  <1>4. ASSUME NEW p \in OwnPackets, OwnSends(p) PROVE CountInv'
    <2>1. PICK s \in Signals[p] : Broadcast("ed", NextId(p), s)
      BY <1>4, Zenon DEF OwnSends
    <2>2. /\ MaySend(p) /\ UNCHANGED <<now, gw, received>>
          /\ tracker' = TrackSending(tracker, NextId(p))
      BY <1>4 DEF OwnSends, outside
    <2>3. p \in Uplinks
      BY DEF Uplinks
    <2> QED
      BY <2>1, <2>2, <2>3, CountSends
  <1>5. ASSUME NEW p \in Downlinks, GatewaySends(p) PROVE CountInv'
    <2>1. PICK s \in Signals[p] :
             /\ Broadcast("gw", NextId(p), s)
             /\ gw' = [gw EXCEPT !.receiving = {}, !.isTransmitting = TRUE,
                                 !.transmitting = @ \cup {[id |-> NextId(p), end |-> now + s.duration]}]
      BY <1>5 DEF GatewaySends
    <2>2. /\ attempts' = [attempts EXCEPT ![p] = 1] /\ UNCHANGED <<now, received>>
          /\ tracker' = LostBecauseTx(tracker, gw.receiving)
      BY <1>5 DEF GatewaySends, outside
    <2>3. ToGateway' = ToGateway
      BY <2>1 DEF Broadcast, ToGateway
    <2>4. GwShape' /\ gw'.receiving = {}
      <3>1. PICK on : gw' = [transmitting |-> on, isTransmitting |-> TRUE, events |-> gw.events, receiving |-> {}]
        BY <1>1, <2>1 DEF GwShape
      <3>2. gw'.transmitting = on /\ gw'.isTransmitting = TRUE /\ gw'.events = gw.events /\ gw'.receiving = {}
        BY <3>1
      <3> QED
        BY <3>1, <3>2 DEF GwShape
    <2>5. /\ attempts' \in [Packets -> 0 .. 1]
          /\ \A q \in Packets : attempts[q] = 1 => attempts'[q] = 1
      <3>1. attempts \in [Packets -> 0 .. 1] /\ attempts' = [attempts EXCEPT ![p] = 1] /\ 1 \in 0 .. 1
        BY <2>2 DEF CountInv, CountShape
      <3> QED
        BY <3>1
    <2> QED
      BY <2>2, <2>3, <2>4, <2>5, CountInterrupts
  <1>6. ASSUME Tick PROVE CountInv'
    <2>1. UNCHANGED <<attempts, flight, gw, tracker, received>> /\ now' = now + 1 /\ now < MaxTime
      BY <1>6 DEF Tick
    <2>2. now' \in now .. MaxTime
      BY <2>1, CountsAssumption DEF CountInv, CountShape
    <2>3. GwShape' /\ ToGateway' = ToGateway /\ gw'.receiving = gw.receiving
      BY <1>1, <2>1 DEF GwShape, ToGateway
    <2> QED
      BY <2>1, <2>2, <2>3, CountKeeps
  <1>7. ASSUME GatewayTxFinished PROVE CountInv'
    <2>1. /\ UNCHANGED <<now, attempts, flight, tracker, received>>
          /\ GwShape' /\ gw'.receiving = gw.receiving
      BY <1>1, <1>7 DEF GatewayTxFinished, GwShape, outside
    <2>2. ToGateway' = ToGateway
      BY <2>1 DEF ToGateway
    <2> QED
      BY <1>1, <2>1, <2>2, CountKeeps
  <1>8. ASSUME EndDeviceEndReceive \/ EndDeviceTxFinished \/ OpenWindow \/ CloseWindow
               \/ SourceRunsDry \/ UNCHANGED vars
        PROVE  CountInv'
    <2>1. UNCHANGED <<now, attempts, flight, gw, tracker, received>>
      BY <1>8 DEF EndDeviceEndReceive, EndDeviceTxFinished, OpenWindow, CloseWindow,
                  SourceRunsDry, outside, vars
    <2> QED
      BY <1>2, <2>1
  <1> QED
    BY <1>3, <1>4, <1>5, <1>6, <1>7, <1>8, CountDeliver, CountEndReceive DEF Next

(* Disjoint parts, one for each index: their sizes add up.                    *)
LEMMA SumOfParts ==
    ASSUME NEW S, IsFiniteSet(S), NEW Part, NEW f,
           \A o \in S : IsFiniteSet(Part[o]) /\ f[o] = Cardinality(Part[o]),
           \A o, other \in S : o # other => Part[o] \cap Part[other] = {},
           NEW sum, Sums(f, sum, S)
    PROVE  sum[S] = Cardinality(UNION {Part[o] : o \in S})
  <1> DEFINE All(s) == UNION {Part[o] : o \in s}
             Fits(s) == IsFiniteSet(All(s)) /\ sum[s] = Cardinality(All(s))
  <1>1. ASSUME NEW s \in SUBSET S, NEW x \in s, NEW rest \in SUBSET S,
               rest = s \ {x}, sum[s] = f[x] + sum[rest], Fits(rest)
        PROVE  Fits(s)
    <2>1. All(s) = Part[x] \cup All(rest)
      BY <1>1
    <2>2. Part[x] \cap All(rest) = {}
      BY <1>1
    <2>3. IsFiniteSet(Part[x]) /\ f[x] = Cardinality(Part[x])
      OBVIOUS
    <2> HIDE DEF All
    <2>4. IsFiniteSet(All(rest)) /\ sum[rest] = Cardinality(All(rest))
      BY <1>1
    <2>5. /\ IsFiniteSet(Part[x] \cup All(rest))
          /\ Cardinality(Part[x] \cup All(rest)) =
                Cardinality(Part[x]) + Cardinality(All(rest)) - Cardinality(Part[x] \cap All(rest))
      BY <2>3, <2>4, FS_Union
    <2>6. Cardinality(Part[x] \cap All(rest)) = 0
      BY <2>2, FS_EmptySet
    <2>7. Cardinality(Part[x]) \in Nat /\ Cardinality(All(rest)) \in Nat
      BY <2>3, <2>4, FS_CardinalityType
    <2> QED
      BY <1>1, <2>1, <2>3, <2>4, <2>5, <2>6, <2>7
  <1>2. ASSUME NEW s \in SUBSET S, s # {}
        PROVE  /\ First(s) \in s /\ s \ {First(s)} \in SUBSET S
               /\ sum[s] = f[First(s)] + sum[s \ {First(s)}]
    BY <1>2, FirstIn DEF SumAt, Sums
  <1>3. Fits({})
    <2>1. All({}) = {} /\ sum[{}] = 0
      BY DEF SumAt, Sums
    <2> HIDE DEF All
    <2> QED
      BY <2>1, FS_EmptySet
  <1> HIDE DEF Fits
  <1> DEFINE F == {s \in SUBSET S : ~Fits(s)}
  <1>4. F = {}
    <2> SUFFICES ASSUME F # {} PROVE FALSE
      OBVIOUS
    <2>1. PICK s \in F : \A u \in F : u \subseteq s => u = s
      <3>1. F \in SUBSET (SUBSET S)
        OBVIOUS
      <3> HIDE DEF F
      <3> QED
        BY <3>1, SmallestSet
    <2>2. s \in SUBSET S /\ s # {} /\ ~Fits(s)
      BY <1>3
    <2> DEFINE rest == s \ {First(s)}
    <2>3. First(s) \in s /\ rest \in SUBSET S
      BY <1>2, <2>2
    <2>4. rest \notin F
      <3> HIDE DEF F
      <3> QED
        BY <2>1, <2>3
    <2>5. Fits(rest)
      BY <2>3, <2>4
    <2> QED
      BY <1>1, <1>2, <2>2, <2>3, <2>5
  <1>5. Fits(S)
    BY <1>4
  <1> QED
    BY <1>5 DEF Fits

LEMMA OutcomesFinite == IsFiniteSet(PhyPacketOutcome)
  <1> DEFINE A == {"RECEIVED"}
             B == A \cup {"INTERFERED"}
             C == B \cup {"NO_MORE_RECEIVERS"}
             D == C \cup {"UNDER_SENSITIVITY"}
             E == D \cup {"LOST_BECAUSE_TX"}
  <1>1. PhyPacketOutcome = E
    BY DEF PhyPacketOutcome
  <1>2. IsFiniteSet(A)
    BY FS_Singleton
  <1> HIDE DEF A
  <1>3. IsFiniteSet(B)
    BY <1>2, FS_AddElement
  <1> HIDE DEF B
  <1>4. IsFiniteSet(C)
    BY <1>3, FS_AddElement
  <1> HIDE DEF C
  <1>5. IsFiniteSet(D)
    BY <1>4, FS_AddElement
  <1> HIDE DEF D
  <1>6. IsFiniteSet(E)
    BY <1>5, FS_AddElement
  <1> HIDE DEF E
  <1> QED
    BY <1>1, <1>6

LEMMA CountInvariance == ASSUME MaxAttempts = 1 PROVE Spec => []CountInv
  <1>1. Init => ToSomeone
    BY DEF Init, ToSomeone
  <1> QED
    BY <1>1, CountInit, AlwaysToSomeone, CountStep, PTL DEF Spec

(* If no uplink is sent twice, then in every reachable state in which all has *)
(* been heard each uplink counts once, with the outcome that it had, and as   *)
(* received at the MAC exactly if at the PHY: CountPhyPacketsPerGw and        *)
(* CountMacPacketsGlobally of lora-packet-tracker.cc.                         *)
THEOREM EachCountsOnce ==
    ASSUME MaxAttempts = 1
    PROVE  Spec => []CountsAddUp
  <1>1. CountInv => CountsAddUp
    <2> SUFFICES ASSUME CountInv, AllHeard PROVE
            LET phy == CountPhyPacketsPerGw(tracker, 0, MaxTime, "gw")
                mac == CountMacPacketsGlobally(tracker, 0, MaxTime)
            IN  /\ phy["SENT"] = MapThenSumSet(LAMBDA o : phy[o], PhyPacketOutcome)
                /\ phy["RECEIVED"] = Cardinality({e \in received : IsUplink(e.id)})
                /\ mac.received = phy["RECEIVED"]
      BY DEF CountsAddUp
    <2> DEFINE phy == CountPhyPacketsPerGw(tracker, 0, MaxTime, "gw")
               mac == CountMacPacketsGlobally(tracker, 0, MaxTime)
               Outcomes == PhyPacketOutcome
               sum == CHOOSE sum : Sums(phy, sum, Outcomes)
    <2>1. /\ SentBetween(tracker.phy, 0, MaxTime) = Sent(tracker)
          /\ SentBetween(tracker.mac, 0, MaxTime) = DOMAIN tracker.mac
      <3>1. MaxTime \in Nat /\ now \in 0 .. MaxTime /\ DOMAIN tracker.mac = Sent(tracker)
        BY CountsAssumption DEF CountInv, CountShape, SentOnce
      <3>2. \A q \in Sent(tracker) : tracker.phy[q].sendTime \in 0 .. now /\ tracker.mac[q].sendTime \in 0 .. now
        BY DEF CountInv, SentOnce
      <3>3. \A q \in Sent(tracker) : /\ 0 <= tracker.phy[q].sendTime /\ tracker.phy[q].sendTime <= MaxTime
                                     /\ 0 <= tracker.mac[q].sendTime /\ tracker.mac[q].sendTime <= MaxTime
        BY <3>1, <3>2
      <3> QED
        BY <3>1, <3>3 DEF SentBetween, Sent
    <2>2. /\ phy["SENT"] = Cardinality(Sent(tracker))
          /\ \A o \in Outcomes : phy[o] = Cardinality(With(tracker, o))
          /\ mac.received = Cardinality(Reported(tracker))
      BY <2>1 DEF CountPhyPacketsPerGw, CountMacPacketsGlobally, PhyPacketOutcome, With, Sent, Reported
    <2>3. MapThenSumSet(LAMBDA o : phy[o], Outcomes) = sum[Outcomes]
      BY DEF MapThenSumSet, MapThenFoldSet, Sums, SumAt, First
    <2>4. Sums(phy, sum, Outcomes)
      <3> HIDE DEF phy, Outcomes
      <3>1. \E any : Sums(phy, any, Outcomes)
        BY OutcomesFinite, SumsExist DEF Outcomes
      <3> QED
        BY <3>1
    <2>5. \A o \in Outcomes : IsFiniteSet(With(tracker, o))
      <3>1. IsFiniteSet(Sent(tracker)) /\ \A o : With(tracker, o) \subseteq Sent(tracker)
        BY DEF CountInv, SentOnce, With, Sent
      <3> QED
        BY <3>1, FS_Subset
    <2>6. \A o, other \in Outcomes : o # other => With(tracker, o) \cap With(tracker, other) = {}
      BY DEF With
    <2>7. UNION {With(tracker, o) : o \in Outcomes} = Sent(tracker)
      <3>1. Open(tracker) = {}
        BY DEF CountInv, OnTheWay, AllHeard, ToGateway
      <3>2. \A q \in Sent(tracker) : \E o \in Outcomes : q \in With(tracker, o)
        BY <3>1 DEF CountInv, Closures
      <3>3. \A o : With(tracker, o) \subseteq Sent(tracker)
        BY DEF With, Sent
      <3> QED
        BY <3>2, <3>3
    <2> HIDE DEF phy, sum
    <2>8. sum[Outcomes] = Cardinality(UNION {With(tracker, o) : o \in Outcomes})
      <3> DEFINE Part == [o \in Outcomes |-> With(tracker, o)]
      <3>1. IsFiniteSet(Outcomes)
        BY OutcomesFinite
      <3> HIDE DEF Outcomes
      <3>2. /\ \A o \in Outcomes : IsFiniteSet(Part[o]) /\ phy[o] = Cardinality(Part[o])
            /\ \A o, other \in Outcomes : o # other => Part[o] \cap Part[other] = {}
        BY <2>2, <2>5, <2>6
      <3>3. UNION {With(tracker, o) : o \in Outcomes} = UNION {Part[o] : o \in Outcomes}
        OBVIOUS
      <3> HIDE DEF Part
      <3>4. sum[Outcomes] = Cardinality(UNION {Part[o] : o \in Outcomes})
        BY <2>4, <3>1, <3>2, SumOfParts
      <3> QED
        BY <3>3, <3>4
    <2>9. {e \in received : IsUplink(e.id)} = received /\ "RECEIVED" \in Outcomes
      BY DEF CountInv, Closures, PhyPacketOutcome
    <2>10. /\ phy["RECEIVED"] = Cardinality(received)
           /\ mac.received = phy["RECEIVED"]
      BY <2>2, <2>9 DEF CountInv, Closures
    <2> HIDE DEF mac
    <2>11. phy["SENT"] = MapThenSumSet(LAMBDA o : phy[o], Outcomes)
      BY <2>2, <2>3, <2>7, <2>8
    <2> QED
      BY <2>9, <2>10, <2>11 DEF phy, mac
  <1> QED
    BY <1>1, CountInvariance, PTL

(* If no uplink is sent twice, the gateway's MAC reports only packets that    *)
(* the tracker knows: the abort of MacGwReceptionCallback is out of reach.    *)
(* Only the copies that a retransmission sends are unknown to it.             *)
THEOREM FoundUnlessSentTwice ==
    ASSUME MaxAttempts = 1
    PROVE  Spec => []PacketIsFound
  <1>1. CountInv => PacketIsFound
    BY DEF CountInv, CountShape, PacketIsFound
  <1> QED
    BY <1>1, CountInvariance, PTL

------------------------------------------------------------------------------
(* Air time *)

Headers == 9                    \* bytes of the MAC and the frame header
Bandwidth == 125000
AirTimeOf(size, sf) == GetOnAirTime(size, TxParameters(sf, Bandwidth))

(* The value of a term of the formula for each spreading factor.              *)
Optimized(sf) == sf \in {11, 12}
Blocks(size, sf) == Ceil(8 * size - 4 * sf + 44, IF Optimized(sf) THEN 4 * sf - 8 ELSE 4 * sf)

LEMMA CeilGrows ==
    ASSUME NEW m \in Int, NEW n \in Int, NEW d \in Nat \ {0}, m <= n
    PROVE  Ceil(m, d) \in Int /\ Ceil(m, d) <= Ceil(n, d)
  BY SMT DEF Ceil

(* The parameters that end devices and gateways send with.                    *)
LEMMA Parameters ==
    ASSUME NEW sf \in SF
    PROVE  LET p == TxParameters(sf, Bandwidth)
           IN  /\ p.sf = sf /\ p.bandwidth = Bandwidth /\ ~p.headerDisabled
               /\ p.codingRate = 1 /\ p.nPreamble = 8 /\ p.crcEnabled
               /\ p.lowDataRateOptimization <=> Optimized(sf)
               /\ GetTSym(p.sf, p.bandwidth) = 8 * Chips[sf - 6]
  <1>1. 1000000 \div Bandwidth = 8  BY SMT DEF Bandwidth
  <1>2. Chips[sf - 6] \in Nat /\ (8 * Chips[sf - 6] > LongSymbol <=> Optimized(sf))
    BY SMT DEF Chips, SF, Optimized, LongSymbol
  <1>3. GetTSym(sf, Bandwidth) = Chips[sf - 6] * 8  BY <1>1, SMT DEF GetTSym
  <1>4. GetTSym(sf, Bandwidth) = 8 * Chips[sf - 6]  BY <1>2, <1>3, SMT
  <1>5. (GetTSym(sf, Bandwidth) > LongSymbol) <=> Optimized(sf)  BY <1>2, <1>4, Zenon
  <1> DEFINE p == TxParameters(sf, Bandwidth)
  <1>6. /\ p.sf = sf /\ p.bandwidth = Bandwidth /\ ~p.headerDisabled /\ p.codingRate = 1
        /\ p.nPreamble = 8 /\ p.crcEnabled
        /\ p.lowDataRateOptimization = (GetTSym(sf, Bandwidth) > LongSymbol)
    BY Zenon DEF TxParameters
  <1>7. GetTSym(p.sf, p.bandwidth) = 8 * Chips[sf - 6]  BY <1>4, <1>6, Zenon
  <1> HIDE DEF p
  <1> QED BY <1>5, <1>6, <1>7, Zenon DEF p

(* The unsigned numerator of LoraPhy::GetOnAirTime never wraps round for a    *)
(* frame that has both its headers, at any spreading factor.                  *)
THEOREM HeadersPreventWrap ==
    ASSUME NEW sf \in SF, NEW size \in Nat, size >= Headers
    PROVE  Numerator(size, TxParameters(sf, Bandwidth)) = 8 * size - 4 * sf + 44
  <1> DEFINE p == TxParameters(sf, Bandwidth)
  <1>1. p.sf = sf /\ ~p.headerDisabled /\ p.crcEnabled  BY Parameters
  <1>2. 8 * size - 4 * sf + 28 >= 0  BY SMT DEF SF, Headers
  <1> HIDE DEF p
  <1>3. Unsigned(8 * size - 4 * p.sf + 28) = 8 * size - 4 * sf + 28
    BY <1>1, <1>2, SMT DEF Unsigned, SF
  <1>4. Numerator(size, p) = 8 * size - 4 * sf + 44
    BY <1>1, <1>3, SMT DEF Numerator, Flag, SF
  <1> QED BY <1>4 DEF p

(* The formula, for frames with headers.                                      *)
LEMMA Formula ==
    ASSUME NEW sf \in SF, NEW size \in Nat, size >= Headers
    PROVE  /\ Blocks(size, sf) \in Nat
           /\ AirTimeOf(size, sf) = (81 + 20 * Blocks(size, sf)) * (2 * Chips[sf - 6])
  <1> DEFINE p == TxParameters(sf, Bandwidth)
             d == IF Optimized(sf) THEN 4 * sf - 8 ELSE 4 * sf
  <1>1. /\ p.sf = sf /\ p.codingRate = 1 /\ p.nPreamble = 8
        /\ p.lowDataRateOptimization <=> Optimized(sf)
        /\ GetTSym(p.sf, p.bandwidth) = 8 * Chips[sf - 6]
    BY Parameters
  <1>2. Numerator(size, p) = 8 * size - 4 * sf + 44  BY HeadersPreventWrap
  <1>3. d \in {28, 32, 36, 40}  BY SMT DEF SF, Optimized
  <1> HIDE DEF p
  <1>4. Denominator(p) = d
    BY <1>1, SMT DEF Denominator, Flag, Optimized, SF
  <1>5. Blocks(size, sf) = Ceil(Numerator(size, p), Denominator(p))
    BY <1>2, <1>4 DEF Blocks
  <1>6. Blocks(size, sf) \in Nat
    <2> DEFINE n == 8 * size - 4 * sf + 44
    <2>1. n \in Nat  BY SMT DEF SF, Headers
    <2>2. Blocks(size, sf) = Ceil(n, d)  BY DEF Blocks
    <2> HIDE DEF n, d
    <2>3. Ceil(n, d) \in Nat  BY <1>3, <2>1, SMT DEF Ceil
    <2> QED BY <2>2, <2>3
  <1>7. PayloadSymbols(size, p) = 8 + 5 * Blocks(size, sf)
    BY <1>1, <1>5, <1>6, SMT DEF PayloadSymbols
  <1>8. Chips[sf - 6] \in Nat  BY SMT DEF Chips, SF
  <1>9. GetOnAirTime(size, p) = (81 + 20 * Blocks(size, sf)) * (2 * Chips[sf - 6])
    <2> DEFINE c == Chips[sf - 6]
               b == Blocks(size, sf)
    <2>1. GetOnAirTime(size, p) = ((4 * 8 + 17 + 4 * (8 + 5 * b)) * (8 * c)) \div 4
      BY <1>1, <1>7 DEF GetOnAirTime
    <2>2. b \in Nat /\ c \in Nat  BY <1>6, <1>8
    <2> HIDE DEF b, c
    <2>3. (4 * 8 + 17 + 4 * (8 + 5 * b)) * (8 * c) = 4 * ((81 + 20 * b) * (2 * c))
      BY <2>2, SMT
    <2>4. \A k \in Int : (4 * k) \div 4 = k  BY SMT
    <2>5. (81 + 20 * b) * (2 * c) \in Int  BY <2>2, SMT
    <2> QED BY <2>1, <2>3, <2>4, <2>5 DEF b, c
  <1> QED BY <1>6, <1>9 DEF AirTimeOf, p

(* A longer frame is on the air at least as long, so that AddEvent never lets *)
(* a sub-band rest less after more bytes.                                     *)
THEOREM LongerFramesLast ==
    ASSUME NEW sf \in SF, NEW size \in Nat, NEW more \in Nat, Headers <= size, size <= more
    PROVE  AirTimeOf(size, sf) <= AirTimeOf(more, sf)
  <1>1. more >= Headers  BY DEF Headers
  <1>2. Blocks(size, sf) <= Blocks(more, sf)
    <2> DEFINE d == IF Optimized(sf) THEN 4 * sf - 8 ELSE 4 * sf
    <2>1. d \in Nat \ {0}  BY SMT DEF SF, Optimized
    <2>2. 8 * size - 4 * sf + 44 <= 8 * more - 4 * sf + 44  BY SMT DEF SF
    <2> QED BY <2>1, <2>2, CeilGrows DEF Blocks, SF
  <1>3. Chips[sf - 6] \in Nat  BY SMT DEF Chips, SF
  <1> DEFINE c == 2 * Chips[sf - 6]
             a == 81 + 20 * Blocks(size, sf)
             b == 81 + 20 * Blocks(more, sf)
  <1>4. AirTimeOf(size, sf) = a * c /\ AirTimeOf(more, sf) = b * c  BY <1>1, Formula
  <1>5. a \in Nat /\ b \in Nat /\ c \in Nat /\ a <= b  BY <1>1, <1>2, <1>3, Formula
  <1> HIDE DEF a, b, c
  <1>6. a * c <= b * c
    <2>1. (b - a) * c >= 0  BY <1>5, SMT
    <2> QED BY <1>5, <2>1, SMT
  <1> QED BY <1>4, <1>6

(* LoraInterferenceHelper keeps a signal two seconds after its end, and so    *)
(* misses none that overlaps a frame of at most two seconds.  Of the frames   *)
(* that fit the payload tables, those are all but the ones of SF12 with more  *)
(* than 40 bytes.                                                             *)
THEOREM FramesThatOutlastTheList ==
    ASSUME NEW sf \in SF, NEW size \in Headers .. 231, sf > 9 => size <= 60
    PROVE  AirTimeOf(size, sf) > 2000000 <=> sf = 12 /\ size > 40
  <1>1. size \in Nat /\ size >= Headers  BY SMT DEF Headers
  <1>2. AirTimeOf(size, sf) = (81 + 20 * Blocks(size, sf)) * (2 * Chips[sf - 6])  BY <1>1, Formula
  <1>3. CASE sf = 7  BY <1>1, <1>2, <1>3, SMT DEF Blocks, Ceil, Optimized, Chips
  <1>4. CASE sf = 8  BY <1>1, <1>2, <1>4, SMT DEF Blocks, Ceil, Optimized, Chips
  <1>5. CASE sf = 9  BY <1>1, <1>2, <1>5, SMT DEF Blocks, Ceil, Optimized, Chips
  <1>6. CASE sf = 10 BY <1>1, <1>2, <1>6, SMT DEF Blocks, Ceil, Optimized, Chips
  <1>7. CASE sf = 11 BY <1>1, <1>2, <1>7, SMT DEF Blocks, Ceil, Optimized, Chips
  <1>8. CASE sf = 12 BY <1>1, <1>2, <1>8, SMT DEF Blocks, Ceil, Optimized, Chips
  <1> QED BY <1>3, <1>4, <1>5, <1>6, <1>7, <1>8 DEF SF

(* Without headers the numerator does wrap: an empty frame at any but the     *)
(* lowest spreading factor takes the air for more than 2^28 symbols.          *)
THEOREM EmptyFramesWrap ==
    ASSUME NEW sf \in SF, sf > 7
    PROVE  Numerator(0, TxParameters(sf, Bandwidth)) > 65536 * 65535
  <1> DEFINE p == TxParameters(sf, Bandwidth)
  <1>1. p.sf = sf /\ ~p.headerDisabled /\ p.crcEnabled  BY Parameters
  <1> HIDE DEF p
  <1>2. Numerator(0, p) = 65536 * 65536 - 4 * sf + 44
    BY <1>1, SMT DEF Numerator, Unsigned, UInt32Values, Flag, SF
  <1> QED BY <1>2, SMT DEF SF, p
==============================================================================
