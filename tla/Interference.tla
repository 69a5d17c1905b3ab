---------------------------- MODULE Interference ----------------------------
(* LoraInterferenceHelper: the signals that reach an antenna and which of     *)
(* them destroy which.  Times are ticks, powers dBm; energies are linear, in  *)
(* units in which six dB are a factor of four.                                *)
EXTENDS Integers, FiniteSetsExt

CONSTANTS OldEventThreshold,    \* ticks a signal is kept after its end, at least
          MaxEvents             \* signals that are kept before old ones are erased

ASSUME ThresholdAssumption == OldEventThreshold \in Nat /\ MaxEvents \in Nat

SF == 7 .. 12

(* A signal at one antenna; id tells two signals apart as pointers do.        *)
Event(id, start, duration, rxPower, sf, frequency) ==
    [id |-> id, start |-> start, end |-> start + duration,
     rxPower |-> rxPower, sf |-> sf, frequency |-> frequency]
Duration(e) == e.end - e.start

------------------------------------------------------------------------------
(* The list of signals.  The mutant does not wait before it erases one.       *)
CleanEndedEvents(events, now) == {e \in events : e.end >= now}
CleanOldEvents(events, now) == {e \in events : e.end + OldEventThreshold >= now}
Add(events, e, now) ==
    LET all == events \cup {e}
    IN  IF Cardinality(all) > MaxEvents THEN CleanOldEvents(all, now) ELSE all

------------------------------------------------------------------------------
(* For how long two signals overlap.                                          *)
GetOverlapTime(a, b) ==
    IF a.end <= b.start \/ b.end <= a.start THEN 0
    ELSE IF a.start < b.start
         THEN IF b.end < a.end THEN b.end - b.start ELSE a.end - b.start
         ELSE IF a.end < b.end THEN a.end - a.start ELSE b.end - a.start

(* The isolation, in dB, that a signal needs from the interference of a       *)
(* spreading factor; rows and columns are SF 7 to 12.  Aloha: from its own    *)
(* all there is, from others nothing.                                         *)
CollisionSnirGoursaud ==
    << << 6, -16, -18, -19, -19, -20>>,
       <<-24,  6, -20, -22, -22, -22>>,
       <<-27, -27,  6, -23, -25, -25>>,
       <<-30, -30, -30,  6, -26, -28>>,
       <<-33, -33, -33, -33,  6, -29>>,
       <<-36, -36, -36, -36, -36,  6>> >>
Unlimited == 1000
CollisionSnirAloha == [i \in 1 .. 6 |-> [j \in 1 .. 6 |-> IF i = j THEN Unlimited ELSE -Unlimited]]
CollisionSnir(matrix) == IF matrix = "ALOHA" THEN CollisionSnirAloha ELSE CollisionSnirGoursaud

(* DbmToW, and 10 ^ (dB / 10) for the values of the matrix.                   *)
DbmToW(dbm) == 4 ^ ((dbm + 142) \div 6)
LinearRatio(dB) ==
    CASE dB = 6 -> 4 [] dB = 16 -> 40 [] dB = 18 -> 63 [] dB = 19 -> 79 [] dB = 20 -> 100
      [] dB = 22 -> 158 [] dB = 23 -> 200 [] dB = 24 -> 251 [] dB = 25 -> 316 [] dB = 26 -> 398
      [] dB = 27 -> 501 [] dB = 28 -> 631 [] dB = 29 -> 794 [] dB = 30 -> 1000
      [] dB = 33 -> 1995 [] dB = 36 -> 3981

(* Whether the energy of a signal is as many dB over that of the interference.*)
Survives(signal, interference, isolation) ==
    \/ interference = 0
    \/ isolation = -Unlimited
    \/ isolation > 0 /\ isolation < Unlimited /\ signal >= LinearRatio(isolation) * interference
    \/ isolation < 0 /\ signal * LinearRatio(-isolation) >= interference

(* The mutant takes for itself what came and went with it.                    *)
InterferersByTime(events, e, sf) ==
    {i \in events : i.frequency = e.frequency /\ ~(i.start = e.start /\ i.end = e.end) /\ i.sf = sf}
Interferers(events, e, sf) ==
    {i \in events : i.frequency = e.frequency /\ i # e /\ i.sf = sf}
CumulativeInterferenceEnergy(events, e, sf) ==
    MapThenSumSet(LAMBDA i : GetOverlapTime(e, i) * DbmToW(i.rxPower), Interferers(events, e, sf))

(* The lowest spreading factor whose interference destroys the signal, or 0.  *)
IsDestroyedByInterference(matrix, events, e) ==
    LET by == {sf \in SF : ~Survives(Duration(e) * DbmToW(e.rxPower),
                                     CumulativeInterferenceEnergy(events, e, sf),
                                     CollisionSnir(matrix)[e.sf - 6][sf - 6])}
    IN  IF by = {} THEN 0 ELSE Min(by)
=============================================================================
