------------------------------ MODULE EventQueue ------------------------------
(***************************************************************************)
(* The simulator's queue of pending events, as the lorawan module uses it: *)
(* Simulator::Schedule, Simulator::Cancel, EventId::IsExpired. Events run  *)
(* in the order of their times; events of the same time run in the order   *)
(* in which they were scheduled.                                           *)
(*                                                                         *)
(* A queue is a set of records: what is to run, the ticks left until then, *)
(* and the number of events scheduled later for the same time.             *)
(***************************************************************************)
EXTENDS Integers

Entries(What) == [what : What, left : Nat, later : Nat]

\* Schedule w to run in d ticks, after all that is already due by then.
Schedule(q, w, d) ==
    { [e EXCEPT !.later = IF e.left = d THEN @ + 1 ELSE @] : e \in q }
        \cup {[what |-> w, left |-> d, later |-> 0]}

\* Forget the events of W.
Cancel(q, W) == { e \in q : e.what \notin W }

IsPending(q, w) == \E e \in q : e.what = w

\* The events that may run now: at most one, if queues are built by Schedule.
Due(q) == { e \in q : /\ e.left = 0
                      /\ \A f \in q : f.left = 0 => f.later <= e.later }

SomeDue(q) == \E e \in q : e.left = 0

Elapse(q) == { [e EXCEPT !.left = @ - 1] : e \in q }
==============================================================================
