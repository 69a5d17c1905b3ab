--------------------------- MODULE EventQueue_proofs ---------------------------
(***************************************************************************)
(* Facts about the simulator's queue that the proofs of the components     *)
(* cite, for any set What of things that may run.                          *)
(***************************************************************************)
EXTENDS EventQueue, TLAPS

\* At most one entry of q stands for each event of W.
Unique(q, W) == \A e, f \in q : e.what = f.what /\ e.what \in W => e = f

\* Scheduling, cancelling and the passing of time keep a queue a queue.
LEMMA ScheduleType ==
    ASSUME NEW What, NEW q \in SUBSET Entries(What), NEW w \in What, NEW n \in Nat
    PROVE  Schedule(q, w, n) \in SUBSET Entries(What)
BY DEF Schedule, Entries

LEMMA CancelType ==
    ASSUME NEW What, NEW q \in SUBSET Entries(What), NEW W
    PROVE  Cancel(q, W) \in SUBSET Entries(What)
BY DEF Cancel

LEMMA ElapseType ==
    ASSUME NEW What, NEW q \in SUBSET Entries(What), ~SomeDue(q)
    PROVE  Elapse(q) \in SUBSET Entries(What)
BY DEF Elapse, SomeDue, Entries

\* What is pending after each of them: the event scheduled, all but the
\* events cancelled, and what was pending before.
LEMMA SchedulePending ==
    ASSUME NEW What, NEW q \in SUBSET Entries(What), NEW w, NEW n, NEW v
    PROVE  IsPending(Schedule(q, w, n), v) <=> v = w \/ IsPending(q, v)
<1> DEFINE Moved(e) == [e EXCEPT !.later = IF e.left = n THEN @ + 1 ELSE @]
<1>1. \A e \in q : Moved(e).what = e.what
  BY DEF Entries
<1>2. Schedule(q, w, n) = { Moved(e) : e \in q } \cup {[what |-> w, left |-> n, later |-> 0]}
  BY DEF Schedule
<1>3. [what |-> w, left |-> n, later |-> 0].what = w
  OBVIOUS
<1> HIDE DEF Moved
<1>4. ASSUME IsPending(Schedule(q, w, n), v)  PROVE v = w \/ IsPending(q, v)
  BY <1>1, <1>2, <1>3, <1>4 DEF IsPending
<1>5. ASSUME IsPending(q, v)  PROVE IsPending(Schedule(q, w, n), v)
  BY <1>1, <1>2, <1>5 DEF IsPending
<1>6. IsPending(Schedule(q, w, n), w)
  BY <1>2, <1>3 DEF IsPending
<1> QED
  BY <1>4, <1>5, <1>6

LEMMA CancelPending ==
    ASSUME NEW q, NEW W, NEW v
    PROVE  IsPending(Cancel(q, W), v) <=> v \notin W /\ IsPending(q, v)
BY DEF IsPending, Cancel

LEMMA ElapsePending ==
    ASSUME NEW What, NEW q \in SUBSET Entries(What), NEW v
    PROVE  IsPending(Elapse(q), v) <=> IsPending(q, v)
<1>1. \A e \in q : [e EXCEPT !.left = @ - 1].what = e.what
  BY DEF Entries
<1> QED
  BY <1>1 DEF IsPending, Elapse

\* An event that runs is no longer pending, if it was scheduled once.
LEMMA PopPending ==
    ASSUME NEW q, NEW W, Unique(q, W), NEW e \in q, NEW v
    PROVE  /\ v # e.what => (IsPending(q \ {e}, v) <=> IsPending(q, v))
           /\ e.what \in W => ~IsPending(q \ {e}, e.what)
BY DEF IsPending, Unique

\* An event that is not pending may be scheduled, and is then scheduled once.
LEMMA ScheduleUnique ==
    ASSUME NEW What, NEW q \in SUBSET Entries(What), NEW w, NEW n, NEW W, Unique(q, W),
           w \in W => ~IsPending(q, w)
    PROVE  Unique(Schedule(q, w, n), W)
<1> DEFINE Moved(e) == [e EXCEPT !.later = IF e.left = n THEN @ + 1 ELSE @]
           new == [what |-> w, left |-> n, later |-> 0]
<1>1. \A e \in q : Moved(e).what = e.what
  BY DEF Entries
<1>2. Schedule(q, w, n) = { Moved(e) : e \in q } \cup {new}
  BY DEF Schedule
<1>3. new.what = w
  OBVIOUS
<1> HIDE DEF Moved, new
<1> QED
  BY <1>1, <1>2, <1>3 DEF Unique, IsPending

LEMMA ElapseUnique ==
    ASSUME NEW What, NEW q \in SUBSET Entries(What), NEW W, Unique(q, W)
    PROVE  Unique(Elapse(q), W)
<1> DEFINE Nearer(e) == [e EXCEPT !.left = @ - 1]
<1>1. \A e \in q : Nearer(e).what = e.what
  BY DEF Entries
<1>2. Elapse(q) = { Nearer(e) : e \in q }
  BY DEF Elapse
<1> HIDE DEF Nearer
<1> QED
  BY <1>1, <1>2 DEF Unique

LEMMA FewerUnique ==
    ASSUME NEW q, NEW W, Unique(q, W), NEW r \in SUBSET q
    PROVE  Unique(r, W)
BY DEF Unique
==============================================================================
