---------------------------- MODULE Gateway_proofs ----------------------------
(***************************************************************************)
(* Proofs about the gateway, for any number of frames, reception paths and *)
(* sub-bands and any timing. Good is the inductive invariant: what a       *)
(* gateway g satisfies when the frames of A have arrived.                  *)
(***************************************************************************)
EXTENDS Gateway, EventQueue_proofs, FiniteSetTheorems

Ends == { EndReceiveOf(f) : f \in Frame }

\* A frame that is being received has arrived and is not traced yet.
Untraced(g, A) == \A f \in Frame :
    /\ IsPending(g.events, EndReceiveOf(f)) => f \in A /\ g.outcome[f] = <<>>
    /\ f \notin A => g.outcome[f] = <<>>

TracedOnce(g) == \A f \in Frame : Len(g.outcome[f]) <= 1

Counted(g) == Cardinality(Locked(g)) <= g.occupied

Good(g, A) == /\ g \in Gateways
              /\ Unique(g.events, Ends)
              /\ PathsMatchQueue(g) /\ PathsDiffer(g)
              /\ Untraced(g, A) /\ TracedOnce(g)
              /\ Counted(g)

------------------------------------------------------------------------------
(* Calls, queues and the set of frames that paths are locked on *)

LEMMA Calls ==
    /\ TxFinishedCall \in Call
    /\ TxFinishedCall \notin Ends
    /\ Ends \subseteq Call
    /\ \A f \in Frame : EndReceiveOf(f) \in Ends
    /\ \A f, h \in Frame : EndReceiveOf(f) = EndReceiveOf(h) => f = h
    /\ \A c \in Call : c.kind = "EndReceive" => c \in Ends /\ c = EndReceiveOf(c.frame)
                                                /\ c.frame \in Frame
<1>1. \A f \in Frame : EndReceiveOf(f).kind = "EndReceive" /\ EndReceiveOf(f).frame = f
  BY DEF EndReceiveOf
<1>2. TxFinishedCall.kind = "TxFinished"
  BY DEF TxFinishedCall
<1> QED
  BY <1>1, <1>2 DEF Call, Ends

LEMMA LockedFrames ==
    ASSUME NEW g \in Gateways
    PROVE  /\ Locked(g) \subseteq Frame
           /\ IsFiniteSet(Locked(g))
           /\ Cardinality(Locked(g)) \in Nat
<1>1. Locked(g) \subseteq Frame
  BY DEF Locked, Gateways
<1>2. IsFiniteSet(Path)
  BY FS_Interval, CountAssumption DEF Path
<1>3. IsFiniteSet({ g.paths[p] : p \in Path })
  <2>1. g.paths \in Surjection(Path, { g.paths[p] : p \in Path })
    BY DEF Surjection, Gateways
  <2> QED
    BY <1>2, <2>1, FS_Surjection
<1>4. IsFiniteSet(Locked(g))
  BY <1>3, FS_Subset DEF Locked
<1> QED
  BY <1>1, <1>4, FS_CardinalityType

------------------------------------------------------------------------------
(* What each method does to the fields of a gateway *)

LEMMA TraceFields ==
    ASSUME NEW g \in Gateways, NEW f \in Frame, NEW what \in Traces
    PROVE  LET n == Trace(g, f, what) IN
           /\ n \in Gateways
           /\ n.outcome = [g.outcome EXCEPT ![f] = Append(@, what)]
           /\ n.paths = g.paths /\ n.occupied = g.occupied /\ n.events = g.events
           /\ n.transmitting = g.transmitting /\ n.rest = g.rest
           /\ n.forwarded = g.forwarded /\ n.clashed = g.clashed
<1>1. Append(g.outcome[f], what) \in Seq(Traces)
  BY DEF Gateways
<1>2. [g.outcome EXCEPT ![f] = Append(@, what)] \in [Frame -> Seq(Traces)]
  BY <1>1 DEF Gateways
<1> HIDE DEF Traces
<1> QED
  BY <1>2 DEF Trace, Gateways

LEMMA LockFields ==
    ASSUME NEW g \in Gateways, NEW f \in Frame, NEW d \in Nat, FreePaths(g) # {}
    PROVE  LET n == Lock(g, f, d) IN
           /\ n \in Gateways
           /\ \E p \in FreePaths(g) : n.paths = [g.paths EXCEPT ![p] = f]
           /\ n.occupied = g.occupied + 1
           /\ n.events = Schedule(g.events, EndReceiveOf(f), d)
           /\ n.outcome = g.outcome
           /\ n.transmitting = g.transmitting /\ n.rest = g.rest
           /\ n.forwarded = g.forwarded /\ n.clashed = g.clashed
<1> DEFINE p == CHOOSE q \in FreePaths(g) : TRUE
           q1 == Schedule(g.events, EndReceiveOf(f), d)
           ps == [g.paths EXCEPT ![p] = f]
<1>1. p \in FreePaths(g)
  OBVIOUS
<1>2. ps \in [Path -> Frame \cup {None}]
  BY DEF Gateways
<1>3. q1 \in Queues
  BY ScheduleType, Calls DEF Gateways, Queues
<1>4. Lock(g, f, d) = [g EXCEPT !.paths = ps, !.occupied = @ + 1, !.events = q1]
  BY DEF Lock, Gateways
<1>5. g.occupied + 1 \in Nat
  BY DEF Gateways
<1> HIDE DEF p, q1, ps
<1>6. /\ Lock(g, f, d) \in Gateways
      /\ Lock(g, f, d).paths = ps /\ Lock(g, f, d).outcome = g.outcome
      /\ Lock(g, f, d).events = q1 /\ Lock(g, f, d).occupied = g.occupied + 1
      /\ Lock(g, f, d).transmitting = g.transmitting /\ Lock(g, f, d).rest = g.rest
      /\ Lock(g, f, d).forwarded = g.forwarded /\ Lock(g, f, d).clashed = g.clashed
  BY <1>2, <1>3, <1>4, <1>5 DEF Gateways
<1>7. \E r \in FreePaths(g) : ps = [g.paths EXCEPT ![r] = f]
  BY <1>1 DEF ps
<1> QED
  BY <1>6, <1>7 DEF q1

LEMMA FreeFields ==
    ASSUME NEW g \in Gateways, NEW f \in Frame, g.occupied > 0
    PROVE  LET n == Free(g, f) IN
           /\ n \in Gateways
           /\ n.paths = [p \in Path |-> IF g.paths[p] = f THEN None ELSE g.paths[p]]
           /\ n.occupied = g.occupied - 1
           /\ n.events = g.events /\ n.outcome = g.outcome
           /\ n.transmitting = g.transmitting /\ n.rest = g.rest
           /\ n.forwarded = g.forwarded /\ n.clashed = g.clashed
<1> DEFINE ps == [p \in Path |-> IF g.paths[p] = f THEN None ELSE g.paths[p]]
<1>1. ps \in [Path -> Frame \cup {None}] /\ g.occupied - 1 \in Nat
  BY DEF Gateways
<1>2. Free(g, f) = [g EXCEPT !.paths = ps, !.occupied = g.occupied - 1]
  BY DEF Free, Gateways
<1> HIDE DEF ps
<1>3. /\ Free(g, f) \in Gateways
      /\ Free(g, f).paths = ps /\ Free(g, f).outcome = g.outcome
      /\ Free(g, f).events = g.events /\ Free(g, f).occupied = g.occupied - 1
      /\ Free(g, f).transmitting = g.transmitting /\ Free(g, f).rest = g.rest
      /\ Free(g, f).forwarded = g.forwarded /\ Free(g, f).clashed = g.clashed
  BY <1>1, <1>2 DEF Gateways
<1> QED
  BY <1>3 DEF ps

LEMMA ReceiveFields ==
    ASSUME NEW g \in Gateways, NEW f \in Frame
    PROVE  LET n == Receive(g, f) IN
           /\ n \in Gateways
           /\ n.forwarded = IF f \in Uplink THEN g.forwarded \cup {f} ELSE g.forwarded
           /\ n.paths = g.paths /\ n.occupied = g.occupied /\ n.events = g.events
           /\ n.outcome = g.outcome
           /\ n.transmitting = g.transmitting /\ n.rest = g.rest
           /\ n.clashed = g.clashed
BY DEF Receive, Gateways

LEMMA InterruptFields ==
    ASSUME NEW g \in Gateways
    PROVE  LET n == Interrupt(g) IN
           /\ n \in Gateways
           /\ n.paths = [p \in Path |-> None]
           /\ n.occupied = g.occupied
           /\ n.events = Cancel(g.events, { EndReceiveOf(f) : f \in Locked(g) })
           /\ n.outcome = [f \in Frame |->
                  IF f \in Locked(g)
                  THEN Append(g.outcome[f], "m_noReceptionBecauseTransmitting")
                  ELSE g.outcome[f]]
           /\ n.transmitting = g.transmitting /\ n.rest = g.rest
           /\ n.forwarded = g.forwarded /\ n.clashed = g.clashed
<1> DEFINE out == [f \in Frame |->
                  IF f \in Locked(g)
                  THEN Append(g.outcome[f], "m_noReceptionBecauseTransmitting")
                  ELSE g.outcome[f]]
           q1 == Cancel(g.events, { EndReceiveOf(f) : f \in Locked(g) })
           none == [p \in Path |-> None]
<1>1. out \in [Frame -> Seq(Traces)]
  <2>1. \A f \in Frame : g.outcome[f] \in Seq(Traces)
    BY DEF Gateways
  <2>2. "m_noReceptionBecauseTransmitting" \in Traces
    BY DEF Traces
  <2> QED
    BY <2>1, <2>2
<1>2. q1 \in Queues
  BY CancelType DEF Gateways, Queues
<1>3. none \in [Path -> Frame \cup {None}]
  OBVIOUS
<1>4. FreeAll(g) = [g EXCEPT !.outcome = out, !.paths = none]
  BY DEF FreeAll, Gateways
<1>5. Interrupt(g) = [[g EXCEPT !.outcome = out, !.paths = none] EXCEPT !.events = q1]
  <2> HIDE DEF out, none
  <2>1. [g EXCEPT !.outcome = out, !.paths = none].events = g.events
    BY DEF Gateways
  <2> QED
    BY <1>4, <2>1 DEF Interrupt
<1> HIDE DEF out, q1, none
<1>6. /\ Interrupt(g) \in Gateways
      /\ Interrupt(g).paths = none /\ Interrupt(g).outcome = out
      /\ Interrupt(g).events = q1 /\ Interrupt(g).occupied = g.occupied
      /\ Interrupt(g).transmitting = g.transmitting /\ Interrupt(g).rest = g.rest
      /\ Interrupt(g).forwarded = g.forwarded /\ Interrupt(g).clashed = g.clashed
  BY <1>1, <1>2, <1>3, <1>5 DEF Gateways
<1> QED
  BY <1>6 DEF out, q1, none

LEMMA PhySendFields ==
    ASSUME NEW g \in Gateways
    PROVE  LET n == PhySend(g) IN
           /\ n \in Gateways
           /\ n.paths = [p \in Path |-> None]
           /\ n.occupied = g.occupied
           /\ n.events = Schedule(Cancel(g.events, { EndReceiveOf(f) : f \in Locked(g) }),
                                  TxFinishedCall, TxTime)
           /\ n.outcome = [f \in Frame |->
                  IF f \in Locked(g)
                  THEN Append(g.outcome[f], "m_noReceptionBecauseTransmitting")
                  ELSE g.outcome[f]]
           /\ n.transmitting = TRUE /\ n.rest = g.rest
           /\ n.forwarded = g.forwarded /\ n.clashed = g.clashed \cup Locked(g)
<1> DEFINE i == Interrupt(g)
           q1 == Schedule(i.events, TxFinishedCall, TxTime)
           c == g.clashed \cup Locked(g)
<1>1. i \in Gateways /\ i.clashed = g.clashed
  BY InterruptFields
<1>2. q1 \in Queues
  BY <1>1, ScheduleType, Calls, TimeAssumption DEF Gateways, Queues
<1>3. c \in SUBSET Frame
  BY LockedFrames DEF Gateways
<1>4. PhySend(g) = [i EXCEPT !.events = q1, !.transmitting = TRUE, !.clashed = c]
  BY <1>1 DEF PhySend, Gateways
<1> HIDE DEF i, q1, c
<1>5. /\ PhySend(g) \in Gateways
      /\ PhySend(g).paths = i.paths /\ PhySend(g).outcome = i.outcome
      /\ PhySend(g).events = q1 /\ PhySend(g).occupied = i.occupied
      /\ PhySend(g).transmitting = TRUE /\ PhySend(g).rest = i.rest
      /\ PhySend(g).forwarded = i.forwarded /\ PhySend(g).clashed = c
  BY <1>1, <1>2, <1>3, <1>4 DEF Gateways
<1> QED
  BY <1>5, InterruptFields DEF i, q1, c

LEMMA ElapsedFields ==
    ASSUME NEW g \in Gateways, ~SomeDue(g.events)
    PROVE  LET n == Elapsed(g) IN
           /\ n \in Gateways
           /\ n.rest = [b \in SubBand |-> IF g.rest[b] > 0 THEN g.rest[b] - 1 ELSE 0]
           /\ n.events = Elapse(g.events)
           /\ n.paths = g.paths /\ n.occupied = g.occupied /\ n.outcome = g.outcome
           /\ n.transmitting = g.transmitting
           /\ n.forwarded = g.forwarded /\ n.clashed = g.clashed
<1> DEFINE q1 == Elapse(g.events)
           r == [b \in SubBand |-> IF g.rest[b] > 0 THEN g.rest[b] - 1 ELSE 0]
<1>1. q1 \in Queues
  BY ElapseType DEF Gateways, Queues
<1>2. r \in [SubBand -> Nat]
  BY DEF Gateways
<1>3. Elapsed(g) = [g EXCEPT !.events = q1, !.rest = r]
  BY DEF Elapsed, Gateways
<1> HIDE DEF q1, r
<1>4. /\ Elapsed(g) \in Gateways
      /\ Elapsed(g).events = q1 /\ Elapsed(g).rest = r
      /\ Elapsed(g).paths = g.paths /\ Elapsed(g).outcome = g.outcome
      /\ Elapsed(g).occupied = g.occupied
      /\ Elapsed(g).transmitting = g.transmitting
      /\ Elapsed(g).forwarded = g.forwarded /\ Elapsed(g).clashed = g.clashed
  BY <1>1, <1>2, <1>3 DEF Gateways
<1> QED
  BY <1>4 DEF q1, r

------------------------------------------------------------------------------
(* Every step of the gateway keeps it good *)

LEMMA GoodFields ==
    ASSUME NEW g, NEW A, Good(g, A), NEW n \in Gateways,
           n.events = g.events, n.paths = g.paths, n.outcome = g.outcome,
           n.occupied = g.occupied
    PROVE  Good(n, A)
BY DEF Good, PathsMatchQueue, PathsDiffer, Locked, Untraced, TracedOnce, Counted

LEMMA GoodTrace ==
    ASSUME NEW g, NEW A, Good(g, A), NEW f \in Frame \ A, NEW what \in Traces
    PROVE  Good(Trace(g, f, what), A \cup {f})
<1> DEFINE n == Trace(g, f, what)
<1>1. g \in Gateways
  BY DEF Good
<1>2. /\ n \in Gateways
      /\ n.outcome = [g.outcome EXCEPT ![f] = Append(@, what)]
      /\ n.paths = g.paths /\ n.occupied = g.occupied /\ n.events = g.events
  BY <1>1, TraceFields
<1> HIDE DEF n
<1>3. Locked(n) = Locked(g)
  BY <1>2 DEF Locked
<1>4. g.outcome[f] = <<>> /\ ~IsPending(g.events, EndReceiveOf(f))
  BY DEF Good, Untraced
<1>5. n.outcome[f] = Append(<<>>, what) /\ \A h \in Frame \ {f} : n.outcome[h] = g.outcome[h]
  BY <1>1, <1>2, <1>4 DEF Gateways
<1>6. Untraced(n, A \cup {f})
  BY <1>2, <1>4, <1>5 DEF Good, Untraced
<1>7. TracedOnce(n)
  <2>1. Len(n.outcome[f]) <= 1
    BY <1>5
  <2>2. \A h \in Frame \ {f} : Len(n.outcome[h]) <= 1
    BY <1>5 DEF Good, TracedOnce
  <2> QED
    BY <2>1, <2>2 DEF TracedOnce
<1>8. PathsMatchQueue(n) /\ PathsDiffer(n) /\ Counted(n) /\ Unique(n.events, Ends)
  BY <1>2, <1>3 DEF Good, PathsMatchQueue, PathsDiffer, Counted
<1> QED
  BY <1>2, <1>6, <1>7, <1>8 DEF Good, n

LEMMA GoodLock ==
    ASSUME NEW g, NEW A, Good(g, A), NEW f \in Frame \ A, NEW d \in Nat, FreePaths(g) # {}
    PROVE  Good(Lock(g, f, d), A \cup {f})
<1> DEFINE n == Lock(g, f, d)
<1>1. g \in Gateways
  BY DEF Good
<1>2. PICK p \in FreePaths(g) :
          /\ n \in Gateways
          /\ n.paths = [g.paths EXCEPT ![p] = f]
          /\ n.occupied = g.occupied + 1
          /\ n.events = Schedule(g.events, EndReceiveOf(f), d)
          /\ n.outcome = g.outcome
  BY <1>1, LockFields
<1> HIDE DEF n
<1>3. g.outcome[f] = <<>> /\ ~IsPending(g.events, EndReceiveOf(f)) /\ f \notin Locked(g)
  BY DEF Good, Untraced, PathsMatchQueue
<1>4. p \in Path /\ g.paths[p] = None /\ f # None
  BY <1>2, FrameAssumption DEF FreePaths
<1>5. \A q \in Path : n.paths[q] = IF q = p THEN f ELSE g.paths[q]
  BY <1>1, <1>2 DEF Gateways
<1>6. Locked(n) = Locked(g) \cup {f}
  BY <1>4, <1>5 DEF Locked
<1>7. \A h \in Frame : IsPending(n.events, EndReceiveOf(h))
                            <=> h = f \/ IsPending(g.events, EndReceiveOf(h))
  <2>1. g.events \in SUBSET Entries(Call)
    BY <1>1 DEF Gateways, Queues
  <2> QED
    BY <1>2, <2>1, SchedulePending, Calls
<1>8. PathsMatchQueue(n)
  BY <1>6, <1>7 DEF Good, PathsMatchQueue
<1>9. PathsDiffer(n)
  <2>1. \A q \in Path : g.paths[q] # f
    BY <1>3, <1>4 DEF Locked
  <2> QED
    BY <1>5, <2>1 DEF Good, PathsDiffer
<1>10. Unique(n.events, Ends)
  <2>1. g.events \in SUBSET Entries(Call)
    BY <1>1 DEF Gateways, Queues
  <2> QED
    BY <1>2, <1>3, <2>1, ScheduleUnique DEF Good
<1>11. Untraced(n, A \cup {f}) /\ TracedOnce(n)
  BY <1>2, <1>3, <1>7 DEF Good, Untraced, TracedOnce
<1>12. Counted(n)
  <2>1. Cardinality(Locked(n)) = Cardinality(Locked(g)) + 1
    BY <1>1, <1>3, <1>6, LockedFrames, FS_AddElement
  <2>2. Cardinality(Locked(g)) \in Nat /\ g.occupied \in Nat
    BY <1>1, LockedFrames DEF Gateways
  <2>3. Cardinality(Locked(g)) <= g.occupied
    BY DEF Good, Counted
  <2> QED
    BY <1>2, <2>1, <2>2, <2>3 DEF Counted
<1> QED
  BY <1>2, <1>8, <1>9, <1>10, <1>11, <1>12 DEF Good, n

LEMMA GoodStartReceive ==
    ASSUME NEW g, NEW A, Good(g, A), NEW f \in Frame \ A, NEW d \in Nat, NEW audible
    PROVE  Good(StartReceive(g, f, d, audible), A \cup {f})
<1>1. {"m_underSensitivity", "m_noMoreDemodulators", "m_noReceptionBecauseTransmitting"}
          \subseteq Traces
  BY DEF Traces
<1> QED
  BY <1>1, GoodTrace, GoodLock DEF StartReceive

\* The event of a reception that ends leaves the queue; g is the gateway before.
LEMMA GoodEndReceive ==
    ASSUME NEW g, NEW A, Good(g, A), NEW e \in g.events, e.what.kind = "EndReceive",
           NEW destroyed \in BOOLEAN
    PROVE  Good(EndReceive([g EXCEPT !.events = @ \ {e}], e.what.frame, destroyed), A)
<1> DEFINE f == e.what.frame
           q1 == g.events \ {e}
           popped == [g EXCEPT !.events = q1]
           told == IF destroyed THEN Trace(popped, f, "m_interferedPacket")
                   ELSE Receive(Trace(popped, f, "m_successfullyReceivedPacket"), f)
           n == Free(told, f)
<1>1. g \in Gateways /\ g.events \in SUBSET Entries(Call)
  BY DEF Good, Gateways, Queues
<1>2. e.what \in Ends /\ e.what = EndReceiveOf(f) /\ f \in Frame
  BY <1>1, Calls DEF Entries
<1>3. IsPending(g.events, EndReceiveOf(f)) /\ f \in A /\ g.outcome[f] = <<>> /\ f \in Locked(g)
  BY <1>2 DEF IsPending, Good, Untraced, PathsMatchQueue
<1>4. /\ popped \in Gateways /\ popped.events = q1 /\ popped.paths = g.paths
      /\ popped.outcome = g.outcome /\ popped.occupied = g.occupied
  BY <1>1 DEF Gateways, Queues
<1>5. PICK what \in Traces :
          /\ told \in Gateways
          /\ told.outcome = [g.outcome EXCEPT ![f] = Append(@, what)]
          /\ told.events = q1 /\ told.paths = g.paths /\ told.occupied = g.occupied
  <2>1. "m_interferedPacket" \in Traces /\ "m_successfullyReceivedPacket" \in Traces
    BY DEF Traces
  <2> HIDE DEF popped, q1, f
  <2> DEFINE Like(t, what) == /\ t \in Gateways
                              /\ t.outcome = [g.outcome EXCEPT ![f] = Append(@, what)]
                              /\ t.events = q1 /\ t.paths = g.paths
                              /\ t.occupied = g.occupied
  <2>2. \A what \in Traces : Like(Trace(popped, f, what), what)
    BY <1>2, <1>4, TraceFields
  <2>3. \A t, what : Like(t, what) => Like(Receive(t, f), what)
    BY <1>2, ReceiveFields
  <2>4. \E what \in Traces : Like(told, what)
    <3> HIDE DEF Like
    <3> QED
      BY <2>1, <2>2, <2>3
  <2> QED
    BY <2>4
<1>6. g.occupied > 0
  <2>1. Cardinality(Locked(g)) # 0
    BY <1>1, <1>3, LockedFrames, FS_EmptySet
  <2> QED
    BY <1>1, <2>1, LockedFrames DEF Good, Counted, Gateways
<1> HIDE DEF f, q1, told
<1>7. /\ n \in Gateways
      /\ n.paths = [p \in Path |-> IF g.paths[p] = f THEN None ELSE g.paths[p]]
      /\ n.occupied = g.occupied - 1
      /\ n.events = q1
      /\ n.outcome = [g.outcome EXCEPT ![f] = Append(@, what)]
  BY <1>2, <1>5, <1>6, FreeFields
<1> HIDE DEF n
<1>8. Locked(n) = Locked(g) \ {f}
  BY <1>2, <1>7 DEF Locked
<1>9. \A h \in Frame : IsPending(n.events, EndReceiveOf(h))
                            <=> h # f /\ IsPending(g.events, EndReceiveOf(h))
  BY <1>2, <1>7, PopPending, Calls DEF Good, q1
<1>10. n.outcome[f] = Append(<<>>, what) /\ \A h \in Frame \ {f} : n.outcome[h] = g.outcome[h]
  BY <1>1, <1>2, <1>3, <1>7 DEF Gateways
<1>11. PathsMatchQueue(n)
  BY <1>8, <1>9 DEF Good, PathsMatchQueue
<1>12. PathsDiffer(n)
  BY <1>7 DEF Good, PathsDiffer
<1>13. Unique(n.events, Ends)
  BY <1>7, FewerUnique DEF Good, q1
<1>14. Untraced(n, A)
  BY <1>3, <1>9, <1>10 DEF Good, Untraced
<1>15. TracedOnce(n)
  <2>1. Len(n.outcome[f]) <= 1
    BY <1>10
  <2>2. \A h \in Frame \ {f} : Len(n.outcome[h]) <= 1
    BY <1>10 DEF Good, TracedOnce
  <2> QED
    BY <2>1, <2>2 DEF TracedOnce
<1>16. Counted(n)
  <2>1. Cardinality(Locked(n)) = Cardinality(Locked(g)) - 1
    BY <1>1, <1>3, <1>8, LockedFrames, FS_RemoveElement
  <2>2. Cardinality(Locked(g)) \in Nat /\ g.occupied \in Nat
    BY <1>1, LockedFrames DEF Gateways
  <2>3. Cardinality(Locked(g)) <= g.occupied
    BY DEF Good, Counted
  <2> QED
    BY <1>7, <2>1, <2>2, <2>3 DEF Counted
<1>17. Good(n, A)
  BY <1>7, <1>11, <1>12, <1>13, <1>14, <1>15, <1>16 DEF Good
<1> QED
  BY <1>17 DEF n, told, f, q1, EndReceive

LEMMA GoodPhySend ==
    ASSUME NEW g, NEW A, Good(g, A)
    PROVE  Good(PhySend(g), A)
<1> DEFINE n == PhySend(g)
           W == { EndReceiveOf(f) : f \in Locked(g) }
           q1 == Cancel(g.events, W)
           why == "m_noReceptionBecauseTransmitting"
<1>1. g \in Gateways /\ g.events \in SUBSET Entries(Call)
  BY DEF Good, Gateways, Queues
<1>2. /\ n \in Gateways
      /\ n.paths = [p \in Path |-> None]
      /\ n.occupied = g.occupied
      /\ n.events = Schedule(q1, TxFinishedCall, TxTime)
      /\ n.outcome = [f \in Frame |-> IF f \in Locked(g) THEN Append(g.outcome[f], why)
                                      ELSE g.outcome[f]]
  BY <1>1, PhySendFields
<1>3. q1 \in SUBSET Entries(Call) /\ Unique(q1, Ends)
  <2>1. q1 \in SUBSET g.events
    BY DEF Cancel
  <2> QED
    BY <1>1, <2>1, FewerUnique DEF Good
<1>4. \A h \in Frame : ~IsPending(q1, EndReceiveOf(h))
  BY <1>1, CancelPending DEF Good, PathsMatchQueue
<1> HIDE DEF n, q1
<1>5. \A h \in Frame : ~IsPending(n.events, EndReceiveOf(h))
  <2>1. \A v : IsPending(Schedule(q1, TxFinishedCall, TxTime), v)
                    <=> v = TxFinishedCall \/ IsPending(q1, v)
    BY <1>3, SchedulePending
  <2>2. \A h \in Frame : EndReceiveOf(h) # TxFinishedCall
    BY Calls
  <2> QED
    BY <1>2, <1>4, <2>1, <2>2
<1>6. Locked(n) = {}
  BY <1>2 DEF Locked
<1>7. PathsMatchQueue(n) /\ PathsDiffer(n)
  BY <1>2, <1>5, <1>6 DEF PathsMatchQueue, PathsDiffer
<1>8. Unique(n.events, Ends)
  <2>1. TxFinishedCall \notin Ends
    BY Calls
  <2>2. Unique(Schedule(q1, TxFinishedCall, TxTime), Ends)
    BY <1>3, <2>1, ScheduleUnique
  <2> QED
    BY <1>2, <2>2
<1>9. \A f \in Locked(g) : f \in A /\ g.outcome[f] = <<>>
  BY <1>1, LockedFrames DEF Good, PathsMatchQueue, Untraced
<1>10. Untraced(n, A)
  BY <1>2, <1>5, <1>9 DEF Good, Untraced
<1>11. TracedOnce(n)
  <2>1. \A f \in Frame \cap Locked(g) : n.outcome[f] = Append(<<>>, why)
    BY <1>2, <1>9
  <2>2. Len(Append(<<>>, why)) <= 1
    OBVIOUS
  <2>3. \A f \in Frame \ Locked(g) : Len(n.outcome[f]) <= 1
    BY <1>2 DEF Good, TracedOnce
  <2> QED
    BY <2>1, <2>2, <2>3 DEF TracedOnce
<1>12. Counted(n)
  <2>1. Cardinality(Locked(n)) = 0
    BY <1>6, FS_EmptySet
  <2>2. g.occupied \in Nat
    BY <1>1 DEF Gateways
  <2> QED
    BY <1>2, <2>1, <2>2 DEF Counted
<1> QED
  BY <1>2, <1>7, <1>8, <1>10, <1>11, <1>12 DEF Good, n

LEMMA GoodSend ==
    ASSUME NEW g, NEW A, Good(g, A), NEW b \in SubBand
    PROVE  Good(Send(g, b), A)
<1> DEFINE r == [g.rest EXCEPT ![b] = Rest[b]]
           rested == [g EXCEPT !.rest = r]
           refused == [g EXCEPT !.aborted = @ + 1]
<1>1. g \in Gateways /\ g.aborted + 1 \in Nat /\ r \in [SubBand -> Nat]
  BY TimeAssumption DEF Good, Gateways
<1>2. Send(g, b) = IF g.rest[b] > 0 THEN refused ELSE PhySend(rested)
  BY <1>1 DEF Send, Gateways
<1>3. /\ rested \in Gateways /\ rested.events = g.events /\ rested.paths = g.paths
      /\ rested.outcome = g.outcome /\ rested.occupied = g.occupied
  <2> HIDE DEF r
  <2> QED
    BY <1>1 DEF Gateways
<1>4. /\ refused \in Gateways /\ refused.events = g.events /\ refused.paths = g.paths
      /\ refused.outcome = g.outcome /\ refused.occupied = g.occupied
  BY <1>1 DEF Gateways
<1> HIDE DEF rested, refused
<1>5. Good(rested, A) /\ Good(refused, A)
  BY <1>3, <1>4, GoodFields
<1> QED
  BY <1>2, <1>5, GoodPhySend

LEMMA GoodTxFinished ==
    ASSUME NEW g, NEW A, Good(g, A), NEW e \in g.events, e.what = TxFinishedCall
    PROVE  Good(TxFinished([g EXCEPT !.events = @ \ {e}]), A)
<1> DEFINE n == TxFinished([g EXCEPT !.events = @ \ {e}])
           q1 == g.events \ {e}
<1>1. g \in Gateways
  BY DEF Good
<1>2. /\ n \in Gateways /\ n.events = q1 /\ n.paths = g.paths
      /\ n.outcome = g.outcome /\ n.occupied = g.occupied
  BY <1>1 DEF TxFinished, Gateways, Queues
<1> HIDE DEF n
<1>3. \A h \in Frame : IsPending(q1, EndReceiveOf(h)) <=> IsPending(g.events, EndReceiveOf(h))
  BY PopPending, Calls DEF Good
<1>4. Locked(n) = Locked(g)
  BY <1>2 DEF Locked
<1>5. Unique(q1, Ends)
  BY FewerUnique DEF Good
<1> QED
  BY <1>2, <1>3, <1>4, <1>5 DEF Good, PathsMatchQueue, PathsDiffer, Untraced, TracedOnce,
                              Counted, n

LEMMA GoodElapsed ==
    ASSUME NEW g, NEW A, Good(g, A), ~SomeDue(g.events)
    PROVE  Good(Elapsed(g), A)
<1> DEFINE n == Elapsed(g)
<1>1. g \in Gateways /\ g.events \in SUBSET Entries(Call)
  BY DEF Good, Gateways, Queues
<1>2. /\ n \in Gateways /\ n.events = Elapse(g.events) /\ n.paths = g.paths
      /\ n.outcome = g.outcome /\ n.occupied = g.occupied
  BY <1>1, ElapsedFields
<1> HIDE DEF n
<1>3. \A h \in Frame : IsPending(n.events, EndReceiveOf(h))
                            <=> IsPending(g.events, EndReceiveOf(h))
  BY <1>1, <1>2, ElapsePending
<1>4. Locked(n) = Locked(g)
  BY <1>2 DEF Locked
<1>5. Unique(n.events, Ends)
  BY <1>1, <1>2, ElapseUnique DEF Good
<1> QED
  BY <1>2, <1>3, <1>4, <1>5 DEF Good, PathsMatchQueue, PathsDiffer, Untraced, TracedOnce,
                              Counted, n

------------------------------------------------------------------------------
(* The invariant *)

IInv == Good(gw, arrived) /\ arrived \subseteq Frame /\ orders \in 0 .. MaxOrders

LEMMA InitGood == Init => IInv
<1> SUFFICES ASSUME Init PROVE IInv
  OBVIOUS
<1> USE DEF Init
<1>1. gw \in Gateways
  <2>1. <<>> \in Seq(Traces)
    OBVIOUS
  <2> QED
    BY <2>1 DEF NewGateway, Gateways, Queues
<1>2. Locked(gw) = {} /\ \A v : ~IsPending(gw.events, v)
  BY DEF NewGateway, Locked, IsPending
<1>3. Cardinality(Locked(gw)) = 0
  BY <1>2, FS_EmptySet
<1>4. PathsMatchQueue(gw) /\ PathsDiffer(gw) /\ Unique(gw.events, Ends)
  BY <1>2 DEF PathsMatchQueue, PathsDiffer, Unique, NewGateway
<1>5. Untraced(gw, arrived) /\ TracedOnce(gw)
  BY <1>2 DEF Untraced, TracedOnce, NewGateway
<1>6. Counted(gw)
  BY <1>3 DEF Counted, NewGateway
<1> QED
  BY <1>1, <1>4, <1>5, <1>6, CountAssumption DEF Good, IInv

LEMMA StepGood == IInv /\ [Next]_vars => IInv'
<1> SUFFICES ASSUME IInv, [Next]_vars PROVE IInv'
  OBVIOUS
<1> USE DEF IInv
<1>1. ASSUME NEW f \in Frame, Arrive(f) PROVE IInv'
  <2> DEFINE c == IF Sending(gw) THEN gw.clashed \cup {f} ELSE gw.clashed
             marked == [gw EXCEPT !.clashed = c]
  <2>1. PICK d \in RxTimes, audible \in BOOLEAN : gw' = StartReceive(marked, f, d, audible)
    BY <1>1 DEF Arrive, Good, Gateways
  <2>2. Good(marked, arrived)
    <3>1. /\ marked \in Gateways /\ marked.events = gw.events /\ marked.paths = gw.paths
          /\ marked.outcome = gw.outcome /\ marked.occupied = gw.occupied
      BY DEF Good, Gateways
    <3> HIDE DEF marked
    <3> QED
      BY <3>1, GoodFields
  <2>3. f \in Frame \ arrived /\ d \in Nat
    BY <1>1, TimeAssumption DEF Arrive
  <2> HIDE DEF marked
  <2>4. Good(gw', arrived \cup {f})
    BY <2>1, <2>2, <2>3, GoodStartReceive
  <2> QED
    BY <1>1, <2>4 DEF Arrive
<1>2. ASSUME NEW b \in SubBand, Order(b) PROVE IInv'
  <2>1. Good(gw', arrived)
    BY <1>2, GoodSend DEF Order
  <2> QED
    BY <1>2, <2>1, CountAssumption DEF Order
<1>3. ASSUME RunEndReceive PROVE IInv'
  <2>1. Good(gw', arrived)
    BY <1>3, GoodEndReceive DEF RunEndReceive, Popped, Due
  <2> QED
    BY <1>3, <2>1 DEF RunEndReceive
<1>4. ASSUME RunTxFinished PROVE IInv'
  <2>1. Good(gw', arrived)
    BY <1>4, GoodTxFinished DEF RunTxFinished, Popped, Due
  <2> QED
    BY <1>4, <2>1 DEF RunTxFinished
<1>5. ASSUME Tick PROVE IInv'
  <2>1. Good(gw', arrived)
    BY <1>5, GoodElapsed DEF Tick
  <2> QED
    BY <1>5, <2>1 DEF Tick
<1>6. ASSUME UNCHANGED vars PROVE IInv'
  BY <1>6 DEF vars, Good, PathsMatchQueue, PathsDiffer, Locked, Untraced, TracedOnce, Counted
<1> QED
  BY <1>1, <1>2, <1>3, <1>4, <1>5, <1>6 DEF Next

LEMMA Invariant == Spec => []IInv
BY InitGood, StepGood, PTL DEF Spec

------------------------------------------------------------------------------
(* The theorems *)

\* Every field of the gateway keeps its type; the number of occupied paths,
\* which the code decrements without a check, never goes below zero.
THEOREM TypeCorrect == Spec => []TypeOK
<1>1. IInv => TypeOK
  BY DEF IInv, Good, TypeOK
<1> QED
  BY <1>1, Invariant, PTL

\* A reception path is locked on a frame as long as the end of its reception
\* is still to come, whatever interrupts it, and on no frame another path has.
THEOREM LocksMatch == Spec => []PathsAreLocked
<1>1. IInv => PathsAreLocked
  BY DEF IInv, Good, PathsAreLocked
<1> QED
  BY <1>1, Invariant, PTL

\* No frame is traced twice, however receptions, interruptions and their
\* events interleave.
THEOREM TracedAtMostOnce == Spec => []OneOutcome
<1>1. IInv => OneOutcome
  BY DEF IInv, Good, TracedOnce, OneOutcome
<1> QED
  BY <1>1, Invariant, PTL

------------------------------------------------------------------------------
(* Half duplex, for a gateway whose duty cycle separates its downlinks:    *)
(* with two sub-bands, two downlinks may overlap, and the end of the first *)
(* one lets the gateway listen during the second.                          *)

OneBand == /\ \A b, c \in SubBand : b = c
           /\ \A b \in SubBand : Rest[b] > TxTime

\* The end of a downlink comes before its sub-band may be used again.
EndsInTime(g) == \A e \in g.events, b \in SubBand : e.what = TxFinishedCall => e.left < g.rest[b]

Duplex(g, A) == /\ Unique(g.events, {TxFinishedCall})
                /\ Sending(g) => g.transmitting
                /\ g.transmitting => Locked(g) = {}
                /\ EndsInTime(g)
                /\ Locked(g) \cap g.clashed = {}
                /\ g.forwarded \cap g.clashed = {}
                /\ g.clashed \subseteq A
                /\ \A f \in g.forwarded : g.outcome[f] # <<>>

\* A frame that is being received has not been forwarded.
LEMMA LockedUnforwarded ==
    ASSUME NEW g, NEW A, Good(g, A), Duplex(g, A)
    PROVE  Locked(g) \cap g.forwarded = {}
<1>1. Locked(g) \subseteq Frame
  BY LockedFrames DEF Good
<1> QED
  BY <1>1 DEF Good, Duplex, PathsMatchQueue, Untraced

LEMMA DuplexTrace ==
    ASSUME NEW g, NEW A, Good(g, A), Duplex(g, A), NEW f \in Frame, NEW what \in Traces
    PROVE  Duplex(Trace(g, f, what), A)
<1> DEFINE n == Trace(g, f, what)
<1>1. g \in Gateways
  BY DEF Good
<1>2. /\ n.outcome = [g.outcome EXCEPT ![f] = Append(@, what)]
      /\ n.paths = g.paths /\ n.events = g.events
      /\ n.transmitting = g.transmitting /\ n.rest = g.rest
      /\ n.forwarded = g.forwarded /\ n.clashed = g.clashed
  BY <1>1, TraceFields
<1> HIDE DEF n
<1>3. Locked(n) = Locked(g) /\ (Sending(n) <=> Sending(g)) /\ (EndsInTime(n) <=> EndsInTime(g))
  BY <1>2 DEF Locked, Sending, EndsInTime
<1>4. \A h \in n.forwarded : n.outcome[h] # <<>>
  <2>1. g.forwarded \subseteq Frame /\ g.outcome[f] \in Seq(Traces)
    BY <1>1, FrameAssumption DEF Gateways
  <2>2. Append(g.outcome[f], what) # <<>>
    BY <2>1
  <2>3. \A h \in Frame : n.outcome[h] = IF h = f THEN Append(g.outcome[f], what)
                                       ELSE g.outcome[h]
    BY <1>1, <1>2 DEF Gateways
  <2> QED
    BY <1>2, <2>1, <2>2, <2>3 DEF Duplex
<1> QED
  BY <1>2, <1>3, <1>4 DEF Duplex, n

LEMMA DuplexStartReceive ==
    ASSUME NEW g, NEW A, Good(g, A), Duplex(g, A), NEW f \in Frame \ A, NEW d \in Nat,
           NEW audible \in BOOLEAN
    PROVE  LET marked == [g EXCEPT !.clashed = IF Sending(g) THEN @ \cup {f} ELSE @]
           IN  Duplex(StartReceive(marked, f, d, audible), A \cup {f})
<1> DEFINE c == IF Sending(g) THEN g.clashed \cup {f} ELSE g.clashed
           m == [g EXCEPT !.clashed = c]
           B == A \cup {f}
<1>1. g \in Gateways
  BY DEF Good
<1>2. /\ m \in Gateways /\ m.events = g.events /\ m.paths = g.paths /\ m.rest = g.rest
      /\ m.outcome = g.outcome /\ m.occupied = g.occupied /\ m.forwarded = g.forwarded
      /\ m.transmitting = g.transmitting /\ m.clashed = c
  BY <1>1 DEF Gateways
<1>3. f \notin Locked(g) /\ g.outcome[f] = <<>> /\ f \notin g.forwarded /\ f \notin g.clashed
  BY DEF Good, PathsMatchQueue, Untraced, Duplex
<1> HIDE DEF m
<1>4. Locked(m) = Locked(g) /\ (Sending(m) <=> Sending(g)) /\ (EndsInTime(m) <=> EndsInTime(g))
  BY <1>2 DEF Locked, Sending, EndsInTime
<1>5. Duplex(m, B)
  BY <1>2, <1>3, <1>4 DEF Duplex
<1>6. Good(m, A)
  BY <1>2, GoodFields
<1>7. Good(m, B)
  BY <1>6, <1>2 DEF Good, Untraced
<1>8. ASSUME NEW what \in Traces PROVE Duplex(Trace(m, f, what), B)
  BY <1>5, <1>7, DuplexTrace
<1>9. ASSUME ~m.transmitting, FreePaths(m) # {} PROVE Duplex(Lock(m, f, d), B)
  <2> DEFINE n == Lock(m, f, d)
  <2>1. PICK p \in FreePaths(m) :
            /\ n.paths = [m.paths EXCEPT ![p] = f]
            /\ n.events = Schedule(m.events, EndReceiveOf(f), d)
            /\ n.outcome = m.outcome
            /\ n.transmitting = m.transmitting /\ n.rest = m.rest
            /\ n.forwarded = m.forwarded /\ n.clashed = m.clashed
    BY <1>2, <1>9, LockFields
  <2> HIDE DEF n
  <2>2. Locked(n) \subseteq Locked(m) \cup {f}
    BY <1>2, <2>1 DEF Locked, FreePaths, Gateways
  <2>3. ~Sending(m) /\ m.clashed = g.clashed
    BY <1>2, <1>4, <1>5, <1>9 DEF Duplex
  <2>4. m.events \in SUBSET Entries(Call)
    BY <1>2 DEF Gateways, Queues
  <2>5. ~IsPending(n.events, TxFinishedCall)
    <3>1. \A v : IsPending(Schedule(m.events, EndReceiveOf(f), d), v)
                     <=> v = EndReceiveOf(f) \/ IsPending(m.events, v)
      BY <2>4, SchedulePending
    <3>2. TxFinishedCall # EndReceiveOf(f)
      BY Calls
    <3> QED
      BY <2>1, <2>3, <3>1, <3>2 DEF Sending
  <2>6. Unique(n.events, {TxFinishedCall}) /\ ~Sending(n) /\ EndsInTime(n)
    BY <2>5 DEF Unique, Sending, EndsInTime, IsPending
  <2> QED
    BY <1>2, <1>3, <1>4, <1>5, <1>9, <2>1, <2>2, <2>3, <2>6 DEF Duplex, n
<1>10. {"m_underSensitivity", "m_noMoreDemodulators", "m_noReceptionBecauseTransmitting"}
          \subseteq Traces
  BY DEF Traces
<1>11. Duplex(StartReceive(m, f, d, audible), B)
  BY <1>8, <1>9, <1>10 DEF StartReceive
<1> QED
  BY <1>1, <1>11 DEF m, Gateways

LEMMA DuplexEndReceive ==
    ASSUME NEW g, NEW A, Good(g, A), Duplex(g, A), NEW e \in g.events,
           e.what.kind = "EndReceive", NEW destroyed \in BOOLEAN
    PROVE  Duplex(EndReceive([g EXCEPT !.events = @ \ {e}], e.what.frame, destroyed), A)
<1> DEFINE f == e.what.frame
           q1 == g.events \ {e}
           popped == [g EXCEPT !.events = q1]
           told == IF destroyed THEN Trace(popped, f, "m_interferedPacket")
                   ELSE Receive(Trace(popped, f, "m_successfullyReceivedPacket"), f)
           n == Free(told, f)
<1>1. g \in Gateways /\ g.events \in SUBSET Entries(Call)
  BY DEF Good, Gateways, Queues
<1>2. e.what = EndReceiveOf(f) /\ f \in Frame
  BY <1>1, Calls DEF Entries
<1>3. f \in Locked(g) /\ f \notin g.clashed
  BY <1>2 DEF IsPending, Good, PathsMatchQueue, Duplex
<1>4. g.occupied > 0
  <2>1. Cardinality(Locked(g)) # 0
    BY <1>1, <1>3, LockedFrames, FS_EmptySet
  <2>2. Cardinality(Locked(g)) \in Nat /\ g.occupied \in Nat
    BY <1>1, LockedFrames DEF Gateways
  <2> QED
    BY <2>1, <2>2 DEF Good, Counted
<1>5. /\ popped \in Gateways /\ popped.events = q1 /\ popped.paths = g.paths
      /\ popped.outcome = g.outcome /\ popped.occupied = g.occupied /\ popped.rest = g.rest
      /\ popped.transmitting = g.transmitting /\ popped.forwarded = g.forwarded
      /\ popped.clashed = g.clashed
  BY <1>1 DEF Gateways, Queues
<1> HIDE DEF popped, f, q1
<1>6. "m_interferedPacket" \in Traces /\ "m_successfullyReceivedPacket" \in Traces
  BY DEF Traces
<1>7. \E what \in Traces :
          /\ told \in Gateways
          /\ told.outcome = [g.outcome EXCEPT ![f] = Append(@, what)]
          /\ told.events = q1 /\ told.paths = g.paths /\ told.occupied = g.occupied
          /\ told.rest = g.rest /\ told.transmitting = g.transmitting
          /\ told.clashed = g.clashed
          /\ told.forwarded \subseteq g.forwarded \cup {f}
  <2> DEFINE Like(t, what) == /\ t \in Gateways
                              /\ t.outcome = [g.outcome EXCEPT ![f] = Append(@, what)]
                              /\ t.events = q1 /\ t.paths = g.paths
                              /\ t.occupied = g.occupied
                              /\ t.rest = g.rest /\ t.transmitting = g.transmitting
                              /\ t.clashed = g.clashed
                              /\ t.forwarded \subseteq g.forwarded \cup {f}
  <2>1. \A what \in Traces : Like(Trace(popped, f, what), what)
    BY <1>2, <1>5, TraceFields
  <2>2. ASSUME NEW t, NEW what, Like(t, what) PROVE Like(Receive(t, f), what)
    <3>1. /\ Receive(t, f) \in Gateways
          /\ Receive(t, f).outcome = t.outcome
          /\ Receive(t, f).events = t.events /\ Receive(t, f).paths = t.paths
          /\ Receive(t, f).occupied = t.occupied /\ Receive(t, f).rest = t.rest
          /\ Receive(t, f).transmitting = t.transmitting
          /\ Receive(t, f).clashed = t.clashed
          /\ Receive(t, f).forwarded \subseteq t.forwarded \cup {f}
      BY <1>2, <2>2, ReceiveFields
    <3> QED
      BY <2>2, <3>1
  <2>3. \E what \in Traces : Like(told, what)
    <3> HIDE DEF Like
    <3> QED
      BY <1>6, <2>1, <2>2
  <2> QED
    BY <2>3
<1>8. PICK what \in Traces :
          /\ told \in Gateways
          /\ told.outcome = [g.outcome EXCEPT ![f] = Append(@, what)]
          /\ told.events = q1 /\ told.paths = g.paths /\ told.occupied = g.occupied
          /\ told.rest = g.rest /\ told.transmitting = g.transmitting
          /\ told.clashed = g.clashed
          /\ told.forwarded \subseteq g.forwarded \cup {f}
  BY <1>7
<1> HIDE DEF told
<1>9. /\ n.paths = [p \in Path |-> IF g.paths[p] = f THEN None ELSE g.paths[p]]
      /\ n.events = q1 /\ n.rest = g.rest /\ n.transmitting = g.transmitting
      /\ n.outcome = [g.outcome EXCEPT ![f] = Append(@, what)]
      /\ n.clashed = g.clashed /\ n.forwarded \subseteq g.forwarded \cup {f}
  BY <1>2, <1>4, <1>8, FreeFields
<1> HIDE DEF n
<1>10. Locked(n) \subseteq Locked(g)
  BY <1>9 DEF Locked
<1>11. /\ Unique(n.events, {TxFinishedCall}) /\ EndsInTime(n)
       /\ Sending(n) => Sending(g)
  BY <1>9 DEF Duplex, Unique, EndsInTime, Sending, IsPending, q1
<1>12. \A h \in n.forwarded : n.outcome[h] # <<>>
  <2>1. g.forwarded \subseteq Frame /\ g.outcome[f] \in Seq(Traces)
    BY <1>1, <1>2, FrameAssumption DEF Gateways
  <2>2. Append(g.outcome[f], what) # <<>>
    BY <2>1
  <2>3. \A h \in Frame : n.outcome[h] = IF h = f THEN Append(g.outcome[f], what)
                                       ELSE g.outcome[h]
    BY <1>1, <1>9 DEF Gateways
  <2> QED
    BY <1>2, <1>9, <2>1, <2>2, <2>3 DEF Duplex
<1>13. Duplex(n, A)
  BY <1>3, <1>9, <1>10, <1>11, <1>12 DEF Duplex
<1> QED
  BY <1>13 DEF n, told, f, q1, popped, EndReceive

LEMMA DuplexSend ==
    ASSUME OneBand, NEW g, NEW A, Good(g, A), Duplex(g, A), NEW b \in SubBand
    PROVE  Duplex(Send(g, b), A)
<1> DEFINE r == [g.rest EXCEPT ![b] = Rest[b]]
           rested == [g EXCEPT !.rest = r]
           refused == [g EXCEPT !.aborted = @ + 1]
           n == PhySend(rested)
           q1 == Cancel(g.events, { EndReceiveOf(f) : f \in Locked(g) })
<1>1. g \in Gateways /\ r \in [SubBand -> Nat] /\ g.events \in SUBSET Entries(Call)
  BY TimeAssumption DEF Good, Gateways, Queues
<1>2. Send(g, b) = IF g.rest[b] > 0 THEN refused ELSE n
  BY <1>1 DEF Send, Gateways
<1>3. Duplex(refused, A)
  <2>1. /\ refused.events = g.events /\ refused.paths = g.paths /\ refused.rest = g.rest
        /\ refused.outcome = g.outcome /\ refused.transmitting = g.transmitting
        /\ refused.forwarded = g.forwarded /\ refused.clashed = g.clashed
    BY <1>1 DEF Gateways
  <2> HIDE DEF refused
  <2> QED
    BY <2>1 DEF Duplex, Sending, Locked, EndsInTime
<1>4. ASSUME ~(g.rest[b] > 0) PROVE Duplex(n, A)
  <2>1. /\ rested \in Gateways /\ rested.events = g.events /\ rested.paths = g.paths
        /\ rested.outcome = g.outcome /\ rested.rest = r
        /\ rested.forwarded = g.forwarded /\ rested.clashed = g.clashed
    <3> HIDE DEF r
    <3> QED
      BY <1>1 DEF Gateways
  <2> HIDE DEF rested
  <2>2. Locked(rested) = Locked(g)
    BY <2>1 DEF Locked
  <2>3. /\ n.paths = [p \in Path |-> None]
        /\ n.events = Schedule(q1, TxFinishedCall, TxTime)
        /\ n.outcome = [f \in Frame |->
               IF f \in Locked(g)
               THEN Append(g.outcome[f], "m_noReceptionBecauseTransmitting")
               ELSE g.outcome[f]]
        /\ n.transmitting = TRUE /\ n.rest = r
        /\ n.forwarded = g.forwarded /\ n.clashed = g.clashed \cup Locked(g)
    <3> HIDE DEF q1, r
    <3>1. /\ n.paths = [p \in Path |-> None]
          /\ n.events = Schedule(Cancel(rested.events,
                                        { EndReceiveOf(f) : f \in Locked(rested) }),
                                 TxFinishedCall, TxTime)
          /\ n.outcome = [f \in Frame |->
                 IF f \in Locked(rested)
                 THEN Append(rested.outcome[f], "m_noReceptionBecauseTransmitting")
                 ELSE rested.outcome[f]]
          /\ n.transmitting = TRUE /\ n.rest = rested.rest
          /\ n.forwarded = rested.forwarded
          /\ n.clashed = rested.clashed \cup Locked(rested)
      BY <2>1, PhySendFields
    <3> HIDE DEF n
    <3> QED
      BY <2>1, <2>2, <3>1 DEF q1
  <2> HIDE DEF n
  <2>4. \A e \in g.events : e.what # TxFinishedCall
    BY <1>1, <1>4 DEF Duplex, EndsInTime, Gateways, Entries
  <2>5. q1 \in SUBSET Entries(Call) /\ \A e \in q1 : e.what # TxFinishedCall
    BY <1>1, <2>4 DEF Cancel
  <2>6. Unique(n.events, {TxFinishedCall})
    <3>1. Unique(q1, {TxFinishedCall}) /\ ~IsPending(q1, TxFinishedCall)
      BY <2>5 DEF Unique, IsPending
    <3> HIDE DEF q1
    <3>2. Unique(Schedule(q1, TxFinishedCall, TxTime), {TxFinishedCall})
      BY <2>5, <3>1, ScheduleUnique
    <3> QED
      BY <2>3, <3>2
  <2>7. EndsInTime(n)
    <3> HIDE DEF q1
    <3>1. \A e \in n.events : e.what = TxFinishedCall => e.left = TxTime
      <4> DEFINE Moved(x) == [x EXCEPT !.later = IF x.left = TxTime THEN @ + 1 ELSE @]
      <4>1. \A x \in q1 : Moved(x).what # TxFinishedCall
        BY <2>5 DEF Entries
      <4>2. n.events = { Moved(x) : x \in q1 }
                          \cup {[what |-> TxFinishedCall, left |-> TxTime, later |-> 0]}
        BY <2>3 DEF Schedule
      <4> HIDE DEF Moved
      <4> QED
        BY <4>1, <4>2
    <3>2. \A c \in SubBand : n.rest[c] = Rest[c]
      BY <1>1, <2>3 DEF OneBand, Gateways
    <3> QED
      BY <3>1, <3>2 DEF EndsInTime, OneBand
  <2>8. Locked(n) = {}
    BY <2>3 DEF Locked
  <2>9. Locked(g) \cap g.forwarded = {} /\ Locked(g) \subseteq A
    <3>1. Locked(g) \subseteq Frame
      BY <1>1, LockedFrames
    <3> QED
      BY <3>1, LockedUnforwarded DEF Good, PathsMatchQueue, Untraced
  <2>10. \A f \in n.forwarded : n.outcome[f] # <<>>
    <3>1. g.forwarded \subseteq Frame
      BY <1>1, FrameAssumption DEF Gateways
    <3> QED
      BY <2>3, <2>9, <3>1 DEF Duplex
  <2> QED
    BY <2>3, <2>6, <2>7, <2>8, <2>9, <2>10 DEF Duplex
<1> HIDE DEF n, refused
<1> QED
  BY <1>2, <1>3, <1>4

LEMMA DuplexTxFinished ==
    ASSUME NEW g, NEW A, Good(g, A), Duplex(g, A), NEW e \in g.events,
           e.what = TxFinishedCall
    PROVE  Duplex(TxFinished([g EXCEPT !.events = @ \ {e}]), A)
<1> DEFINE n == TxFinished([g EXCEPT !.events = @ \ {e}])
<1>1. g \in Gateways
  BY DEF Good
<1>2. /\ n.events = g.events \ {e} /\ n.paths = g.paths /\ n.rest = g.rest
      /\ n.outcome = g.outcome /\ n.transmitting = FALSE
      /\ n.forwarded = g.forwarded /\ n.clashed = g.clashed
  BY <1>1 DEF TxFinished, Gateways
<1> HIDE DEF n
<1>3. ~Sending(n)
  BY <1>2 DEF Duplex, Unique, Sending, IsPending
<1>4. Unique(n.events, {TxFinishedCall}) /\ EndsInTime(n) /\ Locked(n) = Locked(g)
  BY <1>2 DEF Duplex, Unique, EndsInTime, Locked
<1> QED
  BY <1>2, <1>3, <1>4 DEF Duplex, n

LEMMA DuplexElapsed ==
    ASSUME NEW g, NEW A, Good(g, A), Duplex(g, A), ~SomeDue(g.events)
    PROVE  Duplex(Elapsed(g), A)
<1> DEFINE n == Elapsed(g)
<1>1. g \in Gateways /\ g.events \in SUBSET Entries(Call)
  BY DEF Good, Gateways, Queues
<1>2. /\ n.rest = [b \in SubBand |-> IF g.rest[b] > 0 THEN g.rest[b] - 1 ELSE 0]
      /\ n.events = Elapse(g.events)
      /\ n.paths = g.paths /\ n.outcome = g.outcome /\ n.transmitting = g.transmitting
      /\ n.forwarded = g.forwarded /\ n.clashed = g.clashed
  BY <1>1, ElapsedFields
<1> HIDE DEF n
<1>3. Unique(n.events, {TxFinishedCall}) /\ (Sending(n) <=> Sending(g)) /\ Locked(n) = Locked(g)
  BY <1>1, <1>2, ElapseUnique, ElapsePending DEF Duplex, Sending, Locked
<1>4. EndsInTime(n)
  <2>1. SUFFICES ASSUME NEW x \in n.events, NEW b \in SubBand, x.what = TxFinishedCall
                 PROVE  x.left < n.rest[b]
    BY DEF EndsInTime
  <2>2. PICK e \in g.events : x = [e EXCEPT !.left = @ - 1]
    BY <1>2 DEF Elapse
  <2>3. e \in Entries(Call) /\ x.left = e.left - 1 /\ x.what = e.what
    BY <1>1, <2>2 DEF Entries
  <2>4. e.left \in Nat /\ e.left # 0 /\ e.left < g.rest[b] /\ g.rest[b] \in Nat
    BY <1>1, <2>1, <2>3 DEF Entries, SomeDue, Duplex, EndsInTime, Gateways
  <2>5. n.rest[b] = g.rest[b] - 1
    BY <1>2, <2>4
  <2> QED
    BY <2>3, <2>4, <2>5
<1> QED
  BY <1>2, <1>3, <1>4 DEF Duplex, n

DuplexInv == IInv /\ Duplex(gw, arrived)

\* A gateway with one sub-band, which rests longer than a downlink lasts,
\* never forwards a frame that was on the air while it transmitted itself.
THEOREM HalfDuplexOneBand == ASSUME OneBand PROVE Spec => []HalfDuplex
<1>1. Init => DuplexInv
  <2> SUFFICES ASSUME Init PROVE Duplex(gw, arrived)
    BY InitGood DEF DuplexInv
  <2> QED
    BY DEF Init, NewGateway, Duplex, Unique, Sending, IsPending, Locked, EndsInTime
<1>2. DuplexInv /\ [Next]_vars => DuplexInv'
  <2> SUFFICES ASSUME DuplexInv, [Next]_vars PROVE Duplex(gw', arrived')
    BY StepGood DEF DuplexInv
  <2> USE DEF DuplexInv, IInv
  <2>1. ASSUME NEW f \in Frame, Arrive(f) PROVE Duplex(gw', arrived')
    <3>1. RxTimes \subseteq Nat
      BY TimeAssumption
    <3> QED
      BY <2>1, <3>1, DuplexStartReceive DEF Arrive
  <2>2. ASSUME NEW b \in SubBand, Order(b) PROVE Duplex(gw', arrived')
    BY <2>2, DuplexSend DEF Order
  <2>3. ASSUME RunEndReceive PROVE Duplex(gw', arrived')
    BY <2>3, DuplexEndReceive DEF RunEndReceive, Popped, Due
  <2>4. ASSUME RunTxFinished PROVE Duplex(gw', arrived')
    BY <2>4, DuplexTxFinished DEF RunTxFinished, Popped, Due
  <2>5. ASSUME Tick PROVE Duplex(gw', arrived')
    BY <2>5, DuplexElapsed DEF Tick
  <2>6. ASSUME UNCHANGED vars PROVE Duplex(gw', arrived')
    BY <2>6 DEF vars
  <2> QED
    BY <2>1, <2>2, <2>3, <2>4, <2>5, <2>6 DEF Next
<1>3. DuplexInv => HalfDuplex
  BY DEF DuplexInv, Duplex, HalfDuplex
<1> QED
  BY <1>1, <1>2, <1>3, PTL DEF Spec
==============================================================================
