------------------------- MODULE NetworkServer_proofs -------------------------
(***************************************************************************)
(* Proofs about the network server, for any number of gateways, uplinks    *)
(* and powers and any timing that the assumptions of NetworkServer admit.  *)
(* Good is the inductive invariant. What the server knows of the last      *)
(* uplink depends on what is still to come: copies on their way have left  *)
(* before the first opportunity, and an opportunity is over before the     *)
(* next uplink.                                                            *)
(***************************************************************************)
EXTENDS NetworkServer, WellFoundedInduction, TLAPS

\* Copies come within CopySpread of the uplink, and the windows open as long
\* after it as the first of the copies.
OnTime(s, C, e) ==
    /\ \A c \in C : e + c.left <= CopySpread
    /\ s.window # 0 => e + s.left - s.window * WindowDelay \in 0 .. CopySpread

\* Counters never run ahead of the uplinks or go back, and uplinks that share one
\* keep the link check that an earlier one of them asks for.
Counted(u) ==
    \A i, j \in 1 .. Len(u) : i <= j =>
        /\ u[i].fCnt < i /\ u[i].fCnt <= u[j].fCnt
        /\ u[i].fCnt = u[j].fCnt =>
               ("linkCheckReq" \in u[i].requests => "linkCheckReq" \in u[j].requests)

\* Uplink n of u is filed under m, and g heard an uplink with its counter.
Filed(u, m, n) == /\ m \in 1 .. n /\ u[m].fCnt = u[n].fCnt /\ u[m].heard # <<>>
                  /\ \A k \in 1 .. m : k < m /\ u[k].fCnt = u[m].fCnt => u[k].heard = <<>>
HeardBy(u, g, m, n) == \E k \in 1 .. n : u[k].fCnt = u[m].fCnt /\ g \in DOMAIN u[k].heard

\* The list of packets: what is in it, that everything heard is in it once its
\* copies have come, and that what shares the counter of the last uplink, u as
\* the n-th, is at its end.
Entered(s, u, n) ==
    \A i \in DOMAIN s.received :
        LET m == s.received[i].packet
        IN  /\ m \in 1 .. n /\ Filed(u, m, m)
            /\ \A g \in DOMAIN s.received[i].gwList : HeardBy(u, g, m, n)
Entry(s, u, k) == \E i \in DOMAIN s.received : u[s.received[i].packet].fCnt = u[k].fCnt
Complete(s, C, u, n) ==
    \A k \in 1 .. n : u[k].heard # <<>> => (k = n /\ C # {}) \/ Entry(s, u, k)
AtEnd(s, u, n) ==
    \A i \in DOMAIN s.received :
        u[s.received[i].packet].fCnt = u[n].fCnt => i = Len(s.received)
Listed(s, C, u, n) ==
    /\ Entered(s, u, n) /\ Complete(s, C, u, n) /\ AtEnd(s, u, n)
    /\ s.window # 0 => /\ s.received # <<>>
                       /\ u[LastReceived(s).packet].fCnt = u[n].fCnt
    /\ \A c \in C : n >= 1 /\ c.gateway \in DOMAIN u[n].heard

\* What is prepared for the device is what its last uplink asked for.
ReplyTo(requests) == [needsReply |-> "confirmed" \in requests \/ "adrAckReq" \in requests,
                      ack |-> "confirmed" \in requests, linkCheckAns |-> FALSE]
Prepared(s, u, n) ==
    s.reply = IF s.window = 0 THEN NoReply ELSE ReplyTo(u[n].requests)

\* What has been decided of the last uplink was decided at an opportunity.
Sent(s) == { s.replies[i] : i \in DOMAIN s.replies }
Decided(s, n) == n \in s.abandoned \/ \E r \in Sent(s) : r.to = n
DecidedLate(s, n, e) ==
    /\ s.abandoned \subseteq 1 .. n
    /\ \A r \in Sent(s) : r.to \in 1 .. n
    /\ Decided(s, n) => s.window = 0 /\ e >= WindowDelay

\* The properties of NetworkServer, of any status.
FitsOne(r, u) ==
    /\ r.fCnt = u[r.to].fCnt
    /\ r.ack <=> "confirmed" \in u[r.to].requests
    /\ r.linkCheckAns => "linkCheckReq" \in u[r.to].requests
    /\ \E m \in 1 .. r.to : /\ Filed(u, m, r.to)
                            /\ r.linkCheckAns <=> "linkCheckReq" \in u[m].requests
    /\ HeardBy(u, r.gateway, r.to, r.to)
Fits(s, u) == \A r \in Sent(s) : FitsOne(r, u)
OneReply(s, u) ==
    /\ \A i, j \in DOMAIN s.replies : s.replies[i].to = s.replies[j].to => i = j
    /\ \A r \in Sent(s) : u[r.to].requests # {} /\ r.to \notin s.abandoned
InTime(s) == \A r \in Sent(s) : r.at - r.window * WindowDelay \in 0 .. CopySpread

Good(s, C, u, e) ==
    LET n == Len(u)
    IN  /\ OnTime(s, C, e) /\ Counted(u) /\ Listed(s, C, u, n) /\ Prepared(s, u, n)
        /\ DecidedLate(s, n, e) /\ Fits(s, u) /\ OneReply(s, u) /\ InTime(s)
IInv == TypeOK /\ Good(status, copies, uplinks, Elapsed)

------------------------------------------------------------------------------
(* The choice of a gateway *)

LEMMA LeastNatural ==
    ASSUME NEW S \in SUBSET Nat, S # {}
    PROVE  \E m \in S : \A k \in S : m <= k
<1> DEFINE Less == { p \in Nat \X Nat : p[1] < p[2] }
<1>1. IsWellFoundedOn(Less, Nat)
  BY NatLessThanWellFounded DEF OpToRel
<1> HIDE DEF Less
<1>2. PICK m \in S : \A k \in S : <<k, m>> \notin Less
  BY <1>1, WFMin
<1>3. \A k \in S : ~(k < m)
  BY <1>2 DEF Less
<1> QED
  BY <1>2, <1>3

\* Of some of the gateways one has heard the device best.
LEMMA BestOfGateways ==
    ASSUME NEW f, NEW T \in SUBSET Gateway, T # {}, \A g \in T : f[g] \in Nat
    PROVE  \E m \in T : \A h \in T : f[h] <= f[m]
<1> DEFINE Best(U, m) == m \in U /\ \A h \in U : f[h] <= f[m]
           Bad == { k \in Nat : \E U \in SUBSET T : /\ U # {} /\ U \subseteq 1 .. k
                                                  /\ \A m \in U : ~Best(U, m) }
<1>1. SUFFICES Bad = {}
  <2>1. T \in SUBSET T /\ T \subseteq 1 .. NumGateways /\ NumGateways \in Nat
    BY CountAssumption DEF Gateway
  <2>2. \E m \in T : Best(T, m)
    BY <1>1, <2>1
  <2> QED
    BY <2>2
<1>2. SUFFICES ASSUME Bad # {}  PROVE FALSE
  OBVIOUS
<1>3. PICK k \in Bad : \A j \in Bad : k <= j
  BY <1>2, LeastNatural
<1>4. PICK U \in SUBSET T : U # {} /\ U \subseteq 1 .. k /\ \A m \in U : ~Best(U, m)
  BY <1>3
<1>5. k \in Nat /\ k > 0
  <2>1. k \in Nat
    BY <1>3
  <2>2. PICK u \in U : u \in 1 .. k
    BY <1>4
  <2> QED
    BY <2>1, <2>2
<1> DEFINE V == U \ {k}
<1>6. V # {}
  <2>1. SUFFICES ASSUME V = {}  PROVE FALSE
    OBVIOUS
  <2>2. U = {k}
    BY <1>4, <2>1
  <2>3. f[k] <= f[k]
    BY <1>4, <2>2
  <2> QED
    BY <1>4, <2>2, <2>3
<1>7. V \in SUBSET T /\ V \subseteq 1 .. k - 1
  BY <1>4, <1>5
<1>8. PICK m \in V : Best(V, m)
  <2>1. k - 1 \in Nat /\ k - 1 \notin Bad
    BY <1>3, <1>5
  <2> QED
    BY <1>6, <1>7, <2>1
<1>9. CASE k \in U /\ f[m] < f[k]
  BY <1>4, <1>8, <1>9
<1>10. CASE ~(k \in U /\ f[m] < f[k])
  <2>1. Best(U, m)
    BY <1>4, <1>8, <1>10
  <2> QED
    BY <1>4, <1>8, <2>1
<1> QED
  BY <1>9, <1>10

------------------------------------------------------------------------------
(* A copy arrives *)

LEMMA ScheduleFacts ==
    ASSUME NEW s \in Statuses
    PROVE  LET t == ScheduleOpportunity(s)
           IN  /\ t \in Statuses
               /\ t.window = IF s.window = 0 THEN 1 ELSE s.window
               /\ t.left = IF s.window = 0 THEN WindowDelay ELSE s.left
               /\ t.received = s.received /\ t.reply = s.reply
               /\ t.replies = s.replies /\ t.abandoned = s.abandoned
<1>1. WindowDelay \in 0 .. 2 * WindowDelay /\ 1 \in 0 .. 2
  BY TimeAssumption
<1>2. CASE s.window = 0
  <2>1. ScheduleOpportunity(s) = [s EXCEPT !.window = 1, !.left = WindowDelay]
    BY <1>2 DEF ScheduleOpportunity
  <2> QED
    BY <1>1, <1>2, <2>1 DEF Statuses
<1>3. CASE s.window # 0
  BY <1>3 DEF ScheduleOpportunity
<1> QED
  BY <1>2, <1>3

\* A copy that arrives gets an entry of its own at the end of the list, or its
\* gateway comes to the entry that is there already.
LEMMA InsertFacts ==
    ASSUME NEW s \in Statuses, NEW n \in 1 .. MaxUplinks, NEW g \in Gateway, NEW p \in Power,
           AtEnd(s, uplinks, n)
    PROVE  LET t == InsertReceivedPacket(s, n, g, p)
           IN  /\ t \in Statuses
               /\ t.window = s.window /\ t.left = s.left /\ t.reply = s.reply
               /\ t.replies = s.replies /\ t.abandoned = s.abandoned
               /\ \/ /\ SameCounter(s, n) = {}
                     /\ DOMAIN t.received = 1 .. Len(s.received) + 1
                     /\ \A i \in 1 .. Len(s.received) : t.received[i] = s.received[i]
                     /\ t.received[Len(s.received) + 1].packet = n
                     /\ DOMAIN t.received[Len(s.received) + 1].gwList = {g}
                  \/ /\ SameCounter(s, n) # {} /\ DOMAIN t.received = DOMAIN s.received
                     /\ \A i \in DOMAIN s.received :
                           /\ t.received[i].packet = s.received[i].packet
                           /\ DOMAIN t.received[i].gwList \subseteq
                                  DOMAIN s.received[i].gwList
                                      \cup (IF i = Len(s.received) THEN {g} ELSE {})
<1> DEFINE t == InsertReceivedPacket(s, n, g, p)
<1>1. s.received \in Seq(ReceivedPackets)
  BY DEF Statuses
<1>2. CASE SameCounter(s, n) = {}
  <2> DEFINE e == [packet |-> n, gwList |-> [h \in {g} |-> p]]
             q == Append(s.received, e)
  <2>1. t = [s EXCEPT !.received = q]
    BY <1>2 DEF InsertReceivedPacket
  <2>2. e \in ReceivedPackets /\ e.packet = n /\ DOMAIN e.gwList = {g}
    <3>1. [h \in {g} |-> p] \in [{g} -> Power] /\ {g} \in SUBSET Gateway
      OBVIOUS
    <3> QED
      BY <3>1 DEF ReceivedPackets, Heards
  <2> HIDE DEF e
  <2>3. /\ q \in Seq(ReceivedPackets) /\ DOMAIN q = 1 .. Len(s.received) + 1
        /\ \A i \in 1 .. Len(s.received) : q[i] = s.received[i]
        /\ q[Len(s.received) + 1] = e
    BY <1>1, <2>2
  <2> HIDE DEF q, t
  <2>4. /\ t \in Statuses /\ t.received = q
        /\ t.window = s.window /\ t.left = s.left /\ t.reply = s.reply
        /\ t.replies = s.replies /\ t.abandoned = s.abandoned
    BY <2>1, <2>3 DEF Statuses
  <2> QED
    BY <1>2, <2>2, <2>3, <2>4 DEF t
<1>3. CASE SameCounter(s, n) # {}
  <2> DEFINE k == Len(s.received)
             l == s.received[k]
             w == [h \in DOMAIN l.gwList \cup {g} |-> IF h = g THEN p ELSE l.gwList[h]]
  <2>1. /\ DOMAIN s.received = 1 .. k /\ k \in Nat
        /\ SameCounter(s, n) = {k} /\ k \in DOMAIN s.received
    <3>1. DOMAIN s.received = 1 .. k /\ k \in Nat
      BY <1>1
    <3>2. SameCounter(s, n) \subseteq {k} /\ SameCounter(s, n) \subseteq DOMAIN s.received
      BY DEF AtEnd, SameCounter, FCnt
    <3> QED
      BY <1>3, <3>1, <3>2
  <2>2. t = AddGateway(s, k, g, p)
    <3>1. (CHOOSE i \in SameCounter(s, n) : \A j \in SameCounter(s, n) : j <= i) = k
      BY <2>1
    <3> QED
      BY <1>3, <3>1 DEF InsertReceivedPacket
  <2>3. l \in ReceivedPackets
    BY <1>1, <2>1
  <2>4. CASE g \in DOMAIN l.gwList
    <3>1. t = s
      BY <2>2, <2>4 DEF AddGateway
    <3> HIDE DEF t, l, k
    <3> QED
      BY <1>3, <3>1 DEF t
  <2>5. CASE g \notin DOMAIN l.gwList
    <3> DEFINE q == [s.received EXCEPT ![k] = [@ EXCEPT !.gwList = w]]
    <3>1. t = [s EXCEPT !.received = q]
      BY <2>2, <2>5 DEF AddGateway
    <3>2. w \in Heards /\ DOMAIN w = DOMAIN l.gwList \cup {g}
      <4>1. PICK S \in SUBSET Gateway : l.gwList \in [S -> Power]
        BY <2>3 DEF ReceivedPackets, Heards
      <4>2. w \in [S \cup {g} -> Power] /\ S \cup {g} \in SUBSET Gateway
        BY <4>1
      <4> QED
        BY <4>2 DEF Heards
    <3> HIDE DEF w
    <3> DEFINE e == [l EXCEPT !.gwList = w]
    <3>3. e \in ReceivedPackets /\ e.packet = l.packet /\ e.gwList = w
      BY <2>3, <3>2 DEF ReceivedPackets
    <3>4. q = [s.received EXCEPT ![k] = e]
      BY <2>1
    <3> HIDE DEF e, q
    <3>5. /\ q \in Seq(ReceivedPackets) /\ DOMAIN q = 1 .. k /\ q[k] = e
          /\ \A i \in 1 .. k : i # k => q[i] = s.received[i]
      BY <1>1, <2>1, <3>3, <3>4
    <3>6. /\ t \in Statuses /\ t.received = q
          /\ t.window = s.window /\ t.left = s.left /\ t.reply = s.reply
          /\ t.replies = s.replies /\ t.abandoned = s.abandoned
      BY <3>1, <3>5 DEF Statuses
    <3> HIDE DEF t
    <3>7. ASSUME NEW i \in DOMAIN s.received
          PROVE  /\ t.received[i].packet = s.received[i].packet
                 /\ DOMAIN t.received[i].gwList \subseteq
                        DOMAIN s.received[i].gwList
                            \cup (IF i = Len(s.received) THEN {g} ELSE {})
      <4>1. CASE i = k
        BY <3>2, <3>3, <3>5, <3>6, <2>1, <4>1
      <4>2. CASE i # k
        BY <2>1, <3>5, <3>6, <4>2
      <4> QED
        BY <4>1, <4>2
    <3> QED
      BY <1>3, <2>1, <3>5, <3>6, <3>7 DEF t
  <2> QED
    BY <2>4, <2>5
<1> QED
  BY <1>2, <1>3

\* After that the list has an entry of the last uplink's counter, at its end.
LEMMA InsertListed ==
    ASSUME NEW s \in Statuses, NEW C, NEW n \in 1 .. MaxUplinks, NEW g \in Gateway,
           NEW p \in Power, Entered(s, uplinks, n), Complete(s, C, uplinks, n),
           AtEnd(s, uplinks, n), g \in DOMAIN uplinks[n].heard
    PROVE  LET t == InsertReceivedPacket(s, n, g, p)
           IN  /\ Entered(t, uplinks, n) /\ Complete(t, {}, uplinks, n) /\ AtEnd(t, uplinks, n)
               /\ t.received # <<>> /\ uplinks[LastReceived(t).packet].fCnt = uplinks[n].fCnt
<1> DEFINE t == InsertReceivedPacket(s, n, g, p)
           u == uplinks
           k == Len(s.received)
<1>1. s.received \in Seq(ReceivedPackets) /\ t.received \in Seq(ReceivedPackets)
  BY InsertFacts DEF Statuses
<1>2. DOMAIN s.received = 1 .. k /\ k \in Nat /\ n \in Nat
  BY <1>1, CountAssumption
<1>3. HeardBy(u, g, n, n)
  BY DEF HeardBy
<1>4. CASE SameCounter(s, n) = {}
  <2>1. /\ DOMAIN t.received = 1 .. k + 1
        /\ \A i \in 1 .. k : t.received[i] = s.received[i]
        /\ t.received[k + 1].packet = n
        /\ DOMAIN t.received[k + 1].gwList = {g}
    BY <1>4, InsertFacts
  <2> HIDE DEF t, u, k
  <2>3. Len(t.received) = k + 1
    BY <1>1, <1>2, <2>1
  <2>4. \A i \in 1 .. k : u[s.received[i].packet].fCnt # u[n].fCnt
    BY <1>2, <1>4 DEF SameCounter, FCnt, u
  <2>5. Filed(u, n, n)
    <3>1. u[n].heard # <<>>
      BY DEF u
    <3>2. ASSUME NEW m \in 1 .. n, m < n, u[m].fCnt = u[n].fCnt, u[m].heard # <<>>  PROVE FALSE
      <4>1. PICK i \in DOMAIN s.received : u[s.received[i].packet].fCnt = u[m].fCnt
        BY <1>2, <3>2 DEF Complete, Entry, u
      <4> QED
        BY <1>2, <2>4, <3>2, <4>1
    <3> QED
      BY <1>2, <3>1, <3>2 DEF Filed
  <2>6. Entered(t, u, n)
    <3> SUFFICES ASSUME NEW i \in DOMAIN t.received
                 PROVE  LET m == t.received[i].packet
                        IN  /\ m \in 1 .. n /\ Filed(u, m, m)
                            /\ \A h \in DOMAIN t.received[i].gwList : HeardBy(u, h, m, n)
      BY DEF Entered
    <3>1. CASE i \in 1 .. k
      <4>1. t.received[i] = s.received[i] /\ i \in DOMAIN s.received
        BY <1>2, <2>1, <3>1
      <4> QED
        BY <4>1 DEF Entered, u
    <3>2. CASE i = k + 1
      BY <1>2, <1>3, <2>1, <2>5, <3>2 DEF u
    <3> QED
      BY <1>2, <2>1, <3>1, <3>2
  <2>7. Complete(t, {}, u, n)
    <3> SUFFICES ASSUME NEW m \in 1 .. n, u[m].heard # <<>>  PROVE Entry(t, u, m)
      BY DEF Complete
    <3>1. CASE m = n
      BY <1>2, <2>1, <3>1 DEF Entry
    <3>2. CASE m # n
      <4>1. PICK i \in DOMAIN s.received : u[s.received[i].packet].fCnt = u[m].fCnt
        BY <3>2 DEF Complete, Entry, u
      <4> QED
        BY <1>2, <2>1, <4>1 DEF Entry
    <3> QED
      BY <3>1, <3>2
  <2>8. AtEnd(t, u, n)
    BY <1>2, <2>1, <2>3, <2>4 DEF AtEnd
  <2>9. t.received # <<>> /\ u[LastReceived(t).packet].fCnt = u[n].fCnt
    BY <1>2, <2>1, <2>3 DEF LastReceived
  <2> QED
    BY <2>6, <2>7, <2>8, <2>9 DEF t, u
<1>5. CASE SameCounter(s, n) # {}
  <2>1. /\ DOMAIN t.received = DOMAIN s.received
        /\ \A i \in DOMAIN s.received :
              /\ t.received[i].packet = s.received[i].packet
              /\ DOMAIN t.received[i].gwList \subseteq
                     DOMAIN s.received[i].gwList \cup (IF i = k THEN {g} ELSE {})
    BY <1>5, InsertFacts
  <2> HIDE DEF t, u, k
  <2>2. Len(t.received) = k
    BY <1>1, <1>2, <2>1
  <2>3. PICK j \in DOMAIN s.received : u[s.received[j].packet].fCnt = u[n].fCnt
    BY <1>5 DEF SameCounter, FCnt, u
  <2>4. j = k /\ k \in DOMAIN s.received
    BY <2>3 DEF AtEnd, k, u
  <2>5. Entered(t, u, n)
    <3> SUFFICES ASSUME NEW i \in DOMAIN t.received
                 PROVE  LET m == t.received[i].packet
                        IN  /\ m \in 1 .. n /\ Filed(u, m, m)
                            /\ \A h \in DOMAIN t.received[i].gwList : HeardBy(u, h, m, n)
      BY DEF Entered
    <3>1. /\ i \in DOMAIN s.received /\ t.received[i].packet = s.received[i].packet
          /\ s.received[i].packet \in 1 .. n /\ Filed(u, s.received[i].packet, s.received[i].packet)
          /\ \A h \in DOMAIN s.received[i].gwList : HeardBy(u, h, s.received[i].packet, n)
      BY <2>1 DEF Entered, u
    <3>2. i = k => HeardBy(u, g, s.received[i].packet, n)
      BY <1>3, <2>3, <2>4 DEF HeardBy
    <3> QED
      BY <2>1, <3>1, <3>2
  <2>6. Complete(t, {}, u, n)
    <3> SUFFICES ASSUME NEW m \in 1 .. n, u[m].heard # <<>>  PROVE Entry(t, u, m)
      BY DEF Complete
    <3>1. PICK i \in DOMAIN s.received : u[s.received[i].packet].fCnt = u[m].fCnt
      <4>1. CASE m = n
        BY <2>3, <4>1
      <4>2. CASE m # n
        BY <4>2 DEF Complete, Entry, u
      <4> QED
        BY <4>1, <4>2
    <3> QED
      BY <2>1, <3>1 DEF Entry
  <2>7. AtEnd(t, u, n)
    BY <2>1, <2>2 DEF AtEnd, k, u
  <2>8. t.received # <<>> /\ u[LastReceived(t).packet].fCnt = u[n].fCnt
    BY <1>2, <2>1, <2>2, <2>3, <2>4 DEF LastReceived
  <2> QED
    BY <2>5, <2>6, <2>7, <2>8 DEF t, u
<1> QED
  BY <1>4, <1>5

LEMMA ReplyToFacts ==
    ASSUME NEW requests
    PROVE  /\ "confirmed" \in requests =>
                ReplyTo(requests) = [needsReply |-> TRUE, ack |-> TRUE, linkCheckAns |-> FALSE]
           /\ "confirmed" \notin requests /\ "adrAckReq" \in requests =>
                ReplyTo(requests) = [needsReply |-> TRUE, ack |-> FALSE, linkCheckAns |-> FALSE]
           /\ "confirmed" \notin requests /\ "adrAckReq" \notin requests =>
                ReplyTo(requests) = NoReply
           /\ ReplyTo(requests) \in PendingReplies
           /\ ReplyTo(requests).needsReply <=> "confirmed" \in requests \/ "adrAckReq" \in requests
           /\ ReplyTo(requests).ack <=> "confirmed" \in requests
           /\ ~ReplyTo(requests).linkCheckAns
<1> DEFINE C == "confirmed" \in requests
           A == "adrAckReq" \in requests
<1>1. ReplyTo(requests) = [needsReply |-> C \/ A, ack |-> C, linkCheckAns |-> FALSE]
  BY Zenon DEF ReplyTo
<1>2. C \in BOOLEAN /\ A \in BOOLEAN
  OBVIOUS
<1> HIDE DEF C, A
<1>3. C => C = TRUE /\ (C \/ A) = TRUE
  BY <1>2, Zenon
<1>4. ~C /\ A => C = FALSE /\ (C \/ A) = TRUE
  BY <1>2, Zenon
<1>5. ~C /\ ~A => C = FALSE /\ (C \/ A) = FALSE
  BY <1>2, Zenon
<1>6. (C \/ A) \in BOOLEAN
  BY <1>2, Zenon
<1>7. ReplyTo(requests) \in PendingReplies
  BY <1>1, <1>2, <1>6 DEF PendingReplies
<1> DEFINE r == ReplyTo(requests)
<1>8. r.needsReply = (C \/ A) /\ r.ack = C /\ r.linkCheckAns = FALSE
  BY <1>1
<1> HIDE DEF r
<1>9. (r.needsReply <=> C \/ A) /\ (r.ack <=> C) /\ ~r.linkCheckAns
  BY <1>8
<1> QED
  BY <1>1, <1>3, <1>4, <1>5, <1>7, <1>9, Zenon DEF C, A, NoReply, r

LEMMA ReplyAsked ==
    ASSUME NEW r \in PendingReplies, r.linkCheckAns = FALSE, NEW ack \in BOOLEAN
    PROVE  [r EXCEPT !.needsReply = TRUE, !.ack = ack]
               = [needsReply |-> TRUE, ack |-> ack, linkCheckAns |-> FALSE]
<1> DEFINE t == [r EXCEPT !.needsReply = TRUE, !.ack = ack]
<1>1. t \in PendingReplies
  BY DEF PendingReplies
<1>2. t.needsReply = TRUE /\ t.ack = ack /\ t.linkCheckAns = FALSE
  BY DEF PendingReplies
<1> HIDE DEF t
<1>3. t = [needsReply |-> t.needsReply, ack |-> t.ack, linkCheckAns |-> t.linkCheckAns]
  BY <1>1 DEF PendingReplies
<1>4. t = [needsReply |-> TRUE, ack |-> ack, linkCheckAns |-> FALSE]
  BY <1>2, <1>3, Zenon
<1> QED
  BY <1>4 DEF t

LEMMA OnNewFacts ==
    ASSUME NEW s \in Statuses, NEW requests \in SUBSET Request,
           s.reply = NoReply \/ s.reply = ReplyTo(requests)
    PROVE  LET t == OnNewPacket(s, requests)
           IN  /\ t \in Statuses /\ t.reply = ReplyTo(requests)
               /\ t.window = s.window /\ t.left = s.left /\ t.received = s.received
               /\ t.replies = s.replies /\ t.abandoned = s.abandoned
<1> DEFINE t == OnNewPacket(s, requests)
<1>1. s.reply \in PendingReplies /\ s.reply.linkCheckAns = FALSE
  BY DEF NoReply, ReplyTo, PendingReplies, Statuses
<1>2. ASSUME NEW q, q = ReplyTo(requests), t = [s EXCEPT !.reply = q]
      PROVE  /\ t \in Statuses /\ t.reply = ReplyTo(requests)
             /\ t.window = s.window /\ t.left = s.left /\ t.received = s.received
             /\ t.replies = s.replies /\ t.abandoned = s.abandoned
  <2>1. q \in PendingReplies
    BY <1>2, ReplyToFacts
  <2> HIDE DEF t
  <2> QED
    BY <1>2, <2>1 DEF Statuses
<1>3. CASE "confirmed" \in requests
  <2> DEFINE q == [s.reply EXCEPT !.needsReply = TRUE, !.ack = TRUE]
  <2>1. t = [s EXCEPT !.reply = q]
    BY <1>1, <1>3 DEF OnNewPacket, Statuses
  <2>2. q = [needsReply |-> TRUE, ack |-> TRUE, linkCheckAns |-> FALSE]
    BY <1>1, ReplyAsked
  <2>3. q = ReplyTo(requests)
    BY <1>3, <2>2, ReplyToFacts
  <2> HIDE DEF q
  <2> QED
    BY <1>2, <2>1, <2>3
<1>4. CASE "confirmed" \notin requests /\ "adrAckReq" \in requests
  <2> DEFINE q == [s.reply EXCEPT !.needsReply = TRUE, !.ack = FALSE]
  <2>1. t = [s EXCEPT !.reply = q]
    BY <1>1, <1>4 DEF OnNewPacket, Statuses
  <2>2. q = [needsReply |-> TRUE, ack |-> FALSE, linkCheckAns |-> FALSE]
    BY <1>1, ReplyAsked
  <2>3. q = ReplyTo(requests)
    BY <1>4, <2>2, ReplyToFacts
  <2> HIDE DEF q
  <2> QED
    BY <1>2, <2>1, <2>3
<1>5. CASE "confirmed" \notin requests /\ "adrAckReq" \notin requests
  <2>1. t = s
    BY <1>5 DEF OnNewPacket
  <2>2. ReplyTo(requests) = NoReply
    BY <1>5, ReplyToFacts
  <2> QED
    BY <2>1, <2>2
<1> QED
  BY <1>3, <1>4, <1>5

\* What the types say of the variables, as the steps use it.
LEMMA TypeFacts ==
    ASSUME TypeOK
    PROVE  /\ status \in Statuses /\ status.left \in Nat /\ status.window \in 0 .. 2
           /\ LastUplink \in 0 .. MaxUplinks
           /\ \A n \in 1 .. LastUplink : /\ uplinks[n].requests \in SUBSET Request
                                        /\ uplinks[n].heard \in Heards
                                        /\ uplinks[n].fCnt \in 0 .. CounterValues - 1
           /\ \A c \in copies : c.gateway \in Gateway /\ c.left \in 0 .. CopySpread
           /\ Elapsed \in 0 .. UplinkGap /\ gap \in 0 .. UplinkGap
           /\ WindowDelay \in Nat \ {0} /\ CopySpread \in Nat /\ CopySpread < WindowDelay
           /\ UplinkGap \in Nat /\ 2 * WindowDelay + CopySpread < UplinkGap
<1>1. WindowDelay \in Nat /\ CopySpread \in 0 .. WindowDelay - 1 /\ UplinkGap \in Nat
  BY TimeAssumption
<1>2. status \in Statuses /\ status.left \in Nat /\ status.window \in 0 .. 2
  BY <1>1 DEF TypeOK, Statuses
<1>3. LastUplink \in 0 .. MaxUplinks
  BY CountAssumption DEF TypeOK, LastUplink
<1>4. \A n \in 1 .. LastUplink : uplinks[n] \in Uplinks
  BY DEF TypeOK, LastUplink
<1>5. \A n \in 1 .. LastUplink : /\ uplinks[n].requests \in SUBSET Request
                               /\ uplinks[n].heard \in Heards
                               /\ uplinks[n].fCnt \in 0 .. CounterValues - 1
  BY <1>4 DEF Uplinks
<1>6. \A c \in copies : c.gateway \in Gateway /\ c.left \in 0 .. CopySpread
  BY DEF TypeOK, Copies
<1>7. Elapsed \in 0 .. UplinkGap /\ gap \in 0 .. UplinkGap
  BY <1>1 DEF TypeOK, Elapsed
<1> QED
  BY <1>1, <1>2, <1>3, <1>5, <1>6, <1>7, TimeAssumption

LEMMA CopyStep ==
    ASSUME IInv, NEW c \in copies, CopyArrives(c)
    PROVE  IInv'
<1> DEFINE n == LastUplink
           u == uplinks
           e == Elapsed
           a == ScheduleOpportunity(status)
           b == InsertReceivedPacket(a, n, c.gateway, u[n].heard[c.gateway])
           t == OnNewPacket(b, u[n].requests)
<1>1. /\ TypeOK /\ OnTime(status, copies, e) /\ Counted(u) /\ Listed(status, copies, u, n)
      /\ Prepared(status, u, n) /\ DecidedLate(status, n, e)
      /\ Fits(status, u) /\ OneReply(status, u) /\ InTime(status)
  BY DEF IInv, Good, LastUplink
<1>2. /\ status' = t /\ copies' = copies \ {c} /\ UNCHANGED <<uplinks, gap>>
      /\ c.left = 0
  BY DEF CopyArrives, Receive
<1>3. Elapsed' = e /\ LastUplink' = n
  BY <1>2 DEF Elapsed, LastUplink
<1>4. /\ n \in 1 .. MaxUplinks /\ c.gateway \in Gateway /\ c.gateway \in DOMAIN u[n].heard
      /\ u[n].heard[c.gateway] \in Power /\ u[n].requests \in SUBSET Request
      /\ e \in 0 .. CopySpread /\ e < WindowDelay
  <2>1. n >= 1 /\ c.gateway \in DOMAIN u[n].heard
    BY <1>1 DEF Listed
  <2>2. n \in 1 .. MaxUplinks /\ u[n].heard \in Heards /\ u[n].requests \in SUBSET Request
    BY <1>1, <2>1, TypeFacts
  <2>3. u[n].heard[c.gateway] \in Power
    BY <2>1, <2>2 DEF Heards
  <2>4. e + c.left <= CopySpread
    BY <1>1 DEF OnTime
  <2>5. e \in 0 .. UplinkGap /\ CopySpread < WindowDelay /\ c.gateway \in Gateway
        /\ CopySpread \in Nat /\ WindowDelay \in Nat
    BY <1>1, TypeFacts
  <2> QED
    BY <1>2, <2>1, <2>2, <2>3, <2>4, <2>5
<1>5. status \in Statuses /\ CopySpread \in Nat /\ WindowDelay \in Nat \ {0}
  BY <1>1, TypeFacts
<1> HIDE DEF n, u, e, a, b, t
<1>6. /\ a \in Statuses
      /\ a.window = IF status.window = 0 THEN 1 ELSE status.window
      /\ a.left = IF status.window = 0 THEN WindowDelay ELSE status.left
      /\ a.received = status.received /\ a.reply = status.reply
      /\ a.replies = status.replies /\ a.abandoned = status.abandoned
  BY <1>5, ScheduleFacts DEF a
<1>7. Entered(a, u, n) /\ Complete(a, copies, u, n) /\ AtEnd(a, u, n)
  BY <1>1, <1>6 DEF Listed, Entered, Complete, Entry, AtEnd
<1>8. /\ b \in Statuses
      /\ b.window = a.window /\ b.left = a.left /\ b.reply = a.reply
      /\ b.replies = a.replies /\ b.abandoned = a.abandoned
      /\ Entered(b, u, n) /\ Complete(b, {}, u, n) /\ AtEnd(b, u, n)
      /\ b.received # <<>> /\ u[LastReceived(b).packet].fCnt = u[n].fCnt
  <2> DEFINE p == u[n].heard[c.gateway]
  <2>1. b = InsertReceivedPacket(a, n, c.gateway, p) /\ u = uplinks
    BY DEF b, u
  <2>2. p \in Power /\ n \in 1 .. MaxUplinks /\ c.gateway \in Gateway
        /\ c.gateway \in DOMAIN uplinks[n].heard
    BY <1>4, <2>1
  <2> HIDE DEF p
  <2>3. AtEnd(a, uplinks, n) /\ Entered(a, uplinks, n) /\ Complete(a, copies, uplinks, n)
    BY <1>7, <2>1
  <2>4. /\ b \in Statuses
        /\ b.window = a.window /\ b.left = a.left /\ b.reply = a.reply
        /\ b.replies = a.replies /\ b.abandoned = a.abandoned
    BY <1>6, <2>1, <2>2, <2>3, InsertFacts
  <2>5. /\ Entered(b, uplinks, n) /\ Complete(b, {}, uplinks, n) /\ AtEnd(b, uplinks, n)
        /\ b.received # <<>> /\ uplinks[LastReceived(b).packet].fCnt = uplinks[n].fCnt
    BY <1>6, <2>1, <2>2, <2>3, InsertListed
  <2> QED
    BY <2>1, <2>4, <2>5
<1>9. b.reply = NoReply \/ b.reply = ReplyTo(u[n].requests)
  BY <1>1, <1>6, <1>8 DEF Prepared
<1>10. /\ t \in Statuses /\ t.reply = ReplyTo(u[n].requests)
       /\ t.window = b.window /\ t.left = b.left /\ t.received = b.received
       /\ t.replies = b.replies /\ t.abandoned = b.abandoned
  BY <1>4, <1>8, <1>9, OnNewFacts DEF t
<1>11. t.window # 0
  BY <1>6, <1>8, <1>10
<1>12. OnTime(t, copies \ {c}, e)
  <2>1. \A d \in copies \ {c} : e + d.left <= CopySpread
    BY <1>1 DEF OnTime
  <2>2. e + t.left - t.window * WindowDelay \in 0 .. CopySpread
    <3>1. CASE status.window = 0
      <4>1. e + WindowDelay - 1 * WindowDelay = e
        BY <1>4, <1>5
      <4> QED
        BY <1>4, <1>6, <1>8, <1>10, <3>1, <4>1
    <3>2. CASE status.window # 0
      BY <1>1, <1>6, <1>8, <1>10, <3>2 DEF OnTime
    <3> QED
      BY <3>1, <3>2
  <2> QED
    BY <2>1, <2>2 DEF OnTime
<1>13. Listed(t, copies \ {c}, u, n)
  <2>1. LastReceived(t) = LastReceived(b)
    BY <1>10 DEF LastReceived
  <2>2. Entered(t, u, n) /\ Complete(t, copies \ {c}, u, n) /\ AtEnd(t, u, n)
    BY <1>8, <1>10 DEF Entered, Complete, Entry, AtEnd
  <2>3. \A d \in copies \ {c} : n >= 1 /\ d.gateway \in DOMAIN u[n].heard
    BY <1>1 DEF Listed
  <2> QED
    BY <1>8, <1>10, <2>1, <2>2, <2>3 DEF Listed
<1>14. Prepared(t, u, n)
  BY <1>10, <1>11 DEF Prepared
<1>15. t.replies = status.replies /\ t.abandoned = status.abandoned /\ Sent(t) = Sent(status)
  BY <1>6, <1>8, <1>10 DEF Sent
<1>16. DecidedLate(t, n, e)
  <2>1. ~Decided(status, n)
    BY <1>1, <1>4, <1>5 DEF DecidedLate
  <2>2. ~Decided(t, n)
    BY <2>1, <1>15 DEF Decided
  <2> QED
    BY <1>1, <1>15, <2>2 DEF DecidedLate
<1>17. Fits(t, u) /\ OneReply(t, u) /\ InTime(t)
  BY <1>1, <1>15 DEF Fits, OneReply, InTime
<1>18. TypeOK'
  BY <1>1, <1>2, <1>10 DEF TypeOK
<1>19. Len(u) = n
  BY DEF LastUplink, n, u
<1> QED
  BY <1>1, <1>2, <1>3, <1>12, <1>13, <1>14, <1>16, <1>17, <1>18, <1>19 DEF IInv, Good, u

------------------------------------------------------------------------------
(* A receive window comes *)

\* A gateway that is free for the reply has heard the last packet.
LEMMA GatewayFacts ==
    ASSUME NEW s \in Statuses, s.received # <<>>, NEW free \in SUBSET Gateway,
           FreeGateways(s, free) # {}, Power \subseteq Nat
    PROVE  /\ GetBestGatewayForDevice(s, free) \in Gateway
           /\ GetBestGatewayForDevice(s, free) \in DOMAIN LastReceived(s).gwList
<1> DEFINE T == FreeGateways(s, free)
           f == LastReceived(s).gwList
<1>1. T \subseteq Gateway /\ T \subseteq DOMAIN f
  BY DEF FreeGateways, GetPowerGatewayMap
<1>2. f \in Heards
  <2>1. LastReceived(s) \in ReceivedPackets
    BY DEF LastReceived, Statuses
  <2> QED
    BY <2>1 DEF ReceivedPackets
<1>3. \A g \in T : f[g] \in Nat
  <2>1. PICK S \in SUBSET Gateway : f \in [S -> Power]
    BY <1>2 DEF Heards
  <2> QED
    BY <1>1, <2>1
<1> HIDE DEF T, f
<1>4. \E m \in T : \A h \in T : f[h] <= f[m]
  BY <1>1, <1>3, BestOfGateways DEF T
<1>5. GetBestGatewayForDevice(s, free) \in T
  BY <1>4 DEF GetBestGatewayForDevice, T, f
<1> QED
  BY <1>1, <1>5 DEF f

\* The components make of what the uplink asked for, and of the link check that
\* the packet at the end of the list asked for, the reply that it gets.
LEMMA ReadyFacts ==
    ASSUME NEW s \in Statuses, NEW requests \in SUBSET Request, s.reply = ReplyTo(requests)
    PROVE  LET t == BeforeSendingReply(s)
               linkCheck == "linkCheckReq" \in uplinks[LastReceived(s).packet].requests
           IN  /\ t \in Statuses
               /\ t.reply.needsReply <=>
                      "confirmed" \in requests \/ "adrAckReq" \in requests \/ linkCheck
               /\ t.reply.ack <=> "confirmed" \in requests
               /\ t.reply.linkCheckAns <=> linkCheck
               /\ ~t.reply.needsReply => t.reply = NoReply
               /\ t.window = s.window /\ t.left = s.left /\ t.received = s.received
               /\ t.replies = s.replies /\ t.abandoned = s.abandoned
<1> DEFINE t == BeforeSendingReply(s)
           linkCheck == "linkCheckReq" \in uplinks[LastReceived(s).packet].requests
<1>1. /\ s.reply.needsReply <=> "confirmed" \in requests \/ "adrAckReq" \in requests
      /\ s.reply.ack <=> "confirmed" \in requests
      /\ ~s.reply.linkCheckAns
  BY ReplyToFacts
<1>2. s.reply \in PendingReplies
  BY ReplyToFacts
<1>3. CASE linkCheck
  <2> DEFINE q == [s.reply EXCEPT !.needsReply = TRUE, !.linkCheckAns = TRUE]
  <2>1. t = [s EXCEPT !.reply = q]
    BY <1>2, <1>3 DEF BeforeSendingReply, Statuses
  <2>2. q \in PendingReplies /\ q.needsReply /\ q.linkCheckAns /\ q.ack = s.reply.ack
    BY <1>2 DEF PendingReplies
  <2> HIDE DEF q, t, linkCheck
  <2>3. t \in Statuses /\ t.reply = q
        /\ t.window = s.window /\ t.left = s.left /\ t.received = s.received
        /\ t.replies = s.replies /\ t.abandoned = s.abandoned
    BY <2>1, <2>2 DEF Statuses
  <2> QED
    BY <1>1, <1>3, <2>2, <2>3 DEF t, linkCheck
<1>4. CASE ~linkCheck
  <2>1. t = s
    BY <1>4 DEF BeforeSendingReply
  <2>2. ~s.reply.needsReply => s.reply = NoReply
    BY <1>1, ReplyToFacts
  <2> QED
    BY <1>1, <1>4, <2>1, <2>2
<1> QED
  BY <1>3, <1>4

\* What is known when an opportunity is due: the last uplink is the one to
\* decide on, nothing has been decided of it, and it is late enough.
Due(s, C, u, e, n, w) ==
    /\ s \in Statuses /\ s.window = w /\ w \in {1, 2} /\ s.left = 0
    /\ e \in Int /\ e >= WindowDelay /\ e - w * WindowDelay \in 0 .. CopySpread
    /\ n \in 1 .. MaxUplinks /\ n = Len(u) /\ u[n].requests \in SUBSET Request
    /\ s.received # <<>> /\ Filed(u, LastReceived(s).packet, n)
    /\ "linkCheckReq" \in u[LastReceived(s).packet].requests => "linkCheckReq" \in u[n].requests
    /\ \A g \in DOMAIN LastReceived(s).gwList : HeardBy(u, g, n, n)
    /\ s.reply = ReplyTo(u[n].requests) /\ ~Decided(s, n)

LEMMA DueFacts ==
    ASSUME IInv, OpportunityDue
    PROVE  Due(status, copies, uplinks, Elapsed, LastUplink, status.window)
<1> DEFINE n == LastUplink
           w == status.window
<1>1. /\ TypeOK /\ OnTime(status, copies, Elapsed) /\ Counted(uplinks)
      /\ Listed(status, copies, uplinks, n) /\ n = Len(uplinks)
      /\ Prepared(status, uplinks, n) /\ DecidedLate(status, n, Elapsed)
  BY DEF IInv, Good, LastUplink
<1>2. w \in {1, 2} /\ status.left = 0 /\ Elapsed \in Int /\ status \in Statuses
      /\ WindowDelay \in Nat /\ CopySpread \in Nat /\ n \in 0 .. MaxUplinks
  BY <1>1, TypeFacts DEF OpportunityDue
<1>3. Elapsed - w * WindowDelay \in 0 .. CopySpread
  <2>1. Elapsed + 0 - w * WindowDelay \in 0 .. CopySpread
    BY <1>1, <1>2 DEF OnTime
  <2> QED
    BY <1>2, <2>1
<1>4. Elapsed >= WindowDelay
  BY <1>2, <1>3
<1> DEFINE k == Len(status.received)
           m == status.received[k].packet
<1>5. /\ status.received # <<>> /\ uplinks[m].fCnt = uplinks[n].fCnt /\ k \in DOMAIN status.received
  <2>1. status.received \in Seq(ReceivedPackets)
    BY <1>2 DEF Statuses
  <2> QED
    BY <1>1, <1>2, <2>1 DEF Listed, LastReceived
<1>6. /\ m \in 1 .. n /\ Filed(uplinks, m, m) /\ n \in 1 .. MaxUplinks
      /\ \A g \in DOMAIN status.received[k].gwList : HeardBy(uplinks, g, m, n)
  <2>1. /\ m \in 1 .. n /\ Filed(uplinks, m, m)
        /\ \A g \in DOMAIN status.received[k].gwList : HeardBy(uplinks, g, m, n)
    BY <1>1, <1>5 DEF Listed, Entered
  <2> QED
    BY <1>2, <2>1, CountAssumption
<1>9. LastReceived(status) = status.received[k]
  BY DEF LastReceived
<1> HIDE DEF m, k
<1>10. /\ Filed(uplinks, m, n)
       /\ "linkCheckReq" \in uplinks[m].requests => "linkCheckReq" \in uplinks[n].requests
  <2>1. n \in 1 .. Len(uplinks) /\ m \in 1 .. Len(uplinks) /\ m <= n
    BY <1>1, <1>2, <1>6
  <2>2. "linkCheckReq" \in uplinks[m].requests => "linkCheckReq" \in uplinks[n].requests
    BY <1>1, <1>5, <2>1 DEF Counted
  <2> QED
    BY <1>5, <1>6, <2>2 DEF Filed
<1>11. \A g \in DOMAIN status.received[k].gwList : HeardBy(uplinks, g, n, n)
  BY <1>5, <1>6 DEF HeardBy
<1>7. uplinks[n].requests \in SUBSET Request
  BY <1>1, <1>2, <1>6, TypeFacts
<1>8. status.reply = ReplyTo(uplinks[n].requests) /\ ~Decided(status, n)
  BY <1>1, <1>2 DEF Prepared, DecidedLate
<1> QED
  BY <1>1, <1>2, <1>3, <1>4, <1>5, <1>6, <1>7, <1>8, <1>9, <1>10, <1>11 DEF Due, m

\* A decided or postponed opportunity leaves the list and the copies alone.
LEMMA ListedStays ==
    ASSUME NEW s, NEW t, NEW C, NEW u, NEW n, Listed(s, C, u, n),
           t.received = s.received, t.window # 0 => s.window # 0
    PROVE  Listed(t, C, u, n)
<1>1. LastReceived(t) = LastReceived(s)
  BY DEF LastReceived
<1>2. Entered(t, u, n) /\ Complete(t, C, u, n) /\ AtEnd(t, u, n)
  BY DEF Listed, Entered, Complete, Entry, AtEnd
<1> QED
  BY <1>1, <1>2 DEF Listed

LEMMA RunFacts ==
    ASSUME NEW s \in Statuses
    PROVE  LET t == [s EXCEPT !.window = 0]
           IN  /\ t \in Statuses /\ t.window = 0 /\ t.left = s.left
               /\ t.received = s.received /\ LastReceived(t) = LastReceived(s)
               /\ t.reply = s.reply /\ t.replies = s.replies /\ t.abandoned = s.abandoned
BY DEF Statuses, LastReceived

LEMMA TimerType ==
    ASSUME NEW s \in Statuses, NEW w \in 0 .. 2, NEW l \in 0 .. 2 * WindowDelay
    PROVE  [s EXCEPT !.window = w, !.left = l] \in Statuses
BY DEF Statuses

LEMMA InitializeFacts ==
    ASSUME NEW s \in Statuses
    PROVE  LET t == InitializeReply(s)
           IN  /\ t \in Statuses /\ t.reply = NoReply
               /\ t.window = s.window /\ t.left = s.left /\ t.received = s.received
               /\ t.replies = s.replies /\ t.abandoned = s.abandoned
<1>1. NoReply \in PendingReplies
  BY DEF NoReply, PendingReplies
<1> QED
  BY <1>1 DEF InitializeReply, Statuses

LEMMA WaitStep ==
    ASSUME NEW s, NEW C, NEW u, NEW e, NEW n, Due(s, C, u, e, n, 1), Good(s, C, u, e)
    PROVE  LET t == WaitForSecond([s EXCEPT !.window = 0])
           IN  t \in Statuses /\ Good(t, C, u, e)
<1> DEFINE t == WaitForSecond([s EXCEPT !.window = 0])
<1>1. WindowDelay \in Nat /\ CopySpread \in Nat
  BY TimeAssumption
<1>2. /\ t \in Statuses /\ t.window = 2 /\ t.left = WindowDelay
      /\ t.received = s.received /\ t.reply = s.reply
      /\ t.replies = s.replies /\ t.abandoned = s.abandoned
  <2> DEFINE run == [s EXCEPT !.window = 0]
  <2>1. t = [run EXCEPT !.window = 2, !.left = WindowDelay]
    BY DEF WaitForSecond
  <2>2. WindowDelay \in 0 .. 2 * WindowDelay
    BY <1>1
  <2>3. /\ run \in Statuses /\ run.received = s.received
        /\ run.reply = s.reply /\ run.replies = s.replies /\ run.abandoned = s.abandoned
    BY RunFacts DEF Due
  <2> HIDE DEF run, t
  <2>4. t \in Statuses
    <3>1. 2 \in 0 .. 2
      OBVIOUS
    <3>2. [run EXCEPT !.window = 2, !.left = WindowDelay] \in Statuses
      BY <2>2, <2>3, <3>1, TimerType
    <3> QED
      BY <2>1, <3>2
  <2> QED
    BY <2>1, <2>2, <2>3, <2>4 DEF Statuses
<1> HIDE DEF t
<1>3. /\ OnTime(s, C, e) /\ Counted(u) /\ Listed(s, C, u, n) /\ Prepared(s, u, n) /\ n = Len(u)
      /\ DecidedLate(s, n, e) /\ Fits(s, u) /\ OneReply(s, u) /\ InTime(s)
      /\ s.window = 1 /\ e \in Int /\ e >= WindowDelay /\ e - 1 * WindowDelay \in 0 .. CopySpread
      /\ ~Decided(s, n)
  BY DEF Good, Due
<1>4. OnTime(t, C, e)
  <2>1. e + WindowDelay - 2 * WindowDelay \in 0 .. CopySpread
    BY <1>1, <1>3
  <2> QED
    BY <1>2, <1>3, <2>1 DEF OnTime
<1>5. Listed(t, C, u, n)
  BY <1>2, <1>3, ListedStays
<1>6. Prepared(t, u, n)
  BY <1>2, <1>3 DEF Prepared
<1>7. Sent(t) = Sent(s) /\ ~Decided(t, n)
  BY <1>2, <1>3 DEF Sent, Decided
<1>8. DecidedLate(t, n, e) /\ Fits(t, u) /\ OneReply(t, u) /\ InTime(t)
  BY <1>2, <1>3, <1>7 DEF DecidedLate, Fits, OneReply, InTime
<1> QED
  BY <1>2, <1>3, <1>4, <1>5, <1>6, <1>8 DEF Good, t

LEMMA GiveUpStep ==
    ASSUME NEW s, NEW u, u = uplinks, NEW C, NEW e, NEW n, n = LastUplink, NEW w,
           Due(s, C, u, e, n, w), Good(s, C, u, e)
    PROVE  LET t == GiveUp([s EXCEPT !.window = 0])
           IN  t \in Statuses /\ Good(t, C, u, e)
<1> DEFINE t == GiveUp([s EXCEPT !.window = 0])
<1>1. /\ t \in Statuses /\ t.window = 0 /\ t.left = s.left
      /\ t.received = s.received /\ t.reply = NoReply
      /\ t.replies = s.replies /\ t.abandoned = s.abandoned \cup {n}
  <2> DEFINE run == [s EXCEPT !.window = 0]
             gone == [run EXCEPT !.abandoned = @ \cup {n}]
  <2>1. t = InitializeReply(gone)
    BY DEF GiveUp
  <2>2. /\ run \in Statuses /\ run.window = 0 /\ run.left = s.left
        /\ run.received = s.received /\ run.replies = s.replies /\ run.abandoned = s.abandoned
    BY RunFacts DEF Due
  <2>3. n \in Nat
    BY CountAssumption DEF Due
  <2> HIDE DEF run
  <2>4. /\ gone \in Statuses /\ gone.window = 0 /\ gone.left = s.left
        /\ gone.received = s.received /\ gone.replies = s.replies
        /\ gone.abandoned = s.abandoned \cup {n}
    BY <2>2, <2>3 DEF Statuses
  <2> HIDE DEF gone
  <2> QED
    BY <2>1, <2>4, InitializeFacts
<1> HIDE DEF t
<1>2. /\ OnTime(s, C, e) /\ Counted(u) /\ Listed(s, C, u, n) /\ n = Len(u)
      /\ DecidedLate(s, n, e) /\ Fits(s, u) /\ OneReply(s, u) /\ InTime(s)
      /\ e >= WindowDelay /\ ~Decided(s, n) /\ n \in 1 .. MaxUplinks
  BY DEF Good, Due
<1>3. OnTime(t, C, e) /\ Prepared(t, u, n)
  BY <1>1, <1>2 DEF OnTime, Prepared
<1>4. Listed(t, C, u, n)
  BY <1>1, <1>2, ListedStays
<1>5. Sent(t) = Sent(s)
  BY <1>1 DEF Sent
<1>6. DecidedLate(t, n, e)
  <2>1. t.abandoned \subseteq 1 .. n
    BY <1>1, <1>2 DEF DecidedLate
  <2> QED
    BY <1>1, <1>2, <1>5, <2>1 DEF DecidedLate
<1>7. Fits(t, u) /\ InTime(t)
  BY <1>2, <1>5 DEF Fits, InTime
<1>8. OneReply(t, u)
  BY <1>1, <1>2, <1>5 DEF OneReply, Decided
<1> QED
  BY <1>1, <1>2, <1>3, <1>4, <1>6, <1>7, <1>8 DEF Good, t

LEMMA ReplyStep ==
    ASSUME NEW s, NEW u, u = uplinks, NEW C, NEW e, e = Elapsed, NEW n, n = LastUplink, NEW w,
           Due(s, C, u, e, n, w), Good(s, C, u, e),
           NEW free \in SUBSET Gateway, FreeGateways(s, free) # {}, Power \subseteq Nat, TypeOK
    PROVE  LET t == Reply([s EXCEPT !.window = 0], w, free)
           IN  t \in Statuses /\ Good(t, C, u, e)
<1> DEFINE run == [s EXCEPT !.window = 0]
           ready == BeforeSendingReply(run)
           R == u[n].requests
           m == LastReceived(s).packet
           linkCheck == "linkCheckReq" \in u[m].requests
           t == Reply(run, w, free)
<1>1. /\ OnTime(s, C, e) /\ Counted(u) /\ Listed(s, C, u, n) /\ n = Len(u)
      /\ DecidedLate(s, n, e) /\ Fits(s, u) /\ OneReply(s, u) /\ InTime(s)
  BY DEF Good, Due
<1>2. /\ s \in Statuses /\ w \in {1, 2} /\ s.window # 0 /\ e \in Int /\ e >= WindowDelay
      /\ e - w * WindowDelay \in 0 .. CopySpread
      /\ n \in 1 .. MaxUplinks /\ R \in SUBSET Request
      /\ s.received # <<>> /\ Filed(u, m, n)
      /\ linkCheck => "linkCheckReq" \in R
      /\ \A g \in DOMAIN LastReceived(s).gwList : HeardBy(u, g, n, n)
      /\ s.reply = ReplyTo(R) /\ ~Decided(s, n)
  BY DEF Due
<1>3. /\ run \in Statuses /\ run.window = 0
      /\ run.received = s.received /\ LastReceived(run) = LastReceived(s)
      /\ run.reply = s.reply /\ run.replies = s.replies /\ run.abandoned = s.abandoned
  BY <1>2, RunFacts
<1> HIDE DEF run, R, linkCheck, m
<1>4. /\ ready \in Statuses
      /\ ready.reply.needsReply <=> "confirmed" \in R \/ "adrAckReq" \in R \/ linkCheck
      /\ ready.reply.ack <=> "confirmed" \in R
      /\ ready.reply.linkCheckAns <=> linkCheck
      /\ ~ready.reply.needsReply => ready.reply = NoReply
      /\ ready.window = 0 /\ ready.received = s.received
      /\ ready.replies = s.replies /\ ready.abandoned = s.abandoned
  <2>1. LastReceived(run).packet = m
    BY <1>3 DEF m
  <2> QED
    BY <1>2, <1>3, <2>1, ReadyFacts DEF linkCheck
<1>5. LastReceived(ready) = LastReceived(s)
  BY <1>4 DEF LastReceived
<1> HIDE DEF ready
<1>6. CASE ~ready.reply.needsReply
  <2>1. t = ready
    BY <1>4, <1>6 DEF Reply, ready
  <2> HIDE DEF t
  <2>2. /\ t.window = 0 /\ t.received = s.received /\ t.reply = NoReply
        /\ t.replies = s.replies /\ t.abandoned = s.abandoned
    BY <1>4, <1>6, <2>1
  <2>3. OnTime(t, C, e) /\ Prepared(t, u, n)
    BY <1>1, <2>2 DEF OnTime, Prepared
  <2>4. Listed(t, C, u, n)
    BY <1>1, <1>2, <2>2, ListedStays
  <2>5. Sent(t) = Sent(s)
    BY <2>2 DEF Sent
  <2>6. DecidedLate(t, n, e) /\ Fits(t, u) /\ OneReply(t, u) /\ InTime(t)
    BY <1>1, <1>2, <2>2, <2>5 DEF DecidedLate, Fits, OneReply, InTime
  <2> QED
    BY <1>1, <1>4, <2>1, <2>3, <2>4, <2>6 DEF Good, t, run
<1>7. CASE ready.reply.needsReply
  <2> DEFINE r == [fCnt |-> FCnt(LastReceived(ready).packet), ack |-> ready.reply.ack,
                   linkCheckAns |-> ready.reply.linkCheckAns,
                   gateway |-> GetBestGatewayForDevice(ready, free), window |-> w,
                   to |-> LastUplink, at |-> Elapsed]
             sent == [ready EXCEPT !.replies = Append(@, r)]
  <2>1. t = InitializeReply(sent)
    BY <1>4, <1>7 DEF Reply, SendReply, ready
  <2>2. /\ r.fCnt = u[n].fCnt /\ r.gateway = GetBestGatewayForDevice(ready, free)
        /\ r.window = w /\ r.to = n /\ r.at = e
        /\ r.ack = ready.reply.ack /\ r.linkCheckAns = ready.reply.linkCheckAns
    BY <1>2, <1>5 DEF FCnt, Filed, m
  <2>3. /\ GetBestGatewayForDevice(ready, free) \in Gateway
        /\ HeardBy(u, GetBestGatewayForDevice(ready, free), n, n)
    <3>1. FreeGateways(ready, free) # {}
      BY <1>5 DEF FreeGateways, GetPowerGatewayMap
    <3> QED
      BY <1>2, <1>4, <1>5, <3>1, GatewayFacts
  <2>4. r \in Replies
    <3>1. u[n].fCnt \in 0 .. CounterValues - 1
      BY <1>1, <1>2, CountAssumption, TypeFacts
    <3>2. ready.reply \in PendingReplies
      BY <1>4 DEF Statuses
    <3>3. ready.reply.ack \in BOOLEAN /\ ready.reply.linkCheckAns \in BOOLEAN
      BY <3>2 DEF PendingReplies
    <3>4. w \in 1 .. 2 /\ LastUplink \in Nat /\ Elapsed \in Int
      BY <1>2, CountAssumption
    <3> QED
      BY <2>2, <2>3, <3>1, <3>3, <3>4 DEF Replies
  <2> HIDE DEF r
  <2> DEFINE q == Append(s.replies, r)
  <2>5. s.replies \in Seq(Replies)
    BY <1>2 DEF Statuses
  <2>6. /\ q \in Seq(Replies) /\ DOMAIN s.replies = 1 .. Len(s.replies)
        /\ Len(s.replies) \in Nat /\ DOMAIN q = 1 .. Len(s.replies) + 1
        /\ q[Len(s.replies) + 1] = r
        /\ \A i \in DOMAIN s.replies : q[i] = s.replies[i]
    BY <2>4, <2>5
  <2>7. sent = [ready EXCEPT !.replies = q]
    BY <1>4
  <2> HIDE DEF q, sent
  <2>8. /\ sent \in Statuses /\ sent.replies = q
        /\ sent.window = 0 /\ sent.received = s.received /\ sent.abandoned = s.abandoned
    BY <1>4, <2>6, <2>7 DEF Statuses
  <2> HIDE DEF t
  <2>9. /\ t \in Statuses /\ t.replies = q /\ t.reply = NoReply
        /\ t.window = 0 /\ t.received = s.received /\ t.abandoned = s.abandoned
    BY <2>1, <2>8, InitializeFacts
  <2>10. OnTime(t, C, e) /\ Prepared(t, u, n)
    BY <1>1, <2>9 DEF OnTime, Prepared
  <2>11. Listed(t, C, u, n)
    BY <1>1, <1>2, <2>9, ListedStays
  <2>12. Sent(t) = Sent(s) \cup {r}
    <3> DEFINE k == Len(s.replies) + 1
    <3>1. /\ DOMAIN q = DOMAIN s.replies \cup {k} /\ q[k] = r /\ Sent(t) = { q[i] : i \in DOMAIN q }
          /\ \A i \in DOMAIN s.replies : q[i] = s.replies[i]
      BY <2>6, <2>9 DEF Sent
    <3> HIDE DEF k
    <3>2. ASSUME NEW x \in Sent(t)  PROVE x \in Sent(s) \cup {r}
      BY <3>1, <3>2 DEF Sent
    <3>3. ASSUME NEW x \in Sent(s)  PROVE x \in Sent(t)
      BY <3>1, <3>3 DEF Sent
    <3>4. r \in Sent(t)
      BY <3>1
    <3> QED
      BY <3>2, <3>3, <3>4
  <2>13. DecidedLate(t, n, e)
    <3>1. \A x \in Sent(t) : x.to \in 1 .. n
      BY <1>1, <1>2, <2>2, <2>12 DEF DecidedLate
    <3> QED
      BY <1>1, <1>2, <2>9, <3>1 DEF DecidedLate
  <2>14. Fits(t, u)
    <3>1. /\ r.ack <=> "confirmed" \in u[n].requests
          /\ r.linkCheckAns <=> linkCheck
          /\ linkCheck => "linkCheckReq" \in u[n].requests
      BY <1>2, <1>4, <2>2 DEF R
    <3>2. m \in 1 .. n /\ Filed(u, m, n) /\ (r.linkCheckAns <=> "linkCheckReq" \in u[m].requests)
      BY <1>2, <3>1 DEF Filed, linkCheck
    <3>3. FitsOne(r, u)
      BY <2>2, <2>3, <3>1, <3>2 DEF FitsOne
    <3> QED
      BY <1>1, <2>12, <3>3 DEF Fits
  <2>15. OneReply(t, u)
    <3>1. \A i \in DOMAIN s.replies : s.replies[i].to # n
      BY <1>2 DEF Decided, Sent
    <3>2. ASSUME NEW i \in DOMAIN t.replies, NEW j \in DOMAIN t.replies,
                 t.replies[i].to = t.replies[j].to
          PROVE  i = j
      <4>1. i \in 1 .. Len(s.replies) + 1 /\ j \in 1 .. Len(s.replies) + 1
            /\ q[i].to = q[j].to
        BY <2>6, <2>9, <3>2
      <4>2. \A k \in 1 .. Len(s.replies) + 1 : k \in DOMAIN s.replies \/ k = Len(s.replies) + 1
        BY <2>6
      <4>3. CASE i \in DOMAIN s.replies /\ j \in DOMAIN s.replies
        BY <1>1, <2>6, <4>1, <4>3 DEF OneReply
      <4>4. CASE i \in DOMAIN s.replies /\ j = Len(s.replies) + 1
        BY <2>2, <2>6, <3>1, <4>1, <4>4
      <4>5. CASE i = Len(s.replies) + 1 /\ j \in DOMAIN s.replies
        BY <2>2, <2>6, <3>1, <4>1, <4>5
      <4> QED
        BY <4>1, <4>2, <4>3, <4>4, <4>5
    <3>3. u[r.to].requests # {} /\ r.to \notin t.abandoned
      BY <1>2, <1>4, <1>7, <2>2, <2>9 DEF Decided, R
    <3>4. \A x \in Sent(t) : u[x.to].requests # {} /\ x.to \notin t.abandoned
      BY <1>1, <2>9, <2>12, <3>3 DEF OneReply
    <3> QED
      BY <3>2, <3>4 DEF OneReply
  <2>16. InTime(t)
    <3>1. r.at - r.window * WindowDelay \in 0 .. CopySpread
      BY <1>2, <2>2
    <3> QED
      BY <1>1, <2>12, <3>1 DEF InTime
  <2> QED
    BY <1>1, <2>9, <2>10, <2>11, <2>13, <2>14, <2>15, <2>16 DEF Good, t, run
<1> QED
  BY <1>6, <1>7

\* The invariant of the next state is Good of the next values.
LEMMA GoodNext ==
    ASSUME TypeOK', Good(status', copies', uplinks', Elapsed')
    PROVE  IInv'
BY Zenon DEF IInv, Good, OnTime, Counted, Listed, Entered, Complete, Entry, AtEnd, Filed, HeardBy,
             Prepared, DecidedLate, Fits, FitsOne, OneReply, InTime, Sent, Decided, LastReceived

LEMMA OpportunityStep ==
    ASSUME IInv, RunOpportunity
    PROVE  IInv'
<1> DEFINE n == LastUplink
           e == Elapsed
           w == status.window
           run == [status EXCEPT !.window = 0]
<1>1. /\ TypeOK /\ Good(status, copies, uplinks, e) /\ OpportunityDue
      /\ Due(status, copies, uplinks, e, n, w)
  BY DueFacts DEF IInv, RunOpportunity
<1>2. /\ copies' = copies /\ uplinks' = uplinks /\ gap' = gap
  BY DEF RunOpportunity
<1>3. Elapsed' = e
  BY <1>2 DEF Elapsed
<1>4. PICK free \in SUBSET Gateway : status' = OnReceiveWindowOpportunity(status, free)
  BY DEF RunOpportunity
<1>5. SUFFICES status' \in Statuses /\ Good(status', copies, uplinks, e)
  BY <1>1, <1>2, <1>3, GoodNext DEF TypeOK
<1>6. w \in {1, 2}
  BY <1>1 DEF Due
<1>7. CASE FreeGateways(status, free) # {}
  <2>1. status' = Reply(run, w, free)
    BY <1>4, <1>7 DEF OnReceiveWindowOpportunity
  <2>2. LET t == Reply(run, w, free)
        IN  t \in Statuses /\ Good(t, copies, uplinks, e)
    BY <1>1, <1>7, ReplyStep, PowerAssumption
  <2> QED
    BY <2>1, <2>2
<1>8. CASE FreeGateways(status, free) = {} /\ w = 1
  <2>1. status' = WaitForSecond(run)
    BY <1>4, <1>8 DEF OnReceiveWindowOpportunity
  <2>2. Due(status, copies, uplinks, e, n, 1)
    BY <1>1, <1>8
  <2>3. LET t == WaitForSecond(run)
        IN  t \in Statuses /\ Good(t, copies, uplinks, e)
    BY <1>1, <2>2, WaitStep
  <2> QED
    BY <2>1, <2>3
<1>9. CASE FreeGateways(status, free) = {} /\ w # 1
  <2>1. status' = GiveUp(run)
    BY <1>4, <1>9 DEF OnReceiveWindowOpportunity
  <2>2. LET t == GiveUp(run)
        IN  t \in Statuses /\ Good(t, copies, uplinks, e)
    BY <1>1, GiveUpStep
  <2> QED
    BY <2>1, <2>2
<1> QED
  BY <1>7, <1>8, <1>9

------------------------------------------------------------------------------
(* The next uplink, and time *)

\* All is over before the device may send again.
LEMMA OverInTime ==
    ASSUME IInv, gap = 0
    PROVE  copies = {} /\ status.window = 0
<1>1. TypeOK /\ OnTime(status, copies, Elapsed) /\ Elapsed = UplinkGap
  BY TimeAssumption DEF IInv, Good, Elapsed
<1>2. /\ CopySpread \in Nat /\ WindowDelay \in Nat /\ UplinkGap \in Nat
      /\ CopySpread < UplinkGap /\ 2 * WindowDelay + CopySpread < UplinkGap
      /\ status.left \in Nat /\ status.window \in 0 .. 2
      /\ \A c \in copies : c.left \in 0 .. CopySpread
  BY <1>1, TypeFacts
<1>3. ASSUME NEW c \in copies  PROVE FALSE
  <2>1. UplinkGap + c.left <= CopySpread
    BY <1>1 DEF OnTime
  <2> QED
    BY <1>2, <2>1
<1>4. ASSUME status.window # 0  PROVE FALSE
  <2>1. UplinkGap + status.left - status.window * WindowDelay \in 0 .. CopySpread
    BY <1>1, <1>4 DEF OnTime
  <2>2. CASE status.window = 1
    BY <1>2, <2>1, <2>2
  <2>3. CASE status.window = 2
    BY <1>2, <2>1, <2>3
  <2> QED
    BY <1>2, <1>4, <2>2, <2>3
<1> QED
  BY <1>3, <1>4

\* The next counter is the last one again, after a retransmission, or the one
\* after it: with counters enough for the uplinks it does not wrap.
LEMMA NextCounter ==
    ASSUME MaxUplinks <= CounterValues, TypeOK, Counted(uplinks), LastUplink < MaxUplinks
    PROVE  /\ CurrentFCnt \in 0 .. CounterValues - 1 /\ CurrentFCnt <= LastUplink
           /\ LastUplink > 0 =>
                  /\ uplinks[LastUplink].fCnt <= CurrentFCnt
                  /\ uplinks[LastUplink].fCnt = CurrentFCnt => uplinks[LastUplink].retx
<1> DEFINE n == LastUplink
           c == uplinks[n].fCnt
<1>1. /\ n \in Nat /\ uplinks \in Seq(Uplinks) /\ n = Len(uplinks)
      /\ CounterValues \in Nat \ {0} /\ MaxUplinks \in Nat
  BY TypeFacts, CountAssumption DEF LastUplink, TypeOK
<1>2. CASE n = 0
  <2>1. CurrentFCnt = 0
    BY <1>2 DEF CurrentFCnt
  <2> QED
    BY <1>1, <1>2, <2>1
<1>3. CASE n > 0
  <2>1. n \in 1 .. Len(uplinks) /\ c \in 0 .. CounterValues - 1 /\ n # 0
    BY <1>1, <1>3, TypeFacts
  <2>2. c < n
    BY <2>1, <1>1 DEF Counted
  <2>3. CurrentFCnt = (c + (IF uplinks[n].retx THEN 0 ELSE 1)) % CounterValues
    BY <2>1 DEF CurrentFCnt, FCnt
  <2> HIDE DEF c, n
  <2>4. CASE uplinks[n].retx
    <3>1. CurrentFCnt = c
      BY <1>1, <2>1, <2>3, <2>4
    <3> QED
      BY <1>1, <2>1, <2>2, <2>4, <3>1 DEF c, n
  <2>5. CASE ~uplinks[n].retx
    <3>1. c + 1 \in 0 .. CounterValues - 1
      BY <1>1, <2>1, <2>2 DEF n
    <3>2. CurrentFCnt = c + 1
      BY <1>1, <2>3, <2>5, <3>1
    <3> QED
      BY <1>1, <2>1, <2>2, <3>1, <3>2 DEF c, n
  <2> QED
    BY <2>4, <2>5
<1> QED
  BY <1>1, <1>2, <1>3

LEMMA NonEmptyDomain ==
    ASSUME NEW f \in Heards, f # <<>>
    PROVE  \E g \in DOMAIN f : TRUE
<1>1. PICK S \in SUBSET Gateway : f \in [S -> Power]
  BY DEF Heards
<1>2. SUFFICES ASSUME S = {}  PROVE f = <<>>
  BY <1>1
<1>3. <<>> \in [{} -> Power]
  OBVIOUS
<1> QED
  BY <1>1, <1>2, <1>3

LEMMA UplinkStep ==
    ASSUME MaxUplinks <= CounterValues, IInv, NEW requests \in SUBSET Request,
           NEW heard \in Heards, NEW retx \in BOOLEAN, Uplink(requests, heard, retx)
    PROVE  IInv'
<1> DEFINE n == LastUplink
           s == status
           x == [requests |-> requests, heard |-> heard, retx |-> retx, fCnt |-> CurrentFCnt]
           v == Append(uplinks, x)
<1>1. /\ TypeOK /\ Counted(uplinks) /\ Listed(s, copies, uplinks, n) /\ Prepared(s, uplinks, n)
      /\ DecidedLate(s, n, Elapsed) /\ Fits(s, uplinks) /\ OneReply(s, uplinks) /\ InTime(s)
  BY DEF IInv, Good, LastUplink
<1>2. gap = 0 /\ n < MaxUplinks /\ uplinks' = v /\ gap' = UplinkGap /\ status' = s
  BY DEF Uplink, LastUplink
<1>3. PICK delay \in [DOMAIN heard -> 0 .. CopySpread] :
          copies' = copies \cup { [gateway |-> g, left |-> delay[g]] : g \in DOMAIN heard }
  BY DEF Uplink
<1>4. copies = {} /\ s.window = 0
  BY <1>2, OverInTime
<1>5. /\ n \in Nat /\ uplinks \in Seq(Uplinks) /\ n = Len(uplinks) /\ UplinkGap \in Nat
      /\ CopySpread \in Nat /\ WindowDelay \in Nat \ {0} /\ s \in Statuses
  BY <1>1, TypeFacts DEF LastUplink, TypeOK
<1>6. x \in Uplinks
  BY <1>1, <1>2, NextCounter DEF Uplinks
<1>7. /\ v \in Seq(Uplinks) /\ Len(v) = n + 1 /\ v[n + 1] = x
      /\ x.requests = requests /\ x.heard = heard /\ x.fCnt = CurrentFCnt
      /\ \A i \in 1 .. n : v[i] = uplinks[i]
  BY <1>5, <1>6
<1>20. \A i \in 1 .. n : uplinks[i].fCnt \in Nat
  BY <1>1, TypeFacts
<1>21. /\ CurrentFCnt \in Nat /\ CurrentFCnt <= n
       /\ n > 0 =>
              /\ uplinks[n].fCnt <= CurrentFCnt
              /\ uplinks[n].fCnt = CurrentFCnt /\ "linkCheckReq" \in uplinks[n].requests
                     => "linkCheckReq" \in requests
  <2>1. n > 0 => n # 0
    BY <1>5
  <2>2. CommandsKept \subseteq requests
    BY DEF Uplink
  <2>3. n > 0 /\ uplinks[n].retx /\ "linkCheckReq" \in uplinks[n].requests
            => "linkCheckReq" \in requests
    BY <2>1, <2>2 DEF CommandsKept
  <2>4. /\ CurrentFCnt \in 0 .. CounterValues - 1 /\ CurrentFCnt <= n
        /\ n > 0 =>
               /\ uplinks[n].fCnt <= CurrentFCnt
               /\ uplinks[n].fCnt = CurrentFCnt => uplinks[n].retx
    BY <1>1, <1>2, NextCounter
  <2> HIDE DEF n
  <2> QED
    BY <2>3, <2>4
<1> HIDE DEF v, n, x
<1>22. Counted(v)
  <2> SUFFICES ASSUME NEW i \in 1 .. n + 1, NEW j \in 1 .. n + 1, i <= j
               PROVE  /\ v[i].fCnt < i /\ v[i].fCnt <= v[j].fCnt
                      /\ v[i].fCnt = v[j].fCnt =>
                             ("linkCheckReq" \in v[i].requests => "linkCheckReq" \in v[j].requests)
    BY <1>7 DEF Counted
  <2>1. \A k \in 1 .. n : k \in 1 .. Len(uplinks)
    BY <1>5
  <2>2. CASE j <= n
    BY <1>1, <1>5, <1>7, <2>1, <2>2 DEF Counted
  <2>3. CASE i = n + 1
    BY <1>5, <1>7, <1>21, <2>3
  <2>4. CASE i <= n /\ j = n + 1
    <3>1. /\ i \in 1 .. n /\ n \in 1 .. n /\ n > 0 /\ v[i] = uplinks[i] /\ v[j] = x
      BY <1>5, <1>7, <2>4
    <3>2. /\ uplinks[i].fCnt < i /\ uplinks[i].fCnt <= uplinks[n].fCnt
          /\ uplinks[i].fCnt = uplinks[n].fCnt =>
                ("linkCheckReq" \in uplinks[i].requests => "linkCheckReq" \in uplinks[n].requests)
      BY <1>1, <1>5, <2>1, <2>4, <3>1 DEF Counted
    <3> QED
      BY <1>5, <1>7, <1>20, <1>21, <3>1, <3>2
  <2> QED
    BY <1>5, <2>2, <2>3, <2>4
<1>8. Elapsed' = 0
  BY <1>2, <1>5 DEF Elapsed
<1>9. DOMAIN heard \subseteq Gateway
  BY DEF Heards
<1>10. \A c \in copies' : /\ c \in Copies /\ c.gateway \in DOMAIN heard
                          /\ 0 + c.left <= CopySpread
  BY <1>3, <1>4, <1>5, <1>9 DEF Copies
<1>11. TypeOK'
  <2>1. n + 1 <= MaxUplinks
    BY <1>2, <1>5, CountAssumption
  <2> QED
    BY <1>1, <1>2, <1>5, <1>7, <1>10, <2>1 DEF TypeOK
<1>12. OnTime(s, copies', 0)
  BY <1>4, <1>10 DEF OnTime
<1>23. \A m \in 1 .. n : Filed(uplinks, m, m) => Filed(v, m, m)
  BY <1>5, <1>7 DEF Filed
<1>13. Listed(s, copies', v, n + 1)
  <2>1. Entered(s, v, n + 1)
    <3> SUFFICES ASSUME NEW i \in DOMAIN s.received
                 PROVE  LET m == s.received[i].packet
                        IN  /\ m \in 1 .. n + 1 /\ Filed(v, m, m)
                            /\ \A g \in DOMAIN s.received[i].gwList : HeardBy(v, g, m, n + 1)
      BY DEF Entered
    <3> DEFINE m == s.received[i].packet
    <3>1. /\ m \in 1 .. n /\ Filed(uplinks, m, m)
          /\ \A g \in DOMAIN s.received[i].gwList : HeardBy(uplinks, g, m, n)
      BY <1>1 DEF Listed, Entered
    <3> HIDE DEF m
    <3>2. \A g : HeardBy(uplinks, g, m, n) => HeardBy(v, g, m, n + 1)
      BY <1>5, <1>7, <3>1 DEF HeardBy
    <3> QED
      BY <1>5, <1>23, <3>1, <3>2 DEF m
  <2>2. \A i \in DOMAIN s.received : s.received[i].packet \in 1 .. n
    BY <1>1 DEF Listed, Entered
  <2>3. Complete(s, copies', v, n + 1)
    <3> SUFFICES ASSUME NEW k \in 1 .. n + 1, v[k].heard # <<>>
                 PROVE  (k = n + 1 /\ copies' # {}) \/ Entry(s, v, k)
      BY DEF Complete
    <3>1. CASE k \in 1 .. n
      <4>1. Entry(s, uplinks, k)
        BY <1>1, <1>4, <1>7, <3>1 DEF Listed, Complete
      <4> QED
        BY <1>7, <2>2, <3>1, <4>1 DEF Entry
    <3>2. CASE k = n + 1
      <4>1. heard # <<>>
        BY <1>7, <3>2
      <4>2. PICK g \in DOMAIN heard : TRUE
        BY <4>1, NonEmptyDomain
      <4>3. [gateway |-> g, left |-> delay[g]] \in copies'
        BY <1>3, <4>2
      <4> QED
        BY <3>2, <4>3
    <3> QED
      BY <1>5, <3>1, <3>2
  <2>4. AtEnd(s, v, n + 1)
    <3> SUFFICES ASSUME NEW i \in DOMAIN s.received,
                        v[s.received[i].packet].fCnt = v[n + 1].fCnt
                 PROVE  i = Len(s.received)
      BY DEF AtEnd
    <3> DEFINE m == s.received[i].packet
    <3>1. m \in 1 .. n /\ n \in 1 .. n /\ n > 0 /\ n \in 1 .. Len(uplinks)
      BY <1>5, <2>2
    <3>2. uplinks[m].fCnt = CurrentFCnt
      BY <1>7, <3>1
    <3>3. uplinks[m].fCnt <= uplinks[n].fCnt /\ uplinks[n].fCnt <= CurrentFCnt
      BY <1>1, <1>5, <1>21, <3>1 DEF Counted
    <3>4. uplinks[m].fCnt = uplinks[n].fCnt
      BY <1>20, <1>21, <3>1, <3>2, <3>3
    <3> QED
      BY <1>1, <3>4 DEF Listed, AtEnd
  <2>5. n + 1 >= 1
    BY <1>5
  <2> QED
    BY <1>4, <1>7, <1>10, <2>1, <2>3, <2>4, <2>5 DEF Listed
<1>14. Prepared(s, v, n + 1)
  BY <1>1, <1>4 DEF Prepared
<1>15. DecidedLate(s, n + 1, 0)
  BY <1>1, <1>4, <1>5 DEF DecidedLate, Decided
<1>16. Fits(s, v) /\ OneReply(s, v)
  <2>1. \A r \in Sent(s) : r.to \in 1 .. n /\ v[r.to] = uplinks[r.to]
    BY <1>1, <1>7 DEF DecidedLate
  <2>2. ASSUME NEW r \in Sent(s)  PROVE FitsOne(r, v)
    <3>1. r.to \in 1 .. n /\ FitsOne(r, uplinks)
      BY <1>1, <2>1 DEF Fits
    <3>2. \A i \in 1 .. r.to : v[i] = uplinks[i]
      BY <1>5, <1>7, <3>1
    <3>3. \A m \in 1 .. r.to : Filed(uplinks, m, r.to) => Filed(v, m, r.to)
      BY <1>5, <3>1, <3>2 DEF Filed
    <3>4. HeardBy(uplinks, r.gateway, r.to, r.to) => HeardBy(v, r.gateway, r.to, r.to)
      BY <1>5, <3>1, <3>2 DEF HeardBy
    <3> QED
      BY <2>1, <3>1, <3>2, <3>3, <3>4 DEF FitsOne
  <2> QED
    BY <1>1, <2>1, <2>2 DEF Fits, OneReply
<1>17. Good(s, copies', v, 0)
  BY <1>1, <1>7, <1>12, <1>13, <1>14, <1>15, <1>16, <1>22 DEF Good
<1> QED
  BY <1>2, <1>8, <1>11, <1>17, GoodNext

LEMMA TickStep ==
    ASSUME IInv, Tick
    PROVE  IInv'
<1> DEFINE n == LastUplink
           s == status
           e == Elapsed
           t == IF s.window # 0 THEN [s EXCEPT !.left = @ - 1] ELSE s
           f == Elapsed'
<1>1. /\ TypeOK /\ OnTime(s, copies, e) /\ Counted(uplinks) /\ Listed(s, copies, uplinks, n)
      /\ Prepared(s, uplinks, n) /\ DecidedLate(s, n, e)
      /\ Fits(s, uplinks) /\ OneReply(s, uplinks) /\ InTime(s)
  BY DEF IInv, Good, LastUplink
<1>2. /\ s.window = 0 \/ s.left # 0
      /\ \A c \in copies : c.left > 0
      /\ copies' = { [c EXCEPT !.left = @ - 1] : c \in copies }
      /\ status' = t /\ uplinks' = uplinks
      /\ gap' = IF gap > 0 THEN gap - 1 ELSE 0
  BY DEF Tick, OpportunityDue
<1>3. /\ s \in Statuses /\ s.left \in Nat /\ s.window \in 0 .. 2 /\ e \in Int
      /\ gap \in 0 .. UplinkGap /\ UplinkGap \in Nat
      /\ CopySpread \in Nat /\ WindowDelay \in Nat
      /\ \A c \in copies : c \in Copies /\ c.left \in 0 .. CopySpread
  BY <1>1, TypeFacts DEF TypeOK
<1>4. /\ t \in Statuses /\ t.window = s.window /\ t.received = s.received
      /\ t.reply = s.reply /\ t.replies = s.replies /\ t.abandoned = s.abandoned
      /\ s.window # 0 => t.left = s.left - 1
  <2>1. CASE s.window = 0
    BY <1>3, <2>1
  <2>2. CASE s.window # 0
    <3> DEFINE l == s.left - 1
    <3>1. l \in 0 .. 2 * WindowDelay
      <4>1. s.left \in 0 .. 2 * WindowDelay
        BY <1>3 DEF Statuses
      <4> QED
        BY <1>2, <1>3, <2>2, <4>1
    <3>2. t = [s EXCEPT !.left = l]
      BY <2>2
    <3> HIDE DEF l, t
    <3>3. /\ t \in Statuses /\ t.window = s.window /\ t.received = s.received /\ t.left = l
          /\ t.reply = s.reply /\ t.replies = s.replies /\ t.abandoned = s.abandoned
      BY <1>3, <3>1, <3>2 DEF Statuses
    <3> QED
      BY <3>3 DEF l
  <2> QED
    BY <2>1, <2>2
<1>5. f \in Int /\ f >= e /\ (copies # {} \/ s.window # 0 => f = e + 1)
  <2>1. gap = 0 => copies = {} /\ s.window = 0
    BY OverInTime
  <2>2. gap > 0 => f = e + 1
    BY <1>2, <1>3 DEF Elapsed
  <2>3. gap = 0 => f = e
    BY <1>2, <1>3 DEF Elapsed
  <2> QED
    BY <1>3, <2>1, <2>2, <2>3
<1> HIDE DEF n, e, t, f
<1>6. ASSUME NEW d \in copies'
      PROVE  \E c \in copies : /\ d \in Copies /\ d.gateway = c.gateway
                               /\ d.left = c.left - 1
  <2>1. PICK c \in copies : d = [c EXCEPT !.left = @ - 1]
    BY <1>2
  <2>2. c.left - 1 \in 0 .. CopySpread /\ c \in Copies
    BY <1>2, <1>3
  <2> QED
    BY <2>1, <2>2 DEF Copies
<1>7. OnTime(t, copies', f)
  <2>1. ASSUME NEW d \in copies'  PROVE f + d.left <= CopySpread
    <3>1. PICK c \in copies : d.left = c.left - 1
      BY <1>6
    <3>2. e + c.left <= CopySpread /\ f = e + 1 /\ c.left \in Int
      BY <1>1, <1>3, <1>5 DEF OnTime
    <3> QED
      BY <1>3, <3>1, <3>2
  <2>2. ASSUME s.window # 0
        PROVE  f + t.left - t.window * WindowDelay \in 0 .. CopySpread
    <3>1. f = e + 1 /\ t.left = s.left - 1 /\ t.window = s.window
      BY <1>4, <1>5, <2>2
    <3>2. e + s.left - s.window * WindowDelay \in 0 .. CopySpread
      BY <1>1, <2>2 DEF OnTime
    <3> DEFINE opens == s.window * WindowDelay
    <3>3. opens \in Int
      BY <1>3
    <3> HIDE DEF opens
    <3>4. e + s.left - opens \in 0 .. CopySpread
      BY <3>2 DEF opens
    <3>5. f + t.left - opens \in 0 .. CopySpread
      BY <1>3, <3>1, <3>3, <3>4
    <3> QED
      BY <3>1, <3>5 DEF opens
  <2> QED
    BY <1>4, <2>1, <2>2 DEF OnTime
<1>8. e >= WindowDelay => f >= WindowDelay
  BY <1>3, <1>5
<1>9. Listed(t, copies', uplinks, n)
  <2>1. LastReceived(t) = LastReceived(s)
    BY <1>4 DEF LastReceived
  <2>2. \A d \in copies' : n >= 1 /\ d.gateway \in DOMAIN uplinks[n].heard
    BY <1>1, <1>6 DEF Listed
  <2>3. copies # {} => copies' # {}
    BY <1>2
  <2>4. Entered(t, uplinks, n) /\ Complete(t, copies', uplinks, n) /\ AtEnd(t, uplinks, n)
    BY <1>1, <1>4, <2>3 DEF Listed, Entered, Complete, Entry, AtEnd
  <2> QED
    BY <1>1, <1>4, <2>1, <2>2, <2>4 DEF Listed
<1>10. Prepared(t, uplinks, n)
  BY <1>1, <1>4 DEF Prepared
<1>11. Sent(t) = Sent(s) /\ (Decided(t, n) <=> Decided(s, n))
  BY <1>4 DEF Sent, Decided
<1>12. DecidedLate(t, n, f) /\ Fits(t, uplinks) /\ OneReply(t, uplinks) /\ InTime(t)
  BY <1>1, <1>4, <1>8, <1>11 DEF DecidedLate, Fits, OneReply, InTime
<1>13. TypeOK'
  <2>1. copies' \subseteq Copies
    BY <1>6
  <2>2. gap' \in 0 .. UplinkGap
    BY <1>2, <1>3
  <2> QED
    BY <1>1, <1>2, <1>4, <2>1, <2>2 DEF TypeOK
<1>14. Good(t, copies', uplinks, f)
  BY <1>1, <1>7, <1>9, <1>10, <1>12 DEF Good, n, LastUplink
<1> QED
  BY <1>2, <1>13, <1>14, GoodNext DEF f

LEMMA StutterStep ==
    ASSUME IInv, UNCHANGED vars
    PROVE  IInv'
<1>1. status' = status /\ copies' = copies /\ uplinks' = uplinks /\ gap' = gap
  BY DEF vars
<1>2. Elapsed' = Elapsed
  BY <1>1 DEF Elapsed
<1>3. TypeOK'
  BY <1>1 DEF IInv, TypeOK
<1> QED
  BY <1>1, <1>2, <1>3, GoodNext DEF IInv

LEMMA InitHolds == Init => IInv
<1> SUFFICES ASSUME Init  PROVE IInv
  OBVIOUS
<1>1. status = NewStatus /\ uplinks = <<>> /\ copies = {} /\ gap = 0
  BY DEF Init
<1>2. NewStatus \in Statuses
  <2>1. NoReply \in PendingReplies
    BY DEF NoReply, PendingReplies
  <2>2. 0 \in 0 .. 2 * WindowDelay /\ 0 \in 0 .. 2
    BY TimeAssumption
  <2> QED
    BY <2>1, <2>2 DEF NewStatus, Statuses
<1>3. TypeOK
  BY <1>1, <1>2, CountAssumption, TimeAssumption DEF TypeOK
<1>4. /\ status.window = 0 /\ status.received = <<>> /\ status.reply = NoReply
      /\ status.replies = <<>> /\ status.abandoned = {}
  BY <1>1 DEF NewStatus
<1>5. Sent(status) = {} /\ ~Decided(status, 0) /\ Len(uplinks) = 0
  BY <1>1, <1>4 DEF Sent, Decided
<1>6. Good(status, copies, uplinks, Elapsed)
  BY <1>1, <1>4, <1>5 DEF Good, OnTime, Counted, Listed, Entered, Complete,
     AtEnd, Prepared, DecidedLate, Fits, OneReply, InTime
<1> QED
  BY <1>3, <1>6 DEF IInv

------------------------------------------------------------------------------
(* Theorems: the counters must be enough for the uplinks *)

LEMMA Invariant ==
    ASSUME MaxUplinks <= CounterValues
    PROVE  Spec => []IInv
<1>1. Init => IInv
  BY InitHolds
<1>2. IInv /\ [Next]_vars => IInv'
  <2> SUFFICES ASSUME IInv, [Next]_vars  PROVE IInv'
    OBVIOUS
  <2>1. CASE \E requests \in RequestSets, heard \in Heards, retx \in BOOLEAN :
                 Uplink(requests, heard, retx)
    BY <2>1, UplinkStep, RequestAssumption
  <2>2. CASE \E c \in copies : CopyArrives(c)
    BY <2>2, CopyStep
  <2>3. CASE RunOpportunity
    BY <2>3, OpportunityStep
  <2>4. CASE Tick
    BY <2>4, TickStep
  <2>5. CASE UNCHANGED vars
    BY <2>5, StutterStep
  <2> QED
    BY <2>1, <2>2, <2>3, <2>4, <2>5 DEF Next
<1> QED
  BY <1>1, <1>2, PTL DEF Spec

\* The status keeps its types: in particular, the scheduler never waits for a
\* third window (NetworkScheduler::OnReceiveWindowOpportunity).
THEOREM TypeCorrect ==
    ASSUME MaxUplinks <= CounterValues
    PROVE  Spec => []TypeOK
<1>1. IInv => TypeOK
  BY DEF IInv
<1> QED
  BY <1>1, Invariant, PTL

\* What leaves in a downlink answers the last uplink and nothing before it, as
\* far as the server can tell them apart: of uplinks that a retransmission made
\* share a counter, the gateway is one that heard any of them, and the link check
\* is that of the first it heard of (EndDeviceStatus::InsertReceivedPacket,
\* GetCompleteReplyPacket, NetworkStatus::GetBestGatewayForDevice).
THEOREM RepliesFit ==
    ASSUME MaxUplinks <= CounterValues
    PROVE  Spec => []ReplyFitsUplink
<1>1. IInv => ReplyFitsUplink
  <2> SUFFICES ASSUME IInv, NEW r \in Sent(status)
               PROVE  /\ r.fCnt = FCnt(r.to)
                      /\ r.ack <=> "confirmed" \in RequestsOf(r)
                      /\ r.linkCheckAns => "linkCheckReq" \in RequestsOf(r)
                      /\ \E m \in 1 .. r.to :
                            /\ FiledUnder(m, r.to)
                            /\ r.linkCheckAns <=> "linkCheckReq" \in uplinks[m].requests
                      /\ \E m \in Sharing(r.to) : r.gateway \in DOMAIN uplinks[m].heard
    BY DEF ReplyFitsUplink, AllReplies, Sent
  <2>1. FitsOne(r, uplinks) /\ r.to \in Nat
    BY DEF IInv, Good, Fits, DecidedLate
  <2>2. \A m \in 1 .. r.to : Filed(uplinks, m, r.to) => FiledUnder(m, r.to)
    BY <2>1 DEF Filed, FiledUnder, Sharing, FCnt
  <2>3. HeardBy(uplinks, r.gateway, r.to, r.to) =>
            \E m \in Sharing(r.to) : r.gateway \in DOMAIN uplinks[m].heard
    BY DEF HeardBy, Sharing, FCnt
  <2> QED
    BY <2>1, <2>2, <2>3 DEF FitsOne, FCnt, RequestsOf
<1> QED
  BY <1>1, Invariant, PTL

\* However many copies of an uplink arrive, and however the two opportunities
\* go, one downlink at most answers it, and none after the server gave up.
THEOREM OneReplyEach ==
    ASSUME MaxUplinks <= CounterValues
    PROVE  Spec => []OneReplyIfAsked
<1>1. IInv => OneReplyIfAsked
  BY DEF IInv, Good, OneReply, OneReplyIfAsked, AllReplies, Sent, RequestsOf
<1> QED
  BY <1>1, Invariant, PTL

\* A downlink leaves in time for the window it is meant for, whatever the delays
\* of the copies (NetworkScheduler::OnReceivedPacket).
THEOREM RepliesInTime ==
    ASSUME MaxUplinks <= CounterValues
    PROVE  Spec => []ReplyInTime
<1>1. IInv => ReplyInTime
  BY DEF IInv, Good, InTime, ReplyInTime, AllReplies, Sent
<1> QED
  BY <1>1, Invariant, PTL
==============================================================================
