------------------------ MODULE ImageTransfer_proofs ------------------------
(***************************************************************************)
(* Proofs about ImageTransfer, for every image and chunk size, every timer *)
(* setting and every bound on the losses.                                  *)
(***************************************************************************)
EXTENDS ImageTransfer, FiniteSetTheorems, TLAPS

(* Chunking *)

LEMMA NumChunksFact ==
    /\ NumChunks \in Nat \ {0}
    /\ ImageSize <= NumChunks * ChunkSize
    /\ (NumChunks - 1) * ChunkSize < ImageSize
  <1>. DEFINE x == ImageSize + ChunkSize - 1
  <1>1. ImageSize \in Nat /\ ChunkSize \in Nat /\ ImageSize >= 1 /\ ChunkSize >= 1
    BY SizeAssumption
  <1>2. /\ NumChunks \in Int
        /\ x = NumChunks * ChunkSize + (x % ChunkSize)
        /\ x % ChunkSize \in 0 .. ChunkSize - 1
    BY <1>1 DEF NumChunks
  <1>3. NumChunks * ChunkSize \in Int
    BY <1>1, <1>2
  <1>4. NumChunks * ChunkSize >= ImageSize /\ NumChunks * ChunkSize <= ImageSize + ChunkSize - 1
    BY <1>1, <1>2, <1>3
  <1>5. NumChunks >= 1
    BY <1>1, <1>2, <1>4
  <1>6. (NumChunks - 1) * ChunkSize = NumChunks * ChunkSize - ChunkSize
    BY <1>1, <1>2
  <1>. QED  BY <1>1, <1>2, <1>3, <1>4, <1>5, <1>6

LEMMA ChunkFact == IsFiniteSet(Chunk) /\ Cardinality(Chunk) = NumChunks /\ Chunk # {}
  <1>1. NumChunks \in Nat \ {0} /\ 0 \in Int /\ NumChunks - 1 \in Int
    BY NumChunksFact
  <1>2. IsFiniteSet(0 .. NumChunks - 1)
        /\ Cardinality(0 .. NumChunks - 1)
             = IF 0 > NumChunks - 1 THEN 0 ELSE (NumChunks - 1) - 0 + 1
    BY <1>1, FS_Interval
  <1>. QED  BY <1>1, <1>2 DEF Chunk

\* The packets of an image carry bytes of the image only.
LEMMA PayloadFact == \A c \in Chunk : Payload(c) \subseteq 0 .. ImageSize - 1
  <1>. SUFFICES ASSUME NEW c \in Chunk
                PROVE  Payload(c) \subseteq 0 .. ImageSize - 1
    OBVIOUS
  <1>1. ImageSize \in Nat /\ ChunkSize \in Nat /\ ImageSize >= 1 /\ ChunkSize >= 1
    BY SizeAssumption
  <1>2. c \in Nat /\ c * ChunkSize \in Nat
    BY <1>1, NumChunksFact DEF Chunk
  <1>. QED  BY <1>1, <1>2 DEF Payload, SmallerOf

\* Together they carry every byte of it.
LEMMA PayloadsCover == UNION { Payload(c) : c \in Chunk } = 0 .. ImageSize - 1
  <1>1. ImageSize \in Nat /\ ChunkSize \in Nat /\ ImageSize >= 1 /\ ChunkSize >= 1
    BY SizeAssumption
  <1>2. ASSUME NEW b \in 0 .. ImageSize - 1
        PROVE  \E c \in Chunk : b \in Payload(c)
    <2>. DEFINE c == b \div ChunkSize
    <2>1. /\ c \in Int /\ c * ChunkSize \in Int
          /\ b = c * ChunkSize + (b % ChunkSize)
          /\ b % ChunkSize \in 0 .. ChunkSize - 1
      BY <1>1
    <2>2. c >= 0
      BY <1>1, <2>1
    <2>3. c < NumChunks
      <3>1. ASSUME c >= NumChunks PROVE FALSE
        <4>1. c * ChunkSize >= NumChunks * ChunkSize
          BY <1>1, <2>1, <3>1, NumChunksFact
        <4>. QED  BY <4>1, <1>1, <2>1, NumChunksFact
      <3>. QED  BY <3>1, <2>1, NumChunksFact
    <2>4. c \in Chunk
      BY <2>1, <2>2, <2>3, NumChunksFact DEF Chunk
    <2>5. b \in Payload(c)
      <3>. HIDE DEF c
      <3>. QED  BY <1>1, <2>1 DEF Payload, SmallerOf
    <2>. QED  BY <2>4, <2>5
  <1>. QED  BY <1>2, PayloadFact

------------------------------------------------------------------------------
(* The inductive invariant *)

\* Before SendChunks nothing has been sent; a scheduled SendChunk has a chunk
\* to send, and the check is armed only afterwards.
SenderPhase ==
    /\ ~started => /\ sendTimer # Off /\ checkTimer = Off /\ ~senderDone
                   /\ m_pendingChunks = {} /\ acks = {} /\ Have = {}
                   /\ nextChunk = 0
                   /\ \A c \in Chunk : data[c] = 0
    /\ sendTimer # Off => nextChunk < NumChunks
    /\ senderDone => m_pendingChunks = {}

\* An ACK in flight names stored chunks only.
AcksAreTrue == \A a \in acks : a.seqNums \subseteq Have

\* The receiver's flag, its file and its timer agree with its chunks.
ReceiverPhase ==
    /\ m_complete <=> Have = Chunk
    /\ savedImage = IF m_complete THEN SaveImage(m_chunks) ELSE {}
    /\ ackTimer = Off => m_complete

IInv == TypeOK /\ SenderPhase /\ AcksAreTrue /\ ReceiverPhase /\ AckedIsStored
               /\ FinalAckSuffices

\* A whole set of chunks is a whole image.
LEMMA WholeImage ==
    ASSUME m_chunks = [c \in Have |-> Payload(c)], Have = Chunk
    PROVE  SaveImage(m_chunks) = 0 .. ImageSize - 1
  <1>1. SaveImage(m_chunks) = UNION { Payload(c) : c \in Chunk }
    BY DEF SaveImage, Have
  <1>. QED  BY <1>1, PayloadsCover

LEMMA AllReceivedFact ==
    ASSUME NEW S \in SUBSET Chunk
    PROVE  /\ AllReceived(S) <=> S = Chunk
           /\ Cardinality(S) \in Nat
  <1>1. IsFiniteSet(S) /\ Cardinality(S) \in Nat /\ (Cardinality(S) = Cardinality(Chunk) => S = Chunk)
    BY ChunkFact, FS_Subset, FS_CardinalityType
  <1>. QED  BY <1>1, ChunkFact DEF AllReceived

LEMMA InitInv == Init => IInv
  <1>. SUFFICES ASSUME Init PROVE IInv
    OBVIOUS
  <1>. USE DEF Init
  <1>1. NumChunks \in Nat /\ NumChunks > 0 /\ Chunk # {}
    BY NumChunksFact, ChunkFact
  <1>2. Have = {}
    BY DEF Have
  <1>3. TypeOK
    <2>1. m_chunks = [c \in Have |-> Payload(c)]
      BY <1>2
    <2>2. data \in [Chunk -> Nat] /\ nextChunk \in 0 .. NumChunks
      BY <1>1
    <2>3. sendTimer \in Timer /\ checkTimer \in Timer /\ ackTimer \in Timer
      BY TimerAssumption DEF Timer, Off
    <2>4. served \in 0 .. LinkRate /\ losses \in 0 .. MaxLosses
      BY LinkAssumption
    <2>5. g_metrics \in [chunksSent : Nat, retransmissions : Nat, acksSent : Nat,
                         acksReceived : Nat, chunksReceived : Nat]
      OBVIOUS
    <2>. HIDE DEF Init
    <2>6. Init => /\ started \in BOOLEAN /\ senderDone \in BOOLEAN /\ m_complete \in BOOLEAN
                  /\ m_pendingChunks = {} /\ acks = {} /\ savedImage = {}
      BY DEF Init
    <2>. QED  BY <1>2, <2>1, <2>2, <2>3, <2>4, <2>5, <2>6 DEF TypeOK
  <1>4. SenderPhase
    BY <1>1, <1>2, TimerAssumption DEF SenderPhase, Off
  <1>5. ReceiverPhase
    BY <1>1, <1>2, TimerAssumption DEF ReceiverPhase, Off
  <1>6. AcksAreTrue /\ AckedIsStored /\ FinalAckSuffices
    BY DEF AcksAreTrue, AckedIsStored, FinalAckSuffices
  <1>. QED  BY <1>3, <1>4, <1>5, <1>6 DEF IInv

(* One lemma per action: the steps of a proof follow the conjuncts of IInv *)

LEMMA SendChunksInv == ASSUME IInv, SendChunks PROVE IInv'
  <1>. USE DEF SendChunks, linkVars, receiverVars
  <1>1. NumChunks \in Nat /\ NumChunks > 0 /\ Chunk # {} /\ NumChunks * ChunkDelay \in Nat
    BY NumChunksFact, ChunkFact, TimerAssumption
  <1>2. Have' = Have
    BY DEF Have
  <1>3. TypeOK'
    <2>1. checkTimer' \in Nat
      BY <1>1, TimerAssumption
    <2>. QED  BY <1>1, <1>2, <2>1 DEF IInv, TypeOK, Timer
  <1>4. SenderPhase'
    BY <1>1, <1>2 DEF IInv, TypeOK, SenderPhase, Off
  <1>5. AcksAreTrue' /\ ReceiverPhase'
    BY <1>2 DEF IInv, AcksAreTrue, ReceiverPhase
  <1>6. AckedIsStored'
    BY <1>2 DEF AckedIsStored
  <1>7. FinalAckSuffices'
    BY <1>1 DEF IInv, FinalAckSuffices, SenderPhase, ReceiverPhase
  <1>. QED  BY <1>3, <1>4, <1>5, <1>6, <1>7 DEF IInv

LEMMA SendChunkInv == ASSUME IInv, SendChunk PROVE IInv'
  <1>. USE DEF SendChunk, receiverVars
  <1>1. NumChunks \in Nat /\ Off # 0 /\ nextChunk \in Chunk /\ nextChunk \in Nat
    BY NumChunksFact DEF IInv, TypeOK, SenderPhase, Chunk, Off
  <1>2. Have' = Have
    BY DEF Have
  <1>3. TypeOK'
    <2>1. data' \in [Chunk -> Nat] /\ nextChunk' \in 0 .. NumChunks
      BY <1>1 DEF IInv, TypeOK, Chunk
    <2>2. sendTimer' \in Timer
      BY TimerAssumption DEF Timer
    <2>3. g_metrics' \in [chunksSent : Nat, retransmissions : Nat, acksSent : Nat,
                          acksReceived : Nat, chunksReceived : Nat]
      BY DEF IInv, TypeOK
    <2>. QED  BY <1>2, <2>1, <2>2, <2>3 DEF IInv, TypeOK
  <1>4. SenderPhase'
    BY <1>1 DEF IInv, SenderPhase
  <1>5. AcksAreTrue' /\ ReceiverPhase' /\ AckedIsStored' /\ FinalAckSuffices'
    BY <1>2 DEF IInv, AcksAreTrue, ReceiverPhase, AckedIsStored, FinalAckSuffices
  <1>. QED  BY <1>3, <1>4, <1>5 DEF IInv

LEMMA TransferCompleteInv == ASSUME IInv, TransferComplete PROVE IInv'
  <1>. USE DEF TransferComplete, linkVars, receiverVars
  <1>1. Have' = Have /\ started
    BY DEF Have, IInv, SenderPhase, Off
  <1>2. TypeOK'
    BY <1>1 DEF IInv, TypeOK, Timer
  <1>3. SenderPhase'
    BY <1>1 DEF IInv, SenderPhase
  <1>4. AcksAreTrue' /\ ReceiverPhase' /\ AckedIsStored' /\ FinalAckSuffices'
    BY <1>1 DEF IInv, AcksAreTrue, ReceiverPhase, AckedIsStored, FinalAckSuffices
  <1>. QED  BY <1>2, <1>3, <1>4 DEF IInv

LEMMA RetransmitInv == ASSUME IInv, Retransmit PROVE IInv'
  <1>. USE DEF Retransmit, receiverVars
  <1>1. Have' = Have /\ started /\ Cardinality(ResendSet) \in Nat
    BY AllReceivedFact DEF Have, IInv, SenderPhase, TypeOK, ResendSet, Off
  <1>2. TypeOK'
    <2>1. data' \in [Chunk -> Nat]
      BY DEF IInv, TypeOK
    <2>2. checkTimer' \in Timer
      BY TimerAssumption DEF Timer, NextCheck
    <2>3. g_metrics' \in [chunksSent : Nat, retransmissions : Nat, acksSent : Nat,
                          acksReceived : Nat, chunksReceived : Nat]
      <3>. DEFINE k == Cardinality(ResendSet)
      <3>1. k \in Nat
        BY <1>1
      <3>. DEFINE g == [g_metrics EXCEPT !.chunksSent = @ + k]
      <3>2. g_metrics' = [g EXCEPT !.retransmissions = @ + k]
        BY DEF IInv, TypeOK
      <3>. HIDE DEF k
      <3>3. g \in [chunksSent : Nat, retransmissions : Nat, acksSent : Nat,
                   acksReceived : Nat, chunksReceived : Nat]
        BY <3>1 DEF IInv, TypeOK
      <3>. HIDE DEF g
      <3>. QED  BY <3>1, <3>2, <3>3
    <2>. QED  BY <1>1, <2>1, <2>2, <2>3 DEF IInv, TypeOK
  <1>3. SenderPhase'
    BY <1>1 DEF IInv, SenderPhase
  <1>4. AcksAreTrue' /\ ReceiverPhase' /\ AckedIsStored' /\ FinalAckSuffices'
    BY <1>1 DEF IInv, AcksAreTrue, ReceiverPhase, AckedIsStored, FinalAckSuffices
  <1>. QED  BY <1>2, <1>3, <1>4 DEF IInv

LEMMA SendAcksInv == ASSUME IInv, SendAcks PROVE IInv'
  <1>. USE DEF SendAcks, senderVars, NextAck, AckedChunks
  <1>1. Have' = Have /\ Have \subseteq Chunk
    BY DEF Have, IInv, TypeOK
  <1>2. TypeOK'
    <2>1. acks' \subseteq [seqNums : SUBSET Chunk, left : 0 .. AckDelay]
      BY <1>1, LinkAssumption DEF IInv, TypeOK
    <2>2. ackTimer' \in Timer
      BY TimerAssumption DEF Timer
    <2>3. g_metrics' \in [chunksSent : Nat, retransmissions : Nat, acksSent : Nat,
                          acksReceived : Nat, chunksReceived : Nat]
      BY DEF IInv, TypeOK
    <2>. QED  BY <1>1, <2>1, <2>2, <2>3 DEF IInv, TypeOK
  <1>3. SenderPhase' /\ AcksAreTrue' /\ AckedIsStored'
    BY <1>1 DEF IInv, SenderPhase, AcksAreTrue, AckedIsStored
  <1>4. ReceiverPhase'
    BY <1>1, TimerAssumption DEF IInv, ReceiverPhase, Off
  <1>5. FinalAckSuffices'
    <2>. SUFFICES ASSUME ackTimer' = Off
                  PROVE  \E a \in acks' : m_pendingChunks \subseteq a.seqNums
      BY DEF FinalAckSuffices
    <2>1. m_complete /\ Have = Chunk /\ Have # {}
      BY TimerAssumption, ChunkFact DEF Off, IInv, ReceiverPhase
    <2>2. [seqNums |-> Have, left |-> AckDelay] \in acks'
      BY <2>1
    <2>. QED  BY <2>1, <2>2 DEF IInv, TypeOK
  <1>. QED  BY <1>2, <1>3, <1>4, <1>5 DEF IInv

LEMMA ReceiveChunkInv ==
    ASSUME IInv, NEW c \in Chunk, ReceiveChunk(c)
    PROVE  IInv'
  <1>. USE DEF ReceiveChunk, LeaveLink, senderVars
  <1>1. /\ Have \subseteq Chunk /\ Have' = Have \cup {c}
        /\ m_chunks' = [k \in Have' |-> Payload(k)]
    <2>1. CASE c \in Have
      BY <2>1 DEF StoreChunk, Have, IInv, TypeOK
    <2>2. CASE c \notin Have
      BY <2>2 DEF StoreChunk, Have, IInv, TypeOK
    <2>. QED  BY <2>1, <2>2
  <1>2. started
    BY DEF IInv, SenderPhase
  <1>3. ReceiverPhase' /\ (m_complete => savedImage' = savedImage)
    <2>1. CASE c \in Have
      BY <1>1, <2>1 DEF StoreChunk, IInv, ReceiverPhase
    <2>2. CASE c \notin Have
      <3>1. m_complete = FALSE /\ savedImage = {} /\ Have # Chunk
        BY <2>2 DEF IInv, ReceiverPhase, TypeOK
      <3>2. CASE AllReceived(Have \cup {c})
        <4>1. Have' = Chunk
          BY <1>1, <3>2, AllReceivedFact
        <4>2. m_complete' = TRUE /\ savedImage' = SaveImage(m_chunks')
          BY <2>2, <3>2 DEF StoreChunk
        <4>. QED  BY <3>1, <4>1, <4>2 DEF ReceiverPhase
      <3>3. CASE ~AllReceived(Have \cup {c})
        <4>1. Have' # Chunk
          BY <1>1, <3>3, AllReceivedFact
        <4>2. m_complete' = m_complete /\ savedImage' = savedImage
          BY <2>2, <3>3 DEF StoreChunk
        <4>. QED  BY <3>1, <4>1, <4>2 DEF ReceiverPhase, IInv
      <3>. QED  BY <3>2, <3>3
    <2>. QED  BY <2>1, <2>2
  <1>4. TypeOK'
    <2>1. data' \in [Chunk -> Nat] /\ served' \in 0 .. LinkRate
      BY LinkAssumption DEF IInv, TypeOK, SmallerOf
    <2>2. g_metrics' \in [chunksSent : Nat, retransmissions : Nat, acksSent : Nat,
                          acksReceived : Nat, chunksReceived : Nat]
      BY DEF IInv, TypeOK, StoreChunk
    <2>3. m_complete' \in BOOLEAN
      BY DEF IInv, TypeOK, StoreChunk
    <2>4. savedImage' \subseteq 0 .. ImageSize - 1
      <3>1. SaveImage(m_chunks') \subseteq 0 .. ImageSize - 1
        <4>1. Have' \subseteq Chunk /\ DOMAIN m_chunks' = Have'
          BY <1>1
        <4>2. \A k \in Have' : m_chunks'[k] = Payload(k)
          BY <1>1
        <4>. QED  BY <4>1, <4>2, PayloadFact DEF SaveImage
      <3>. QED  BY <1>3, <3>1 DEF ReceiverPhase
    <2>. QED  BY <1>1, <2>1, <2>2, <2>3, <2>4 DEF IInv, TypeOK
  <1>5. SenderPhase' /\ AcksAreTrue' /\ AckedIsStored' /\ FinalAckSuffices'
    BY <1>1, <1>2 DEF IInv, SenderPhase, AcksAreTrue, AckedIsStored, FinalAckSuffices
  <1>. QED  BY <1>3, <1>4, <1>5 DEF IInv

LEMMA LoseChunkInv ==
    ASSUME IInv, NEW c \in Chunk, LoseChunk(c)
    PROVE  IInv'
  <1>. USE DEF LoseChunk, LeaveLink, senderVars, receiverVars
  <1>1. Have' = Have /\ started
    BY DEF Have, IInv, SenderPhase
  <1>2. TypeOK'
    <2>1. data' \in [Chunk -> Nat] /\ served' \in 0 .. LinkRate /\ losses' \in 0 .. MaxLosses
      BY LinkAssumption DEF IInv, TypeOK, SmallerOf
    <2>. QED  BY <1>1, <2>1 DEF IInv, TypeOK
  <1>3. SenderPhase' /\ AcksAreTrue' /\ ReceiverPhase' /\ AckedIsStored' /\ FinalAckSuffices'
    BY <1>1 DEF IInv, SenderPhase, AcksAreTrue, ReceiverPhase, AckedIsStored, FinalAckSuffices
  <1>. QED  BY <1>2, <1>3 DEF IInv

LEMMA ReceiveAckInv ==
    ASSUME IInv, NEW a \in acks, ReceiveAck(a)
    PROVE  IInv'
  <1>. USE DEF ReceiveAck, receiverVars
  <1>1. Have' = Have /\ a.seqNums \subseteq Have /\ a.seqNums \subseteq Chunk /\ started
    BY DEF Have, IInv, AcksAreTrue, SenderPhase, TypeOK
  <1>2. TypeOK'
    <2>1. Cardinality(a.seqNums) \in Nat
      BY <1>1, AllReceivedFact
    <2>2. g_metrics' \in [chunksSent : Nat, retransmissions : Nat, acksSent : Nat,
                          acksReceived : Nat, chunksReceived : Nat]
      <3>. DEFINE k == Cardinality(a.seqNums)
      <3>1. g_metrics' = [g_metrics EXCEPT !.acksReceived = @ + k]
        OBVIOUS
      <3>. HIDE DEF k
      <3>. QED  BY <2>1, <3>1 DEF IInv, TypeOK, k
    <2>. QED  BY <1>1, <2>2 DEF IInv, TypeOK
  <1>3. SenderPhase' /\ AcksAreTrue' /\ ReceiverPhase' /\ AckedIsStored'
    BY <1>1 DEF IInv, SenderPhase, AcksAreTrue, ReceiverPhase, AckedIsStored
  <1>4. FinalAckSuffices'
    <2>. SUFFICES ASSUME ackTimer' = Off, m_pendingChunks' # {}
                  PROVE  \E b \in acks' : m_pendingChunks' \subseteq b.seqNums
      BY DEF FinalAckSuffices
    <2>1. PICK b \in acks : m_pendingChunks \subseteq b.seqNums
      BY DEF IInv, FinalAckSuffices
    <2>2. b # a
      BY <2>1
    <2>. QED  BY <2>1, <2>2
  <1>. QED  BY <1>2, <1>3, <1>4 DEF IInv

LEMMA TickInv == ASSUME IInv, Tick PROVE IInv'
  <1>. USE DEF Tick
  <1>1. Have' = Have
    BY DEF Have
  <1>2. \A t \in Timer : /\ Countdown(t) \in Timer
                         /\ Countdown(t) = Off <=> t = Off
    BY DEF Countdown, Timer, Off
  <1>3. \A a \in acks : /\ [a EXCEPT !.left = @ - 1] \in [seqNums : SUBSET Chunk, left : 0 .. AckDelay]
                        /\ [a EXCEPT !.left = @ - 1].seqNums = a.seqNums
    BY LinkAssumption DEF IInv, TypeOK
  <1>4. TypeOK'
    BY <1>1, <1>2, <1>3, LinkAssumption DEF IInv, TypeOK
  <1>5. SenderPhase'
    BY <1>1, <1>2 DEF IInv, SenderPhase, TypeOK
  <1>6. AcksAreTrue' /\ ReceiverPhase' /\ AckedIsStored'
    BY <1>1, <1>2, <1>3 DEF IInv, AcksAreTrue, ReceiverPhase, AckedIsStored, TypeOK
  <1>7. FinalAckSuffices'
    <2>. SUFFICES ASSUME ackTimer' = Off, m_pendingChunks' # {}
                  PROVE  \E b \in acks' : m_pendingChunks' \subseteq b.seqNums
      BY DEF FinalAckSuffices
    <2>1. ackTimer = Off
      BY <1>2 DEF IInv, TypeOK
    <2>2. PICK a \in acks : m_pendingChunks \subseteq a.seqNums
      BY <2>1 DEF IInv, FinalAckSuffices
    <2>. QED  BY <1>3, <2>2
  <1>. QED  BY <1>4, <1>5, <1>6, <1>7 DEF IInv

LEMMA StutterInv == ASSUME IInv, UNCHANGED vars PROVE IInv'
  <1>1. Have' = Have
    BY DEF vars, receiverVars, Have
  <1>. QED
    BY <1>1 DEF vars, senderVars, linkVars, receiverVars, IInv, TypeOK, SenderPhase,
                AcksAreTrue, ReceiverPhase, AckedIsStored, FinalAckSuffices

LEMMA NextInv == IInv /\ [Next]_vars => IInv'
  <1>. SUFFICES ASSUME IInv, [Next]_vars PROVE IInv'
    OBVIOUS
  <1>. QED
    BY SendChunksInv, SendChunkInv, TransferCompleteInv, RetransmitInv, SendAcksInv,
       ReceiveChunkInv, LoseChunkInv, ReceiveAckInv, TickInv, StutterInv DEF Next

LEMMA InductiveInvariant == Spec => []IInv
  BY InitInv, NextInv, PTL DEF Spec

------------------------------------------------------------------------------
(* Safety *)

\* The variables of the two applications and of the link keep their types.
THEOREM TypeCorrect == Spec => []TypeOK
  BY InductiveInvariant, PTL DEF IInv

\* No acknowledgement runs ahead of the receiver: what HandleRead of the
\* sender erases from m_pendingChunks is in the receiver's m_chunks.
THEOREM AckedStored == Spec => []AckedIsStored
  BY InductiveInvariant, PTL DEF IInv

\* SendAcks may stop rescheduling itself: the last ACK covers every chunk the
\* sender still waits for.
THEOREM FinalAckCovers == Spec => []FinalAckSuffices
  BY InductiveInvariant, PTL DEF IInv

LEMMA CompleteIsWhole ==
    ASSUME IInv
    PROVE  /\ m_complete => savedImage = 0 .. ImageSize - 1
           /\ ~m_complete => savedImage = {} /\ savedImage # 0 .. ImageSize - 1
  <1>1. m_complete => savedImage = 0 .. ImageSize - 1
    BY WholeImage DEF IInv, TypeOK, ReceiverPhase
  <1>2. ~m_complete => savedImage = {}
    BY DEF IInv, ReceiverPhase
  <1>3. 0 \in 0 .. ImageSize - 1
    BY SizeAssumption
  <1>. QED  BY <1>1, <1>2, <1>3

LEMMA DoneIsComplete == IInv => (senderDone => started /\ Confirmed = Chunk /\ m_complete)
  <1>. SUFFICES ASSUME IInv, senderDone
                PROVE  started /\ Confirmed = Chunk /\ m_complete
    OBVIOUS
  <1>1. started /\ m_pendingChunks = {}
    BY DEF IInv, SenderPhase
  <1>2. Have = Chunk
    BY <1>1 DEF IInv, TypeOK, AckedIsStored
  <1>. QED  BY <1>1, <1>2 DEF Confirmed, IInv, ReceiverPhase

\* The sender reports "Transfer complete!" only when the receiver has written
\* every byte of the image to its file, at its place.
THEOREM DoneSaved == Spec => []DoneMeansSaved
  <1>1. IInv => DoneMeansSaved
    BY DoneIsComplete, CompleteIsWhole DEF DoneMeansSaved
  <1>. QED  BY <1>1, InductiveInvariant, PTL

------------------------------------------------------------------------------
(* Refinement *)

LEMMA PromiseInit == Init => Promise!Init
  <1>1. 0 \in 0 .. ImageSize - 1
    BY SizeAssumption
  <1>. QED  BY <1>1 DEF Init, Promise!Init, Have, Confirmed, ImageFile

\* The file is absent until the receiver has every chunk, then whole.
FileFollowsFlag == ImageFile = (IF m_complete THEN "whole" ELSE "absent")

LEMMA FileNow == IInv => FileFollowsFlag
  BY CompleteIsWhole DEF ImageFile, FileFollowsFlag

LEMMA FileNext == IInv' => FileFollowsFlag'
  BY FileNow, PTL

LEMMA PromiseStep == IInv /\ IInv' /\ [Next]_vars => [Promise!Next]_(Promise!vars)
  <1>. SUFFICES ASSUME IInv, IInv', [Next]_vars
                PROVE  Promise!Next \/ UNCHANGED Promise!vars
    OBVIOUS
  <1>0. ImageFile = (IF m_complete THEN "whole" ELSE "absent")
        /\ ImageFile' = (IF m_complete' THEN "whole" ELSE "absent")
    BY FileNow, FileNext DEF FileFollowsFlag
  <1>. USE DEF Promise!vars
  <1>1. CASE SendChunks
    BY <1>0, <1>1 DEF SendChunks, linkVars, receiverVars, Confirmed, Have, IInv, SenderPhase
  <1>2. CASE SendChunk
    BY <1>0, <1>2 DEF SendChunk, receiverVars, Confirmed, Have
  <1>3. CASE TransferComplete
    <2>1. /\ UNCHANGED <<Have, ImageFile, Confirmed>>
          /\ senderDone'
      BY <1>0, <1>3 DEF TransferComplete, receiverVars, Have, Confirmed
    <2>2. Confirmed = Chunk
      BY <2>1, <1>3 DEF TransferComplete, Confirmed, IInv, SenderPhase, Off
    <2>. QED  BY <2>1, <2>2, <1>3 DEF TransferComplete, Promise!Next, Promise!Finish
  <1>4. CASE Retransmit
    BY <1>0, <1>4 DEF Retransmit, receiverVars, Confirmed, Have
  <1>5. CASE SendAcks
    BY <1>0, <1>5 DEF SendAcks, senderVars, Confirmed, Have
  <1>6. ASSUME NEW c \in Chunk, ReceiveChunk(c)
        PROVE  Promise!Next \/ UNCHANGED Promise!vars
    <2>1. UNCHANGED <<Confirmed, senderDone>>
      BY <1>6 DEF ReceiveChunk, senderVars, Confirmed
    <2>2. CASE c \in Have
      BY <1>0, <1>6, <2>1, <2>2 DEF ReceiveChunk, StoreChunk, Have
    <2>3. CASE c \notin Have
      <3>1. Have' = Have \cup {c}
        BY <1>6, <2>3 DEF ReceiveChunk, StoreChunk, Have
      <3>2. ~m_complete /\ (m_complete' <=> Have' = Chunk)
        BY <2>3 DEF IInv, ReceiverPhase
      <3>. QED  BY <1>0, <2>1, <2>3, <3>1, <3>2 DEF Promise!Next, Promise!Store
    <2>. QED  BY <2>2, <2>3
  <1>7. ASSUME NEW c \in Chunk, LoseChunk(c)
        PROVE  Promise!Next \/ UNCHANGED Promise!vars
    BY <1>0, <1>7 DEF LoseChunk, senderVars, receiverVars, Confirmed, Have
  <1>8. ASSUME NEW a \in acks, ReceiveAck(a)
        PROVE  Promise!Next \/ UNCHANGED Promise!vars
    <2>1. UNCHANGED <<Have, ImageFile, senderDone>>
      BY <1>0, <1>8 DEF ReceiveAck, receiverVars, Have
    <2>2. started /\ started' /\ a.seqNums \subseteq Have /\ a.seqNums \subseteq Chunk
      BY <1>8 DEF ReceiveAck, IInv, SenderPhase, AcksAreTrue, TypeOK
    <2>3. Confirmed' = Confirmed \cup a.seqNums
      BY <1>8, <2>2 DEF ReceiveAck, Confirmed
    <2>. QED  BY <2>1, <2>2, <2>3 DEF Promise!Next, Promise!Confirm
  <1>9. CASE Tick
    BY <1>0, <1>9 DEF Tick, Confirmed, Have
  <1>10. CASE UNCHANGED vars
    BY <1>0, <1>10 DEF vars, senderVars, linkVars, receiverVars, Confirmed, Have
  <1>. QED
    BY <1>1, <1>2, <1>3, <1>4, <1>5, <1>6, <1>7, <1>8, <1>9, <1>10 DEF Next

\* The protocol implements its promise (safety): under any losses, every step
\* of the two applications stores a new chunk, confirms stored ones, stops
\* with everything confirmed, or changes nothing that the promise speaks of.
THEOREM ImplementsReliableTransfer == Spec => ImplementsPromise
  BY PromiseInit, PromiseStep, InductiveInvariant, PTL DEF Spec, ImplementsPromise, Promise!Spec

------------------------------------------------------------------------------
(* Retransmissions: no check comes before the ACK of what was delivered        *)

\* Slots from the arrival of a packet to that of an ACK that names it.
AckTrip == AckInterval + AckDelay

\* A check sends again at most the chunks there are and the packets that the
\* link may lose. Between two checks the link carries as many, and the last of
\* them is acknowledged. With a shorter ACK_TIMEOUT the sender repeats what has
\* arrived already.
Burst == SmallerOf(NumChunks, MaxLosses)
ChecksAreLate == /\ AckTrip <= AckTimeout
                 /\ Burst <= LinkRate * (AckTimeout - AckTrip)

Flying == { c \in Chunk : data[c] > 0 }
Missing == { c \in Chunk : c < nextChunk /\ c \notin Have /\ data[c] = 0 }
Unacked == m_pendingChunks \cap Have

\* One packet of a chunk at a time, and none once it has arrived; a chunk that
\* has been sent, is not in flight and has not arrived was lost, and that loss
\* has not been answered yet.
OneCopy == \A c \in Chunk : data[c] <= 1 /\ (data[c] = 1 => c \notin Have)
Unsent == \A c \in Chunk : c >= nextChunk => data[c] = 0 /\ c \notin Have
LossesCount == g_metrics.retransmissions + Cardinality(Missing) <= losses

\* What has arrived is acknowledged before the next check.
Covered == \/ Unacked = {}
           \/ \E a \in acks : Unacked \subseteq a.seqNums /\ a.left < checkTimer
           \/ ackTimer # Off /\ ackTimer + AckDelay < checkTimer

\* The clocks of both applications and of the link. In the first pass the link
\* is idle again when the next chunk is sent; after it, what is in flight can be
\* carried before there is too little time left for an ACK.
Clocks == /\ ~NoTimerDue => served = 0
          /\ ackTimer # Off => ackTimer <= AckInterval
FirstPass ==
    started /\ sendTimer # Off =>
        /\ checkTimer = AckTimeout + (NumChunks - nextChunk) * ChunkDelay + sendTimer
        /\ Cardinality(Flying) + served <= 1
        /\ sendTimer = 0 => Flying = {}
PassOver ==
    started /\ sendTimer = Off =>
        /\ nextChunk = NumChunks
        /\ Flying # {} => Cardinality(Flying) + served <= LinkRate * (checkTimer - AckTrip)
        /\ checkTimer # Off => Covered

Resends == OneCopy /\ Unsent /\ LossesCount /\ Clocks /\ FirstPass /\ PassOver

LEMMA SizeFact ==
    ASSUME NEW S \in SUBSET Chunk
    PROVE  /\ IsFiniteSet(S) /\ Cardinality(S) \in Nat /\ Cardinality(S) <= NumChunks
           /\ Cardinality(S) = 0 <=> S = {}
  BY ChunkFact, FS_Subset, FS_CardinalityType, FS_EmptySet

LEMMA LinkFact ==
    /\ LinkRate \in Nat /\ LinkRate >= 1 /\ AckDelay \in Nat /\ MaxLosses \in Nat
    /\ AckInterval \in Nat /\ AckTimeout \in Nat /\ AckTimeout >= 1
    /\ ChunkDelay \in Nat /\ ChunkDelay >= 1 /\ NumChunks \in Nat /\ NumChunks >= 1
    /\ AckTrip \in Nat /\ AckDelay <= AckTrip
  BY LinkAssumption, TimerAssumption, NumChunksFact DEF AckTrip

\* A check is still more than an ACK's way off: what arrives now is covered.
Early == checkTimer > AckTrip

LEMMA CoveredEarly == IInv /\ Clocks /\ Early => Covered
  <1>. SUFFICES ASSUME IInv, Clocks, checkTimer > AckTrip PROVE Covered
    BY DEF Early
  <1>1. checkTimer \in Int /\ ackTimer \in Int
    BY DEF IInv, TypeOK, Timer, Off
  <1>2. CASE ackTimer # Off
    BY <1>1, <1>2, LinkFact DEF Clocks, Covered, AckTrip
  <1>3. CASE ackTimer = Off
    <2>1. CASE m_pendingChunks = {}
      BY <2>1 DEF Covered, Unacked
    <2>2. ASSUME NEW a \in acks, m_pendingChunks \subseteq a.seqNums PROVE Covered
      <3>1. a.left \in 0 .. AckDelay
        BY DEF IInv, TypeOK
      <3>2. a.left < checkTimer
        BY <1>1, <3>1, LinkFact
      <3>. QED  BY <2>2, <3>2 DEF Covered, Unacked
    <2>. QED  BY <1>3, <2>1, <2>2 DEF IInv, FinalAckSuffices
  <1>. QED  BY <1>2, <1>3

LEMMA CoveredEarlyNext == IInv' /\ Clocks' /\ Early' => Covered'
  BY CoveredEarly, PTL

\* Packets are in flight only while a check is that far off.
LEMMA StillEarly ==
    ASSUME IInv, Resends, Flying # {}
    PROVE  checkTimer \in Nat /\ (sendTimer = Off => checkTimer > AckTrip)
  <1>. DEFINE f == Cardinality(Flying)
  <1>1. f \in Nat /\ f # 0
    BY SizeFact DEF Flying
  <1>2. started /\ served \in Nat /\ checkTimer \in Int /\ sendTimer \in Timer
    <2>1. started
      BY DEF IInv, SenderPhase, Flying
    <2>. QED  BY <2>1, LinkFact DEF IInv, TypeOK, Timer, Off
  <1>3. CASE sendTimer = Off
    <2>. DEFINE x == checkTimer - AckTrip
    <2>1. f + served <= LinkRate * x /\ x \in Int
      BY <1>2, <1>3, LinkFact DEF Resends, PassOver
    <2>. HIDE DEF f, x
    <2>2. LinkRate * x >= 1
      <3>1. LinkRate * x \in Int
        BY <2>1, LinkFact
      <3>. QED  BY <1>1, <1>2, <2>1, <3>1
    <2>3. x >= 1
      <3>1. ASSUME x <= 0 PROVE FALSE
        <4>1. LinkRate * x <= 0
          BY <2>1, <3>1, LinkFact
        <4>. QED  BY <2>1, <2>2, <4>1, LinkFact
      <3>. QED  BY <2>1, <3>1
    <2>. QED  BY <1>2, <1>3, <2>3, LinkFact DEF x
  <1>4. CASE sendTimer # Off
    <2>1. sendTimer \in Nat
      BY <1>2, <1>4 DEF Timer
    <2>2. (NumChunks - nextChunk) * ChunkDelay \in Nat
      <3>1. NumChunks - nextChunk \in Nat
        BY LinkFact DEF IInv, TypeOK
      <3>. QED  BY <3>1, LinkFact
    <2>3. checkTimer = AckTimeout + (NumChunks - nextChunk) * ChunkDelay + sendTimer
      BY <1>2, <1>4 DEF Resends, FirstPass
    <2>. QED  BY <1>4, <2>1, <2>2, <2>3, LinkFact
  <1>. QED  BY <1>3, <1>4

\* A check finds the first pass over, nothing in flight, and everything that
\* has arrived acknowledged.
LEMMA CheckFinds ==
    ASSUME IInv, Resends, checkTimer = 0
    PROVE  /\ started /\ sendTimer = Off /\ served = 0 /\ nextChunk = NumChunks
           /\ Flying = {} /\ Unacked = {}
  <1>1. started /\ sendTimer \in Timer
    BY DEF IInv, SenderPhase, TypeOK, Off
  <1>2. sendTimer = Off
    <2>1. ASSUME sendTimer # Off PROVE FALSE
      <3>1. sendTimer \in Nat
        BY <1>1, <2>1 DEF Timer
      <3>2. (NumChunks - nextChunk) * ChunkDelay \in Nat
        <4>1. NumChunks - nextChunk \in Nat
          BY LinkFact DEF IInv, TypeOK
        <4>. QED  BY <4>1, LinkFact
      <3>3. checkTimer = AckTimeout + (NumChunks - nextChunk) * ChunkDelay + sendTimer
        BY <1>1, <2>1 DEF Resends, FirstPass
      <3>. QED  BY <3>1, <3>2, <3>3, LinkFact
    <2>. QED  BY <2>1
  <1>3. Flying = {}
    BY <1>2, StillEarly, LinkFact
  <1>4. nextChunk = NumChunks /\ Covered
    BY <1>1, <1>2 DEF Resends, PassOver, Off
  <1>5. Unacked = {}
    <2>1. \A a \in acks : a.left \in Nat
      BY LinkFact DEF IInv, TypeOK
    <2>2. ackTimer # Off => ackTimer \in Nat
      BY DEF IInv, TypeOK, Timer
    <2>. QED  BY <1>4, <2>1, <2>2, LinkFact DEF Covered
  <1>6. served = 0
    BY DEF Resends, Clocks, NoTimerDue
  <1>. QED  BY <1>1, <1>2, <1>3, <1>4, <1>5, <1>6

(* One lemma per action: the steps follow the conjuncts of Resends *)

LEMMA SameFlight ==
    ASSUME Resends, UNCHANGED <<data, nextChunk, Have, losses, g_metrics.retransmissions>>
    PROVE  /\ Flying' = Flying /\ Missing' = Missing
           /\ OneCopy' /\ Unsent' /\ LossesCount'
  <1>1. Flying' = Flying /\ Missing' = Missing
    BY DEF Flying, Missing
  <1>2. OneCopy' /\ Unsent'
    BY DEF Resends, OneCopy, Unsent
  <1>3. LossesCount'
    BY <1>1 DEF Resends, LossesCount
  <1>. QED  BY <1>1, <1>2, <1>3

LEMMA InitResends == Init => Resends
  <1>. SUFFICES ASSUME Init PROVE Resends
    OBVIOUS
  <1>. USE DEF Init
  <1>1. Have = {} /\ Missing = {}
    BY LinkFact DEF Have, Missing, Chunk
  <1>2. OneCopy /\ Unsent
    BY <1>1 DEF OneCopy, Unsent
  <1>3. LossesCount
    BY <1>1, FS_EmptySet DEF LossesCount
  <1>4. Clocks /\ FirstPass /\ PassOver
    BY LinkFact DEF Clocks, FirstPass, PassOver
  <1>. QED  BY <1>2, <1>3, <1>4 DEF Resends

LEMMA SendChunksResends == ASSUME IInv, Resends, SendChunks PROVE Resends'
  <1>. USE DEF SendChunks, linkVars, receiverVars
  <1>1. Have' = Have /\ nextChunk' = nextChunk /\ served = 0
    BY DEF Have, IInv, SenderPhase, Resends, Clocks, NoTimerDue
  <1>2. OneCopy' /\ Unsent' /\ LossesCount' /\ Flying' = Flying
    BY <1>1, SameFlight
  <1>3. Flying = {}
    BY DEF IInv, SenderPhase, Flying
  <1>4. Clocks'
    BY <1>1 DEF Resends, Clocks
  <1>5. FirstPass'
    BY <1>1, <1>2, <1>3, FS_EmptySet, LinkFact DEF FirstPass
  <1>6. PassOver'
    BY DEF PassOver, Off
  <1>. QED  BY <1>2, <1>4, <1>5, <1>6 DEF Resends

LEMMA SendChunkResends ==
    ASSUME ChecksAreLate, IInv, IInv', Resends, SendChunk
    PROVE  Resends'
  <1>. USE DEF SendChunk, receiverVars
  <1>1. /\ Have' = Have /\ served = 0 /\ Flying = {} /\ nextChunk \in Chunk /\ nextChunk \in Nat
        /\ checkTimer = AckTimeout + (NumChunks - nextChunk) * ChunkDelay
    <2>1. sendTimer = 0 /\ sendTimer # Off /\ started
      BY DEF Off
    <2>2. nextChunk \in Chunk /\ nextChunk \in Nat
      BY <2>1, LinkFact DEF IInv, TypeOK, SenderPhase, Chunk
    <2>3. (NumChunks - nextChunk) * ChunkDelay \in Int
      BY <2>2, LinkFact
    <2>. QED
      BY <2>1, <2>2, <2>3, LinkFact DEF Have, Resends, Clocks, NoTimerDue, FirstPass
  <1>2. data \in [Chunk -> Nat] /\ data[nextChunk] = 0 /\ nextChunk \notin Have
    BY <1>1 DEF IInv, TypeOK, Resends, Unsent
  <1>3. \A c \in Chunk : data'[c] = IF c = nextChunk THEN 1 ELSE 0
    BY <1>1, <1>2 DEF Flying
  <1>4. Flying' = {nextChunk} /\ Missing' = Missing
    <2>1. Flying' = {nextChunk}
      BY <1>1, <1>3 DEF Flying
    <2>2. \A c \in Chunk : c < nextChunk' <=> c < nextChunk \/ c = nextChunk
      BY <1>1 DEF Chunk
    <2>3. \A c \in Chunk : c < nextChunk => c # nextChunk
      BY <1>1 DEF Chunk
    <2>4. \A c \in Chunk : data[c] = 0
      BY <1>1, <1>2 DEF Flying
    <2>. QED  BY <1>1, <1>3, <2>1, <2>2, <2>3, <2>4 DEF Missing
  <1>5. OneCopy' /\ Unsent'
    <2>1. \A c \in Chunk : c >= nextChunk' => c >= nextChunk /\ c # nextChunk
      BY <1>1 DEF Chunk
    <2>. QED  BY <1>1, <1>2, <1>3, <2>1 DEF Resends, OneCopy, Unsent
  <1>6. LossesCount'
    BY <1>4 DEF IInv, TypeOK, Resends, LossesCount
  <1>7. Clocks'
    BY <1>1 DEF Resends, Clocks
  <1>8. Cardinality(Flying') = 1 /\ Flying' # {}
    BY <1>4, FS_Singleton
  <1>9. FirstPass'
    <2>. SUFFICES ASSUME sendTimer' # Off PROVE FirstPass'
      BY DEF FirstPass
    <2>1. sendTimer' = ChunkDelay
      OBVIOUS
    <2>2. (NumChunks - nextChunk) * ChunkDelay = (NumChunks - nextChunk') * ChunkDelay + ChunkDelay
      BY <1>1, LinkFact
    <2>3. (NumChunks - nextChunk') * ChunkDelay \in Int
      BY <1>1, LinkFact
    <2>. QED  BY <1>1, <1>8, <2>1, <2>2, <2>3, LinkFact DEF FirstPass
  <1>10. PassOver'
    <2>. SUFFICES ASSUME sendTimer' = Off PROVE PassOver'
      BY DEF PassOver
    <2>1. nextChunk' = NumChunks
      BY <1>1, LinkFact DEF Chunk, Off
    <2>2. checkTimer' = AckTimeout + ChunkDelay
      BY <1>1, <2>1, LinkFact
    <2>3. LinkRate * (checkTimer' - AckTrip) >= 1
      <3>. DEFINE x == checkTimer' - AckTrip
      <3>1. x \in Nat /\ x >= 1
        BY <2>2, LinkFact DEF ChecksAreLate
      <3>. HIDE DEF x
      <3>2. LinkRate * x >= 1
        BY <3>1, LinkFact
      <3>. QED  BY <3>2 DEF x
    <2>4. Covered'
      <3>1. Early'
        BY <2>2, LinkFact DEF Early, ChecksAreLate, AckTrip
      <3>. QED  BY <1>7, <3>1, CoveredEarlyNext
    <2>. QED  BY <1>1, <1>8, <2>1, <2>3, <2>4 DEF PassOver
  <1>. QED  BY <1>5, <1>6, <1>7, <1>9, <1>10 DEF Resends

LEMMA TransferCompleteResends == ASSUME IInv, Resends, TransferComplete PROVE Resends'
  <1>. USE DEF TransferComplete, linkVars, receiverVars
  <1>1. started /\ sendTimer = Off /\ served = 0 /\ nextChunk = NumChunks /\ Flying = {}
    BY CheckFinds
  <1>2. OneCopy' /\ Unsent' /\ LossesCount' /\ Flying' = Flying
    BY SameFlight DEF Have
  <1>3. Clocks'
    BY <1>1 DEF Resends, Clocks
  <1>4. FirstPass' /\ PassOver'
    BY <1>1, <1>2 DEF FirstPass, PassOver
  <1>. QED  BY <1>2, <1>3, <1>4 DEF Resends

LEMMA RetransmitResends ==
    ASSUME ChecksAreLate, IInv, IInv', Resends, Retransmit
    PROVE  Resends'
  <1>. USE DEF Retransmit, receiverVars
  <1>. DEFINE k == Cardinality(m_pendingChunks)
  <1>1. /\ started /\ sendTimer = Off /\ served = 0 /\ nextChunk = NumChunks
        /\ Flying = {} /\ Unacked = {}
    BY CheckFinds
  <1>2. Have' = Have /\ m_pendingChunks \subseteq Chunk /\ data \in [Chunk -> Nat]
    BY DEF Have, IInv, TypeOK
  <1>3. \A c \in Chunk : data[c] = 0 /\ (c \in m_pendingChunks <=> c \notin Have)
    BY <1>1, <1>2 DEF Flying, Unacked, IInv, AckedIsStored
  <1>4. \A c \in Chunk : data'[c] = IF c \in m_pendingChunks THEN 1 ELSE 0
    BY <1>3 DEF ResendSet
  <1>5. Missing = m_pendingChunks
    <2>1. \A c \in Chunk : c < NumChunks
      BY LinkFact DEF Chunk
    <2>. QED  BY <1>1, <1>2, <1>3, <2>1 DEF Missing
  <1>6. Flying' = m_pendingChunks /\ Missing' = {}
    <2>1. Flying' = m_pendingChunks
      BY <1>2, <1>4 DEF Flying
    <2>. QED  BY <1>2, <1>3, <1>4, <2>1 DEF Missing
  <1>7. k \in Nat /\ k >= 1 /\ k <= NumChunks
    BY <1>2, SizeFact
  <1>8. /\ g_metrics'.retransmissions = g_metrics.retransmissions + k
        /\ g_metrics.retransmissions \in Nat
    BY DEF IInv, TypeOK, ResendSet
  <1>9. losses \in Nat /\ losses <= MaxLosses /\ losses' = losses
    BY LinkFact DEF IInv, TypeOK
  <1>10. g_metrics.retransmissions + k <= losses
    BY <1>5 DEF Resends, LossesCount
  <1>11. OneCopy' /\ Unsent'
    BY <1>1, <1>2, <1>3, <1>4, LinkFact DEF OneCopy, Unsent, Chunk
  <1>12. LossesCount'
    BY <1>6, <1>7, <1>8, <1>9, <1>10, FS_EmptySet DEF LossesCount
  <1>13. Clocks'
    BY <1>1 DEF Resends, Clocks
  <1>14. FirstPass'
    BY <1>1 DEF FirstPass
  <1>15. PassOver'
    <2>. DEFINE x == AckTimeout - AckTrip
    <2>1. checkTimer' = AckTimeout
      BY DEF NextCheck
    <2>2. k <= LinkRate * x /\ x \in Nat
      <3>. HIDE DEF k
      <3>1. x \in Nat
        BY LinkFact DEF ChecksAreLate
      <3>2. LinkRate * x \in Nat
        BY <3>1, LinkFact
      <3>3. Burst <= LinkRate * x
        BY DEF ChecksAreLate
      <3>4. k <= Burst /\ Burst \in Nat
        BY <1>7, <1>8, <1>9, <1>10, LinkFact DEF Burst, SmallerOf
      <3>. HIDE DEF x
      <3>. QED  BY <1>7, <3>1, <3>2, <3>3, <3>4
    <2>3. x >= 1
      <3>. HIDE DEF k, x
      <3>1. x = 0 => LinkRate * x = 0
        BY LinkFact
      <3>. QED  BY <1>7, <2>2, <3>1
    <2>4. Covered'
      <3>1. Early'
        BY <2>1, <2>3, LinkFact DEF Early
      <3>. QED  BY <1>13, <3>1, CoveredEarlyNext
    <2>5. Cardinality(Flying') + served' <= LinkRate * (checkTimer' - AckTrip)
      BY <1>1, <1>6, <1>7, <2>1, <2>2
    <2>. QED  BY <1>1, <2>4, <2>5 DEF PassOver
  <1>. QED  BY <1>11, <1>12, <1>13, <1>14, <1>15 DEF Resends

LEMMA SendAcksResends == ASSUME IInv, Resends, SendAcks PROVE Resends'
  <1>. USE DEF SendAcks, senderVars
  <1>1. Have' = Have /\ g_metrics'.retransmissions = g_metrics.retransmissions
    BY DEF Have, IInv, TypeOK
  <1>2. OneCopy' /\ Unsent' /\ LossesCount' /\ Flying' = Flying
    BY <1>1, SameFlight
  <1>3. Clocks'
    BY LinkFact DEF Resends, Clocks, NoTimerDue, NextAck, Off
  <1>4. Covered => Covered'
    <2>1. Unacked' = Unacked
      BY <1>1 DEF Unacked
    <2>2. ASSUME AckDelay < checkTimer, Have # {} PROVE Covered'
      <3>. DEFINE a == [seqNums |-> AckedChunks, left |-> AckDelay]
      <3>1. a \in acks' /\ a.seqNums = Have /\ a.left = AckDelay
        BY <2>2 DEF AckedChunks
      <3>2. Unacked' \subseteq a.seqNums
        BY <2>1, <3>1 DEF Unacked
      <3>. HIDE DEF a
      <3>. QED  BY <2>2, <3>1, <3>2 DEF Covered
    <2>3. Have = {} => Unacked' = {}
      BY <2>1 DEF Unacked
    <2>4. acks \subseteq acks'
      OBVIOUS
    <2>5. 0 + AckDelay = AckDelay
      BY LinkFact
    <2>. QED  BY <2>1, <2>2, <2>3, <2>4, <2>5 DEF Covered
  <1>5. FirstPass'
    BY <1>2 DEF Resends, FirstPass
  <1>6. PassOver'
    BY <1>2, <1>4 DEF Resends, PassOver
  <1>. QED  BY <1>2, <1>3, <1>5, <1>6 DEF Resends

LEMMA RangeFact ==
    ASSUME IInv
    PROVE  /\ data \in [Chunk -> Nat] /\ nextChunk \in Nat /\ served \in Nat
           /\ Chunk \subseteq Nat
  <1>1. Chunk \subseteq Nat
    BY LinkFact DEF Chunk
  <1>. QED  BY <1>1, LinkFact DEF IInv, TypeOK

\* A packet that leaves the link was the only one of its chunk; the link has
\* one packet less to carry in this slot and has carried at most one more.
LEMMA LeaveLinkResends ==
    ASSUME IInv, IInv', Resends, NEW c \in Chunk, LeaveLink(c),
           UNCHANGED <<started, sendTimer, checkTimer, ackTimer, nextChunk>>
    PROVE  /\ c < nextChunk /\ c \notin Have
           /\ data[c] = 1 /\ data' = [data EXCEPT ![c] = 0]
           /\ Clocks' /\ FirstPass' /\ PassOver'
  <1>. USE DEF LeaveLink
  <1>1. data \in [Chunk -> Nat] /\ nextChunk \in Nat /\ c \in Nat /\ served \in Nat
    BY RangeFact
  <1>2. c < nextChunk /\ c \notin Have /\ data[c] = 1
    BY <1>1 DEF Resends, OneCopy, Unsent
  <1>3. data' = [data EXCEPT ![c] = 0]
    BY <1>1, <1>2
  <1>4. Flying' = Flying \ {c} /\ c \in Flying
    BY <1>1, <1>2, <1>3 DEF Flying
  <1>. DEFINE f == Cardinality(Flying)
  <1>5. f \in Nat /\ Cardinality(Flying') = f - 1
    BY <1>4, SizeFact, FS_RemoveElement DEF Flying
  <1>6. served' <= served + 1 /\ served' \in Nat
    BY <1>1, LinkFact DEF SmallerOf
  <1>7. Cardinality(Flying') + served' <= f + served
    <2>. HIDE DEF f
    <2>. QED  BY <1>1, <1>5, <1>6
  <1>8. Cardinality(Flying') + served' \in Nat /\ f + served \in Nat
    <2>. HIDE DEF f
    <2>. QED  BY <1>1, <1>4, <1>5, <1>6, FS_RemoveElement, SizeFact DEF f, Flying
  <1>9. Clocks'
    BY DEF Resends, Clocks, NoTimerDue
  <1>10. FirstPass'
    <2>. HIDE DEF f
    <2>. QED  BY <1>1, <1>7, <1>8 DEF Resends, FirstPass, NoTimerDue, f
  <1>11. PassOver'
    <2>. SUFFICES ASSUME started, sendTimer = Off PROVE PassOver'
      BY DEF PassOver
    <2>. DEFINE x == checkTimer - AckTrip
    <2>1. x \in Nat /\ Early'
      BY <1>4, StillEarly, LinkFact DEF Early
    <2>2. f + served <= LinkRate * x
      BY <1>4 DEF Resends, PassOver
    <2>3. LinkRate * x \in Nat
      BY <2>1, LinkFact
    <2>. HIDE DEF f, x
    <2>4. Cardinality(Flying') + served' <= LinkRate * x
      BY <1>7, <1>8, <2>2, <2>3
    <2>5. Covered'
      BY <1>9, <2>1, CoveredEarlyNext
    <2>. QED  BY <2>4, <2>5 DEF Resends, PassOver, x
  <1>. QED  BY <1>2, <1>3, <1>9, <1>10, <1>11

LEMMA ReceiveChunkResends ==
    ASSUME IInv, IInv', Resends, NEW c \in Chunk, ReceiveChunk(c)
    PROVE  Resends'
  <1>. USE DEF ReceiveChunk, senderVars
  <1>1. /\ c < nextChunk /\ c \notin Have
        /\ data[c] = 1 /\ data' = [data EXCEPT ![c] = 0]
        /\ Clocks' /\ FirstPass' /\ PassOver'
    BY LeaveLinkResends
  <1>2. Have' = Have \cup {c} /\ g_metrics'.retransmissions = g_metrics.retransmissions
    BY <1>1 DEF StoreChunk, Have, IInv, TypeOK
  <1>3. data \in [Chunk -> Nat] /\ nextChunk \in Nat /\ c \in Nat
    BY RangeFact
  <1>4. OneCopy' /\ Unsent'
    BY <1>1, <1>2, <1>3 DEF Resends, OneCopy, Unsent
  <1>5. Missing' = Missing
    BY <1>1, <1>2, <1>3 DEF Missing
  <1>6. LossesCount'
    BY <1>2, <1>5 DEF Resends, LossesCount
  <1>. QED  BY <1>1, <1>4, <1>6 DEF Resends

LEMMA LoseChunkResends ==
    ASSUME IInv, IInv', Resends, NEW c \in Chunk, LoseChunk(c)
    PROVE  Resends'
  <1>. USE DEF LoseChunk, senderVars, receiverVars
  <1>1. /\ c < nextChunk /\ c \notin Have
        /\ data[c] = 1 /\ data' = [data EXCEPT ![c] = 0]
        /\ Clocks' /\ FirstPass' /\ PassOver'
    BY LeaveLinkResends
  <1>2. Have' = Have
    BY DEF Have
  <1>3. data \in [Chunk -> Nat] /\ nextChunk \in Nat /\ c \in Nat
    BY RangeFact
  <1>4. OneCopy' /\ Unsent'
    BY <1>1, <1>2, <1>3 DEF Resends, OneCopy, Unsent
  <1>5. Missing' = Missing \cup {c} /\ c \notin Missing
    BY <1>1, <1>2, <1>3 DEF Missing
  <1>6. Cardinality(Missing') = Cardinality(Missing) + 1 /\ Cardinality(Missing) \in Nat
    BY <1>5, SizeFact, FS_AddElement DEF Missing
  <1>7. LossesCount'
    <2>1. g_metrics.retransmissions \in Nat /\ losses \in Nat /\ losses' = losses + 1
      BY LinkFact DEF IInv, TypeOK
    <2>2. g_metrics.retransmissions + Cardinality(Missing) <= losses
      BY DEF Resends, LossesCount
    <2>. QED  BY <1>6, <2>1, <2>2 DEF LossesCount
  <1>. QED  BY <1>1, <1>4, <1>7 DEF Resends

LEMMA ReceiveAckResends ==
    ASSUME IInv, Resends, NEW a \in acks, ReceiveAck(a)
    PROVE  Resends'
  <1>. USE DEF ReceiveAck, receiverVars
  <1>1. Have' = Have /\ g_metrics'.retransmissions = g_metrics.retransmissions
    BY DEF Have, IInv, TypeOK
  <1>2. OneCopy' /\ Unsent' /\ LossesCount' /\ Flying' = Flying
    BY <1>1, SameFlight
  <1>3. Clocks'
    BY DEF Resends, Clocks, NoTimerDue
  <1>4. Covered => Covered'
    <2>1. Unacked' = Unacked \ a.seqNums
      BY <1>1 DEF Unacked
    <2>. QED  BY <2>1 DEF Covered
  <1>5. FirstPass'
    BY <1>2 DEF Resends, FirstPass
  <1>6. PassOver'
    BY <1>2, <1>4 DEF Resends, PassOver
  <1>. QED  BY <1>2, <1>3, <1>5, <1>6 DEF Resends

LEMMA TickResends == ASSUME IInv, Resends, Tick PROVE Resends'
  <1>. USE DEF Tick
  <1>1. Have' = Have /\ g_metrics' = g_metrics /\ data' = data /\ losses' = losses
        /\ nextChunk' = nextChunk /\ started' = started /\ served' = 0
        /\ m_pendingChunks' = m_pendingChunks
        /\ acks' = { [a EXCEPT !.left = @ - 1] : a \in acks }
    BY DEF Tick, Have
  <1>2. OneCopy' /\ Unsent' /\ LossesCount' /\ Flying' = Flying
    BY <1>1, SameFlight
  <1>3. Flying # {} => served = LinkRate
    BY DEF Tick, Flying
  <1>4. ASSUME NEW t \in Timer, t # 0
        PROVE  \/ t = Off /\ Countdown(t) = Off
               \/ t # Off /\ t \in Nat /\ t >= 1 /\ Countdown(t) = t - 1
    BY <1>4 DEF Countdown, Timer, Off
  <1>5. /\ sendTimer \in Timer /\ checkTimer \in Timer /\ ackTimer \in Timer
        /\ sendTimer # 0 /\ checkTimer # 0 /\ ackTimer # 0
        /\ sendTimer' = Countdown(sendTimer) /\ checkTimer' = Countdown(checkTimer)
        /\ ackTimer' = Countdown(ackTimer)
    BY DEF IInv, TypeOK, NoTimerDue, Tick
  <1>6. Clocks'
    <2>1. ackTimer' # Off => /\ ackTimer # Off /\ ackTimer \in Nat
                             /\ ackTimer' = ackTimer - 1
      BY <1>4, <1>5
    <2>. QED  BY <1>1, <2>1, LinkFact DEF Resends, Clocks
  <1>7. FirstPass'
    <2>. SUFFICES ASSUME started, sendTimer' # Off PROVE FirstPass'
      BY DEF FirstPass
    <2>. DEFINE rest == (NumChunks - nextChunk) * ChunkDelay
    <2>1. sendTimer # Off /\ sendTimer \in Nat /\ sendTimer' = sendTimer - 1
      BY <1>4, <1>5
    <2>2. rest \in Nat
      <3>1. NumChunks - nextChunk \in Nat
        BY LinkFact DEF IInv, TypeOK
      <3>. QED  BY <3>1, LinkFact
    <2>3. checkTimer = AckTimeout + rest + sendTimer
      BY <2>1 DEF Resends, FirstPass
    <2>4. checkTimer' = AckTimeout + rest + sendTimer'
      <3>. HIDE DEF rest
      <3>1. checkTimer # Off
        BY <2>1, <2>2, <2>3, LinkFact DEF Off
      <3>. QED  BY <1>4, <1>5, <2>1, <2>2, <2>3, <3>1, LinkFact
    <2>5. Flying = {}
      <3>1. Flying # {} => Cardinality(Flying) \in Nat /\ Cardinality(Flying) >= 1
        BY SizeFact DEF Flying
      <3>2. Cardinality(Flying) + served <= 1
        BY <2>1 DEF Resends, FirstPass
      <3>. QED  BY <1>3, <3>1, <3>2, LinkFact
    <2>. QED  BY <1>2, <2>4, <2>5, FS_EmptySet DEF FirstPass
  <1>8. PassOver'
    <2>. SUFFICES ASSUME started, sendTimer' = Off PROVE PassOver'
      BY DEF PassOver
    <2>1. sendTimer = Off
      <3>1. ASSUME sendTimer # Off
            PROVE  sendTimer \in Nat /\ sendTimer >= 1 /\ sendTimer' = sendTimer - 1
        BY <1>4, <1>5, <3>1
      <3>. QED  BY <3>1 DEF Off
    <2>2. ASSUME Flying # {}
          PROVE  Cardinality(Flying) + 0 <= LinkRate * (checkTimer' - AckTrip)
      <3>. DEFINE f == Cardinality(Flying)
                  x == checkTimer - AckTrip
      <3>1. x \in Nat /\ checkTimer' = checkTimer - 1 /\ checkTimer \in Nat
        <4>1. checkTimer \in Nat /\ checkTimer > AckTrip
          BY <2>1, <2>2, StillEarly
        <4>2. checkTimer' = checkTimer - 1
          BY <1>4, <1>5, <4>1 DEF Off
        <4>. QED  BY <4>1, <4>2, LinkFact
      <3>2. f + LinkRate <= LinkRate * x
        BY <1>3, <2>1, <2>2 DEF Resends, PassOver
      <3>3. f \in Nat /\ checkTimer' - AckTrip = x - 1
        BY <3>1, SizeFact, LinkFact DEF Flying
      <3>. HIDE DEF f, x
      <3>4. LinkRate * (x - 1) = LinkRate * x - LinkRate
        BY <3>1, LinkFact
      <3>5. LinkRate * x \in Int
        BY <3>1, LinkFact
      <3>6. f + 0 <= LinkRate * (x - 1)
        BY <3>2, <3>3, <3>4, <3>5, LinkFact
      <3>. QED  BY <3>3, <3>6 DEF f
    <2>3. ASSUME checkTimer' # Off PROVE Covered'
      <3>1. checkTimer # Off /\ checkTimer \in Nat /\ checkTimer' = checkTimer - 1
        BY <1>4, <1>5, <2>3
      <3>2. Covered /\ Unacked' = Unacked
        BY <1>1, <2>1, <3>1 DEF Resends, PassOver, Unacked
      <3>3. ASSUME NEW a \in acks, Unacked \subseteq a.seqNums, a.left < checkTimer
            PROVE  Covered'
        <4>. DEFINE b == [a EXCEPT !.left = @ - 1]
        <4>1. a \in [seqNums : SUBSET Chunk, left : 0 .. AckDelay]
          BY DEF IInv, TypeOK
        <4>2. b \in acks' /\ b.seqNums = a.seqNums /\ b.left = a.left - 1 /\ a.left \in Nat
          BY <1>1, <4>1, LinkFact
        <4>. HIDE DEF b
        <4>3. b.left < checkTimer'
          BY <3>1, <3>3, <4>2
        <4>. QED  BY <3>2, <3>3, <4>2, <4>3 DEF Covered
      <3>4. ASSUME ackTimer # Off, ackTimer + AckDelay < checkTimer
            PROVE  Covered'
        <4>1. ackTimer' # Off /\ ackTimer' + AckDelay < checkTimer'
          BY <1>4, <1>5, <3>1, <3>4, LinkFact DEF Off
        <4>. QED  BY <4>1 DEF Covered
      <3>5. Unacked = {} => Covered'
        BY <3>2 DEF Covered
      <3>. QED  BY <3>2, <3>3, <3>4, <3>5 DEF Covered
    <2>. QED  BY <1>2, <2>1, <2>2, <2>3 DEF Resends, PassOver
  <1>. QED  BY <1>2, <1>6, <1>7, <1>8 DEF Resends

LEMMA StutterResends == ASSUME Resends, UNCHANGED vars PROVE Resends'
  <1>. USE DEF vars, senderVars, linkVars, receiverVars
  <1>1. OneCopy' /\ Unsent' /\ LossesCount' /\ Flying' = Flying
    BY SameFlight DEF Have
  <1>2. Covered' = Covered
    BY DEF Covered, Unacked, Have
  <1>. QED
    BY <1>1, <1>2 DEF Resends, Clocks, NoTimerDue, FirstPass, PassOver

LEMMA NextResends == ChecksAreLate /\ IInv /\ IInv' /\ Resends /\ [Next]_vars => Resends'
  BY SendChunksResends, SendChunkResends, TransferCompleteResends, RetransmitResends,
     SendAcksResends, ReceiveChunkResends, LoseChunkResends, ReceiveAckResends,
     TickResends, StutterResends DEF Next

\* A chunk is sent again only for a loss of it, one for one, when ACK_TIMEOUT
\* leaves the link time for a burst of retransmissions and for an ACK of them.
THEOREM OneResendEach ==
    ASSUME ChecksAreLate
    PROVE  Spec => []OneResendPerLoss
  <1>1. Resends /\ IInv => OneResendPerLoss
    <2>1. Cardinality(Missing) \in Nat
      BY SizeFact DEF Missing
    <2>. QED
      BY <2>1, LinkFact DEF Resends, LossesCount, OneResendPerLoss, IInv, TypeOK
  <1>. QED
    BY <1>1, ChecksAreLate, InitResends, NextResends, InductiveInvariant, PTL DEF Spec
==============================================================================
