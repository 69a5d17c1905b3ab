---------------------------- MODULE ImageTransfer ----------------------------
(***************************************************************************)
(* The LoRa point-to-point image transfer of                               *)
(* src/lora-p2p-project/lora-p2p-transfer.cc: ImageSender on the camera,   *)
(* ImageReceiver on the far Raspberry Pi, and the UDP path between them.   *)
(*                                                                         *)
(* Time advances in slots of half a second (CHUNK_DELAY), on whose         *)
(* boundaries every timer of the two applications fires. A timer is the    *)
(* number of slots left, or Off. The LoRa link is the bottleneck of the    *)
(* path: it carries at least LinkRate data packets a slot, loses some of   *)
(* them, and takes at most AckDelay slots for an ACK, which it never       *)
(* loses: main() installs the loss model on the receiver's device only.    *)
(***************************************************************************)
EXTENDS Integers, FiniteSets

CONSTANTS ImageSize,        \* bytes of the image
          ChunkSize,        \* CHUNK_SIZE: bytes of image in a data packet
          StartDelay,       \* slots before SendChunks runs (1 s)
          ChunkDelay,       \* CHUNK_DELAY: slots between two first sendings
          AckTimeout,       \* ACK_TIMEOUT: slots between two CheckAcks
          AckInterval,      \* slots between two SendAcks (2 s)
          LinkRate,         \* data packets the link carries in a slot, at least
          AckDelay,         \* slots an ACK takes to arrive, at most
          MaxLosses         \* bound on the data packets the link loses

ASSUME SizeAssumption == ImageSize \in Nat \ {0} /\ ChunkSize \in Nat \ {0}
ASSUME TimerAssumption == /\ StartDelay \in Nat
                          /\ ChunkDelay \in Nat \ {0}
                          /\ AckTimeout \in Nat \ {0}
                          /\ AckInterval \in Nat \ {0}
ASSUME LinkAssumption == /\ LinkRate \in Nat \ {0}
                         /\ AckDelay \in Nat
                         /\ MaxLosses \in Nat

\* ImageSender::Setup
NumChunks == (ImageSize + ChunkSize - 1) \div ChunkSize
Chunk == 0 .. NumChunks - 1

\* ImageReceiver writes four bytes per chunk behind the type byte of a
\* 1024-byte buffer; with more chunks than fit the program has no behaviour.
ASSUME AckBufferAssumption == 1 + 4 * NumChunks <= 1024

Off == -1
Timer == Nat \cup {Off}

VARIABLES
    started,                \* SendChunks has run
    sendTimer,              \* slots to the next SendChunks or SendChunk event
    nextChunk,              \* next chunk of the first pass
    checkTimer,             \* slots to the next CheckAcks event
    m_pendingChunks,        \* chunks not acknowledged yet
    senderDone,             \* CheckAcks has logged "Transfer complete!"
    data,                   \* data packets in flight, per chunk
    served,                 \* packets carried in this slot, up to LinkRate
    losses,                 \* data packets lost so far
    acks,                   \* ACK packets in flight: their chunks, slots left
    ackTimer,               \* slots to the next SendAcks event
    m_chunks,               \* chunks received: sequence number -> bytes
    m_complete,             \* the receiver has every chunk
    savedImage,             \* bytes of received_image.bin
    g_metrics               \* the counters printed at the end

senderVars == <<started, sendTimer, nextChunk, checkTimer, m_pendingChunks,
                senderDone>>
linkVars == <<data, served, losses, acks>>
receiverVars == <<ackTimer, m_chunks, m_complete, savedImage>>
vars == <<senderVars, linkVars, receiverVars, g_metrics>>

------------------------------------------------------------------------------
(* Chunking *)

SmallerOf(a, b) == IF a <= b THEN a ELSE b

\* The positions in the image of the bytes that packet c carries; in the
\* mutants the last chunk is not cut, or each chunk ends a byte early.
UncutPayload(c) == (c * ChunkSize) .. (c * ChunkSize + ChunkSize - 1)
ShortPayload(c) == (c * ChunkSize) ..
                   (c * ChunkSize + SmallerOf(ChunkSize, ImageSize - c * ChunkSize) - 2)
Payload(c) == LET offset == c * ChunkSize
                  size == SmallerOf(ChunkSize, ImageSize - offset)
              IN  offset .. (offset + size - 1)

\* SaveImage: the bytes of the stored chunks, in the order of their numbers.
SaveImage(chunks) == UNION { chunks[c] : c \in DOMAIN chunks }

------------------------------------------------------------------------------
Init == /\ started = FALSE
        /\ sendTimer = StartDelay
        /\ nextChunk = 0
        /\ checkTimer = Off
        /\ m_pendingChunks = {}
        /\ senderDone = FALSE
        /\ data = [c \in Chunk |-> 0]
        /\ served = 0
        /\ losses = 0
        /\ acks = {}
        /\ ackTimer = AckInterval
        /\ m_chunks = [c \in {} |-> {}]
        /\ m_complete = FALSE
        /\ savedImage = {}
        /\ g_metrics = [chunksSent |-> 0, retransmissions |-> 0, acksSent |-> 0,
                        acksReceived |-> 0, chunksReceived |-> 0]

(* ImageSender *)

SendChunks == /\ ~started /\ sendTimer = 0
              /\ started' = TRUE
              /\ m_pendingChunks' = Chunk
              /\ nextChunk' = 0
              /\ checkTimer' = AckTimeout + NumChunks * ChunkDelay
              /\ UNCHANGED <<sendTimer, senderDone, linkVars, receiverVars, g_metrics>>

\* The events that SendChunks schedules, CHUNK_DELAY apart.
SendChunk == /\ started /\ sendTimer = 0
             /\ data' = [data EXCEPT ![nextChunk] = @ + 1]
             /\ nextChunk' = nextChunk + 1
             /\ sendTimer' = IF nextChunk' < NumChunks THEN ChunkDelay ELSE Off
             /\ g_metrics' = [g_metrics EXCEPT !.chunksSent = @ + 1]
             /\ UNCHANGED <<started, checkTimer, m_pendingChunks, senderDone,
                            served, losses, acks, receiverVars>>

\* In the mutant CheckAcks reschedules itself after its last log line too.
CheckForEver == /\ checkTimer = 0
                /\ m_pendingChunks = {}
                /\ senderDone' = TRUE
                /\ checkTimer' = AckTimeout
                /\ UNCHANGED <<started, sendTimer, nextChunk, m_pendingChunks,
                               linkVars, receiverVars, g_metrics>>
TransferComplete == /\ checkTimer = 0
                    /\ m_pendingChunks = {}
                    /\ senderDone' = TRUE
                    /\ checkTimer' = Off
                    /\ UNCHANGED <<started, sendTimer, nextChunk, m_pendingChunks,
                                   linkVars, receiverVars, g_metrics>>

\* In the mutants every chunk is sent again, or the check is not rescheduled.
ResendSetOfAll == Chunk
ResendSet == m_pendingChunks
NoNextCheck == Off
NextCheck == AckTimeout

Retransmit == /\ checkTimer = 0
              /\ m_pendingChunks # {}
              /\ data' = [c \in Chunk |-> IF c \in ResendSet THEN data[c] + 1 ELSE data[c]]
              /\ g_metrics' = [g_metrics EXCEPT
                                 !.chunksSent = @ + Cardinality(ResendSet),
                                 !.retransmissions = @ + Cardinality(ResendSet)]
              /\ checkTimer' = NextCheck
              /\ UNCHANGED <<started, sendTimer, nextChunk, m_pendingChunks, senderDone,
                             served, losses, acks, receiverVars>>

CheckAcks == TransferComplete \/ Retransmit

------------------------------------------------------------------------------
(* ImageReceiver *)

Have == DOMAIN m_chunks

\* An ACK names every chunk received so far. In the mutant it names all the
\* chunks up to the highest one received.
AckUpToHighest == { c \in Chunk : \E k \in Have : c <= k }
AckedChunks == Have

\* In the mutant the receiver stops acknowledging one chunk early.
StopOneEarly == IF Cardinality(Have) + 1 >= NumChunks THEN Off ELSE AckInterval
NextAck == IF m_complete THEN Off ELSE AckInterval

SendAcks ==
    /\ ackTimer = 0
    /\ ackTimer' = NextAck
    /\ IF Have = {}
       THEN UNCHANGED <<acks, g_metrics>>
       ELSE /\ acks' = acks \cup {[seqNums |-> AckedChunks, left |-> AckDelay]}
            /\ g_metrics' = [g_metrics EXCEPT !.acksSent = @ + 1]
    /\ UNCHANGED <<senderVars, data, served, losses, m_chunks, m_complete, savedImage>>

\* The completion test of HandleRead; in the mutant it is off by one.
AllButOne(chunks) == Cardinality(chunks) + 1 = NumChunks
AllReceived(chunks) == Cardinality(chunks) = NumChunks

\* HandleRead of the receiver on the data packet of chunk c.
StoreChunk(c) ==
    IF c \in Have
    THEN UNCHANGED <<m_chunks, m_complete, savedImage, g_metrics>>
    ELSE /\ m_chunks' = [k \in Have \cup {c} |-> IF k = c THEN Payload(c) ELSE m_chunks[k]]
         /\ g_metrics' = [g_metrics EXCEPT !.chunksReceived = @ + 1]
         /\ IF AllReceived(Have \cup {c})
            THEN m_complete' = TRUE /\ savedImage' = SaveImage(m_chunks')
            ELSE UNCHANGED <<m_complete, savedImage>>

------------------------------------------------------------------------------
(* The path between the two *)

\* Timers fire on the boundary of a slot; packets sent on a boundary, or
\* queued behind others, arrive between two boundaries.
NoTimerDue == sendTimer # 0 /\ checkTimer # 0 /\ ackTimer # 0

LeaveLink(c) == /\ NoTimerDue
                /\ data[c] > 0
                /\ data' = [data EXCEPT ![c] = @ - 1]
                /\ served' = SmallerOf(served + 1, LinkRate)

ReceiveChunk(c) == /\ LeaveLink(c)
                   /\ StoreChunk(c)
                   /\ UNCHANGED <<senderVars, losses, acks, ackTimer>>

\* RateErrorModel corrupts the packet, or a queue on the way drops it.
LoseChunk(c) == /\ LeaveLink(c)
                /\ losses < MaxLosses
                /\ losses' = losses + 1
                /\ UNCHANGED <<senderVars, acks, receiverVars, g_metrics>>

\* HandleRead of the sender.
ReceiveAck(a) == /\ NoTimerDue
                 /\ acks' = acks \ {a}
                 /\ m_pendingChunks' = m_pendingChunks \ a.seqNums
                 /\ g_metrics' = [g_metrics EXCEPT !.acksReceived = @ + Cardinality(a.seqNums)]
                 /\ UNCHANGED <<started, sendTimer, nextChunk, checkTimer, senderDone,
                                data, served, losses, receiverVars>>

Countdown(t) == IF t > 0 THEN t - 1 ELSE t

\* The next slot begins, once the link has carried its share of this one.
Tick == /\ NoTimerDue
        /\ served = LinkRate \/ \A c \in Chunk : data[c] = 0
        /\ \A a \in acks : a.left > 0
        /\ served' = 0
        /\ acks' = { [a EXCEPT !.left = @ - 1] : a \in acks }
        /\ sendTimer' = Countdown(sendTimer)
        /\ checkTimer' = Countdown(checkTimer)
        /\ ackTimer' = Countdown(ackTimer)
        /\ UNCHANGED <<started, nextChunk, m_pendingChunks, senderDone, data, losses,
                       m_chunks, m_complete, savedImage, g_metrics>>

------------------------------------------------------------------------------
Next == \/ SendChunks
        \/ SendChunk
        \/ TransferComplete
        \/ Retransmit
        \/ SendAcks
        \/ \E c \in Chunk : ReceiveChunk(c) \/ LoseChunk(c)
        \/ \E a \in acks : ReceiveAck(a)
        \/ Tick

Spec == Init /\ [][Next]_vars

\* The simulator's event loop runs as long as there are events.
FairSpec == Spec /\ WF_vars(Next)

------------------------------------------------------------------------------
(* Correctness *)

\* Every variable keeps its type: timers, the packets in flight, the chunks
\* of m_chunks and the counters of g_metrics.
TypeOK ==
    /\ started \in BOOLEAN /\ senderDone \in BOOLEAN /\ m_complete \in BOOLEAN
    /\ sendTimer \in Timer /\ checkTimer \in Timer /\ ackTimer \in Timer
    /\ nextChunk \in 0 .. NumChunks
    /\ m_pendingChunks \subseteq Chunk
    /\ data \in [Chunk -> Nat]
    /\ served \in 0 .. LinkRate
    /\ losses \in 0 .. MaxLosses
    /\ acks \subseteq [seqNums : SUBSET Chunk, left : 0 .. AckDelay]
    /\ Have \subseteq Chunk
    /\ m_chunks = [c \in Have |-> Payload(c)]
    /\ savedImage \subseteq 0 .. ImageSize - 1
    /\ g_metrics \in [chunksSent : Nat, retransmissions : Nat, acksSent : Nat,
                      acksReceived : Nat, chunksReceived : Nat]

\* The sender takes a chunk off its pending set only after the receiver has
\* stored it, whatever was lost, repeated or overtaken on the way.
AckedIsStored == started => Chunk \ m_pendingChunks \subseteq Have

\* When the sender logs "Transfer complete!", received_image.bin exists and
\* holds every byte of the image (README: "Reliable large data transmission").
DoneMeansSaved == senderDone => savedImage = 0 .. ImageSize - 1

\* SendAcks stops rescheduling itself once the image is complete; by then
\* every chunk the sender still waits for is named by an ACK on its way.
FinalAckSuffices ==
    ackTimer = Off => \/ m_pendingChunks = {}
                      \/ \E a \in acks : m_pendingChunks \subseteq a.seqNums

\* Retransmission is selective and never premature: a chunk is sent again
\* only when an earlier sending of it was lost, one for one.
OneResendPerLoss == g_metrics.retransmissions <= losses

\* The transfer ends: the sender eventually logs "Transfer complete!".
Completes == <>senderDone

\* Both applications fall silent: no timer is armed and nothing is in flight.
Silent == /\ sendTimer = Off /\ checkTimer = Off /\ ackTimer = Off
          /\ acks = {}
          /\ \A c \in Chunk : data[c] = 0
FallsSilent == <>[]Silent

\* What each application promises the other, see ReliableTransfer.
Confirmed == IF started THEN Chunk \ m_pendingChunks ELSE {}
ImageFile == IF savedImage = 0 .. ImageSize - 1 THEN "whole"
             ELSE IF savedImage = {} THEN "absent" ELSE "partial"

Promise == INSTANCE ReliableTransfer
              WITH stored <- Have, confirmed <- Confirmed,
                   image <- ImageFile, finished <- senderDone

ImplementsPromise == Promise!Spec
ImplementsFairPromise == Promise!FairSpec

\* lora-p2p-project/INDEX.md:187 "Retransmit rate: % of chunks that needed
\* resending". The program prints retransmissions * 100 / chunksSent; when one
\* chunk out of NumChunks was sent again, once, that is to be 100 / NumChunks.
RateIsShareOfChunks ==
    senderDone /\ g_metrics.retransmissions = 1
        => g_metrics.retransmissions * NumChunks = g_metrics.chunksSent
==============================================================================
