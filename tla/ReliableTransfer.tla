--------------------------- MODULE ReliableTransfer ---------------------------
(***************************************************************************)
(* What the LoRa point-to-point image transfer promises, with no timer, no *)
(* message and no loss: the chunks of an image reach the receiver one by   *)
(* one, the sender learns that some of them did, and it may stop only when *)
(* it has learnt it of every chunk.                                        *)
(***************************************************************************)
EXTENDS FiniteSets

CONSTANT Chunk              \* the sequence numbers of the image's chunks

VARIABLES stored,           \* chunks the receiver holds
          confirmed,        \* chunks the sender knows the receiver holds
          image,            \* the image file: "absent" or "whole"
          finished          \* the sender has declared the transfer complete

vars == <<stored, confirmed, image, finished>>

Init == /\ stored = {}
        /\ confirmed = {}
        /\ image = "absent"
        /\ finished = FALSE

\* A chunk arrives that the receiver did not have. The last one to arrive
\* makes the receiver write the image, in the same step.
Store(c) == /\ c \notin stored
            /\ stored' = stored \cup {c}
            /\ image' = IF stored' = Chunk THEN "whole" ELSE image
            /\ UNCHANGED <<confirmed, finished>>

\* The sender learns that the receiver holds the chunks of S.
Confirm(S) == /\ S \subseteq stored
              /\ confirmed' = confirmed \cup S
              /\ UNCHANGED <<stored, image, finished>>

\* The sender stops.
Finish == /\ confirmed = Chunk
          /\ finished' = TRUE
          /\ UNCHANGED <<stored, confirmed, image>>

Next == \/ \E c \in Chunk : Store(c)
        \/ \E S \in SUBSET Chunk : Confirm(S)
        \/ Finish

Spec == Init /\ [][Next]_vars

\* Every chunk is delivered, every delivery is confirmed, and the sender stops.
FairSpec == /\ Spec
            /\ WF_vars(\E c \in Chunk : Store(c))
            /\ WF_vars(Confirm(stored) /\ confirmed' # confirmed)
            /\ WF_vars(Finish)

\* The sender stops only with the whole image written at the other end.
FinishedIsWhole == finished => image = "whole"
==============================================================================
