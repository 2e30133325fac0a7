-------------------------- MODULE OrderedDelivery --------------------------
(***************************************************************************)
(* What the pipeline from the receiver threads to the CAN agent promises,  *)
(* with its queues and threads left out: frames come out in the order in   *)
(* which they were accepted, each at most once, and until the program is   *)
(* told to stop every accepted frame does come out.                        *)
(***************************************************************************)
EXTENDS Naturals, Sequences

CONSTANT Frames

VARIABLES
  accepted,    \* the frames the aggregator's queue took, in that order
  delivered,   \* the frames the agent has processed, in that order
  closing      \* TRUE once the program was told to stop

vars == <<accepted, delivered, closing>>

Init == accepted = <<>> /\ delivered = <<>> /\ closing = FALSE

Accept == /\ \E f \in Frames : accepted' = Append(accepted, f)
          /\ UNCHANGED <<delivered, closing>>

\* The next frame that was accepted, and no other.
Deliver == /\ Len(delivered) < Len(accepted)
           /\ delivered' = Append(delivered, accepted[Len(delivered) + 1])
           /\ UNCHANGED <<accepted, closing>>

Close == closing' = TRUE /\ UNCHANGED <<accepted, delivered>>

Next == Accept \/ Deliver \/ Close

\* What was accepted may be dropped only after the request to stop.
Spec == Init /\ [][Next]_vars /\ WF_vars(Deliver /\ ~closing)
=============================================================================
