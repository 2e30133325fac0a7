--------------------------- MODULE CodecRoundTrip ---------------------------
(***************************************************************************)
(* Signals that share a frame: Can_Codec_Encode stores one after another,  *)
(* in any order and again and again, Can_Codec_ExtractSignal reads them.   *)
(***************************************************************************)
EXTENDS SignalCodec

CONSTANTS
  Layouts,   \* sets of signals; those of one message do not overlap
  Values     \* bound: the words that are encoded, results of fromPhysicalValue

Signal == [start : 0..63, length : 1..64, big : BOOLEAN, signed : BOOLEAN]

ASSUME LayoutsAssumption ==
  /\ Values \subseteq SUBSET Word
  /\ \A signals \in Layouts : \A s \in signals :
       /\ s \in Signal /\ Fits(s)
       /\ \A t \in signals \ {s} : Cells(s) \cap Cells(t) = {}

VARIABLES signals,   \* those of the message
          frame,     \* its bytes
          stored     \* history: the number last stored in each signal

vars == <<signals, frame, stored>>

TypeOK == signals \in Layouts /\ frame \in Frame /\ stored \in [signals -> SUBSET Word]

\* A frame of zeros or of ones, which hold 0, or -1 or the largest number.
Init ==
  /\ signals \in Layouts
  /\ \E b \in {{}, Byte} :
       /\ frame = [i \in 0..7 |-> b]
       /\ stored = [s \in signals |-> Extended(IF b = {} THEN {} ELSE Word, s)]

Encode(s, value) ==
  /\ frame' = StoreSignal(frame, value, s)
  /\ stored' = [stored EXCEPT ![s] = Extended(value, s)]
  /\ UNCHANGED signals

Next == \E s \in signals, value \in Values : Encode(s, value)

Spec == Init /\ [][Next]_vars

-----------------------------------------------------------------------------
(* Properties.                                                             *)

\* Every signal reads as the number that was stored in it last, whatever was
\* stored in its neighbours since (extractSignal after storeSignal).
ReadsBack ==
  \A s \in signals, shifting \in Shifting : ExtractSignal(frame, s, shifting) = stored[s]

\* The bits of a signal lie where its start, length and byte order say, so that
\* another implementation of the layout reads the same number (storeSignal).
InItsCells ==
  \A s \in signals : \A i \in 0..s.length - 1 :
    LET c == Cell(s, i) IN (c[2] \in frame[c[1]]) = (i \in stored[s])

\* A store changes the cells of one signal and no other bit of the frame
\* (clearBits, which counts the bits it has still to clear over the bytes).
StoresOneSignal ==
  [][\E s \in signals :
       \A b \in 0..7 : {b} \X Xor(frame[b], frame'[b]) \subseteq Cells(s)]_frame

\* The comment on the sign extension (can_encode_decode_inl.h:136): a signed signal
\* reads as a number of 64 bits with its sign.
SignExtended ==
  \A s \in signals, shifting \in Shifting : s.signed =>
    LET x == ExtractSignal(frame, s, shifting)
    IN  (s.length..63) \subseteq x <=> s.length - 1 \in stored[s]
=============================================================================
