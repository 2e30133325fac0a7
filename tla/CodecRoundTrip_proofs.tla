------------------------ MODULE CodecRoundTrip_proofs ------------------------
(***************************************************************************)
(* Proofs about signals that share a frame, for all layouts of signals     *)
(* that fit into it and do not overlap, all values and any number of       *)
(* stores.                                                                 *)
(***************************************************************************)
EXTENDS CodecRoundTrip, SignalCodec_proofs

-----------------------------------------------------------------------------
(* The frame and what was stored in it.                                    *)

\* Signals of one message: each fits, no two share a cell.
LEMMA Layout ==
  ASSUME signals \in Layouts
  PROVE  /\ \A s \in signals : IsSignal(s) /\ Fits(s)
         /\ \A s, t \in signals : s # t => Cells(s) \cap Cells(t) = {}
BY LayoutsAssumption DEF Signal, IsSignal

\* A number of 64 bits that a signal may hold is given by its low bits.
CodecInv ==
  /\ TypeOK /\ InItsCells
  /\ \A s \in signals : stored[s] = Extended(stored[s], s)

\* Cutting a number to a signal once more changes nothing.
LEMMA ExtendedTwice ==
  ASSUME NEW s, IsSignal(s), NEW x, x \subseteq Word
  PROVE  /\ Extended(x, s) \subseteq Word
         /\ Extended(Extended(x, s), s) = Extended(x, s)
         /\ \A i \in 0..s.length - 1 : i \in Extended(x, s) <=> i \in x
<1>1. s.length \in 1..64
  BY Start
<1> DEFINE low == x \cap (0..s.length - 1)  y == Extended(x, s)
<1>2. y = IF s.signed /\ s.length - 1 \in low THEN low \cup (s.length..63) ELSE low
  BY DEF Extended
<1>3. y \cap (0..s.length - 1) = low
  BY <1>1, <1>2
<1>4. y \subseteq Word
  BY <1>1, <1>2 DEF Word
<1>5. Extended(y, s) = IF s.signed /\ s.length - 1 \in low THEN low \cup (s.length..63) ELSE low
  BY <1>3 DEF Extended
<1> QED
  BY <1>2, <1>3, <1>4, <1>5

\* Initially the frame is uniform.
LEMMA InitCodec == Init => CodecInv
<1> SUFFICES ASSUME Init PROVE CodecInv
  OBVIOUS
<1>1. signals \in Layouts
  BY DEF Init
<1>2. PICK b \in {{}, Byte} :
        /\ frame = [i \in 0..7 |-> b]
        /\ stored = [s \in signals |-> Extended(IF b = {} THEN {} ELSE Word, s)]
  BY DEF Init
<1> DEFINE w == IF b = {} THEN {} ELSE Word
<1>3. w \subseteq Word /\ b \subseteq Byte
  BY <1>2
<1>4. frame \in Frame
  BY <1>2, <1>3 DEF Frame
<1>5. ASSUME NEW s \in signals
      PROVE  /\ stored[s] = Extended(w, s) /\ stored[s] \subseteq Word
             /\ stored[s] = Extended(stored[s], s)
             /\ \A i \in 0..s.length - 1 :
                  (Cell(s, i)[2] \in frame[Cell(s, i)[1]]) = (i \in stored[s])
  <2>1. IsSignal(s) /\ Fits(s) /\ stored[s] = Extended(w, s)
    BY <1>1, <1>2, Layout
  <2>2. /\ stored[s] \subseteq Word /\ stored[s] = Extended(stored[s], s)
        /\ \A i \in 0..s.length - 1 : i \in stored[s] <=> i \in w
    BY <1>3, <2>1, ExtendedTwice
  <2>3. ASSUME NEW i \in 0..s.length - 1
        PROVE  (Cell(s, i)[2] \in frame[Cell(s, i)[1]]) = (i \in stored[s])
    <3>1. PICK c \in 0..7, bit \in Byte : Cell(s, i) = <<c, bit>>
      BY <2>1, CellIn
    <3>2. Cell(s, i)[2] \in frame[Cell(s, i)[1]] <=> bit \in b
      BY <1>2, <3>1
    <3>3. i \in Word
      BY <2>1, Start DEF Word
    <3>4. bit \in b <=> i \in w
      BY <1>2, <3>1, <3>3
    <3> QED
      BY <2>2, <3>2, <3>4
  <2> QED
    BY <2>1, <2>2, <2>3
<1>6. stored \in [signals -> SUBSET Word]
  BY <1>2, <1>5
<1>7. InItsCells
  BY <1>5 DEF InItsCells
<1> QED
  BY <1>1, <1>4, <1>5, <1>6, <1>7 DEF CodecInv, TypeOK

\* A store into one signal changes its cells to the bits of the value, and no other.
LEMMA NextCells ==
  ASSUME CodecInv, NEW s \in signals, NEW value \in Values, Encode(s, value)
  PROVE  /\ CodecInv'
         /\ \A b \in 0..7 : {b} \X Xor(frame[b], frame'[b]) \subseteq Cells(s)
<1>1. /\ signals' = signals /\ signals \in Layouts /\ frame \in Frame
      /\ stored \in [signals -> SUBSET Word] /\ value \subseteq Word
      /\ frame' = StoreSignal(frame, value, s)
      /\ stored' = [stored EXCEPT ![s] = Extended(value, s)]
  BY LayoutsAssumption DEF CodecInv, TypeOK, Encode
<1>2. IsSignal(s) /\ Fits(s)
  BY <1>1, Layout
<1>3. frame' \in Frame
  BY <1>1, <1>2, StoredFrame
<1>4. ASSUME NEW b \in 0..7, NEW bit \in Byte
      PROVE  bit \in frame'[b] <=> IF BitAt(s, b, bit) \in 0..s.length - 1
                                  THEN BitAt(s, b, bit) \in value ELSE bit \in frame[b]
  BY <1>1, <1>2, Stored
<1>5. ASSUME NEW b \in 0..7, NEW bit \in Byte
      PROVE  <<b, bit>> \in Cells(s) <=> BitAt(s, b, bit) \in 0..s.length - 1
  <2>1. \A i \in 0..s.length - 1 : i \in Nat /\ (Cell(s, i) = <<b, bit>> <=> i = BitAt(s, b, bit))
    BY <1>2, Start, CellAt
  <2> QED
    BY <2>1 DEF Cells
<1>6. /\ stored'[s] = Extended(stored'[s], s) /\ stored'[s] \subseteq Word
      /\ \A i \in 0..s.length - 1 : i \in stored'[s] <=> i \in value
  BY <1>1, <1>2, ExtendedTwice
<1>7. \A t \in signals : t # s => stored'[t] = stored[t]
  BY <1>1
<1>8. TypeOK'
  BY <1>1, <1>3, <1>6 DEF TypeOK
<1>9. ASSUME NEW t \in signals, NEW i \in 0..t.length - 1
      PROVE  Cell(t, i)[2] \in frame'[Cell(t, i)[1]] <=> i \in stored'[t]
  <2>1. IsSignal(t) /\ Fits(t)
    BY <1>1, Layout
  <2>2. PICK b \in 0..7, bit \in Byte : Cell(t, i) = <<b, bit>> /\ i = BitAt(t, b, bit)
    BY <2>1, CellIn
  <2>3. CASE t = s
    BY <1>4, <1>6, <2>2, <2>3
  <2>4. CASE t # s
    <3>1. <<b, bit>> \in Cells(t)
      BY <2>2 DEF Cells
    <3>2. <<b, bit>> \notin Cells(s)
      BY <1>1, <2>4, <3>1, Layout
    <3>3. bit \in frame'[b] <=> bit \in frame[b]
      BY <1>4, <1>5, <3>2
    <3>4. (bit \in frame[b]) = (i \in stored[t])
      BY <2>2 DEF CodecInv, InItsCells
    <3> QED
      BY <1>7, <2>2, <2>4, <3>3, <3>4
  <2> QED
    BY <2>3, <2>4
<1>10. InItsCells'
  BY <1>1, <1>9 DEF InItsCells
<1>11. CodecInv'
  BY <1>1, <1>6, <1>7, <1>8, <1>10 DEF CodecInv
<1>12. ASSUME NEW b \in 0..7, NEW bit \in Xor(frame[b], frame'[b])
       PROVE  <<b, bit>> \in Cells(s)
  <2>1. frame[b] \subseteq Byte /\ frame'[b] \subseteq Byte
    BY <1>1, <1>3 DEF Frame
  <2>2. bit \in Byte /\ ~(bit \in frame'[b] <=> bit \in frame[b])
    BY <2>1 DEF Xor
  <2> QED
    BY <1>4, <1>5, <2>2
<1> QED
  BY <1>11, <1>12

\* Every step keeps the invariant.
LEMMA NextCodec == CodecInv /\ [Next]_vars => CodecInv'
<1>1. ASSUME CodecInv, NEW s \in signals, NEW value \in Values, Encode(s, value) PROVE CodecInv'
  BY <1>1, NextCells
<1>2. ASSUME CodecInv, UNCHANGED vars PROVE CodecInv'
  BY <1>2 DEF CodecInv, vars, TypeOK, InItsCells
<1> QED
  BY <1>1, <1>2 DEF Next

\* It holds always.
LEMMA AlwaysCodec == Spec => []CodecInv
BY InitCodec, NextCodec, PTL DEF Spec

\* A frame stays one of 8 bytes of 8 bits, and a signal holds a word of 64 bits.
THEOREM Types == Spec => []TypeOK
<1>1. CodecInv => TypeOK
  BY DEF CodecInv
<1> QED
  BY <1>1, AlwaysCodec, PTL

\* The bits of every signal lie where its start, its length and its byte order say, for
\* all layouts of signals of up to 64 bits that fit into a frame and do not overlap,
\* all values and any number of stores (storeSignal).
THEOREM CellsHold == Spec => []InItsCells
<1>1. CodecInv => InItsCells
  BY DEF CodecInv
<1> QED
  BY <1>1, AlwaysCodec, PTL

\* A store changes the cells of one signal only (clearBits and storeSignal).
THEOREM OneSignalStored == Spec => StoresOneSignal
<1>1. ASSUME CodecInv, [Next]_vars
      PROVE  [\E s \in signals :
               \A b \in 0..7 : {b} \X Xor(frame[b], frame'[b]) \subseteq Cells(s)]_frame
  <2>1. CASE UNCHANGED vars
    BY <2>1 DEF vars
  <2>2. CASE Next
    <3>1. PICK s \in signals, value \in Values : Encode(s, value)
      BY <2>2 DEF Next
    <3>2. \A b \in 0..7 : {b} \X Xor(frame[b], frame'[b]) \subseteq Cells(s)
      BY <1>1, <3>1, NextCells
    <3> QED
      BY <3>2
  <2> QED
    BY <1>1, <2>1, <2>2
<1> QED
  BY <1>1, AlwaysCodec, PTL DEF Spec, StoresOneSignal

\* Signals that fit into an int.  The shifts of extractSignal are those of an int: for a
\* longer signal the theorem is false, as the run of SignExtended shows.
Narrow == \A layout \in Layouts : \A s \in layout : s.length <= 32

\* What is extracted from a signal of up to 32 bits, signed or not, is what was stored in
\* it last, for all layouts, values and orders of stores (extractSignal).
THEOREM RoundTrip == Narrow => (Spec => []ReadsBack)
<1> SUFFICES ASSUME Narrow PROVE Spec => []ReadsBack
  OBVIOUS
<1>1. ASSUME CodecInv PROVE ReadsBack
  <2> SUFFICES ASSUME NEW s \in signals, NEW shifting \in Shifting
               PROVE  ExtractSignal(frame, s, shifting) = stored[s]
    BY DEF ReadsBack
  <2>1. IsSignal(s) /\ Fits(s) /\ s.length <= 32 /\ frame \in Frame
    BY <1>1, Layout DEF CodecInv, TypeOK, Narrow
  <2>2. ExtractSignal(frame, s, shifting) = Extended(Read(frame, s), s)
    BY <2>1, Extracted
  <2>3. Read(frame, s) = stored[s] \cap (0..s.length - 1)
    BY <1>1 DEF CodecInv, InItsCells, Read
  <2>4. Read(frame, s) \cap (0..s.length - 1) = stored[s] \cap (0..s.length - 1)
    BY <2>3
  <2>5. Extended(Read(frame, s), s) = Extended(stored[s], s)
    BY <2>4 DEF Extended
  <2> QED
    BY <1>1, <2>2, <2>5 DEF CodecInv
<1> QED
  BY <1>1, AlwaysCodec, PTL
=============================================================================
