------------------------- MODULE SignalCodec_proofs -------------------------
(***************************************************************************)
(* Lemmas about can-codec, for every signal, frame and value: what         *)
(* storeSignal leaves in the bytes and what extractSignal takes out.       *)
(*                                                                         *)
(* The bits of a byte that belong to a signal are counted once (BitAt);    *)
(* storeSignal and extractSignal are shown to work on those (Stored,       *)
(* TargetIsRead), and everything else follows.  The number that bits make  *)
(* is a recursive function; facts about it are proved by the least number  *)
(* for which they could fail.                                              *)
(***************************************************************************)
EXTENDS SignalCodec, WellFoundedInduction, TLAPS

-----------------------------------------------------------------------------
(* Where the bits of a signal lie.                                         *)

\* What a signal is to the codec.
IsSignal(s) == s.start \in 0..63 /\ s.length \in 1..64 /\ s.big \in BOOLEAN /\ s.signed \in BOOLEAN

InByte(sig) == sig.start % 8
StartByte(sig) == sig.start \div 8

\* How many bytes a byte is away from the first of a signal, and which bit is there.
Distance(sig, b) == IF sig.big THEN StartByte(sig) - b ELSE b - StartByte(sig)
BitAt(sig, b, bit) == 8 * Distance(sig, b) + bit - InByte(sig)

\* The position of the lowest bit, as byte and bit.
LEMMA Start ==
  ASSUME NEW s, IsSignal(s)
  PROVE  /\ InByte(s) \in 0..7 /\ StartByte(s) \in 0..7
         /\ s.start = 8 * StartByte(s) + InByte(s)
         /\ s.length \in 1..64 /\ s.big \in BOOLEAN /\ s.signed \in BOOLEAN /\ s.start \in 0..63
BY DEF IsSignal, InByte, StartByte

\* Bytes are counted by division.
LEMMA Quotient ==
  ASSUME NEW a \in Int
  PROVE  a \div 8 \in Int /\ 8 * (a \div 8) <= a /\ a < 8 * (a \div 8) + 8
OBVIOUS

\* How many bytes are behind the first.
LEMMA Residual ==
  ASSUME NEW s, IsSignal(s)
  PROVE  /\ ResidualBytes(s) \in 0..8
         /\ 8 * ResidualBytes(s) <= InByte(s) + s.length - 1
         /\ InByte(s) + s.length - 1 < 8 * ResidualBytes(s) + 8
<1> DEFINE in == InByte(s)  sb == StartByte(s)  len == s.length
<1>1. in \in 0..7 /\ sb \in 0..7 /\ s.start = 8 * sb + in /\ len \in 1..64 /\ s.big \in BOOLEAN
  BY Start
<1>2. CASE s.big
  <2> DEFINE e == (sb * 8 + 8 - in - len) \div 8
  <2>1. ResidualBytes(s) = sb - e
    BY <1>2 DEF ResidualBytes, InByte, StartByte
  <2>2. e \in Int /\ 8 * e <= sb * 8 + 8 - in - len /\ sb * 8 + 8 - in - len < 8 * e + 8
    <3>1. sb * 8 + 8 - in - len \in Int
      BY <1>1
    <3> QED
      BY <3>1, Quotient
  <2> HIDE DEF in, sb, len, e
  <2>3. sb - e \in 0..8 /\ 8 * (sb - e) <= in + len - 1 /\ in + len - 1 < 8 * (sb - e) + 8
    BY <1>1, <2>2
  <2> QED
    BY <2>1, <2>3 DEF in, len
<1>3. CASE ~s.big
  <2> DEFINE e == (s.start + len - 1) \div 8
  <2>1. ResidualBytes(s) = e - sb
    BY <1>3 DEF ResidualBytes, StartByte
  <2>2. e \in Int /\ 8 * e <= 8 * sb + in + len - 1 /\ 8 * sb + in + len - 1 < 8 * e + 8
    <3>1. s.start + len - 1 \in Int /\ s.start + len - 1 = 8 * sb + in + len - 1
      BY <1>1
    <3> QED
      BY <3>1, Quotient
  <2> HIDE DEF in, sb, len, e
  <2>3. e - sb \in 0..8 /\ 8 * (e - sb) <= in + len - 1 /\ in + len - 1 < 8 * (e - sb) + 8
    BY <1>1, <2>2
  <2> QED
    BY <2>1, <2>3 DEF in, len
<1> QED
  BY <1>1, <1>2, <1>3

\* A bit of a byte is the i-th of a signal exactly when i is BitAt().
LEMMA CellAt ==
  ASSUME NEW s, IsSignal(s), NEW i \in Nat, NEW b \in Int, NEW bit \in Byte
  PROVE  Cell(s, i) = <<b, bit>> <=> i = BitAt(s, b, bit)
<1> DEFINE in == InByte(s)  sb == StartByte(s)  away == (in + i) \div 8
<1>1. in \in 0..7 /\ sb \in 0..7 /\ s.big \in BOOLEAN /\ bit \in 0..7
  BY Start DEF Byte
<1>2. Cell(s, i) = <<sb + (IF s.big THEN -away ELSE away), (in + i) % 8>>
  BY DEF Cell, InByte, StartByte
<1>3. away \in Int /\ (in + i) % 8 \in 0..7 /\ in + i = 8 * away + ((in + i) % 8)
  BY <1>1
<1>4. BitAt(s, b, bit) = 8 * (IF s.big THEN sb - b ELSE b - sb) + bit - in
  BY DEF BitAt, Distance
<1> HIDE DEF in, sb
<1>5. CASE s.big
  BY <1>1, <1>2, <1>3, <1>4, <1>5
<1>6. CASE ~s.big
  BY <1>1, <1>2, <1>3, <1>4, <1>6
<1> QED
  BY <1>1, <1>5, <1>6

\* Each bit of a signal that fits into a frame has a cell there.
LEMMA CellIn ==
  ASSUME NEW s, IsSignal(s), Fits(s), NEW i \in 0..s.length - 1
  PROVE  \E b \in 0..7, bit \in Byte : Cell(s, i) = <<b, bit>> /\ i = BitAt(s, b, bit)
<1>1. i \in Nat
  BY Start
<1>2. Cell(s, i)[1] \in 0..7
  BY DEF Fits, Cells
<1>3. Cell(s, i) = <<Cell(s, i)[1], Cell(s, i)[2]>> /\ Cell(s, i)[2] \in 0..7
  BY <1>1, Start DEF Cell
<1> QED
  BY <1>1, <1>2, <1>3, CellAt DEF Byte

-----------------------------------------------------------------------------
(* storeSignal.                                                            *)

\* Bits behind a shift.
LEMMA Shifted ==
  ASSUME NEW x, x \subseteq Word, NEW n \in 0..64, NEW b \in Int
  PROVE  /\ b \in ShiftLeft(x, n) <=> b - n \in x /\ b \in Word
         /\ b \in ShiftRight(x, n) <=> b + n \in x /\ b \in Word
BY DEF ShiftLeft, ShiftRight, Word

\* One byte: the bits of the signal in it are those of the value, the others stay.
LEMMA ByteStored ==
  ASSUME NEW s, IsSignal(s), NEW byte, byte \subseteq Byte, NEW value, value \subseteq Word,
         NEW k \in 0..ResidualBytes(s), NEW bit \in Byte,
         NEW i, i = 8 * k + bit - InByte(s)
  PROVE  bit \in StoreByte(byte, k, value \cap Mask64(s.length), s)
           <=> IF i \in 0..s.length - 1 THEN i \in value ELSE bit \in byte
<1> DEFINE in == InByte(s)  len == s.length  v == value \cap Mask64(len)
           res == ResidualBytes(s)
<1>1. /\ in \in 0..7 /\ len \in 1..64 /\ res \in 0..8 /\ k \in 0..res /\ bit \in 0..7
      /\ 8 * res <= in + len - 1 /\ in + len - 1 < 8 * res + 8
      /\ i = 8 * k + bit - in
  BY Start, Residual DEF Byte
<1> HIDE DEF in, len, res
<1>2. k \in Nat /\ k <= res /\ i \in Int
  BY <1>1
<1>3. v \subseteq Word /\ (i \in v <=> i \in value /\ i \in 0..len - 1)
  BY <1>1, <1>2 DEF Mask64
<1>4. CASE k = 0
  <2> DEFINE n == IF 8 - in > len THEN len ELSE 8 - in
  <2>1. StoreByte(byte, k, v, s) = ClearBits(byte, in, n) \cup ToByte(ShiftLeft(v, in))
    BY <1>4 DEF StoreByte, InByte, in, len
  <2>2. n \in 0..8 /\ (bit \in in..in + n - 1 <=> i \in 0..len - 1)
    <3>1. i = bit - in /\ bit \in 0..7 /\ in \in 0..7 /\ len \in 1..64
      BY <1>1, <1>2, <1>4
    <3>2. CASE 8 - in > len
      BY <3>1, <3>2
    <3>3. CASE ~(8 - in > len)
      BY <3>1, <3>3
    <3> QED
      BY <3>2, <3>3
  <2> HIDE DEF v, n
  <2>3. bit \in ClearBits(byte, in, n) <=> bit \in byte /\ i \notin 0..len - 1
    BY <2>2 DEF ClearBits
  <2>4. bit \in ToByte(ShiftLeft(v, in)) <=> i \in v
    <3>1. bit \in Int /\ in \in 0..64 /\ bit \in Word /\ bit - in = i
      BY <1>1, <1>2, <1>4 DEF Word
    <3> QED
      BY <1>3, <3>1, Shifted DEF ToByte
  <2> QED
    BY <1>3, <2>1, <2>3, <2>4 DEF v, len
<1>5. CASE k # 0
  <2> DEFINE n == IF 8 - in > len THEN len ELSE 8 - in
             left == len - n - 8 * (k - 1)
             m == IF left >= 8 THEN 8 ELSE left
             t == TargetLength(s, k)
  <2>1. StoreByte(byte, k, v, s) = ClearBits(byte, 0, m) \cup ToByte(ShiftRight(v, t))
    BY <1>5 DEF StoreByte, InByte, in, len
  <2>2. t = 8 * k - in
    BY <1>1, <1>2 DEF TargetLength, InByte, in
  <2>3. n = 8 - in
    BY <1>1, <1>2, <1>5
  <2> HIDE DEF n, t
  <2>4. left = in + len - 8 * k
    BY <1>1, <1>2, <2>3
  <2> HIDE DEF left
  <2>5. m \in 0..8 /\ (bit \in 0..m - 1 <=> i \in 0..len - 1)
    BY <1>1, <1>2, <1>5, <2>4
  <2> HIDE DEF v, m
  <2>6. bit \in ClearBits(byte, 0, m) <=> bit \in byte /\ i \notin 0..len - 1
    <3>1. 0 + m - 1 = m - 1
      BY <2>5
    <3> QED
      BY <2>5, <3>1 DEF ClearBits
  <2>7. bit \in ToByte(ShiftRight(v, t)) <=> i \in v
    <3>1. bit \in Int /\ t \in 0..64 /\ bit \in Word /\ bit + t = i
      BY <1>1, <1>2, <1>5, <2>2 DEF Word
    <3> QED
      BY <1>3, <3>1, Shifted DEF ToByte
  <2> QED
    BY <1>3, <2>1, <2>6, <2>7 DEF v, len
<1> QED
  BY <1>4, <1>5

\* The whole frame.
LEMMA Stored ==
  ASSUME NEW bytes \in Frame, NEW s, IsSignal(s), NEW value, value \subseteq Word,
         NEW b \in 0..7, NEW bit \in Byte, NEW i, i = BitAt(s, b, bit)
  PROVE  bit \in StoreSignal(bytes, value, s)[b]
           <=> IF i \in 0..s.length - 1 THEN i \in value ELSE bit \in bytes[b]
<1> DEFINE k == Distance(s, b)
<1>1. /\ k \in Int /\ InByte(s) \in 0..7 /\ s.length \in 1..64 /\ ResidualBytes(s) \in 0..8
      /\ 8 * ResidualBytes(s) <= InByte(s) + s.length - 1
      /\ InByte(s) + s.length - 1 < 8 * ResidualBytes(s) + 8 /\ bit \in 0..7
  BY Start, Residual DEF Byte, Distance
<1>2. i = 8 * k + bit - InByte(s)
  BY DEF BitAt
<1>3. StoreSignal(bytes, value, s)[b] =
        IF k \in 0..ResidualBytes(s)
        THEN StoreByte(bytes[b], k, value \cap Mask64(s.length), s) ELSE bytes[b]
  BY DEF StoreSignal, Distance, StartByte
<1>4. bytes[b] \subseteq Byte
  BY DEF Frame
<1> HIDE DEF k
<1>5. CASE k \in 0..ResidualBytes(s)
  <2>1. bit \in StoreByte(bytes[b], k, value \cap Mask64(s.length), s)
          <=> IF i \in 0..s.length - 1 THEN i \in value ELSE bit \in bytes[b]
    BY <1>2, <1>4, <1>5, ByteStored
  <2> QED
    BY <1>3, <1>5, <2>1
<1>6. CASE k \notin 0..ResidualBytes(s)
  <2> DEFINE in == InByte(s)  len == s.length  res == ResidualBytes(s)
  <2>1. /\ k \in Int /\ in \in 0..7 /\ len \in 1..64 /\ res \in 0..8 /\ bit \in 0..7
        /\ in + len - 1 < 8 * res + 8 /\ k \notin 0..res /\ i = 8 * k + bit - in
    BY <1>1, <1>2, <1>6
  <2> HIDE DEF in, len, res
  <2>2. i \notin 0..len - 1
    BY <2>1
  <2> QED
    BY <1>3, <1>6, <2>2 DEF len
<1> QED
  BY <1>5, <1>6

\* The frame stays one of 8 bytes.
LEMMA StoredFrame ==
  ASSUME NEW bytes \in Frame, NEW s, IsSignal(s), NEW value
  PROVE  StoreSignal(bytes, value, s) \in Frame
<1>1. \A byte, k, v : byte \subseteq Byte => StoreByte(byte, k, v, s) \subseteq Byte
  BY DEF StoreByte, ClearBits, ToByte
<1>2. \A b \in 0..7 : bytes[b] \subseteq Byte
  BY DEF Frame
<1> QED
  BY <1>1, <1>2 DEF StoreSignal, Frame

-----------------------------------------------------------------------------
(* extractSignal, of a signal that fits into an int.                       *)

\* The bits that lie in the cells of a signal.
Read(bytes, s) == {i \in 0..s.length - 1 : Cell(s, i)[2] \in bytes[Cell(s, i)[1]]}

\* A bit of a byte that is shifted as an int, below the sign.
LEMMA IntShifted ==
  ASSUME NEW byte, byte \subseteq Byte, NEW n \in 0..31, NEW shifting, NEW i \in 0..31
  PROVE  i \in IntShiftLeft(byte, n, shifting) <=> i - n \in byte
<1>1. n % 32 = n /\ ~(n >= 32)
  OBVIOUS
<1>2. IntShiftLeft(byte, n, shifting) = ({b + n : b \in byte} \cap 0..31)
         \cup (IF 31 \in {b + n : b \in byte} \cap 0..31 THEN 32..63 ELSE {})
  BY <1>1 DEF IntShiftLeft
<1>3. i \notin 32..63 /\ \A b \in byte : b \in Int
  BY DEF Byte
<1> QED
  BY <1>2, <1>3

\* The loops gather the bits of the signal.
LEMMA TargetIsRead ==
  ASSUME NEW bytes \in Frame, NEW s, IsSignal(s), Fits(s), s.length <= 32, NEW shifting
  PROVE  Target(bytes, s, shifting) = Read(bytes, s)
<1> DEFINE in == InByte(s)  len == s.length  sb == StartByte(s)  res == ResidualBytes(s)
           first == ShiftRight(bytes[sb], in)
           Rest(k) == IntShiftLeft(bytes[ByteAt(s, k)], TargetLength(s, k), shifting)
<1>1. /\ in \in 0..7 /\ len \in 1..32 /\ sb \in 0..7 /\ res \in 0..8
      /\ 8 * res <= in + len - 1 /\ in + len - 1 < 8 * res + 8
  BY Start, Residual
<1>2. Target(bytes, s, shifting) = (first \cup UNION {Rest(k) : k \in 1..res}) \cap (0..len - 1)
  BY DEF Target, Mask64, InByte, StartByte
<1> HIDE DEF in, len, sb, res
<1>3. ASSUME NEW i \in 0..len - 1
      PROVE  i \in Target(bytes, s, shifting) <=> i \in Read(bytes, s)
  <2>1. i \in 0..s.length - 1 /\ i \in Int /\ i \in 0..31
    BY <1>1 DEF len
  <2>2. PICK b \in 0..7, bit \in Byte : Cell(s, i) = <<b, bit>> /\ i = BitAt(s, b, bit)
    BY <2>1, CellIn
  <2>3. i \in Read(bytes, s) <=> bit \in bytes[b]
    BY <2>1, <2>2 DEF Read
  <2> DEFINE d == Distance(s, b)
  <2>4. i = 8 * d + bit - in /\ bit \in 0..7 /\ d \in Int
    BY <2>2, <1>1 DEF BitAt, in, Byte, Distance, sb
  <2>5. ByteAt(s, d) = b /\ (d = 0 => b = sb)
    BY <1>1, <2>2 DEF ByteAt, Distance, sb, StartByte
  <2> HIDE DEF d
  <2>6. d \in 0..res
    BY <1>1, <2>1, <2>4
  <2>7. i \in first <=> d = 0 /\ bit \in bytes[b]
    <3>1. i \in first <=> i + in \in bytes[sb]
      <4>1. bytes[sb] \subseteq Word /\ in \in 0..64 /\ i \in Word
        BY <1>1, <2>1 DEF Frame, Byte, Word
      <4> QED
        BY <4>1, <2>1, Shifted DEF first
    <3>2. CASE d = 0
      <4>1. i + in = bit
        BY <1>1, <2>1, <2>4, <3>2
      <4> QED
        BY <2>5, <3>1, <3>2, <4>1
    <3>3. CASE d # 0
      <4>1. i + in \notin Byte
        BY <1>1, <2>1, <2>4, <2>6, <3>3 DEF Byte
      <4>2. bytes[sb] \subseteq Byte
        BY <1>1 DEF Frame
      <4> QED
        BY <3>1, <3>3, <4>1, <4>2
    <3> QED
      BY <3>2, <3>3
  <2>8. ASSUME NEW k \in 1..res
        PROVE  /\ i \in Rest(k) <=> i - TargetLength(s, k) \in bytes[ByteAt(s, k)]
               /\ bytes[ByteAt(s, k)] \subseteq Byte
    <3>1. TargetLength(s, k) = 8 * k - in
      BY <1>1 DEF TargetLength, InByte, in
    <3>2. 8 * k - in \in 0..31
      BY <1>1
    <3>3. ByteAt(s, k) \in 0..7
      <4> DEFINE j == 8 * k - in
      <4>1. j \in 0..s.length - 1
        BY <1>1 DEF len
      <4>2. PICK c \in 0..7, l \in Byte : j = BitAt(s, c, l)
        BY <4>1, CellIn
      <4>3. BitAt(s, c, l) = 8 * Distance(s, c) + l - in
        BY DEF BitAt, in
      <4>4. Distance(s, c) \in Int
        BY <1>1 DEF Distance, sb
      <4>5. k = Distance(s, c)
        BY <1>1, <4>2, <4>3, <4>4 DEF Byte
      <4> QED
        BY <1>1, <4>2, <4>5 DEF ByteAt, Distance, StartByte, sb
    <3>4. bytes[ByteAt(s, k)] \subseteq Byte
      BY <3>3 DEF Frame
    <3> QED
      BY <2>1, <3>1, <3>2, <3>4, IntShifted
  <2>9. ASSUME NEW k \in 1..res
        PROVE  i \in Rest(k) => d = k /\ bit \in bytes[b]
    <3>1. i - TargetLength(s, k) = 8 * (d - k) + bit
      BY <1>1, <2>1, <2>4 DEF TargetLength, InByte, in
    <3>2. SUFFICES ASSUME i \in Rest(k) PROVE d = k /\ bit \in bytes[b]
      OBVIOUS
    <3>3. 8 * (d - k) + bit \in bytes[ByteAt(s, k)] /\ 8 * (d - k) + bit \in 0..7
      BY <2>8, <3>1, <3>2 DEF Byte
    <3>4. d = k
      <4>1. d \in Int /\ k \in Int /\ bit \in 0..7
        BY <1>1, <2>4
      <4> QED
        BY <3>3, <4>1
    <3>5. 8 * (d - k) + bit = bit
      BY <2>4, <3>4
    <3> QED
      BY <2>5, <3>3, <3>4, <3>5
  <2>10. ASSUME d # 0, bit \in bytes[b]
         PROVE  \E k \in 1..res : i \in Rest(k)
    <3>1. d \in 1..res
      BY <1>1, <2>6, <2>10
    <3>2. i - TargetLength(s, d) = bit
      BY <1>1, <2>4 DEF TargetLength, InByte, in
    <3>3. i \in Rest(d)
      BY <2>5, <2>8, <2>10, <3>1, <3>2
    <3> QED
      BY <3>1, <3>3
  <2> HIDE DEF first, Rest
  <2> QED
    BY <1>2, <2>3, <2>7, <2>9, <2>10
<1>4. Target(bytes, s, shifting) \subseteq 0..len - 1 /\ Read(bytes, s) \subseteq 0..len - 1
  BY <1>2 DEF Read, len
<1> QED
  BY <1>3, <1>4

\* The mask of the sign, which has the sign of an int if there are 32 bits, and the
\* number that low bits are.
SignBits(len) == IF len = 32 THEN 31..63 ELSE {len - 1}
WithSign(low, len) == IF len - 1 \in low THEN low \cup (len..63) ELSE low

\* Inverting the sign bit and subtracting the mask extends the sign: the subtraction
\* borrows from the sign bit on if it was set, and not at all otherwise.
LEMMA SignExtended32 ==
  ASSUME NEW len \in 1..32, NEW low \in SUBSET (0..len - 1), NEW mask, mask = SignBits(len)
  PROVE  Minus(Xor(low, mask), mask) = WithSign(low, len)
<1> DEFINE m == len - 1  x == Xor(low, mask)
           Borrows(i) == \E j \in 0..i - 1 : j \in mask \ x /\ (j + 1..i - 1) \cap (x \ mask) = {}
<1>1. m \in 0..31 /\ m \in mask /\ mask \subseteq m..63 /\ low \subseteq 0..m
  BY DEF SignBits
<1>2. mask \ x = (IF m \in low THEN {m} ELSE {}) /\ \A j \in x \ mask : j < m
  BY <1>1 DEF Xor, SignBits
<1>3. Xor(x, mask) = low
  BY DEF Xor
<1>4. Minus(x, mask) = Xor(low, {i \in Word : Borrows(i)})
  BY <1>3 DEF Minus
<1> HIDE DEF x
<1>5. CASE m \in low
  <2>1. ASSUME NEW i \in Word PROVE Borrows(i) <=> i \in len..63
    <3>1. i \in 0..63
      BY DEF Word
    <3>2. CASE i \in len..63
      <4>1. m \in 0..i - 1 /\ m \in mask \ x
        BY <1>1, <1>2, <1>5, <3>2
      <4>2. (m + 1..i - 1) \cap (x \ mask) = {}
        BY <1>1, <1>2
      <4> QED
        BY <3>2, <4>1, <4>2
    <3>3. CASE i \notin len..63
      BY <1>1, <1>2, <3>1, <3>3
    <3> QED
      BY <3>2, <3>3
  <2>2. {i \in Word : Borrows(i)} = len..63
    <3>1. len..63 \subseteq Word
      BY DEF Word
    <3> HIDE DEF Borrows
    <3> QED
      BY <2>1, <3>1
  <2>3. Xor(low, len..63) = low \cup (len..63)
    BY DEF Xor
  <2> QED
    BY <1>4, <1>5, <2>2, <2>3 DEF x, WithSign
<1>6. CASE m \notin low
  <2>1. {i \in Word : Borrows(i)} = {}
    BY <1>2, <1>6
  <2> QED
    BY <1>4, <1>6, <2>1 DEF Xor, x, WithSign
<1> QED
  BY <1>5, <1>6

\* The mask of the sign is what 1 << (length - 1) is as an int.
LEMMA SignMask ==
  ASSUME NEW len \in 1..32, NEW shifting
  PROVE  IntShiftLeft({0}, len - 1, shifting) = SignBits(len)
<1>1. (len - 1) % 32 = len - 1 /\ ~(len - 1 >= 32)
  OBVIOUS
<1>2. IntShiftLeft({0}, len - 1, shifting) =
        ({b + (len - 1) : b \in {0}} \cap 0..31)
          \cup (IF 31 \in {b + (len - 1) : b \in {0}} \cap 0..31 THEN 32..63 ELSE {})
  BY <1>1 DEF IntShiftLeft
<1>3. {b + (len - 1) : b \in {0}} \cap 0..31 = {len - 1}
  OBVIOUS
<1>4. IntShiftLeft({0}, len - 1, shifting) = {len - 1} \cup (IF len = 32 THEN 32..63 ELSE {})
  BY <1>2, <1>3
<1>5. CASE len = 32
  <2>1. 31..63 = {31} \cup 32..63
    OBVIOUS
  <2> QED
    BY <1>4, <1>5, <2>1 DEF SignBits
<1>6. CASE len # 32
  BY <1>4, <1>6 DEF SignBits
<1> QED
  BY <1>5, <1>6

\* A signal of up to 32 bits reads as the number in its cells, with its sign.
LEMMA Extracted ==
  ASSUME NEW bytes \in Frame, NEW s, IsSignal(s), Fits(s), s.length <= 32, NEW shifting
  PROVE  ExtractSignal(bytes, s, shifting) = Extended(Read(bytes, s), s)
<1> DEFINE low == Read(bytes, s)
<1>1. s.length \in 1..32 /\ s.signed \in BOOLEAN
  BY Start
<1>2. Target(bytes, s, shifting) = low /\ low \subseteq 0..s.length - 1
  BY TargetIsRead DEF Read
<1>3. low \cap (0..s.length - 1) = low
  BY <1>2
<1> HIDE DEF low
<1>4. Extended(low, s) = IF s.signed THEN WithSign(low, s.length) ELSE low
  BY <1>3 DEF Extended, WithSign
<1> DEFINE mask == IntShiftLeft({0}, s.length - 1, shifting)
<1>5. ExtractSignal(bytes, s, shifting) = IF s.signed THEN Minus(Xor(low, mask), mask) ELSE low
  BY <1>2 DEF ExtractSignal
<1>6. Minus(Xor(low, mask), mask) = WithSign(low, s.length)
  <2>1. mask = SignBits(s.length)
    BY <1>1, SignMask
  <2> HIDE DEF mask
  <2> QED
    BY <1>1, <1>2, <2>1, SignExtended32
<1> QED
  BY <1>4, <1>5, <1>6 DEF low

-----------------------------------------------------------------------------
(* Induction.                                                              *)

\* A set of numbers has a least element.
LEMMA Least ==
  ASSUME NEW T, T \subseteq Nat, T # {}
  PROVE  \E n \in T : \A m \in T : n <= m
<1> DEFINE R == OpToRel(<, Nat)
<1>1. IsWellFoundedOn(R, Nat)
  BY NatLessThanWellFounded
<1>2. ASSUME NEW a \in Nat, NEW b \in Nat, a < b PROVE <<a, b>> \in R
  BY <1>2 DEF OpToRel
<1> HIDE DEF R
<1>3. PICK n \in T : \A m \in T : ~ (<<m, n>> \in R)
  BY <1>1, WFMin
<1>4. ASSUME NEW m \in T PROVE n <= m
  <2>1. n \in Nat /\ m \in Nat
    OBVIOUS
  <2>2. ~ (m < n)
    BY <1>2, <1>3, <2>1
  <2> QED
    BY <2>1, <2>2
<1> QED
  BY <1>4

\* Induction, about a set of numbers in place of a predicate.
LEMMA Inductive ==
  ASSUME NEW S, 0 \in S, \A n \in Nat : n \in S => n + 1 \in S
  PROVE  Nat \subseteq S
<1> SUFFICES ASSUME Nat \ S # {} PROVE FALSE
  OBVIOUS
<1>1. PICK n \in Nat \ S : \A m \in Nat \ S : n <= m
  <2>1. Nat \ S \subseteq Nat
    OBVIOUS
  <2> QED
    BY <2>1, Least
<1>2. n # 0 /\ n \in Nat
  OBVIOUS
<1>3. n - 1 \in Nat /\ (n - 1) + 1 = n /\ ~(n <= n - 1)
  BY <1>2
<1>4. n - 1 \in S
  BY <1>1, <1>3
<1> QED
  BY <1>3, <1>4

-----------------------------------------------------------------------------
(* The number that bits make.                                              *)

\* What the k-th bit from above adds, and the number that the k highest bits make.
Digit(x, length, signed, k) ==
  IF length - k \notin x THEN 0 ELSE IF signed /\ k = 1 THEN -1 ELSE 1
TopStep(x, length, signed, top, k) ==
  IF k = 0 THEN 0 ELSE 2 * top[k - 1] + Digit(x, length, signed, k)

\* The definition by recursion is sound.
LEMMA TopsExist ==
  ASSUME NEW x, NEW length \in Nat, NEW signed
  PROVE  \E top : top = [k \in 0..length |-> TopStep(x, length, signed, top, k)]
<1> DEFINE Good(n) == \E top : top = [k \in 0..n |-> TopStep(x, length, signed, top, k)]
           S == {n \in Nat : Good(n)}
<1>1. 0 \in S
  <2> DEFINE top == [k \in 0..0 |-> 0]
  <2>1. top = [k \in 0..0 |-> TopStep(x, length, signed, top, k)]
    BY DEF TopStep
  <2> QED
    BY <2>1
<1>2. ASSUME NEW n \in Nat, n \in S PROVE n + 1 \in S
  <2>1. PICK t : t = [k \in 0..n |-> TopStep(x, length, signed, t, k)]
    BY <1>2
  <2> DEFINE top == [k \in 0..n + 1 |-> TopStep(x, length, signed, t, k)]
  <2>2. \A k \in 0..n : top[k] = t[k]
    BY <2>1
  <2>3. ASSUME NEW k \in 0..n + 1
        PROVE  TopStep(x, length, signed, t, k) = TopStep(x, length, signed, top, k)
    <3>1. CASE k = 0
      BY <3>1 DEF TopStep
    <3>2. CASE k # 0
      <4>1. k - 1 \in 0..n
        BY <3>2
      <4> QED
        BY <2>2, <3>2, <4>1 DEF TopStep
    <3> QED
      BY <3>1, <3>2
  <2>4. top = [k \in 0..n + 1 |-> TopStep(x, length, signed, top, k)]
    BY <2>3
  <2> HIDE DEF top
  <2>5. Good(n + 1)
    BY <2>4
  <2> QED
    BY <2>5
<1>3. Nat \subseteq S
  <2> HIDE DEF S
  <2> QED
    BY <1>1, <1>2, Inductive
<1> QED
  BY <1>3

\* A value is the last of these numbers.
IsTops(top, x, length, signed) ==
  /\ top[0] = 0 /\ \A k \in 0..length : top[k] \in Int
  /\ \A k \in 1..length : top[k] = 2 * top[k - 1] + Digit(x, length, signed, k)
  /\ Value(x, length, signed) = top[length]

LEMMA Tops ==
  ASSUME NEW x, NEW length \in Nat, NEW signed
  PROVE  \E top : IsTops(top, x, length, signed)
<1> DEFINE t == CHOOSE top : top = [k \in 0..length |-> TopStep(x, length, signed, top, k)]
<1>1. t = [k \in 0..length |-> TopStep(x, length, signed, t, k)]
  BY TopsExist
<1>2. Value(x, length, signed) = t[length]
  BY DEF Value, TopStep, Digit
<1> HIDE DEF t
<1>3. t[0] = 0
  BY <1>1 DEF TopStep
<1>4. \A k \in 1..length : t[k] = 2 * t[k - 1] + Digit(x, length, signed, k)
  <2>1. ASSUME NEW k \in 1..length PROVE t[k] = TopStep(x, length, signed, t, k)
    BY <1>1
  <2> QED
    BY <2>1 DEF TopStep
<1>5. \A k \in 0..length : t[k] \in Int
  <2> DEFINE S == {n \in Nat : n \in 0..length => t[n] \in Int}
  <2>1. 0 \in S
    BY <1>3
  <2>2. ASSUME NEW n \in Nat, n \in S PROVE n + 1 \in S
    <3> SUFFICES ASSUME n + 1 \in 0..length PROVE t[n + 1] \in Int
      OBVIOUS
    <3>1. n \in 0..length /\ n + 1 \in 1..length /\ (n + 1) - 1 = n
      OBVIOUS
    <3>2. t[n] \in Int
      BY <2>2, <3>1
    <3>3. Digit(x, length, signed, n + 1) \in Int
      BY DEF Digit
    <3>4. t[n + 1] = 2 * t[n] + Digit(x, length, signed, n + 1)
      BY <1>4, <3>1
    <3> QED
      BY <3>2, <3>3, <3>4
  <2>3. Nat \subseteq S
    <3> HIDE DEF S
    <3> QED
      BY <2>1, <2>2, Inductive
  <2> QED
    BY <2>3
<1>6. IsTops(t, x, length, signed)
  BY <1>2, <1>3, <1>4, <1>5 DEF IsTops
<1> QED
  BY <1>6

\* It is a number.
LEMMA ValueIsInt ==
  ASSUME NEW x, NEW length \in Nat, NEW signed
  PROVE  Value(x, length, signed) \in Int
<1>1. PICK top : IsTops(top, x, length, signed)
  BY Tops
<1>2. length \in 0..length
  OBVIOUS
<1> QED
  BY <1>1, <1>2 DEF IsTops

\* The number that the highest bit of a signed one counts for.
Sign(x, length, signed) == IF signed /\ length - 1 \in x THEN -1 ELSE 0

\* The places of the low bits of 64, counted from the highest down.
LEMMA LowPlaces ==
  ASSUME NEW len \in 1..64, NEW n \in Nat, n + 1 \in 1..len
  PROVE  /\ (64 - len) + (n + 1) \in 1..64
         /\ ((64 - len) + (n + 1)) - 1 = (64 - len) + n /\ (n + 1) - 1 = n
         /\ 64 - ((64 - len) + (n + 1)) = len - (n + 1) /\ len - (n + 1) \in 0..len - 1
OBVIOUS

\* A number with its sign extended to 64 bits is the same number (the casts of
\* toPhysicalValue, where extractSignal has extended the sign).
LEMMA SameValue ==
  ASSUME NEW s, IsSignal(s), NEW x
  PROVE  Value(Extended(x, s), 64, s.signed) = Value(x, s.length, s.signed)
<1> DEFINE len == s.length  d == 64 - len  signed == s.signed
           ext == Extended(x, s)  sign == Sign(x, len, signed)
<1>1. len \in 1..64 /\ d \in 0..63 /\ signed \in BOOLEAN /\ sign \in {0, -1}
  BY DEF IsSignal, Sign
<1>2. /\ \A i \in 0..len - 1 : i \in ext <=> i \in x
      /\ \A i \in len..63 : i \in ext <=> sign = -1
  BY <1>1 DEF Extended, Sign
<1>a. PICK t : IsTops(t, ext, 64, signed)
  BY Tops
<1>b. PICK u : IsTops(u, x, len, signed)
  <2>1. len \in Nat
    BY <1>1
  <2> QED
    BY <2>1, Tops
<1>3. /\ t[0] = 0 /\ \A k \in 0..64 : t[k] \in Int
      /\ \A k \in 1..64 : t[k] = 2 * t[k - 1] + Digit(ext, 64, signed, k)
      /\ Value(ext, 64, signed) = t[64]
  BY <1>a DEF IsTops
<1>4. /\ u[0] = 0 /\ \A k \in 0..len : u[k] \in Int
      /\ \A k \in 1..len : u[k] = 2 * u[k - 1] + Digit(x, len, signed, k)
      /\ Value(x, len, signed) = u[len]
  BY <1>b DEF IsTops
<1>5. \A k \in 1..d : t[k] = sign
  <2> DEFINE S == {n \in Nat : n \in 1..d => t[n] = sign}
  <2>1. 0 \in S
    OBVIOUS
  <2>2. ASSUME NEW n \in Nat, n \in S PROVE n + 1 \in S
    <3> SUFFICES ASSUME n + 1 \in 1..d PROVE t[n + 1] = sign
      OBVIOUS
    <3>1. n + 1 \in 1..64 /\ (n + 1) - 1 = n /\ 64 - (n + 1) \in len..63
      BY <1>1
    <3>2. t[n + 1] = 2 * t[n] + Digit(ext, 64, signed, n + 1)
      BY <1>3, <3>1
    <3>3. 64 - (n + 1) \in ext <=> sign = -1
      BY <1>2, <3>1
    <3>4. CASE n = 0
      BY <1>1, <1>3, <3>2, <3>3, <3>4 DEF Digit, Sign
    <3>5. CASE n # 0
      <4>1. t[n] = sign
        BY <1>1, <2>2, <3>5
      <4>2. Digit(ext, 64, signed, n + 1) = IF sign = -1 THEN 1 ELSE 0
        BY <3>3, <3>5 DEF Digit
      <4> QED
        BY <1>1, <3>2, <4>1, <4>2
    <3> QED
      BY <3>4, <3>5
  <2>3. Nat \subseteq S
    <3> HIDE DEF S
    <3> QED
      BY <2>1, <2>2, Inductive
  <2> QED
    BY <2>3
<1>6. \A k \in 1..len : t[d + k] = u[k]
  <2> DEFINE S == {n \in Nat : n \in 1..len => t[d + n] = u[n]}
  <2>1. 0 \in S
    OBVIOUS
  <2>2. ASSUME NEW n \in Nat, n \in S PROVE n + 1 \in S
    <3> SUFFICES ASSUME n + 1 \in 1..len PROVE t[d + (n + 1)] = u[n + 1]
      OBVIOUS
    <3>1. /\ d + (n + 1) \in 1..64 /\ (d + (n + 1)) - 1 = d + n /\ (n + 1) - 1 = n
          /\ 64 - (d + (n + 1)) = len - (n + 1) /\ len - (n + 1) \in 0..len - 1
      <4>1. d = 64 - len /\ len \in 1..64
        BY <1>1
      <4> HIDE DEF d, len
      <4>2. n + 1 \in 1..len
        OBVIOUS
      <4> QED
        BY <4>1, <4>2, LowPlaces
    <3>2. t[d + (n + 1)] = 2 * t[d + n] + Digit(ext, 64, signed, d + (n + 1))
      BY <1>3, <3>1
    <3>3. u[n + 1] = 2 * u[n] + Digit(x, len, signed, n + 1)
      BY <1>4, <3>1
    <3>4. len - (n + 1) \in ext <=> len - (n + 1) \in x
      BY <1>2, <3>1
    <3>5. CASE n = 0
      <4>1. u[1] = IF len - 1 \notin x THEN 0 ELSE IF signed THEN -1 ELSE 1
        <5>1. u[1] = 2 * u[0] + Digit(x, len, signed, 1)
          BY <3>3, <3>5
        <5>2. Digit(x, len, signed, 1) = IF len - 1 \notin x THEN 0 ELSE IF signed THEN -1 ELSE 1
          BY DEF Digit
        <5> QED
          BY <1>4, <5>1, <5>2
      <4>2. CASE d = 0
        <5>1. len = 64 /\ t[1] = 2 * t[0] + Digit(ext, 64, signed, 1) /\ d + (n + 1) = 1
          BY <1>1, <3>2, <3>5, <4>2
        <5>2. Digit(ext, 64, signed, 1) = IF 63 \notin ext THEN 0 ELSE IF signed THEN -1 ELSE 1
          BY DEF Digit
        <5>3. 63 \in ext <=> len - 1 \in x
          BY <3>4, <3>5, <5>1
        <5> QED
          BY <1>3, <3>5, <4>1, <5>1, <5>2, <5>3
      <4>3. CASE d # 0
        <5>1. t[d] = sign
          BY <1>1, <1>5, <4>3
        <5>2. Digit(ext, 64, signed, d + 1) = IF len - 1 \in x THEN 1 ELSE 0
          BY <1>1, <3>1, <3>4, <3>5, <4>3 DEF Digit
        <5>3. t[d + 1] = 2 * sign + (IF len - 1 \in x THEN 1 ELSE 0)
          BY <1>1, <3>2, <3>5, <5>1, <5>2
        <5> QED
          BY <3>5, <4>1, <5>3 DEF Sign
      <4> QED
        BY <4>2, <4>3
    <3>6. CASE n # 0
      <4>1. t[d + n] = u[n]
        BY <1>1, <2>2, <3>6
      <4>2. Digit(ext, 64, signed, d + (n + 1)) = Digit(x, len, signed, n + 1)
        BY <1>1, <3>1, <3>4, <3>6 DEF Digit
      <4> QED
        BY <3>2, <3>3, <4>1, <4>2
    <3> QED
      BY <3>5, <3>6
  <2>3. Nat \subseteq S
    <3> HIDE DEF S
    <3> QED
      BY <2>1, <2>2, Inductive
  <2> QED
    BY <2>3
<1>7. len \in 1..len /\ d + len = 64
  BY <1>1
<1> QED
  BY <1>3, <1>4, <1>6, <1>7

\* Bits above the length of a signal do not count.
LEMMA LowBits ==
  ASSUME NEW s, IsSignal(s), NEW x
  PROVE  Value(x \cap (0..s.length - 1), s.length, s.signed) = Value(x, s.length, s.signed)
<1> DEFINE low == x \cap (0..s.length - 1)
<1>1. Extended(low, s) = Extended(x, s)
  BY DEF Extended
<1>2. Value(Extended(low, s), 64, s.signed) = Value(low, s.length, s.signed)
  BY SameValue
<1>3. Value(Extended(x, s), 64, s.signed) = Value(x, s.length, s.signed)
  BY SameValue
<1> QED
  BY <1>1, <1>2, <1>3

\* A number of so many bits is at most the largest one, and not below -1 minus it.
LEMMA ValueRange ==
  ASSUME NEW length \in 0..64, NEW x, NEW signed \in BOOLEAN
  PROVE  /\ Largest(length) \in Int
         /\ Value(x, length, signed) \in -Largest(length) - 1..Largest(length)
<1>0. length \in Nat
  OBVIOUS
<1>a. PICK u : IsTops(u, x, length, signed)
  BY <1>0, Tops
<1>b. PICK w : IsTops(w, Word, length, FALSE)
  BY <1>0, Tops
<1>1. /\ u[0] = 0 /\ \A k \in 0..length : u[k] \in Int
      /\ \A k \in 1..length : u[k] = 2 * u[k - 1] + Digit(x, length, signed, k)
      /\ Value(x, length, signed) = u[length]
  BY <1>a DEF IsTops
<1>2. /\ w[0] = 0 /\ \A k \in 0..length : w[k] \in Int
      /\ \A k \in 1..length : w[k] = 2 * w[k - 1] + 1
      /\ Largest(length) = w[length]
  <2>1. \A k \in 1..length : Digit(Word, length, FALSE, k) = 1
    BY <1>0 DEF Digit, Word
  <2> QED
    BY <1>b, <2>1 DEF IsTops, Largest
<1> DEFINE S == {n \in Nat : n \in 0..length => -w[n] - 1 <= u[n] /\ u[n] <= w[n] /\ w[n] >= 0}
<1>3. 0 \in S
  BY <1>1, <1>2
<1>4. ASSUME NEW n \in Nat, n \in S PROVE n + 1 \in S
  <2> SUFFICES ASSUME n + 1 \in 0..length
               PROVE  -w[n + 1] - 1 <= u[n + 1] /\ u[n + 1] <= w[n + 1] /\ w[n + 1] >= 0
    OBVIOUS
  <2>1. n \in 0..length /\ n + 1 \in 1..length /\ (n + 1) - 1 = n
    BY <1>0
  <2>2. -w[n] - 1 <= u[n] /\ u[n] <= w[n] /\ w[n] >= 0 /\ u[n] \in Int /\ w[n] \in Int
    BY <1>1, <1>2, <1>4, <2>1
  <2>3. u[n + 1] = 2 * u[n] + Digit(x, length, signed, n + 1) /\ w[n + 1] = 2 * w[n] + 1
    BY <1>1, <1>2, <2>1
  <2>4. \/ Digit(x, length, signed, n + 1) \in {0, 1}
        \/ Digit(x, length, signed, n + 1) = -1 /\ n = 0
    BY DEF Digit
  <2>5. CASE Digit(x, length, signed, n + 1) \in {0, 1}
    BY <2>2, <2>3, <2>5
  <2>6. CASE Digit(x, length, signed, n + 1) = -1 /\ n = 0
    <3>1. u[1] = -1 /\ w[1] = 1
      BY <1>1, <1>2, <2>3, <2>6
    <3> QED
      BY <2>6, <3>1
  <2> QED
    BY <2>4, <2>5, <2>6
<1>5. Nat \subseteq S
  <2> HIDE DEF S
  <2> QED
    BY <1>3, <1>4, Inductive
<1>6. length \in S /\ length \in 0..length
  BY <1>0, <1>5
<1> QED
  BY <1>1, <1>2, <1>6

\* What decode() makes of a signal of up to 32 bits: the physical value of the number
\* in its cells, computed in floats, and exactly where 24 bits are enough for the number,
\* the product and the sum (toPhysicalValue).
THEOREM DecodedValue ==
  ASSUME NEW bytes \in Frame, NEW s, IsSignal(s), Fits(s), s.length <= 32,
         s.factor \in Int, s.offset \in Int, NEW shifting,
         NEW n, n = Value(Read(bytes, s), s.length, s.signed)
  PROVE  /\ Decode(bytes, s, shifting) = ToFloat(ToFloat(ToFloat(n) * s.factor) + s.offset)
         /\ IsExact(n) /\ IsExact(n * s.factor) /\ IsExact(n * s.factor + s.offset)
              => Decode(bytes, s, shifting) = Physical(Read(bytes, s), s)
<1> DEFINE low == Read(bytes, s)
<1>1. ExtractSignal(bytes, s, shifting) = Extended(low, s)
  BY Extracted
<1>2. Value(Extended(low, s), 64, s.signed) = n
  BY SameValue
<1>3. s.signed \in BOOLEAN
  BY DEF IsSignal
<1>4. Physical(low, s) = n * s.factor + s.offset
  BY DEF Physical
<1> HIDE DEF low
<1>5. (IF s.signed THEN AsInt64(Extended(low, s)) ELSE Unsigned(Extended(low, s))) = n
  BY <1>2, <1>3 DEF AsInt64, Unsigned
<1>6. Decode(bytes, s, shifting) = ToFloat(ToFloat(ToFloat(n) * s.factor) + s.offset)
  BY <1>1, <1>5 DEF Decode, ToPhysicalValue
<1>7. \A m : IsExact(m) => ToFloat(m) = m
  BY DEF ToFloat
<1> QED
  BY <1>4, <1>6, <1>7 DEF low
=============================================================================
