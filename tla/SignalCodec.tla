----------------------------- MODULE SignalCodec -----------------------------
(***************************************************************************)
(* can-codec: how the bits of a signal are stored in the bytes of a CAN    *)
(* frame and taken out again.  A word (uint64_t) and a byte are the sets   *)
(* of the positions of their ones, so that | is union, & is intersection,  *)
(* a shift moves positions, and the widths of the types are the real ones. *)
(*                                                                         *)
(* A signal has the position start of its lowest bit, a length, a byte     *)
(* order and a sign; its physical value has a factor and an offset too.    *)
(* Physical values are counted in a unit, a power of 2, of which the       *)
(* factor and the offset are multiples; a float keeps 24 bits of them.     *)
(***************************************************************************)
EXTENDS Integers, FiniteSets, FiniteSetsExt, Sequences, SequencesExt

Byte == 0..7
Word == 0..63
Frame == [0..7 -> SUBSET Byte]

\* What a shift of an int by 32 or more does: x86 takes the count modulo 32,
\* a compiler that knows the count yields 0.
Shifting == {"modulo", "zero"}

\* Mutated form of Mask64: off by one.
Mask64Short(n) == 0..n - 2
Mask64(n) == 0..n - 1

\* Mutated form of ToByte: not cut.
ToByteWide(x) == x
ToByte(x) == x \cap Byte

ShiftLeft(x, n) == {b + n : b \in x} \cap Word
ShiftRight(x, n) == {b - n : b \in x} \cap Word

\* A byte is promoted to int before it is shifted; the int goes into a
\* uint64_t with its sign.
IntShiftLeft(x, n, shifting) ==
  LET y == IF n >= 32 /\ shifting = "zero" THEN {} ELSE {b + (n % 32) : b \in x} \cap 0..31
  IN  y \cup (IF 31 \in y THEN 32..63 ELSE {})

Xor(x, y) == (x \ y) \cup (y \ x)

\* x - y modulo 2^64: a position borrows if a lower one owes and none between pays.
Minus(x, y) ==
  LET Borrows(i) == \E j \in 0..i - 1 : j \in y \ x /\ (j + 1..i - 1) \cap (x \ y) = {}
  IN  Xor(Xor(x, y), {i \in Word : Borrows(i)})

\* Mutated forms of ClearBits: nothing is cleared, the whole byte is cleared.
ClearNothing(byte, startbit, length) == byte
ClearByte(byte, startbit, length) == {}
ClearBits(byte, startbit, length) == byte \ (startbit..startbit + length - 1)

\* The k-th byte of a signal is k bytes from the one with its lowest bit: the loops
\* visit them in this order, each once.
ByteAt(sig, k) == IF sig.big THEN (sig.start \div 8) - k ELSE (sig.start \div 8) + k
ResidualBytes(sig) ==
  LET start_byte == sig.start \div 8
      end_byte == IF sig.big
                  THEN (start_byte * 8 + 8 - (sig.start % 8) - sig.length) \div 8
                  ELSE (sig.start + sig.length - 1) \div 8
  IN  IF sig.big THEN start_byte - end_byte ELSE end_byte - start_byte

\* current_target_length when the k-th byte is visited: 8 more with each.
TargetLength(sig, k) == 8 - (sig.start % 8) + 8 * (k - 1)

\* What becomes of the k-th byte, of the masked value v.
StoreByte(byte, k, v, sig) ==
  LET in_byte == sig.start % 8
      n == IF 8 - in_byte > sig.length THEN sig.length ELSE 8 - in_byte
      bits_to_clear == sig.length - n - 8 * (k - 1)
  IN  IF k = 0 THEN ClearBits(byte, in_byte, n) \cup ToByte(ShiftLeft(v, in_byte))
      ELSE ClearBits(byte, 0, IF bits_to_clear >= 8 THEN 8 ELSE bits_to_clear)
             \cup ToByte(ShiftRight(v, TargetLength(sig, k)))

StoreSignal(frame, value, sig) ==
  [b \in 0..7 |->
     LET k == IF sig.big THEN (sig.start \div 8) - b ELSE b - (sig.start \div 8) IN
     IF k \in 0..ResidualBytes(sig)
     THEN StoreByte(frame[b], k, value \cap Mask64(sig.length), sig) ELSE frame[b]]

\* The bits that the bytes give, and the number they are.
Target(frame, sig, shifting) ==
  (ShiftRight(frame[sig.start \div 8], sig.start % 8)
     \cup UNION {IntShiftLeft(frame[ByteAt(sig, k)], TargetLength(sig, k), shifting) :
                  k \in 1..ResidualBytes(sig)})
  \cap Mask64(sig.length)

ExtractSignal(frame, sig, shifting) ==
  LET target == Target(frame, sig, shifting)
      msb_sign_mask == IntShiftLeft({0}, sig.length - 1, shifting)
  IN  IF sig.signed THEN Minus(Xor(target, msb_sign_mask), msb_sign_mask) ELSE target

\* The number that the length low bits of x are, from the highest one down; as a
\* two's complement the highest one counts -1.
Value(x, length, signed) ==
  LET top[k \in 0..length] ==
        IF k = 0 THEN 0
        ELSE 2 * top[k - 1]
               + (IF length - k \notin x THEN 0 ELSE IF signed /\ k = 1 THEN -1 ELSE 1)
  IN  top[length]

\* A word as a uint64_t and as an int64_t.
Unsigned(x) == Value(x, 64, FALSE)
AsInt64(x) == Value(x, 64, TRUE)

\* Numbers that a float holds as they are.
IsExact(n) == n \in -(2^24)..2^24

\* Others become the nearest number with 24 bits, of two the even one; a float has no
\* exponent beyond the bound 104 (no infinities).
ToFloat(n) ==
  LET m == IF n < 0 THEN -n ELSE n
      spacing == 2^Max({0} \cup {k \in 1..104 : 2^(23 + k) < m})
      rest == n % spacing
      below == n \div spacing
      up == 2 * rest > spacing \/ (2 * rest = spacing /\ below % 2 = 1)
  IN  IF IsExact(n) THEN n ELSE spacing * (IF up THEN below + 1 ELSE below)

\* The word, the product and the sum are floats, one after another.
ToPhysicalValue(target, sig) ==
  LET number == ToFloat(IF sig.signed THEN AsInt64(target) ELSE Unsigned(target))
  IN  ToFloat(ToFloat(number * sig.factor) + sig.offset)

Decode(frame, sig, shifting) == ToPhysicalValue(ExtractSignal(frame, sig, shifting), sig)

-----------------------------------------------------------------------------
(* The reference: where each bit of a signal lies, and which number it is. *)

\* Bit i lies i positions from start, towards higher bytes (Intel) or lower ones.
Cell(sig, i) ==
  LET p == (sig.start % 8) + i
      away == p \div 8
  IN  <<(sig.start \div 8) + (IF sig.big THEN -away ELSE away), p % 8>>

Cells(sig) == {Cell(sig, i) : i \in 0..sig.length - 1}
Fits(sig) == \A c \in Cells(sig) : c[1] \in 0..7

\* The length low bits of x as a number of 64 bits, with or without sign.
Extended(x, sig) ==
  LET low == x \cap (0..sig.length - 1)
  IN  IF sig.signed /\ sig.length - 1 \in low THEN low \cup (sig.length..63) ELSE low

\* The largest number of so many bits.
Largest(length) == Value(Word, length, FALSE)

\* The physical value of a number of the signal's length.
Physical(x, sig) == Value(x, sig.length, sig.signed) * sig.factor + sig.offset
=============================================================================
