-------------------------- MODULE MCCodecRoundTrip --------------------------
(* Signals that end inside bytes, cross them, and fill an int exactly.      *)
EXTENDS CodecRoundTrip

Sig(start, length, big, signed) ==
  [start |-> start, length |-> length, big |-> big, signed |-> signed]

\* Both byte orders, aligned or not, 3 bits to 32 bits; some bits are no signal's.
MCLayouts ==
  {{Sig(0, 3, FALSE, FALSE), Sig(3, 12, FALSE, TRUE), Sig(15, 31, FALSE, TRUE), Sig(61, 9, TRUE, TRUE)},
   {Sig(33, 32, TRUE, TRUE), Sig(41, 7, TRUE, FALSE), Sig(48, 16, FALSE, FALSE)},
   {Sig(7, 32, FALSE, FALSE), Sig(55, 9, TRUE, FALSE), Sig(56, 8, TRUE, TRUE)}}
MCWide == {{Sig(0, 40, FALSE, TRUE), Sig(40, 8, FALSE, FALSE)}}

MCValues == {{}, Word, {0}, {31} \cup (33..63), {1, 2, 5, 8, 11, 13, 17, 25}}
=============================================================================
