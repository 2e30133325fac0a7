--------------------------- MODULE MCAvtpBridge ---------------------------
(* Packets of strangers for the instances of AvtpBridge that TLC checks.   *)
EXTENDS AvtpBridge

\* A frame with the flag before one of the other type.  The frames of sendPacket,
\* which come to the same slots, are FD frames without it.
Fd(n, brs) == [type |-> "FD", id |-> n, brs |-> brs]
Cc(n) == [type |-> "CC", id |-> n, brs |-> FALSE]
TwoFrames == {<<Fd(1, TRUE), Cc(2)>>}
NoFrames == {<<>>}

Message(kind) == [kind |-> kind, frame |-> [type |-> "FD", id |-> App, brs |-> TRUE]]
StrangePacket(ours, kinds) ==
  [from |-> "stranger", n |-> 0, ours |-> ours, seq |-> 1,
   acf |-> [i \in 1..Len(kinds) |-> Message(kinds[i])]]

\* One of another format or stream; one with a message that is not CAN; one
\* with a bad CAN id behind a good message; one without any message.
SomeStrangers ==
  {StrangePacket(FALSE, <<"can">>), StrangePacket(TRUE, <<"other">>),
   StrangePacket(TRUE, <<"can", "badId">>), StrangePacket(TRUE, <<>>)}
=============================================================================
