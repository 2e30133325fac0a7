\* One packet of another format.
CONSTANTS
  MaxFrames = 0
  Traffic <- NoFrames
  MaxErrors = 0
  MaxLost = 0
  Strangers <- SomeStrangers
  MaxOthers = 1
  MaxTroubles = 1
  SeqModulus = 2
  Slots = 2
SPECIFICATION Spec
INVARIANT RejectedPacketDeliversNothing
\* The bridge is stopped, or there is no more traffic.
CHECK_DEADLOCK FALSE
