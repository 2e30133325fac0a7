\* The refinement, with the liveness of the abstract specification, and how the
\* stop of the program proceeds.
CONSTANTS
  Channels = {c1, c2}
  MaxFrames = 1
  MaxPdu = 1
SPECIFICATION FairSpec
PROPERTIES
  ImplementsOrderedDelivery
  JoinWaitsOnlyForSleepers
  RouterStopReturns
\* The program ends, or hangs in a join.
CHECK_DEADLOCK FALSE
