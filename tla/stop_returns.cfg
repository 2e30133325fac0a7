\* What the tests say of stop(): it returns.  The code refutes it.
CONSTANTS
  Channels = {c1}
  MaxFrames = 1
  MaxPdu = 1
SPECIFICATION FairSpec
PROPERTY StopReturns
CHECK_DEADLOCK FALSE
