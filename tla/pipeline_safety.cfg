\* Every interleaving of two receivers, the three stages, main and signals.
CONSTANTS
  Channels = {c1, c2}
  MaxFrames = 2
  MaxPdu = 2
SPECIFICATION Spec
SYMMETRY ChannelSymmetry
INVARIANTS
  TypeOK
  SleepersHaveNoWork
  PipelineIsOneQueue
  DeliveredIsPrefix
  ShutdownOrder
PROPERTY FrontIsPinned
\* main may exit, or hang in a join whose notification was lost.
CHECK_DEADLOCK FALSE
