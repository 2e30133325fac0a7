\* Any two of these: failed reads, receives and writes, losses, the signal, and a packet of
\* the application or a stranger; and a stop of either end.
CONSTANTS
  MaxFrames = 2
  Traffic <- TwoFrames
  MaxErrors = 2
  MaxLost = 2
  Strangers <- SomeStrangers
  MaxOthers = 1
  MaxTroubles = 2
  SeqModulus = 2
  Slots = 2
SPECIFICATION FairSpec
INVARIANTS
  TypeOK
  BridgeKeepsOrder
  WarnsExactlyOfGaps
  OutputsAgree
PROPERTIES
  BridgeStops
  EverythingBridged
\* The bridge is stopped, or there is no more traffic.
CHECK_DEADLOCK FALSE
