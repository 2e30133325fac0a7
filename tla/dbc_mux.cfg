SPECIFICATION Spec
CONSTANTS
  Files <- MCMultiplexed
  Values <- MCValues
  MaxFrames = 1
INVARIANTS
  SignalsWithCorrectMuxVal
CHECK_DEADLOCK FALSE
