\* Outages, failing allocations, and commands from start() to stop().
CONSTANTS
  MaxCommands = 2
  MaxOutages = 1
  FirstUp = {TRUE, FALSE}
  ContextCanFail = TRUE
SPECIFICATION FairSpec
INVARIANTS
  TypeOK
  NoCommandForgotten
  PingContextLive
  NothingLeftAfterStop
PROPERTIES
  SettledInOrder
  Reconnects
  JoinDbWaitsOnlyForSleeper
  CommandsSettle
\* The program ends, crashes, or hangs in a join.
CHECK_DEADLOCK FALSE
