SPECIFICATION FairSpec
CONSTANTS
  Configs <- MCConfigs
  Stoi <- MCStoi
  ByteModulus = 4
  Interfaces <- MCInterfaces
  CanInterfaces <- MCCanInterfaces
  MacAddresses <- MCMacAddresses
  MaxDescriptor = 12
  MaxCalls = 4
INVARIANTS
  TypeOK
  ChannelsAsConfigured
  ThreadsHaveSockets
  DescriptorsAreOwned
  NothingLeftAfterStop
  TerminatedOnlyOutOfTurn
PROPERTY
  SetupAndStopEnd
CHECK_DEADLOCK FALSE
