SPECIFICATION Spec
CONSTANTS
  Configs <- MCOneChannel
  Stoi <- MCStoi
  ByteModulus = 4
  Interfaces <- MCInterfaces
  CanInterfaces <- MCCanInterfaces
  MacAddresses <- MCMacAddresses
  MaxDescriptor = 12
  MaxCalls = 2
INVARIANT
  EthernetClosedWhenDone
CHECK_DEADLOCK FALSE
