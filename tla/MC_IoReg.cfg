SPECIFICATION FairSpec
CONSTANTS
  NButtons = 2
  OamSize = 3
  PortAt <- MCPortAt
  Byte <- MCByte
  PageByte <- MCPageByte
  Ram <- MCRam
  KeyStates <- MCKeyStates
  MaxReads = 3
INVARIANTS PollDelivers DmaTiming
PROPERTIES CopyIsWhole DmaEnds
