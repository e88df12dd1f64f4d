SPECIFICATION FairHSpec
CONSTANTS
  RamSize <- MCRamSize
  ParavirtArgv <- MCArgv
  Images <- MCImages
  VmResults <- MCResults
  VmData <- MCData
INVARIANTS GuestResult GuestStackIntact
PROPERTIES GuestHalts GuestHasStack
CHECK_DEADLOCK FALSE
