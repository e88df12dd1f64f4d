SPECIFICATION FairSpec
CONSTANTS
  RamSize <- MCRamSize
  ParavirtArgv <- MCArgv
  Images <- MCImages
  VmResults <- MCResults
  VmData <- MCData
PROPERTIES VmCallMovesPc
CHECK_DEADLOCK FALSE
