SPECIFICATION FairSpec
CONSTANTS
  RamSize <- MCRamSize
  ParavirtArgv <- MCArgv
  Images <- MCImages
  VmResults <- MCResults
  VmData <- MCData
PROPERTIES RolAbsoluteLength
CHECK_DEADLOCK FALSE
