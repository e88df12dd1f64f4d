SPECIFICATION MapSpec
CONSTANTS
  Carts <- MCCarts
  Values <- MCValues
  MinCycles = 2
  K = 8
  PageSize = 4
  RamUnit = 1
  Headers <- MCHeaders
  WritePages <- MCWritePages
INVARIANTS PagesInBounds Coherent CartridgeMapped NametableGeometry EveryWriteCounts
PROPERTIES ImplementsPort
\* a refused file ends the program
CHECK_DEADLOCK FALSE
