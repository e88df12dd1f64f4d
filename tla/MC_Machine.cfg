SPECIFICATION FairMachineSpec
CONSTANTS
  Dots = 11
  VisibleLines = 1
  VblankLine = 2
  PreRender = 8
  DrawDots = 4
  CopyFirst = 7
  CopyLast = 8
  Prefetch = 8
  TileDots = 2
  Cols = 1
  Rows = 1
  CoarseRows = 1
  FineRows = 2
  LoSpan = 2
  DataAccess = TRUE
  OverflowDots = {}
  CtrlWrites <- MCCtrl
  MaskWrites <- MCMasks
  ScrollWrites <- None
  AddrWrites <- None
  DotsPerCycle = 3
  InstrCycles = {2, 3}
  DmaBytes = 8
INVARIANTS VblankWindow PictureOnTime VblankSeenOnce
PROPERTIES FramesForever PpuIsFair
\* the process exits when the window is closed
CHECK_DEADLOCK FALSE
