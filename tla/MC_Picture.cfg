SPECIFICATION PictureSpec
CONSTANTS
  Dots = 59
  VisibleLines = 6
  VblankLine = 7
  PreRender = 8
  DrawDots = 24
  CopyFirst = 27
  CopyLast = 30
  Prefetch = 48
  TileDots = 8
  Cols = 4
  Rows = 3
  CoarseRows = 4
  FineRows = 8
  LoSpan = 16
  DataAccess = TRUE
  MaxSprites = 2
  NSprites = 4
  OverflowDots = {18, 20}
  CtrlWrites <- MCCtrl
  MaskWrites <- MCMasks
  ScrollWrites <- MCScrolls
  AddrWrites <- MCAddrs
  OamImages <- MCOam
  BgBit <- MCBgBit
  SpriteBit <- MCSpriteBit
  AccessPoints <- MCAccess
  MaxAccesses = 3
INVARIANTS StepAllowed DueOnThisLine ScrollPosition BackgroundPixel SpriteOnItsLines Sprite0Hit
CHECK_DEADLOCK FALSE
