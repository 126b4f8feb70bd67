SPECIFICATION MCSpec
CONSTANTS
  V = 4
  Rpao <- DiamondRpao
  Ciao <- DiamondCiao
  Start = 0
  PRNUM = 2
  BaseLen = 4
  IntSize = 4
  DepthBufferDepth = 8
  FrontierBufferDepth = 4
  RpaoBufferDepth = 4
  CiaoBufferDepth = 4
  StartCount = 10
  EndCount = 20
  Beyond = 0
  CharHalf = 128
  Rank <- Forward
INVARIANTS DoneMeansExact
CHECK_DEADLOCK FALSE
