SPECIFICATION MCFairSpec
CONSTANTS
  V = 3
  Rpao <- ChainRpao
  Ciao <- ChainCiao
  Start = 0
  PRNUM = 1
  BaseLen = 2
  IntSize = 1
  DepthBufferDepth = 2
  FrontierBufferDepth = 1
  RpaoBufferDepth = 3
  CiaoBufferDepth = 2
  StartCount = 2
  EndCount = 6
  Beyond = 0
  CharHalf = 128
  Rank <- Forward
PROPERTIES Terminates
CHECK_DEADLOCK FALSE
