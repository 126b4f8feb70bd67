SPECIFICATION MCSpec
CONSTANTS
  V = 6
  Rpao <- HubsRpao
  Ciao <- HubsCiao
  Start = 0
  PRNUM = 1
  BaseLen = 1
  IntSize = 1
  DepthBufferDepth = 2
  FrontierBufferDepth = 1
  RpaoBufferDepth = 3
  CiaoBufferDepth = 2
  StartCount = 2
  EndCount = 6
  Beyond = 0
  CharHalf = 128
  Rank <- Forward
INVARIANTS ReadBuffersSuffice
CHECK_DEADLOCK FALSE
