SPECIFICATION MCSpec
CONSTANTS
  V = 2
  Rpao <- PairRpao
  Ciao <- PairCiao
  Start = 0
  PRNUM = 1
  BaseLen = 1
  IntSize = 1
  DepthBufferDepth = 2
  FrontierBufferDepth = 1
  RpaoBufferDepth = 3
  CiaoBufferDepth = 2
  StartCount = 2
  EndCount = 5
  Beyond = 0
  CharHalf = 128
  Rank <- Loose
INVARIANTS ExactUnlessWindow
PROPERTIES LabelsOnceAlongEdges
CHECK_DEADLOCK FALSE
