SPECIFICATION MCSpec
CONSTANTS
  V = 5
  Rpao <- KiteRpao
  Ciao <- KiteCiao
  Start = 0
  PRNUM = 2
  BaseLen = 2
  IntSize = 1
  DepthBufferDepth = 8
  FrontierBufferDepth = 4
  RpaoBufferDepth = 4
  CiaoBufferDepth = 4
  StartCount = 2
  EndCount = 6
  Beyond = 0
  CharHalf = 128
  Rank <- Forward
INVARIANTS TypeOK StatusExact AccessInBounds DepthPairing ScanContiguous
PROPERTIES NoLabelLeftBehind LevelComplete
CHECK_DEADLOCK FALSE
