SPECIFICATION FairSpec
CONSTANTS
  Core <- TwoCores
  Owner <- TwoCores
  Page <- ThePages
  Pages = 3
  mshr_entry_num <- Registers
  latency <- Latency
  latency_each <- LatencyEach
  Setups <- TheSetups
  ipc = 2
  depth = 3
  ReadQueue = 2
  WriteQueue = 1
INVARIANTS
  TypeOK
  CachesConsistent
  NoStoreLost
  PagesKept
PROPERTIES
  ReadAfterWriteback
  TracesFinish
