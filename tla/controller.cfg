SPECIFICATION Spec
CONSTANTS
  Bank <- Banks
  Addr <- Addresses
  Configs <- AllConfigs
  QueueMax = 3
  MaxRequests = 3
  nRCD = 2
  nRAS = 3
  nRP = 1
  nWR = 2
  nCCD = 1
  nRFC = 2
  nREFI = 12
  read_latency = 2
  timeout = 3
  cap = 0
  backlog_min <- Minus2
  backlog_early_pull_threshold = 0
  backlog_max = 1
INVARIANTS
  TypeOK
  FreshRead
  RefreshesKept
PROPERTIES
  WritesInOrder
  
