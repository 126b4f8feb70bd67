SPECIFICATION Spec
CONSTANTS
  Table <- AllTables
  Workloads <- AllWorkloads
  Slack = 20
  MaxCommands = 7
INVARIANTS
  TypeOK
  DataBusExclusive
  AccessOpenRow
  OneRowOpen
  TimingsKept
  
PROPERTY AssertionsHold
CHECK_DEADLOCK FALSE
