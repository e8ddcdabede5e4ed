SPECIFICATION FairSpec
CONSTANTS
  t1 = t1
  t2 = t2
  Thread = {t1, t2}
  NoThread = NoThread
  Ops <- OpsWaiting
  BufMax = 1
  Storm = 1
  DiagLen = 1
  ReplayLen = 2
  MaxPending = 1
  TouchEnable = 0
  SpiMayFail = TRUE
INVARIANTS
  ExchangeUnbroken
PROPERTIES
  GateShuts
  CallsReturn
