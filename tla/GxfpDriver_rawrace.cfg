SPECIFICATION Spec
CONSTANTS
  t1 = t1
  t2 = t2
  Thread = {t1, t2}
  NoThread = NoThread
  Ops <- OpsRawTwice
  BufMax = 2
  Storm = 2
  DiagLen = 1
  ReplayLen = 2
  MaxPending = 2
  TouchEnable = 0
  SpiMayFail = FALSE
INVARIANTS
  RawSendsWritten
