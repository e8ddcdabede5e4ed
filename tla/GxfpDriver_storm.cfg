SPECIFICATION StormSpec
CONSTANTS
  t1 = t1
  t2 = t2
  Thread = {t1, t2}
  NoThread = NoThread
  Ops <- OpsCmd
  BufMax = 1
  Storm = 3
  DiagLen = 1
  ReplayLen = 2
  MaxPending = 2
  TouchEnable = 0
  SpiMayFail = FALSE
INVARIANTS
  MaskedOnlyWhenStuck
