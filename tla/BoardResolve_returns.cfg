SPECIFICATION Spec
CONSTANTS
  none = none
  text = text
  None = none
  Text = text
  DeviceTables <- OneDevice
  Boards <- SomeBoards
  ChipTables <- OneChip
  ResetArgs <- NoArgs
  IrqArgs <- NoArgs
  SpidevArgs <- NoArgs
  DefReset = 264
  DefIrq = 48
  MaxRebinds = 0
CHECK_DEADLOCK FALSE
INVARIANTS
  ResolveReturns
