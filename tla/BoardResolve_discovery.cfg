SPECIFICATION Spec
CONSTANTS
  none = none
  text = text
  None = none
  Text = text
  DeviceTables <- SomeDevices
  Boards <- SomeBoards
  ChipTables <- SomeChips
  ResetArgs <- SomeResets
  IrqArgs <- SomeIrqs
  SpidevArgs <- SomeSpidevs
  DefReset = 264
  DefIrq = 48
  MaxRebinds = 4
CONSTRAINT Focus
CHECK_DEADLOCK FALSE
INVARIANTS
  SpidevIsSensor
  IrqSound
  ResetFlagged
