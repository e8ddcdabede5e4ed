SPECIFICATION Spec
CONSTANTS
  MaxPending = 3
  MayRaise = {"spi", "line", "take"}
INVARIANTS
  TypeOK
  WinsHonest
  WinsOwn
  SweepsOwn
  HighSilent
  LineFree
  CaseFresh
  ControlsTable
  LeftRunning
  ControlMeansHeld
