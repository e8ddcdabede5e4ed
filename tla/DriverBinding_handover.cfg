SPECIFICATION FairSpec
CONSTANTS
  t1 = t1
  Thread = {t1}
  Layouts <- AllLayouts
  Touches = {0, 1}
INVARIANTS
  TypeOK
  InUseAlive
  RemovedLow
  NothingLeft
  GpiosRight
  BindsFree
PROPERTIES
  RemovalEnds
  ScriptEnds
