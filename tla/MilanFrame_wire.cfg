SPECIFICATION Spec
CONSTANTS
  Cmd0 <- SomeCmd0
  Cmd1 <- SomeCmd1
  Payloads <- SomePayloads
  Flips <- SomeFlips
  BufMax = 4096
INVARIANTS
  TypeOK
  Delivered
  BadHeaderRefused
  BadBodyNoticed
