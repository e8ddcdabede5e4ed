SPECIFICATION BusSpec
CONSTANTS
  MaxEvents = 3
  MaxSamples = 7
  Slow = TRUE
  Reads = 3
INVARIANTS
  TypeOK
  EventsFaithful
  VerdictSound
  LiveIsLive
  NeverHighIsStuck
