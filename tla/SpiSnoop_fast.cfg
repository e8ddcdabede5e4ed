SPECIFICATION Spec
CONSTANTS
  MaxEvents = 3
  MaxSamples = 7
  Slow = FALSE
INVARIANTS
  NeverIsNever
