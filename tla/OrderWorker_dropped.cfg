SPECIFICATION Spec
CONSTANTS
  Order = {o1}
  NoOrder = none
  Malformed = {}
  Worker = {w1}
  MaxAttempts = 2
  MaxCopies = 1
  MaxFaults = 1
  MaxCrashes = 0
  MaxExpiries = 0
  MaxResends = 0
CHECK_DEADLOCK FALSE
INVARIANTS NoEventIsDropped
