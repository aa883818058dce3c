SPECIFICATION FairSpec
CONSTANTS
  Order = {o1}
  NoOrder = none
  Malformed = {}
  Worker = {w1, w2}
  MaxAttempts = 2
  MaxCopies = 3
  MaxFaults = 4
  MaxCrashes = 1
  MaxExpiries = 1
  MaxResends = 1
CHECK_DEADLOCK FALSE
INVARIANTS TypeOK OneEffectPerKey SilentDropHasCause DeadLettersAreEarned
PROPERTIES ProcessedRowIsFinal EveryMessageIsConsumed
