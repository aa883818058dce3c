SPECIFICATION FairSpec
CONSTANTS
  Request = {1, 2}
  NoOrder = none
  KeyOf <- MCKeyOf
  Malformed = {2}
  Process = {p1}
  Slot = {s1}
  BatchLimit = 1
  OutboxAttempts = 2
  Worker = {w1}
  WorkerAttempts = 2
  MaxApiFaults = 1
  MaxCrashes = 1
  MaxDbErrors = 1
  MaxEarly = 0
  MaxCopies = 3
  MaxFaults = 2
  MaxDeaths = 1
  MaxExpiries = 1
  MaxResends = 1
CONSTRAINT MCTwoFaults
CHECK_DEADLOCK FALSE
INVARIANTS LossHasCause OneEffectPerIdempotencyKey
PROPERTIES EndToEndSpec EveryOrderIsFinished EventuallySettled
