SPECIFICATION Spec
CONSTANTS
  Event = {1, 2}
  Earlier <- MCIndependent
  Process = {p1, p2}
  Slot = {s1}
  BatchLimit = 2
  MaxAttempts = 2
  MaxCrashes = 1
  MaxDbErrors = 1
  MaxEarly = 1
  MaxResends = 1
SYMMETRY MCSymmetry
CONSTRAINT MCOneFault
CHECK_DEADLOCK FALSE
INVARIANTS TypeOK ClaimsExclude CopiesAreAccounted AttemptsBounded
PROPERTIES SettledStaysSettled DeliverySpec
