SPECIFICATION Spec
CONSTANTS
  Event = {1, 2}
  Earlier <- MCOneOrder
  Process = {p1}
  Slot = {s1}
  BatchLimit = 1
  MaxAttempts = 2
  MaxCrashes = 0
  MaxDbErrors = 0
  MaxEarly = 0
  MaxResends = 0
CHECK_DEADLOCK FALSE
PROPERTIES PartitionOrdered
