SPECIFICATION FairSpec
CONSTANTS
  Order = {o1}
  NoOrder = none
  Webhook = {h1}
  Verifier = {v1}
  Reconciler = {r1}
  MaxAttempts = 2
  MaxCopies = 0
  MaxExpiries = 0
  MaxCrashes = 1
CHECK_DEADLOCK FALSE
PROPERTIES PendingIsSettled
