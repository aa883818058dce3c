SPECIFICATION Spec
CONSTANTS
  Order = {o1}
  NoOrder = none
  Webhook = {h1}
  Verifier = {v1}
  Reconciler = {r1}
  MaxAttempts = 1
  MaxCopies = 0
  MaxExpiries = 0
  MaxCrashes = 0
CHECK_DEADLOCK FALSE
PROPERTIES TerminalIsFinal
