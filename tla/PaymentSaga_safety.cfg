SPECIFICATION Spec
CONSTANTS
  Order = {o1}
  NoOrder = none
  Webhook = {h1}
  Verifier = {v1, v2}
  Reconciler = {r1, r2}
  MaxAttempts = 1
  MaxCopies = 1
  MaxExpiries = 1
  MaxCrashes = 0
CHECK_DEADLOCK FALSE
SYMMETRY MCSymmetry
INVARIANTS TypeOK OrderAgreesWithPayment EventsAgreeWithPayment SettledOncePerWebhook ConfirmedIsCaptured LockExcludes
PROPERTIES LifecycleSpec
