SPECIFICATION Spec
CONSTANTS
  a = a
  b = b
  c = c
  d = d
  k1 = k1
  k2 = k2
  Request = {a, b, c, d}
  NoOrder = none
  Key = {k1, k2}
  KeyOf <- MCKeyOf
  MaxFaults = 2
SYMMETRY MCSymmetry
CHECK_DEADLOCK FALSE
INVARIANTS RepliesAgree ChargesAreAccounted
