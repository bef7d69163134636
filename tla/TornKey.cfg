CONSTANTS
  k1 = k1
  k2 = k2
  k3 = k3
  k4 = k4
  k5 = k5
  MaxSlots = 3
  Keys = {k1, k2, k3, k4, k5}
  None = None
  Torn = Torn
  MaxBlind = 1
SYMMETRY Interchangeable
SPECIFICATION Spec
INVARIANT
  LoadsOrCreates
