CONSTANTS
  r0 = r0
  r1 = r1
  r9 = r9
  j7 = j7
  Slots = {0, 1}
  Names = {r0, r1, j7}
  OldNames = {j7}
  NameOf <- PairNames
  Leftovers <- OldLeft
  Subnets = {100, 101, 102, 103}
  Stubborn = {r0}
  None = None
  MaxKeys = 1
  MaxFaults = 1
  MaxBlind = 1
  MaxEnds = 1
  MaxCrashes = 1
SPECIFICATION Spec
INVARIANTS SubnetsDistinct FailuresStayLocal
PROPERTIES EverySlotServed
