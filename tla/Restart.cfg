CONSTANTS
  r0 = r0
  r1 = r1
  r9 = r9
  j7 = j7
  Slots = {0, 1}
  Names = {r0, r1, r9, j7}
  OldNames = {j7}
  NameOf <- PairNames
  Leftovers <- StrayLeft
  Subnets = {100, 101, 102, 103, 104}
  Stubborn = {}
  None = None
  MaxKeys = 1
  MaxFaults = 1
  MaxBlind = 0
  MaxEnds = 1
  MaxCrashes = 1
SPECIFICATION Spec
INVARIANTS TypeOK CleanRoundRepairs
PROPERTIES WorkersSpared HonoursPoolContract
