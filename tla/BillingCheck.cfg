CONSTANTS
  MaxU64 = 11
  Accounts = {"sat", "usd"}
  PriceRange = {1, 2, 5}
  MaxEntries = 2
SPECIFICATION Spec
CHECK_DEADLOCK FALSE
INVARIANTS
  ChargesAsMetered
  RefusesOnlyShortPayments
  TimeoutIsPaidFor
