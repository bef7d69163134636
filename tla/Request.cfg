CONSTANTS
  None = None
  NotJson = NotJson
  k0 = k0
  k1 = k1
  stranger = stranger
  requester = requester
  JobKind = 5100
  Atoms <- MCAtoms
  MaxU64 = 9
  DefaultTimeout = 7
  Numeral <- MCNumeral
  Decimal <- MCDecimal
  Workers <- MCWorkers
  Starts <- MCStarts
SPECIFICATION Spec
CHECK_DEADLOCK FALSE
INVARIANTS
  AcceptedIsValid
  ModuleIsUnderstood
  TakenAsMeant
  OfferIsHonoured
