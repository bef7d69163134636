CONSTANTS
  None = None
  Outsider = Outsider
  MaxU64 = 20
  Replies <- MCReplies
  Prices <- MCPrices
  Events <- OddEvents
  Tokens <- OddTokens
  Accounts <- OddAccounts
  Slots <- TwinSlots
  Request <- OddRequest
  AccountOf <- OddAccountOf
  Value <- OddValue
  Lock <- OddLock
  MinDuration = 1
  MaxDuration = 2
  Funds = 1
  QueueCap = 1
  MaxCrashes = 0
  MaxWithdrawals = 0
SPECIFICATION Spec
CHECK_DEADLOCK FALSE
INVARIANTS
  TypeOK
  TakenOnlyWhenPayable
