CONSTANTS
  None = None
  Outsider = Outsider
  MaxU64 = 20
  Replies <- MCReplies
  Prices <- MCPrices
  Events <- TwinEvents
  Tokens <- TwinTokens
  Accounts <- TwinAccounts
  Slots <- TwinSlots
  Request <- TwinRequest
  AccountOf <- TwinAccountOf
  Value <- TwinValue
  Lock <- TwinLock
  MinDuration = 1
  MaxDuration = 2
  Funds = 1
  QueueCap = 2
  MaxCrashes = 1
  MaxWithdrawals = 1
SPECIFICATION Spec
CHECK_DEADLOCK FALSE
INVARIANTS
  OneRunPerPayment
  OneBillPerPayment
  BillAccountsForPayment
  TimedOutJobIsStopped
  LostJobsAreConfessed
  MinimumEarned
  CreditWithinValue
  IInv
PROPERTIES
  RefundedOnce
  EveryRequestAnswered
  HonoursContract
