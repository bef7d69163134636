CONSTANTS
  s0 = s0
  s1 = s1
  e0 = e0
  e1 = e1
  Slots = {s0, s1}
  Events = {e0, e1}
  SlotOf <- PairOf
  Noise = Noise
  None = None
  QueueCap = 2
  PollInterval = 1
  AdvertiseInterval = 2
  LongestJob = 2
  LongestRound = 1
  MaxStarts = 2
SPECIFICATION Spec
CHECK_DEADLOCK FALSE
INVARIANTS
  TypeOK
  DispatchMeetsWorker
  HeldUntilTaken
  TakesLittleMore
  AdvertisedInTime
PROPERTIES
  StopsWhenTold
  RoundsGoOn
  EveryRequestHasItsTurn
