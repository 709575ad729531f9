SPECIFICATION FairSpec
CONSTANTS
  Requests = {r1, r2, r3, r4}
  Keys = {k1}
  NoKey = NoKey
  NoOrder = NoOrder
  Key <- SharedKey
  LocksMayExpire = TRUE
  ResultsMayExpire = TRUE
  MaxRedisFaults = 1
  MaxServiceFaults = 1
  MaxCrashes = 1
  r1 = r1
  r2 = r2
  r3 = r3
  r4 = r4
  k1 = k1
INVARIANTS
  IInv
  RetryCreatesNothing
  AcceptedOrderExists
  ExclusiveUntilStored
  ExtraOrderNeedsFault
  LockNotLeaked
PROPERTIES
  EveryRequestEnds
