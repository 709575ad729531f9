SPECIFICATION Spec
CONSTANTS
  Requests = {r1, r2}
  Keys = {k1}
  NoKey = NoKey
  NoOrder = NoOrder
  Key <- SameKey
  LocksMayExpire = FALSE
  ResultsMayExpire = FALSE
  MaxRedisFaults = 0
  MaxServiceFaults = 0
  MaxCrashes = 0
  r1 = r1
  r2 = r2
  r3 = r3
  r4 = r4
  k1 = k1
INVARIANTS
  OneOrderPerKey
