SPECIFICATION FairSpec
CONSTANTS
  Requests = {r1, r2}
  Valid = {r1, r2}
  Catalogs = {{r1, r2}, {r1}}
  RequestHasUser = TRUE
  MonotoneClock = FALSE
  Runs = {t1, t2}
  BatchSize = 2
  MaxDbFaults = 2
  MaxCloses = 1
  MaxCrashes = 1
  MaxFaults = 2
  r1 = r1
  r2 = r2
  r3 = r3
INVARIANTS
  IInv
  AcceptedIsDurable
  OrphanNeedsFault
  ResendNeedsFault
PROPERTIES
  ImplementsEvents
  PendingIsResolved
  StoredIsDeliveredOnceBound
