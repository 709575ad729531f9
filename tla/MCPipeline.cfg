SPECIFICATION FairSpec
CONSTANTS
  Requests = {r1, r2}
  Workers = {w1, w2}
  Runs = {t1}
  NoMessage = NoMessage
  ProductIds = {p1, p2}
  Inventory = {p1}
  Event <- TwoEvents
  InitialStock <- Stock1
  BatchSize = 1
  MaxCopies = 2
  MaxServiceDbFaults = 1
  MaxCloses = 0
  MaxServiceCrashes = 1
  MaxDbFaults = 1
  MaxCrashes = 1
  r1 = r1
  r2 = r2
  p1 = p1
  p2 = p2
INVARIANTS
  IInv
  EventFollowsOrder
  PlacedIsNeverPaid
PROPERTIES
  StoredIsDeadLettered
  ImplementsWorker
  ImplementsIntake
