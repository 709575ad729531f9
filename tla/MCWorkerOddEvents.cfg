SPECIFICATION FairSpec
CONSTANTS
  Workers = {w1, w2}
  Messages = {m1, m2, m3, m4}
  NoMessage = NoMessage
  OrderIds = {o1}
  ProductIds = {p1, p2}
  Inventory = {p1, p2}
  Event <- OddEvent
  InitialStock <- Stock21
  MaxCopies = 1
  MaxCrashes = 1
  MaxDbFaults = 1
  m1 = m1
  m2 = m2
  m3 = m3
  m4 = m4
  o1 = o1
  o2 = o2
  p1 = p1
  p2 = p2
INVARIANTS
  LostLeavesTrace
  DeadLetterHonest
PROPERTIES
  StockNeverGrows
  FailureIsFinal
  QueueDrains
