SPECIFICATION Spec
CONSTANTS
  Workers = {w1, w2}
  Messages = {m1, m2, m3}
  NoMessage = NoMessage
  OrderIds = {o1, o2}
  ProductIds = {p1, p2}
  Inventory = {p1, p2}
  Event <- ContendedEvent
  InitialStock <- Stock31
  MaxCopies = 1
  MaxCrashes = 0
  MaxDbFaults = 1
  m1 = m1
  m2 = m2
  m3 = m3
  m4 = m4
  o1 = o1
  o2 = o2
  p1 = p1
  p2 = p2
INVARIANTS
  DeadLetterMeansRolledBack
