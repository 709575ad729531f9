SPECIFICATION FairSpec
CONSTANTS
  MaxCrashes = 1
INVARIANTS
  IInv
PROPERTIES
  WorkerReattaches
  PublisherReattaches
  ServicesStart
  ReadinessSettles
