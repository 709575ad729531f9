SPECIFICATION Spec
CONSTANTS
  Generators = {g1, g2}
  MachineId <- TwoMachines
  MaxMachineId = 1
  MaxSequence = 1
  MaxTime = 3
  MaxSetBacks = 1
  MaxRestarts = 1
  g1 = g1
  g2 = g2
INVARIANTS
  IInv
  NoRepeat
  NoCollision
PROPERTIES
  IdsGrow
