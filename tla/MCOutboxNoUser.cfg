SPECIFICATION Spec
CONSTANTS
  Requests = {r1, r2}
  Valid = {r1, r2}
  Catalogs = {{r1, r2}}
  RequestHasUser = FALSE
  MonotoneClock = TRUE
  Runs = {t1}
  BatchSize = 1
  MaxDbFaults = 0
  MaxCloses = 0
  MaxCrashes = 0
  MaxFaults = 2
  r1 = r1
  r2 = r2
  r3 = r3
INVARIANTS
  ValidIsAccepted
