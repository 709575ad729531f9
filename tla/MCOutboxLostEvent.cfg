SPECIFICATION FairSpec
CONSTANTS
  Requests = {r1}
  Valid = {r1}
  Catalogs = {{r1}}
  RequestHasUser = TRUE
  MonotoneClock = FALSE
  Runs = {t1}
  BatchSize = 1
  MaxDbFaults = 0
  MaxCloses = 1
  MaxCrashes = 0
  MaxFaults = 2
  r1 = r1
  r2 = r2
  r3 = r3
PROPERTIES
  StoredIsDelivered
