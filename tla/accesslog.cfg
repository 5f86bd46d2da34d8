SPECIFICATION FairSpec
CONSTANTS
  MaxEntries = 4
  MaxReopens = 2
  MaxRotations = 3
  MaxKills = 2
INVARIANTS
  LogInOrder
  NothingVanishes
PROPERTIES
  PromiseKept
  EntriesSettle
  RotationTakesEffect
