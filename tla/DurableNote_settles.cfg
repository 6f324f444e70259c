SPECIFICATION FairSpec
CONSTANTS
  c1 = c1
  c2 = c2
  Clients = {c1}
  Kinds = {FALSE, TRUE}
  Lates = FALSE
  World = World
  MaxEdits = 2
  MaxWorld = 1
  MaxOps = 3
  MaxCrashes = 1
  MaxFaults = 1
  None = None
PROPERTIES
  SavesSettle
