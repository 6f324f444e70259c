SPECIFICATION Spec
CONSTANTS
  c1 = c1
  c2 = c2
  Clients = {c1, c2}
  Kinds = {FALSE, TRUE}
  Lates = TRUE
  World = World
  MaxEdits = 2
  MaxWorld = 1
  MaxOps = 3
  MaxCrashes = 1
  MaxFaults = 1
  None = None
CONSTRAINT OneOrTwo
SYMMETRY Symmetry
INVARIANTS
  TypeOK
  IntentsAreCheckpointed
  NoSilentRevert
PROPERTIES
  DraftSurvives
