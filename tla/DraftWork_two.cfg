SPECIFICATION Spec
CONSTANTS
  w1 = w1
  w2 = w2
  Vault = Vault
  Windows = {w1, w2}
  Phases = 2
  MaxRequests = 3
  MaxBuffers = 2
  MaxSource = 2
  MaxScratch = 3
  MaxFacts = 1
  ScratchOf <- TwoInEach
  FactsOf <- SecondPhaseYields
  MaxEventsOf <- FirstDoesMost
  MaxEvents = 4
ACTION_CONSTRAINTS
  TwoOrWaiting
INVARIANTS
  TypeOK
  FactsAreExact
  HoldsWhatIsCharged
PROPERTIES
  DraftsEnd
CHECK_DEADLOCK FALSE
