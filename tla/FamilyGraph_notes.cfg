SPECIFICATION Spec
CONSTANTS
  r1 = r1
  r2 = r2
  p1 = p1
  p2 = p2
  p3 = p3
  p4 = p4
  o1 = o1
  o2 = o2
  o3 = o3
  n1 = n1
  n2 = n2
  Replicas = {r1, r2}
  Processes = {p1, p2, p3, p4}
  home <- TwoEach
  Names = {n1}
  Operations = {o1, o2, o3}
  MaxEvents = 4
  MaxEntries = 2
  MaxOpen = 2
  Draws <- Ends
  Kinds = {"folder", "text"}
  None = None
INVARIANTS
  TypeOK
  FactsMatchReference
PROPERTIES
  ReplicasAgree
  CommandsTakeEffectOnce
CONSTRAINT TextsOrOneAuthor
SYMMETRY MirroredPairs
CHECK_DEADLOCK FALSE
