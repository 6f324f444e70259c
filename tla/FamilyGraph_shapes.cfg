SPECIFICATION Spec
CONSTANTS
  r1 = r1
  r2 = r2
  p1 = p1
  p2 = p2
  p3 = p3
  p4 = p4
  o1 = o1
  o2 = o2
  o3 = o3
  n1 = n1
  n2 = n2
  Replicas = {r1, r2}
  Processes = {p1, p2}
  home <- OneEach
  Names = {n1, n2}
  Operations = {o1, o2}
  MaxEvents = 4
  MaxEntries = 2
  MaxOpen = 1
  Draws <- Ends
  Kinds = {"folder", "binary"}
  None = None
INVARIANTS
  ChangesSurvive
PROPERTIES
  NamespaceIsKept
CONSTRAINT FoldersOrOneFile
SYMMETRY Mirrored
CHECK_DEADLOCK FALSE
