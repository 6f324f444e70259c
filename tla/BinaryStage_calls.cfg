SPECIFICATION MCSpec
CONSTANTS
  f = f
  o1 = o1
  o2 = o2
  o3 = o3
  o4 = o4
  o5 = o5
  p1 = p1
  p2 = p2
  p3 = p3
  p4 = p4
  p5 = p5
  p6 = p6
  p7 = p7
  p8 = p8
  Processes = {p1, p2, p3, p4, p5, p6, p7, p8}
  Operations = {o1, o2, o3, o4, o5}
  Entries = {f}
  call <- AllCalls
  MaxActive = 1
  MaxChunks = 4
  Oversized = {o3}
  MaxLog = 1
  MaxFaults = 1
  MaxCancels = 1
  None = None
INVARIANTS
  TypeOK
  ToldTheOutcome
PROPERTIES
  StoresFiles
  ImportsEnd
CHECK_DEADLOCK FALSE
