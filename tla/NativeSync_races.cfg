SPECIFICATION RestoreSpec
CONSTANTS
  r1 = r1
  r2 = r2
  p1 = p1
  p2 = p2
  p3 = p3
  Replicas = {r1, r2}
  Procs = {p1, p2, p3}
  Home <- SharedHome
  Updates = {1, 2}
  Author <- TwoAuthors
  MaxPush = 1
  MaxPages = 1
  PageItems = 1
  MaxEpoch = 2
  MaxFaults = 1
  None = None
INVARIANTS
  TypeOK
  OneCiphertext
  CursorCoversLog
  AcceptedIsLogged
PROPERTIES
  DeliversInOrder
  EveryUpdateArrives
