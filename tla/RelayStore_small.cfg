SPECIFICATION Spec
SYMMETRY Symmetry
CONSTANTS
  Files = {f1, f2, f3}
  Operators = {o1, o2}
  Accounts = {a1}
  Devices = {d1}
  Vaults = {v1}
  Tokens = {t1, t2, t3}
  Epochs = {e1, e2}
  Updates = {u1, u2}
  Wires = {w1, w2}
  None = None
INVARIANTS
  TypeOK
  ReceiptsHold
  TokensStayHome
PROPERTIES
  KeepsPromise
  RevocationIsFinal
CONSTRAINT TokensOrLogs
