\* Refutes run.go:135: the answer to a broadcast is lost.
SPECIFICATION Spec
CONSTANTS
  a = a
  b = b
  c = c
  d = d
  Ops <- Pair
  Kind <- DepositAndTransfer
  Amount <- OneEach
  HasBridge <- Supplied
  MaybeMisdialed = {}
  Fees = {1}
  InitialBalance = 1
  MaxGifts = 0
  MaxSpends = 0
  MaxReorgs = 0
  MaxEvictions = 0
INVARIANTS
  MovedIsReported
