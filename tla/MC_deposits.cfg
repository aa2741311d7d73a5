\* Two deposits of one key to one destination at the same time, which may
\* build the very same transaction, on chains that go on.
SPECIFICATION ChainFairSpec
CONSTANTS
  a = a
  b = b
  c = c
  d = d
  Ops <- Pair
  Kind <- TwoDeposits
  Amount <- OneEach
  HasBridge <- Supplied
  MaybeMisdialed = {}
  Fees = {1, 2}
  InitialBalance = 1
  MaxGifts = 0
  MaxSpends = 0
  MaxReorgs = 0
  MaxEvictions = 0
INVARIANTS
  TypeOK
  SuccessMeansMoved
PROPERTIES
  KeepsPromise
  NonceSettles
