\* Refutes run.go:184: a withdrawal that reverted is announced as initiated and
\* recorded.
SPECIFICATION CliSpec
CONSTANTS
  a = a
  b = b
  Ops <- Pair
  Kind <- DepositAndWithdrawal
  Amount <- OneEach
  HasBridge <- Supplied
  MaybeMisdialed = {}
  Invocations <- SendAlone
  AmountPrec = 12
  WeiDecimals = 2
  MaxExp = 24
  Uint64s = 4096
  GasMarginPercent = 30
  Address <- Accounts
  ZeroAddress <- Nobody
  ChainID <- Networks
  Key <- Keys
  AddressOf <- KeyOwner
  URL <- Endpoints
  Fees = {1}
  InitialBalance = 0
  MaxGifts = 0
  MaxSpends = 0
  MaxReorgs = 0
  MaxEvictions = 0
INVARIANTS
  NoticeMeansSaved
