\* Whole processes, from their arguments to their exit code, one of which may
\* have an endpoint that serves another chain.
SPECIFICATION CliFairSpec
CONSTANTS
  a = a
  b = b
  Ops <- Pair
  Kind <- DepositAndTransfer
  Amount <- OneEach
  HasBridge <- Supplied
  MaybeMisdialed = {a}
  Invocations <- OneOfAKind
  AmountPrec = 12
  WeiDecimals = 2
  MaxExp = 24
  Uint64s = 4096
  GasMarginPercent = 30
  Address <- Accounts
  ZeroAddress <- Nobody
  ChainID <- Networks
  Key <- Keys
  AddressOf <- KeyOwner
  URL <- Endpoints
  Fees = {1}
  InitialBalance = 0
  MaxGifts = 0
  MaxSpends = 0
  MaxReorgs = 0
  MaxEvictions = 0
INVARIANTS
  CliTypeOK
  SignedOnlyWhenVerified
  SuccessMeansMoved
  SeenBeforeSigned
  OperatorKnows
  ConnectionsAreKept
PROPERTIES
  AllExit
