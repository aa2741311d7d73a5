\* Refutes run.go:39: a decimal amount comes out one wei short.
SPECIFICATION Spec
CONSTANTS
  AmountPrec = 12
  WeiDecimals = 2
  MaxExp = 24
  Uint64s = 4096
  GasMarginPercent = 30
  Address <- Accounts
  ZeroAddress <- Nobody
  ChainID <- Networks
  Key <- Keys
  AddressOf <- KeyOwner
  URL <- Endpoints
  WordLen = 1
  GasLen = 1
  MaxInt64 = 9
  AmountTexts <- Tenths
  Estimates = {}
  Environments = {}
  Receipts = {}
INVARIANTS
  AmountIsExact
