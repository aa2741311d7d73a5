\* Refutes run.go:264: an amount beyond the range of a float is no error.
SPECIFICATION Spec
CONSTANTS
  AmountPrec = 12
  WeiDecimals = 2
  MaxExp = 24
  Uint64s = 4096
  GasMarginPercent = 30
  Address <- Accounts
  ZeroAddress <- Nobody
  ChainID <- Networks
  Key <- Keys
  AddressOf <- KeyOwner
  URL <- Endpoints
  WordLen = 1
  GasLen = 1
  MaxInt64 = 9
  AmountTexts <- SomeAmounts
  Estimates = {}
  Environments = {}
  Receipts = {}
INVARIANTS
  BadAmountIsRefused
