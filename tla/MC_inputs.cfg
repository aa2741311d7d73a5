\* Every small amount, estimate, environment and receipt, each judged.
SPECIFICATION FairSpec
CONSTANTS
  AmountPrec = 12
  WeiDecimals = 2
  MaxExp = 24
  Uint64s = 4096
  GasMarginPercent = 30
  Address <- Accounts
  ZeroAddress <- Nobody
  ChainID <- Networks
  Key <- Keys
  AddressOf <- KeyOwner
  URL <- Endpoints
  WordLen = 1
  GasLen = 1
  MaxInt64 = 9
  AmountTexts <- SomeAmounts
  Estimates <- AllEstimates
  Environments <- SomeEnvironments
  Receipts <- SomeReceipts
INVARIANTS
  AtMostOneWeiOff
  MarginIsKept
  ComplaintIsTrue
  AcceptedIsUsable
  OnlyZeroIsDiscovered
  InBounds
  IntactIsExact
  CutIsRefused
PROPERTIES
  Settles
