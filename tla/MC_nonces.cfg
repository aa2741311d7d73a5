\* Three alike withdrawals that overlap or follow each other, bidding one of
\* two fees, while a block may be undone and a run crash while it writes its
\* record: the nonces they share, the transactions they displace, and the one
\* directory they write to.
SPECIFICATION Spec
CONSTANTS
  a = a
  b = b
  c = c
  d = d
  Ops <- Three
  Kind <- ThreeWithdrawals
  Amount <- OneOfThree
  HasBridge <- SuppliedToThree
  MaybeMisdialed = {}
  Fees = {1, 2}
  InitialBalance = 0
  MaxGifts = 0
  MaxSpends = 0
  MaxReorgs = 1
  MaxEvictions = 0
CONSTRAINT NoneAbsent
SYMMETRY AlikeThree
INVARIANTS
  NoSharedTransfer
  NoNonceGap
  WithdrawalRecorded
  RecordsAreProvable
PROPERTIES
  RetryTakesFreshNonce
  RecordsKept
