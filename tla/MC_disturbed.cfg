\* A deposit and a withdrawal while a block is undone, a transaction evicted,
\* and the destination receives and pays out, next to two runs refused at once.
SPECIFICATION Spec
CONSTANTS
  a = a
  b = b
  c = c
  d = d
  Ops <- Four
  Kind <- AndRefused
  Amount <- LastIsNothing
  HasBridge <- NotToTheThird
  MaybeMisdialed = {}
  Fees = {1}
  InitialBalance = 1
  MaxGifts = 1
  MaxSpends = 1
  MaxReorgs = 1
  MaxEvictions = 1
CONSTRAINT RefusedFirst
INVARIANTS
  HashReported
  CreditWithinInflow
  SoloCreditExact
PROPERTIES
  NoCreditOverlooked
