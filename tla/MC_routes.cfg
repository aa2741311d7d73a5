\* Two overlapping calls for pairs and no pairs, every way to override, one of
\* them perhaps with an endpoint that serves another chain, with a snapshot to
\* fall back on.
SPECIFICATION FairSpec
CONSTANTS
  a = a
  b = b
  Calls <- TwoCalls
  Chains <- World
  Address <- Contracts
  Code <- CodeOn
  Getters <- GettersOf
  Requests <- Anything
  MaybeMisdialed = {a}
  Snapshot <- SomeRows
CONSTRAINT OneEndWrong
INVARIANTS
  TypeOK
  KindIsRight
  LabelsAreTrue
  CacheIsPaired
  UnpairedIsRefused
  NoPairIsMissed
PROPERTIES
  AnswerNeverChanges
  AnswersAsPromised
  Resolves
