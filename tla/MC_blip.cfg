\* Refutes discover.go:34: a failed read is reported as chains that do not pair.
SPECIFICATION Spec
CONSTANTS
  a = a
  b = b
  Calls <- TwoCalls
  Chains <- World
  Address <- Contracts
  Code <- CodeOn
  Getters <- GettersOf
  Requests <- Bridged
  MaybeMisdialed <- Nothing
  Snapshot <- NoRows
INVARIANTS
  NotPairedIsEvidence
