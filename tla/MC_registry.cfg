\* Refutes README.md:107: the snapshot answers for chains that do not pair.
SPECIFICATION Spec
CONSTANTS
  a = a
  b = b
  Calls <- TwoCalls
  Chains <- World
  Address <- Contracts
  Code <- CodeOn
  Getters <- GettersOf
  Requests <- Bridged
  MaybeMisdialed <- TwoCalls
  Snapshot <- SomeRows
INVARIANTS
  RegistryOnlyIfUnreachable
