SPECIFICATION FairSpec
CONSTANTS
  Requests = {r1, r2}
  MaxPasses = 3
  MaxBatch = 2
  MaxLimit = 3
  Kinds <- AllKinds
INVARIANTS AdmittedOnce
PROPERTIES LimitHolds InvalidatedStaysOut FrozenIsFinal RequestsEnd ImplementsService
