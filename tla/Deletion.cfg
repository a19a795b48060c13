SPECIFICATION FairDeletionSpec
CONSTANTS
  Workers = {w1, w2}
  Sweepers = {w1}
  Exporters = {w2}
  Api = Api
  Nobody = Nobody
  Window = 1
  LastDay = 2
  MaxCreated = 1
  MaxBackups = 1
  MaxRequests = 1
  MaxFaults = 1
INVARIANTS KeptWhole OldAccessIsDead ErasedStaysHidden
PROPERTIES NewAccessIsKept LedgerPrevails DeletionEnds
