SPECIFICATION FairMediaSpec
CONSTANTS
  Assets = {m1}
  Workers = {w1, w2}
  Nobody = Nobody
  Limit = 3
  Sizes = {0, 1}
  MaxFaults = 1
INVARIANTS QuotaAddsUp ReadyHasFiles NoStrayFiles
PROPERTY UploadsSettle
CHECK_DEADLOCK FALSE
