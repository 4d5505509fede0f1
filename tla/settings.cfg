SPECIFICATION FairSpec
CONSTANTS
  p1 = p1
  a1 = a1
  a2 = a2
  i1 = i1
  i2 = i2
  n1 = n1
  w1 = w1
  r1 = r1
  r2 = r2
  NoAsset = NoAsset
  Workers = {w1}
  Requests = {r1, r2}
  Providers = {p1}
  Assets = {a1, a2}
  ProviderOf <- OneProvider
  Presets = {i1, i2}
  Names = {n1}
  Plans <- MCPlans
  MaxVersion = 2
  Operations <- AllOperations
INVARIANT StaleEntryIsExplained
PROPERTY OnlyOverlapBreaks
PROPERTY CachesSettle
