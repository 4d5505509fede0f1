SPECIFICATION FairSpec
CONSTANTS
  d1 = d1  d2 = d2  p1 = p1  p2 = p2  p3 = p3
  NumClaims = 10
  Dims <- MCDims
  DimOf <- MCDimOf
  Importance <- MCImportance
  Items = {p1, p2, p3}
  ItemDim <- MCItemDim
  MinEvidence = 1
  MaxEvidence = 8
  DimMax = 2
  BatchMax = 2
  ChunkMax = 2
  Inputs <- MCInputs
INVARIANT AllAreJudged
INVARIANT LoneClaimsOfGroupsAreChecked
PROPERTY JudgingEnds
CHECK_DEADLOCK FALSE
