SPECIFICATION FairSpec
CONSTANTS
  d1 = d1
  d2 = d2
  u1 = u1
  u2 = u2
  u3 = u3
  f1 = f1
  f2 = f2
  Dims = {d1, d2}
  Urls = {u1, u2, u3}
  Facts = {f1, f2}
  UrlDim <- MCUrlDim
  FactUrl <- MCFactUrl
  Weight <- MCWeight
  Relevant = {u1, u2}
  Paged = FALSE
  Requests <- MCRequests
INVARIANT RoundsAreBounded
INVARIANT SearchNeedsApproval
INVARIANT KeptSourcesWereJudged
INVARIANT ReportRestsOnCurrentSources
INVARIANT ConflictsAreSettledOrShown
INVARIANT DimensionsAreAccountedFor
PROPERTY FiltersByRounds
PROPERTY RunSettles
