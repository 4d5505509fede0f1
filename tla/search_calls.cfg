SPECIFICATION FairSpec
CONSTANTS
  c1 = c1
  c2 = c2
  q1 = q1
  q2 = q2
  e1 = e1
  e2 = e2
  u1 = u1
  u2 = u2
  Calls = {c1, c2}
  Queries = {q1, q2}
  Engines = {e1, e2}
  Urls = {u1, u2}
  Finds <- MCFinds
  Covers <- MCCovers
  Retried = {e1}
  MaxRounds = 1
  MaxRuns = 2
  Delay = 2
  StorePage = 1
  RedisFails = TRUE
INVARIANT RoundsAreBounded
INVARIANT WaitersAreSpaced
INVARIANT FailureIsContained
PROPERTY AgentEnds
CHECK_DEADLOCK FALSE
