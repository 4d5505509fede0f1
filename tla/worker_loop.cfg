SPECIFICATION FairSpec
CONSTANTS
  f1 = f1
  f2 = f2
  e1 = e1
  p1 = p1
  w1 = w1
  w2 = w2
  Jobs = {f1, f2, e1, p1}
  FastJobs = {f1, f2}
  ExpertJobs = {e1}
  Workers = {w1}
  MaxConcurrentJobs = 1
  MaxCancels = 1
INVARIANT FastJobsAreSoon
PROPERTY LaneOrderIsKept
PROPERTY EveryJobStarts
CHECK_DEADLOCK FALSE
