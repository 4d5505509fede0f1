SPECIFICATION Spec
CONSTANTS
  s1 = s1
  t1 = t1
  t2 = t2
  w1 = w1
  r1 = r1
  r2 = r2
  NoTask = NoTask
  NoWorker = NoWorker
  SessionOf <- OneSession
  Sessions = {s1}
  Tasks = {t1, t2}
  HitlTasks = {t1}
  Workers = {w1}
  Requests = {r1, r2}
  MaxConcurrentJobs = 2
  MaxResumes = 2
  LeaseOutlivesRun = FALSE
  ResumesOverlap = TRUE
  Faults <- LosesWork
SYMMETRY Symmetry
INVARIANT OnlyResumesDouble
INVARIANT UnfinishedRowIsExplained
INVARIANT SessionMatchesRows
PROPERTY DeletedStaysDeleted
CHECK_DEADLOCK FALSE
