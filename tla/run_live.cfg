SPECIFICATION FairSpec
CONSTANTS
  s1 = s1
  t1 = t1
  t2 = t2
  w1 = w1
  w2 = w2
  r1 = r1
  NoTask = NoTask
  NoWorker = NoWorker
  SessionOf <- OneSession
  Sessions = {s1}
  Tasks = {t1, t2}
  HitlTasks = {t1}
  Workers = {w1, w2}
  Requests = {r1}
  MaxConcurrentJobs = 1
  MaxResumes = 1
  LeaseOutlivesRun = TRUE
  ResumesOverlap = FALSE
  Faults <- HoldsLock
PROPERTY PostedJobEnds
PROPERTY LockIsFreedAgain
CHECK_DEADLOCK FALSE
