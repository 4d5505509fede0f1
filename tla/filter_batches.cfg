SPECIFICATION Spec
CONSTANTS
  Pages = 3
  BatchMin = 2
  BatchMax = 3
  Concurrency = 2
  Retries = 1
  MaxRounds = 2
  Score <- MCScore
  Similar <- MCSimilar
INVARIANT CacheReplaysTheRound
INVARIANT BestPageSurvives
PROPERTY ActsAsOneStep
CHECK_DEADLOCK FALSE
