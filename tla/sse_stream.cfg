SPECIFICATION FairSpec
CONSTANTS
  MaxLen = 2
  MaxEvents = 3
  MaxReloads = 1
  Hitl = TRUE
  Faults <- AllFaults
INVARIANT InOrderOnce
INVARIANT OnlyTheGapIsLost
PROPERTY LiveConnectionEnds
PROPERTY OpenPageSeesTheEnd
CHECK_DEADLOCK FALSE
