---------------------------- MODULE MCResearchRun ----------------------------
(* Instances of ResearchRun for TLC: one session, as the lock is per session *)
(* and sessions meet only at the slots of a worker.                          *)
EXTENDS ResearchRun, TLC

CONSTANT s1

OneSession == [t \in Tasks |-> s1]

\* Which failures a run allows.
NoFaults == {}
HoldsLock == {"crash", "start", "release"}
LosesWork == {"crash", "post", "snapshot", "archive"}
AllFaults == FaultKinds

\* For safety only.
Symmetry == Permutations(Requests) \cup Permutations(Workers)
=============================================================================
