---------------------------- MODULE MCWorkerLoop ----------------------------
(* Instances of WorkerLoop for TLC: one expert job, one pipeline job and as  *)
(* many fast jobs as the configuration names.                                *)
EXTENDS WorkerLoop

CONSTANTS f1, f2, e1, p1, w1, w2
=============================================================================
