--------------------------- MODULE ResearchService ---------------------------
(***************************************************************************)
(* What the service promises about research tasks, without queue, worker,  *)
(* lock or requests: one task of a session runs at a time, a task that     *)
(* waits for approval does not run and is not settled by anybody else, and *)
(* a completed task is not reopened.  ResearchRun implements this.         *)
(***************************************************************************)
CONSTANTS Sessions, Tasks, SessionOf, NoTask

VARIABLES
  status,    \* the status a user sees for each task, or "absent"
  approval,  \* the tasks that wait for approval
  active     \* the task that runs in each session, or NoTask

vars == <<status, approval, active>>

Init ==
  /\ status = [t \in Tasks |-> "absent"]
  /\ approval = {}
  /\ active = [s \in Sessions |-> NoTask]

Create(t) ==
  /\ status[t] = "absent"
  /\ status' = [status EXCEPT ![t] = "running"]
  /\ UNCHANGED <<approval, active>>

\* Only a free session starts a task, and only one that needs no approval.
Begin(t) ==
  /\ active[SessionOf[t]] = NoTask
  /\ t \notin approval
  /\ active' = [active EXCEPT ![SessionOf[t]] = t]
  /\ UNCHANGED <<status, approval>>

\* Runs end one by one, or together when their worker dies.
End(S) ==
  /\ \A s \in S : active[s] # NoTask
  /\ active' = [s \in Sessions |-> IF s \in S THEN NoTask ELSE active[s]]
  /\ UNCHANGED <<status, approval>>

\* A run that ended settles its task: to wait for approval, or for good.  One that
\* is cut off at its breakpoint fails and still asks for approval.
Settle(t) ==
  /\ active[SessionOf[t]] # t
  /\ t \notin approval
  /\ status[t] # "absent"
  /\ \/ /\ status' = [status EXCEPT ![t] = "suspended"]
        /\ approval' = approval \cup {t}
     \/ /\ status' = [status EXCEPT ![t] = "completed"]
        /\ approval' = approval
     \/ /\ status' = [status EXCEPT ![t] = "failed"]
        /\ approval' \in {approval, approval \cup {t}}
  /\ status[t] # "completed"
  /\ active' = active

\* A run that found nothing to do leaves its task as if it still ran.
Abandon(t) ==
  /\ active[SessionOf[t]] # t
  /\ t \notin approval
  /\ status[t] \notin {"absent", "completed"}
  /\ status' = [status EXCEPT ![t] = "running"]
  /\ UNCHANGED <<approval, active>>

\* The user approves.
Approve(t) ==
  /\ t \in approval
  /\ approval' = approval \ {t}
  /\ UNCHANGED <<status, active>>

\* The service gives a task up.
GiveUp(t) ==
  /\ status[t] # "absent"
  /\ status' = [status EXCEPT ![t] = "failed"]
  /\ UNCHANGED <<approval, active>>

\* The user deletes a session with all its tasks.
Delete(s) ==
  /\ \E t \in Tasks : SessionOf[t] = s /\ status[t] # "absent"
  /\ status' = [t \in Tasks |-> IF SessionOf[t] = s THEN "absent" ELSE status[t]]
  /\ approval' = {t \in approval : SessionOf[t] # s}
  /\ active' = active

Next ==
  \/ \E t \in Tasks : Create(t) \/ Begin(t) \/ Settle(t) \/ Abandon(t) \/ Approve(t) \/ GiveUp(t)
  \/ \E S \in SUBSET Sessions : End(S)
  \/ \E s \in Sessions : Delete(s)

Spec == Init /\ [][Next]_vars
=============================================================================
