-------------------------- MODULE ResearchRunProofs --------------------------
(***************************************************************************)
(* Theorems about ResearchRun for any number of sessions, tasks, workers,  *)
(* requests, slots and resumes, and that it implements ResearchService.    *)
(***************************************************************************)
EXTENDS ResearchRun, TLAPS

\* What a job, a pair of a task and a number, is made of.
LEMMA JobFacts ==
  /\ \A j \in Jobs : TaskOf(j) \in Tasks /\ SessionOfJob(j) \in Sessions
  /\ \A t \in Tasks : <<t, 0>> \in Jobs /\ TaskOf(<<t, 0>>) = t
  /\ \A t \in Tasks, n \in 1..MaxResumes : <<t, n>> \in Jobs /\ TaskOf(<<t, n>>) = t
  /\ \A t \in Tasks : SessionOf[t] \in Sessions
BY ConstantsAssumption DEF Jobs, TaskOf, SessionOfJob

-----------------------------------------------------------------------------
(* Type correctness, one lemma per group of actions.                       *)

\* The steps of API requests keep the variables in their types.
LEMMA RequestTypes == TypeOK /\ RequestStep => TypeOK'
<1> USE JobFacts DEF Idle, RowStatus, rows
<1> SUFFICES ASSUME TypeOK, RequestStep PROVE TypeOK'
  OBVIOUS
<1>1. ASSUME NEW t \in Tasks, ChatNew(t) PROVE TypeOK'
  BY <1>1 DEF TypeOK, ChatNew, CreateRow, Places
<1>2. ASSUME NEW r \in Requests, NEW t \in Tasks, FollowUpRead(r, t) PROVE TypeOK'
  BY <1>2 DEF TypeOK, FollowUpRead, Latest, Rows
<1>3. ASSUME NEW r \in Requests, NEW t \in Tasks, ResumeRead(r, t) PROVE TypeOK'
  BY <1>3 DEF TypeOK, ResumeRead
<1>4. ASSUME NEW r \in Requests, NEW t \in Tasks, CleanupRead(r, t) PROVE TypeOK'
  BY <1>4 DEF TypeOK, CleanupRead
<1>5. ASSUME NEW r \in Requests, FollowUpCommit(r) PROVE TypeOK'
  <2> DEFINE t == req[r].task
  <2>1. t \in Tasks /\ req[r].ord \in Nat /\ SessionOf[t] \in Sessions
    BY <1>5 DEF TypeOK, FollowUpCommit
  <2>2. req' \in [Requests -> [kind : {"idle", "followup", "resume", "cleanup"},
                              task : Tasks \cup {NoTask}, ord : Nat]]
        /\ \A q \in Requests : req'[q].kind # "idle" => req'[q].task \in Tasks
    BY <1>5 DEF TypeOK, FollowUpCommit
  <2>3. CASE sess[SessionOf[t]] # "absent"
    <3>1. CreateRow(t, req[r].ord)
      BY <1>5, <2>3 DEF FollowUpCommit
    <3> QED
      BY <1>5, <2>1, <2>2, <3>1 DEF TypeOK, FollowUpCommit, CreateRow, Places
  <2>4. CASE sess[SessionOf[t]] = "absent"
    BY <1>5, <2>2, <2>4 DEF TypeOK, FollowUpCommit
  <2> QED
    BY <2>3, <2>4
<1>6. ASSUME NEW r \in Requests, CleanupCommit(r) PROVE TypeOK'
  BY <1>6 DEF TypeOK, CleanupCommit
<1>7. ASSUME NEW r \in Requests, NEW n \in 1..MaxResumes, ResumeCommit(r, n)
      PROVE TypeOK'
  <2> DEFINE t == req[r].task
  <2>1. t \in Tasks
    BY <1>7 DEF TypeOK, ResumeCommit
  <2>2. req' \in [Requests -> [kind : {"idle", "followup", "resume", "cleanup"},
                              task : Tasks \cup {NoTask}, ord : Nat]]
        /\ \A q \in Requests : req'[q].kind # "idle" => req'[q].task \in Tasks
    BY <1>7 DEF TypeOK, ResumeCommit
  <2>3. pending' \subseteq Tasks
    BY <1>7, <2>1 DEF TypeOK, ResumeCommit
  <2>4. pc' \in [Jobs -> Places]
    BY <1>7, <2>1 DEF TypeOK, ResumeCommit, Places
  <2> QED
    BY <1>7, <2>2, <2>3, <2>4 DEF TypeOK, ResumeCommit
<1>8. ASSUME NEW s \in Sessions, DeleteSession(s) PROVE TypeOK'
  BY <1>8 DEF TypeOK, DeleteSession
<1> QED
  BY <1>1, <1>2, <1>3, <1>4, <1>5, <1>6, <1>7, <1>8 DEF RequestStep

\* The steps of a job keep the variables in their types.
LEMMA JobTypes == ASSUME NEW j \in Jobs PROVE TypeOK /\ JobStep(j) => TypeOK'
<1> USE JobFacts DEF Places, Outcome, RowStatus, rows
<1> SUFFICES ASSUME TypeOK, JobStep(j) PROVE TypeOK'
  OBVIOUS
<1>1. CASE Post(j)
  BY <1>1 DEF TypeOK, Post
<1>2. ASSUME NEW w \in Workers, Pop(j, w) PROVE TypeOK'
  BY <1>2 DEF TypeOK, Pop
<1>3. CASE Start(j)
  <2>1. PICK c \in IF IsResume(j) /\ ckpt[TaskOf(j)] = "none" THEN {"none", "midway"}
                  ELSE {ckpt[TaskOf(j)]} :
               /\ ckpt' = [ckpt EXCEPT ![TaskOf(j)] = c]
               /\ hasNext' \in {hasNext \cup {j}, hasNext \ {j}}
    BY <1>3 DEF Start
  <2>2. c \in {"none", "midway", "interrupted", "done"}
    BY <2>1 DEF TypeOK
  <2>3. ckpt' \in [Tasks -> {"none", "midway", "interrupted", "done"}]
    BY <2>1, <2>2 DEF TypeOK
  <2>4. hasNext' \subseteq Jobs
    BY <2>1 DEF TypeOK
  <2>5. pc' \in [Jobs -> Places]
    BY <1>3 DEF TypeOK, Start
  <2> QED
    BY <1>3, <2>3, <2>4, <2>5 DEF TypeOK, Start
<1>4. CASE TryLock(j)
  <2>1. pc' \in [Jobs -> Places] /\ out' \in [Jobs -> Outcome]
    BY <1>4 DEF TypeOK, TryLock, Enter
  <2>2. lock' \in [Sessions -> Tasks \cup {NoTask}]
    BY <1>4 DEF TypeOK, TryLock
  <2> QED
    BY <1>4, <2>1, <2>2 DEF TypeOK, TryLock
<1>5. CASE CheckOwner(j)
  <2>1. pc' \in [Jobs -> Places]
    BY <1>5 DEF TypeOK, CheckOwner
  <2>2. host' \in [Jobs -> Workers \cup {NoWorker}]
    BY <1>5 DEF TypeOK, CheckOwner
  <2> QED
    BY <1>5, <2>1, <2>2 DEF TypeOK, CheckOwner
<1>6. CASE Renew(j)
  BY <1>6 DEF TypeOK, Renew, Enter
<1>7. CASE Superstep(j)
  BY <1>7 DEF TypeOK, Superstep
<1>8. CASE EndStream(j)
  BY <1>8 DEF TypeOK, EndStream
<1>9. CASE RunFails(j) \/ Announce(j)
  BY <1>9 DEF TypeOK, RunFails, Announce
<1>10. CASE Inspect(j)
  <2>1. PICK v \in Verdicts(ckpt[TaskOf(j)]) :
               /\ out' = [out EXCEPT ![j] = v]
               /\ bp' = IF v = "suspended" THEN bp \cup {j} ELSE bp
    BY <1>10 DEF Inspect
  <2>2. v \in Outcome
    BY <2>1 DEF TypeOK, Verdicts
  <2>3. out' \in [Jobs -> Outcome] /\ bp' \subseteq Jobs
    BY <2>1, <2>2 DEF TypeOK
  <2> QED
    BY <1>10, <2>3 DEF TypeOK, Inspect
<1>11. CASE Release(j)
  BY <1>11 DEF TypeOK, Release
<1>12. CASE Archive(j)
  <2> DEFINE t == TaskOf(j)
  <2>1. pc' \in [Jobs -> Places] /\ host' \in [Jobs -> Workers \cup {NoWorker}]
    BY <1>12 DEF TypeOK, Archive
  <2>2. /\ t \in Tasks /\ SessionOf[t] \in Sessions
        /\ ArchivedStatus(out[j]) \in RowStatus /\ SessionStatus(j) \in RowStatus
    BY DEF TypeOK, ArchivedStatus, SessionStatus
  <2>3. out' \in [Jobs -> Outcome] /\ bp' \subseteq Jobs
    BY <1>12 DEF TypeOK, Archive
  <2>4. CASE UNCHANGED <<rows, sess>>
    BY <1>12, <2>1, <2>3, <2>4 DEF TypeOK, Archive
  <2>5. CASE ~UNCHANGED <<rows, sess>>
    <3>1. /\ status' = [status EXCEPT ![t] = ArchivedStatus(out[j])]
          /\ pending' = IF j \in bp THEN pending \cup {t} ELSE pending \ {t}
          /\ cleaned' = cleaned \ {t}
          /\ ord' = ord
          /\ sess' = [sess EXCEPT ![SessionOf[t]] = SessionStatus(j)]
      BY <1>12, <2>5 DEF Archive
    <3>2. /\ status' \in [Tasks -> {"absent"} \cup RowStatus]
          /\ pending' \subseteq Tasks /\ cleaned' \subseteq Tasks
          /\ sess' \in [Sessions -> {"absent"} \cup RowStatus]
      BY <2>2, <3>1 DEF TypeOK
    <3> QED
      BY <1>12, <2>1, <2>3, <3>1, <3>2 DEF TypeOK, Archive
  <2> QED
    BY <2>4, <2>5
<1> QED
  BY <1>1, <1>2, <1>3, <1>4, <1>5, <1>6, <1>7, <1>8, <1>9, <1>10, <1>11, <1>12
  DEF JobStep, JobProgress

\* The steps of the environment keep the variables in their types.
LEMMA EnvTypes == TypeOK /\ EnvStep => TypeOK'
<1> USE JobFacts DEF Places, rows
<1> SUFFICES ASSUME TypeOK, EnvStep PROVE TypeOK'
  OBVIOUS
<1>1. ASSUME NEW j \in Jobs, PostFails(j) \/ PopFails(j) \/ StartFails(j) PROVE TypeOK'
  BY <1>1 DEF TypeOK, PostFails, PopFails, StartFails
<1>2. ASSUME NEW s \in Sessions, LockExpires(s) PROVE TypeOK'
  BY <1>2 DEF TypeOK, LockExpires
<1>3. ASSUME NEW w \in Workers, Crash(w) PROVE TypeOK'
  BY <1>3 DEF TypeOK, Crash, Outcome, RowStatus
<1>4. ASSUME NEW t \in Tasks, CheckpointsCleaned(t) PROVE TypeOK'
  BY <1>4 DEF TypeOK, CheckpointsCleaned
<1> QED
  BY <1>1, <1>2, <1>3, <1>4 DEF EnvStep

\* Every step, and stuttering, keeps the variables in their types.
LEMMA StepTypes == TypeOK /\ [Next]_vars => TypeOK'
<1> SUFFICES ASSUME TypeOK, [Next]_vars PROVE TypeOK'
  OBVIOUS
<1>1. CASE UNCHANGED vars
  BY <1>1 DEF TypeOK, vars, rows
<1> QED
  BY <1>1, RequestTypes, JobTypes, EnvTypes DEF Next

\* The initial state is of the right types.
LEMMA InitTypes == Init => TypeOK
BY ConstantsAssumption DEF Init, TypeOK, Idle, Places, Outcome, RowStatus

\* Rows, requests, jobs, locks and checkpoints keep their types in every
\* behaviour, whatever fails and however requests overlap.
THEOREM TypeCorrect == Spec => []TypeOK
BY InitTypes, StepTypes, PTL DEF Spec

-----------------------------------------------------------------------------
(* Exclusion.  A run keeps its lock because the only runs that may delete   *)
(* the lock of a session are of the task that owns it, and a task has one   *)
(* live job: its next one is posted by a resume, a resume is committed for  *)
(* a task that waits for approval, and a task that waits has no live job.   *)

\* A follow-up that is about to insert a task is alone with that task.
FollowUpAlone ==
  \A r \in Requests : req[r].kind = "followup" =>
    /\ \A j \in Jobs : TaskOf(j) = req[r].task => pc[j] = "none"
    /\ \A q \in Requests : q # r => req[q].task # req[r].task

\* A row exists only after its chat job, and so do the jobs of its resumes.
RowAfterChat ==
  /\ \A t \in Tasks : status[t] # "absent" => pc[<<t, 0>>] # "none"
  /\ \A j \in Jobs : pc[j] # "none" => pc[<<TaskOf(j), 0>>] # "none"

\* Only a task with a row waits for approval, and it has no live job.
ApprovalAlone ==
  \A t \in pending :
    /\ status[t] # "absent"
    /\ \A j \in Jobs : TaskOf(j) = t => pc[j] \notin Live

\* What a resume request read is still true when it commits, or the row is gone;
\* no second request read it too.
ResumeReads ==
  /\ \A r \in Requests : req[r].kind = "resume" =>
       /\ status[req[r].task] = "absent" \/ req[r].task \in pending
       /\ pc[<<req[r].task, 0>>] # "none"
  /\ \A r, q \in Requests :
       /\ req[r].kind = "resume"
       /\ req[q].kind = "resume"
       /\ SessionOf[req[r].task] = SessionOf[req[q].task]
       => r = q

\* A worker holds only jobs that it popped and that have not ended.
AtWork == {"waiting"} \cup InSlot
HostedIsAtWork == \A j \in Jobs : host[j] # NoWorker => pc[j] \in AtWork

ExclusionInv ==
  /\ TypeOK
  /\ LockCoversRun
  /\ OneLiveJobPerTask
  /\ FollowUpAlone
  /\ RowAfterChat
  /\ ApprovalAlone
  /\ ResumeReads
  /\ HostedIsAtWork

\* The places of a job before the graph runs, and behind the first of them those
\* in which it has read the snapshot.
BeforeStart == {"posting", "queued", "waiting"}
BeforeRun == {"locking", "contending", "renewing"}

\* The sets of places, told apart once.
LEMMA PlaceFacts ==
  /\ Critical \subseteq InSlot /\ InSlot \subseteq AtWork /\ AtWork \subseteq Live
  /\ Live \subseteq Places
  /\ "none" \notin Live /\ "posting" \notin Critical
  /\ {"none", "done", "unsaved", "refused", "dead"} \cap Live = {}
  /\ "dead" \notin Critical
BY DEF Critical, InSlot, AtWork, Live, Places

\* A step of a job moves that job only, and never back to where it was not posted.
LEMMA JobMoves ==
  ASSUME NEW j \in Jobs, TypeOK, JobStep(j)
  PROVE  /\ req' = req
         /\ pc[j] \in Live
         /\ \E p \in Places \ {"none"} : pc' = [pc EXCEPT ![j] = p]
         /\ \A k \in Jobs : k # j => host'[k] = host[k]
         /\ (host[j] # NoWorker => pc[j] \in AtWork)
              => (host'[j] # NoWorker => pc'[j] \in AtWork)
<1> USE DEF Live, InSlot, AtWork, Places, rows
<1>1. CASE Superstep(j)
  <2>1. /\ pc' = [pc EXCEPT ![j] = pc[j]] /\ pc[j] = "running" /\ pc' = pc
        /\ req' = req /\ host' = host
    BY <1>1 DEF Superstep, TypeOK
  <2> QED
    BY <2>1
<1>2. CASE ~Superstep(j)
  <2>1. req' = req /\ \A k \in Jobs : k # j => host'[k] = host[k]
    BY <1>2 DEF JobStep, JobProgress, Post, Pop, Start, TryLock, CheckOwner, Renew, EndStream,
                RunFails, Inspect, Announce, Release, Archive, TypeOK
  <2>2. pc[j] \in Live /\ \E p \in Places \ {"none"} : pc' = [pc EXCEPT ![j] = p]
    BY <1>2 DEF JobStep, JobProgress, Post, Pop, Start, TryLock, Enter, CheckOwner, Renew, EndStream,
                RunFails, Inspect, Announce, Release, Archive
  <2>3. (host[j] # NoWorker => pc[j] \in AtWork) => (host'[j] # NoWorker => pc'[j] \in AtWork)
    BY <1>2 DEF JobStep, JobProgress, Post, Pop, Start, TryLock, Enter, CheckOwner, Renew, EndStream,
                RunFails, Inspect, Announce, Release, Archive, TypeOK
  <2> QED
    BY <2>1, <2>2, <2>3
<1> QED
  BY <1>1, <1>2

\* A step of a job moves the checkpoint of its own task and the outcome of its own run.
LEMMA JobThread ==
  ASSUME NEW j \in Jobs, TypeOK, JobStep(j)
  PROVE  /\ \A t \in Tasks : t # TaskOf(j) => ckpt'[t] = ckpt[t]
         /\ \A k \in Jobs : k # j => /\ out'[k] = out[k]
                                     /\ k \in bp' <=> k \in bp
                                     /\ k \in hasNext' <=> k \in hasNext
<1> USE JobFacts
<1>1. \A t \in Tasks : t # TaskOf(j) => ckpt'[t] = ckpt[t]
  BY DEF JobStep, JobProgress, Post, Pop, Start, TryLock, Enter, CheckOwner, Renew, Superstep,
         EndStream, RunFails, Inspect, Announce, Release, Archive, TypeOK
<1>2. \A k \in Jobs : k # j => out'[k] = out[k]
  BY DEF JobStep, JobProgress, Post, Pop, Start, TryLock, Enter, CheckOwner, Renew, Superstep,
         EndStream, RunFails, Inspect, Announce, Release, Archive, TypeOK
<1>3. \A k \in Jobs : k # j => (k \in bp' <=> k \in bp)
  BY DEF JobStep, JobProgress, Post, Pop, Start, TryLock, CheckOwner, Renew, Superstep,
         EndStream, RunFails, Inspect, Announce, Release, Archive
<1>4. \A k \in Jobs : k # j => (k \in hasNext' <=> k \in hasNext)
  BY DEF JobStep, JobProgress, Post, Pop, Start, TryLock, CheckOwner, Renew, Superstep,
         EndStream, RunFails, Inspect, Announce, Release, Archive
<1> QED
  BY <1>1, <1>2, <1>3, <1>4

\* Only an archive touches the rows, and it writes the row of its own task and the
\* status of its session: the outcome of the run, and whether approval is pending.
LEMMA JobRows ==
  ASSUME NEW j \in Jobs, TypeOK, JobStep(j)
  PROVE  \/ UNCHANGED <<status, pending, cleaned, sess>>
         \/ /\ Archive(j) /\ pc[j] = "archiving" /\ pc'[j] = "done"
            /\ status[TaskOf(j)] # "absent" /\ ArchivedStatus(out[j]) \in RowStatus
            /\ status' = [status EXCEPT ![TaskOf(j)] = ArchivedStatus(out[j])]
            /\ pending' = IF j \in bp THEN pending \cup {TaskOf(j)} ELSE pending \ {TaskOf(j)}
            /\ cleaned' = cleaned \ {TaskOf(j)}
            /\ sess' = [sess EXCEPT ![SessionOf[TaskOf(j)]] = SessionStatus(j)]
            /\ UNCHANGED <<out, bp, ckpt, hasNext>>
<1> USE DEF rows
<1>1. CASE Archive(j)
  <2>1. ArchivedStatus(out[j]) \in RowStatus
    BY DEF TypeOK, ArchivedStatus, Outcome, RowStatus
  <2>2. CASE UNCHANGED <<rows, sess>>
    BY <2>2
  <2>3. CASE ~UNCHANGED <<rows, sess>>
    <3>1. pc[j] = "archiving" /\ pc' = [pc EXCEPT ![j] = "done"]
      BY <1>1, <2>3 DEF Archive
    <3>2. pc'[j] = "done"
      BY <3>1 DEF TypeOK
    <3> QED
      BY <1>1, <2>1, <2>3, <3>1, <3>2 DEF Archive
  <2> QED
    BY <2>2, <2>3
<1>2. CASE ~Archive(j)
  BY <1>2 DEF JobStep, JobProgress, Post, Pop, Start, TryLock, CheckOwner, Renew, Superstep, EndStream,
              RunFails, Inspect, Announce, Release
<1> QED
  BY <1>1, <1>2

\* The lock after a step of a job.
LEMMA JobLocks ==
  ASSUME NEW j \in Jobs, TypeOK, LockCoversRun, OneLiveJobPerTask, JobStep(j)
  PROVE  LockCoversRun'
<1> DEFINE s == SessionOfJob(j)
<1> USE JobFacts DEF rows
<1> SUFFICES ASSUME NEW k \in Jobs, pc'[k] \in Critical
             PROVE  lock'[SessionOfJob(k)] = TaskOf(k)
  BY DEF LockCoversRun, SessionOfJob, TaskOf
<1>1. k # j => pc'[k] = pc[k]
  BY JobMoves DEF TypeOK
<1>2. CASE TryLock(j)
  <2>1. CASE lock[s] = NoTask
    <3>1. lock' = [lock EXCEPT ![s] = TaskOf(j)]
      BY <1>2, <2>1 DEF TryLock
    <3>2. CASE k = j
      BY <3>1, <3>2 DEF TypeOK
    <3>3. CASE k # j
      <4>1. lock[SessionOfJob(k)] = TaskOf(k)
        BY <1>1, <3>3 DEF LockCoversRun
      <4>2. SessionOfJob(k) # s
        BY <2>1, <4>1, ConstantsAssumption
      <4> QED
        BY <3>1, <4>1, <4>2 DEF TypeOK
    <3> QED
      BY <3>2, <3>3
  <2>2. CASE lock[s] # NoTask
    <3>1. lock' = lock /\ pc'[j] = "contending"
      BY <1>2, <2>2 DEF TryLock, TypeOK
    <3> QED
      BY <1>1, <3>1 DEF LockCoversRun, Critical
  <2> QED
    BY <2>1, <2>2
<1>3. CASE CheckOwner(j)
  BY <1>1, <1>3 DEF CheckOwner, LockCoversRun, TypeOK, Critical
<1>4. CASE Release(j)
  <2>1. pc[j] = "releasing" /\ pc'[j] = "archiving"
    BY <1>4 DEF Release, TypeOK
  <2>2. k # j /\ pc[k] \in Critical
    BY <1>1, <2>1 DEF Critical
  <2>3. lock[SessionOfJob(k)] = TaskOf(k) /\ lock[s] = TaskOf(j)
    BY <2>1, <2>2 DEF LockCoversRun, Critical
  <2>4. TaskOf(k) # TaskOf(j)
    BY <2>1, <2>2, PlaceFacts DEF OneLiveJobPerTask, Critical
  <2>5. SessionOfJob(k) # s
    BY <2>3, <2>4
  <2> QED
    BY <1>4, <2>3, <2>5 DEF Release, TypeOK
<1>5. CASE ~(TryLock(j) \/ CheckOwner(j) \/ Release(j))
  <2>1. lock' = lock
    BY <1>5 DEF JobStep, JobProgress, Post, Pop, Start, Renew, Superstep, EndStream, RunFails, Inspect, Announce,
                Archive
  <2>2. pc'[j] \in Critical => pc[j] \in Critical
    BY <1>5 DEF JobStep, JobProgress, Post, Pop, Start, Renew, Enter, Superstep, EndStream, RunFails,
                Inspect, Announce, Archive, Critical, TypeOK
  <2> QED
    BY <1>1, <2>1, <2>2 DEF LockCoversRun
<1> QED
  BY <1>2, <1>3, <1>4, <1>5

\* A step of a job keeps the invariant.
LEMMA JobKeepsExclusion ==
  ASSUME NEW j \in Jobs, ExclusionInv, JobStep(j)
  PROVE  ExclusionInv'
<1> USE JobFacts DEF ExclusionInv
<1>1. TypeOK'
  BY JobTypes
<1>2. PICK p \in Places \ {"none"} : pc' = [pc EXCEPT ![j] = p]
  BY JobMoves
<1>3. pc[j] \in Live /\ pc[j] # "none" /\ req' = req
  BY JobMoves, PlaceFacts
<1>4. \A k \in Jobs : k # j => pc'[k] = pc[k]
  BY <1>2 DEF TypeOK
<1>5. \A k \in Jobs : pc'[k] \in Live => pc[k] \in Live
  BY <1>3, <1>4
<1>6. \A k \in Jobs : pc'[k] = "none" <=> pc[k] = "none"
  BY <1>2, <1>3, <1>4 DEF TypeOK
<1>7. \A t \in Tasks : pc'[<<t, 0>>] = "none" <=> pc[<<t, 0>>] = "none"
  BY <1>6
<1>8. LockCoversRun'
  BY JobLocks
<1>9. OneLiveJobPerTask'
  BY <1>5 DEF OneLiveJobPerTask
<1>10. FollowUpAlone'
  BY <1>3, <1>6 DEF FollowUpAlone
<1>11. TaskOf(j) \notin pending
  BY <1>3 DEF ApprovalAlone
<1>14. HostedIsAtWork'
  BY <1>4, JobMoves DEF HostedIsAtWork
<1>12. CASE UNCHANGED <<status, pending>>
  <2>1. RowAfterChat'
    BY <1>6, <1>7, <1>12 DEF RowAfterChat
  <2>2. ApprovalAlone'
    BY <1>5, <1>12 DEF ApprovalAlone
  <2>3. ResumeReads'
    <3>1. ASSUME NEW r \in Requests, req[r].kind = "resume"
          PROVE  pc'[<<req[r].task, 0>>] # "none"
      BY <1>7, <3>1 DEF ResumeReads, TypeOK
    <3> QED
      BY <1>3, <1>12, <3>1 DEF ResumeReads
  <2> QED
    BY <1>1, <1>8, <1>9, <1>10, <1>14, <2>1, <2>2, <2>3
<1>13. CASE ~UNCHANGED <<status, pending>>
  <2>1. /\ pc[j] = "archiving" /\ pc'[j] = "done"
        /\ status[TaskOf(j)] # "absent"
        /\ \E v \in RowStatus : status' = [status EXCEPT ![TaskOf(j)] = v]
        /\ pending' \in {pending \cup {TaskOf(j)}, pending \ {TaskOf(j)}}
    BY <1>13, JobRows
  <2>2. \A t \in Tasks : status'[t] = "absent" <=> status[t] = "absent"
    BY <2>1 DEF RowStatus, TypeOK
  <2>3. RowAfterChat'
    BY <1>6, <1>7, <2>2 DEF RowAfterChat
  <2>4. ApprovalAlone'
    <3>1. \A k \in Jobs : TaskOf(k) = TaskOf(j) => pc'[k] \notin Live
      BY <1>3, <1>4, <2>1, PlaceFacts DEF OneLiveJobPerTask
    <3> SUFFICES ASSUME NEW t \in pending'
                 PROVE  /\ status'[t] # "absent"
                        /\ \A k \in Jobs : TaskOf(k) = t => pc'[k] \notin Live
      BY DEF ApprovalAlone
    <3>2. CASE t = TaskOf(j)
      BY <2>1, <2>2, <3>1, <3>2
    <3>3. CASE t # TaskOf(j)
      <4>1. t \in pending /\ t \in Tasks
        BY <2>1, <3>3 DEF TypeOK
      <4> QED
        BY <1>5, <2>2, <4>1 DEF ApprovalAlone
    <3> QED
      BY <3>2, <3>3
  <2>5. ResumeReads'
    <3>1. ASSUME NEW r \in Requests, req[r].kind = "resume"
          PROVE  /\ status'[req[r].task] = "absent" \/ req[r].task \in pending'
                 /\ pc'[<<req[r].task, 0>>] # "none"
      <4>1. req[r].task \in Tasks
        BY <3>1 DEF TypeOK
      <4>2. CASE status[req[r].task] = "absent"
        BY <1>7, <2>2, <3>1, <4>1, <4>2 DEF ResumeReads
      <4>3. CASE req[r].task \in pending
        <5>1. req[r].task # TaskOf(j)
          BY <1>11, <4>3
        <5> QED
          BY <1>7, <2>1, <3>1, <4>1, <4>3, <5>1 DEF ResumeReads
      <4> QED
        BY <3>1, <4>2, <4>3 DEF ResumeReads
    <3> QED
      BY <1>3, <3>1 DEF ResumeReads
  <2> QED
    BY <1>1, <1>8, <1>9, <1>10, <1>14, <2>3, <2>4, <2>5
<1> QED
  BY <1>12, <1>13

\* A step of the environment ends jobs, loses the outcome of those it ends and wipes
\* checkpoints; rows and requests it leaves alone.
LEMMA EnvMoves ==
  ASSUME TypeOK, HostedIsAtWork, EnvStep
  PROVE  /\ UNCHANGED <<status, pending, cleaned, sess, req, hasNext>>
         /\ \A k \in Jobs : pc'[k] = pc[k] \/ (pc[k] \in Live /\ pc'[k] = "dead")
         /\ \A k \in Jobs : \/ out'[k] = out[k] /\ (k \in bp' <=> k \in bp)
                            \/ pc'[k] = "dead" /\ out'[k] = "running" /\ k \notin bp'
         /\ \A k \in Jobs : k \in bp' => pc'[k] = pc[k] \/ pc[k] \in BeforeStart \cup BeforeRun
         /\ \A t \in Tasks : ckpt'[t] = ckpt[t] \/ ("checkpoint" \in Faults /\ ckpt'[t] = "none")
         /\ HostedIsAtWork'
<1> USE DEF rows
<1>1. ASSUME NEW w \in Workers, Crash(w)
      PROVE  /\ \A k \in Jobs : pc'[k] = pc[k] \/ (pc[k] \in Live /\ pc'[k] = "dead")
             /\ \A k \in Jobs : \/ out'[k] = out[k] /\ (k \in bp' <=> k \in bp)
                                \/ pc'[k] = "dead" /\ out'[k] = "running" /\ k \notin bp'
             /\ \A k \in Jobs : k \in bp' => pc'[k] = pc[k]
             /\ HostedIsAtWork'
  <2>1. \A k \in Jobs :
          IF host[k] = w
            THEN /\ pc'[k] = "dead" /\ host'[k] = NoWorker /\ out'[k] = "running" /\ k \notin bp'
            ELSE /\ pc'[k] = pc[k] /\ host'[k] = host[k] /\ out'[k] = out[k]
                 /\ k \in bp' <=> k \in bp
    BY <1>1 DEF Crash
  <2>2. \A k \in Jobs : host[k] = w => pc[k] \in Live
    BY PlaceFacts, ConstantsAssumption DEF HostedIsAtWork
  <2> QED
    BY <2>1, <2>2 DEF HostedIsAtWork
<1>2. ASSUME NEW j \in Jobs, PostFails(j) \/ PopFails(j) \/ StartFails(j)
      PROVE  /\ \A k \in Jobs : pc'[k] = pc[k] \/ (pc[k] \in Live /\ pc'[k] = "dead")
             /\ \A k \in Jobs : pc'[k] = pc[k] \/ pc[k] \in BeforeStart \cup BeforeRun
             /\ HostedIsAtWork'
  <2>1. /\ pc[j] \in Live /\ pc[j] \in BeforeStart \cup BeforeRun /\ pc'[j] = "dead"
        /\ \A k \in Jobs : k # j => pc'[k] = pc[k] /\ host'[k] = host[k]
    BY <1>2 DEF PostFails, PopFails, StartFails, Live, InSlot, BeforeStart, BeforeRun, TypeOK
  <2>2. host'[j] = NoWorker
    BY <1>2 DEF PostFails, PopFails, StartFails, HostedIsAtWork, AtWork, InSlot, TypeOK
  <2> QED
    BY <2>1, <2>2 DEF HostedIsAtWork
<1>3. UNCHANGED <<status, pending, cleaned, sess, req, hasNext>>
  BY DEF EnvStep, PostFails, PopFails, StartFails, LockExpires, Crash, CheckpointsCleaned
<1>4. \A t \in Tasks : ckpt'[t] = ckpt[t] \/ ("checkpoint" \in Faults /\ ckpt'[t] = "none")
  <2>1. CASE ckpt' = ckpt
    BY <2>1
  <2>2. CASE \E u \in Tasks : CheckpointsCleaned(u)
    BY <2>2 DEF CheckpointsCleaned, TypeOK
  <2> QED
    BY <2>1, <2>2 DEF EnvStep, PostFails, PopFails, StartFails, LockExpires, Crash
<1>5. ASSUME NEW w \in Workers, Crash(w)
      PROVE  /\ \A k \in Jobs : pc'[k] = pc[k] \/ (pc[k] \in Live /\ pc'[k] = "dead")
             /\ \A k \in Jobs : \/ out'[k] = out[k] /\ (k \in bp' <=> k \in bp)
                                \/ pc'[k] = "dead" /\ out'[k] = "running" /\ k \notin bp'
             /\ \A k \in Jobs : k \in bp' => pc'[k] = pc[k]
             /\ HostedIsAtWork'
  BY <1>1, <1>5
<1>6. CASE ~\E w \in Workers : Crash(w)
  <2>1. UNCHANGED <<out, bp>>
    BY <1>6 DEF EnvStep, PostFails, PopFails, StartFails, LockExpires, CheckpointsCleaned
  <2>2. CASE \E j \in Jobs : PostFails(j) \/ PopFails(j) \/ StartFails(j)
    BY <1>2, <1>3, <1>4, <2>1, <2>2
  <2>3. CASE ~\E j \in Jobs : PostFails(j) \/ PopFails(j) \/ StartFails(j)
    <3>1. UNCHANGED <<pc, host>>
      BY <1>6, <2>3 DEF EnvStep, LockExpires, CheckpointsCleaned
    <3> QED
      BY <1>3, <1>4, <2>1, <3>1 DEF HostedIsAtWork
  <2> QED
    BY <2>2, <2>3
<1> QED
  BY <1>3, <1>4, <1>5, <1>6

\* A step of the environment keeps the invariant, if no lease runs out under
\* the run that holds it.
LEMMA EnvKeepsExclusion ==
  ASSUME LeaseOutlivesRun, ExclusionInv, EnvStep
  PROVE  ExclusionInv'
<1> USE JobFacts DEF ExclusionInv, rows
<1>1. TypeOK'
  BY EnvTypes
<1>2. UNCHANGED <<status, pending, req>> /\ HostedIsAtWork'
  BY EnvMoves
<1>3. \A k \in Jobs : pc'[k] = pc[k] \/ (pc[k] \in Live /\ pc'[k] = "dead")
  BY EnvMoves
<1>5. /\ \A k \in Jobs : pc'[k] \in Live => pc[k] \in Live
      /\ \A k \in Jobs : pc'[k] \in Critical => pc[k] \in Critical
      /\ \A k \in Jobs : pc'[k] = "none" <=> pc[k] = "none"
  BY <1>3, PlaceFacts
<1>6. \A t \in Tasks : pc'[<<t, 0>>] = "none" <=> pc[<<t, 0>>] = "none"
  BY <1>5
<1>7. LockCoversRun'
  <2>1. ASSUME NEW s \in Sessions, LockExpires(s) PROVE LockCoversRun'
    BY <2>1 DEF LockExpires, LockCoversRun, TypeOK
  <2>2. CASE lock' = lock
    BY <1>5, <2>2 DEF LockCoversRun
  <2> QED
    BY <2>1, <2>2 DEF EnvStep, PostFails, PopFails, StartFails, Crash, CheckpointsCleaned
<1>8. OneLiveJobPerTask'
  BY <1>5 DEF OneLiveJobPerTask
<1>9. FollowUpAlone'
  BY <1>2, <1>5 DEF FollowUpAlone
<1>10. RowAfterChat'
  BY <1>2, <1>5, <1>6 DEF RowAfterChat
<1>11. ApprovalAlone'
  BY <1>2, <1>5 DEF ApprovalAlone
<1>12. ResumeReads'
  <2>1. ASSUME NEW r \in Requests, req[r].kind = "resume"
        PROVE  pc'[<<req[r].task, 0>>] # "none"
    BY <1>6, <2>1 DEF ResumeReads, TypeOK
  <2> QED
    BY <1>2, <2>1 DEF ResumeReads
<1> QED
  BY <1>1, <1>2, <1>7, <1>8, <1>9, <1>10, <1>11, <1>12

\* Posting a job of a task that has no live job.
LEMMA PostKeeps ==
  ASSUME NEW i \in Jobs, ExclusionInv, pc[i] = "none",
         pc' = [pc EXCEPT ![i] = "posting"], UNCHANGED <<lock, host>>,
         \A k \in Jobs : TaskOf(k) = TaskOf(i) => pc[k] \notin Live
  PROVE  /\ LockCoversRun' /\ OneLiveJobPerTask' /\ HostedIsAtWork'
         /\ \A k \in Jobs : TaskOf(k) # TaskOf(i) => pc'[k] = pc[k]
         /\ \A k \in Jobs : pc[k] # "none" => pc'[k] # "none"
<1> USE DEF ExclusionInv
<1>1. pc'[i] = "posting" /\ \A k \in Jobs : k # i => pc'[k] = pc[k]
  BY DEF TypeOK
<1>2. LockCoversRun'
  BY <1>1, PlaceFacts DEF LockCoversRun
<1>3. OneLiveJobPerTask'
  BY <1>1 DEF OneLiveJobPerTask
<1>4. HostedIsAtWork'
  BY <1>1, PlaceFacts DEF HostedIsAtWork
<1> QED
  BY <1>1, <1>2, <1>3, <1>4

\* Inserting the row of a task that has no job and that no other request holds.
LEMMA CreateKeeps ==
  ASSUME NEW t \in Tasks, NEW n, ExclusionInv, TypeOK', CreateRow(t, n),
         UNCHANGED <<lock, host>>, pc[<<t, 0>>] = "none",
         \A q \in Requests : req'[q].task # t /\ req'[q] \in {req[q], Idle}
  PROVE  ExclusionInv'
<1> USE JobFacts DEF ExclusionInv
<1>1. \A k \in Jobs : TaskOf(k) = t => pc[k] = "none"
  BY DEF RowAfterChat
<1>2. /\ LockCoversRun' /\ OneLiveJobPerTask' /\ HostedIsAtWork'
      /\ \A k \in Jobs : TaskOf(k) # t => pc'[k] = pc[k]
      /\ \A k \in Jobs : pc[k] # "none" => pc'[k] # "none"
  BY <1>1, PostKeeps, PlaceFacts DEF CreateRow
<1>3. pc'[<<t, 0>>] = "posting"
  BY DEF CreateRow, TypeOK
<1>4. FollowUpAlone'
  <2> SUFFICES ASSUME NEW r \in Requests, req'[r].kind = "followup"
               PROVE  /\ \A j \in Jobs : TaskOf(j) = req'[r].task => pc'[j] = "none"
                      /\ \A q \in Requests : q # r => req'[q].task # req'[r].task
    BY DEF FollowUpAlone
  <2>1. req'[r] = req[r] /\ req[r].task \in Tasks /\ req[r].task # t
    BY DEF Idle, TypeOK
  <2>2. \A q \in Requests : req'[q].task \in {req[q].task, NoTask}
    BY DEF Idle
  <2> QED
    BY <1>2, <2>1, <2>2, ConstantsAssumption DEF FollowUpAlone
<1>5. RowAfterChat'
  <2>1. \A u \in Tasks : u # t => status'[u] = status[u] /\ pc'[<<u, 0>>] = pc[<<u, 0>>]
    BY <1>2 DEF CreateRow, TypeOK
  <2>2. \A k \in Jobs : TaskOf(k) # t => pc'[k] = pc[k]
    BY <1>2
  <2> QED
    BY <1>3, <2>1, <2>2 DEF RowAfterChat
<1>6. ApprovalAlone'
  <2>1. pending' = pending \ {t} /\ \A u \in Tasks : u # t => status'[u] = status[u]
    BY DEF CreateRow, TypeOK
  <2> QED
    BY <1>2, <2>1 DEF ApprovalAlone, TypeOK
<1>7. ResumeReads'
  <2>1. ASSUME NEW r \in Requests, req'[r].kind = "resume"
        PROVE  /\ req'[r] = req[r]
               /\ status'[req[r].task] = "absent" \/ req[r].task \in pending'
               /\ pc'[<<req[r].task, 0>>] # "none"
    <3>1. req'[r] = req[r] /\ req[r].task \in Tasks /\ req[r].task # t
      BY <2>1 DEF Idle, TypeOK
    <3>2. /\ status[req[r].task] = "absent" \/ req[r].task \in pending
          /\ pc[<<req[r].task, 0>>] # "none"
      BY <2>1, <3>1 DEF ResumeReads
    <3>3. /\ status'[req[r].task] = status[req[r].task]
          /\ req[r].task \in pending => req[r].task \in pending'
      BY <3>1 DEF CreateRow, TypeOK
    <3>4. pc'[<<req[r].task, 0>>] # "none"
      BY <1>2, <3>1, <3>2
    <3> QED
      BY <3>1, <3>2, <3>3, <3>4
  <2>2. ASSUME NEW r \in Requests, NEW q \in Requests,
               req'[r].kind = "resume", req'[q].kind = "resume",
               SessionOf[req'[r].task] = SessionOf[req'[q].task]
        PROVE  r = q
    <3>1. req'[r] = req[r] /\ req'[q] = req[q]
      BY <2>1, <2>2
    <3> QED
      BY <2>2, <3>1 DEF ResumeReads
  <2> QED
    BY <2>1, <2>2 DEF ResumeReads
<1> QED
  BY <1>2, <1>4, <1>5, <1>6, <1>7

\* A request that only reads keeps the invariant, if what it remembers is as
\* FollowUpAlone and ResumeReads say.
LEMMA ReadKeeps ==
  ASSUME ExclusionInv, TypeOK', FollowUpAlone', ResumeReads',
         UNCHANGED <<status, pending, pc, host, lock>>
  PROVE  ExclusionInv'
<1>1. LockCoversRun' /\ OneLiveJobPerTask' /\ HostedIsAtWork'
  BY DEF ExclusionInv, LockCoversRun, OneLiveJobPerTask, HostedIsAtWork
<1>2. RowAfterChat' /\ ApprovalAlone'
  BY DEF ExclusionInv, RowAfterChat, ApprovalAlone
<1> QED
  BY <1>1, <1>2 DEF ExclusionInv

\* No follow-up request holds the id of a task that already had its chat job.
LEMMA FollowUpIsNew ==
  ASSUME FollowUpAlone, NEW t \in Tasks, pc[<<t, 0>>] # "none"
  PROVE  \A q \in Requests : req[q].kind = "followup" => req[q].task # t
<1> SUFFICES ASSUME NEW q \in Requests, req[q].kind = "followup", req[q].task = t
             PROVE  FALSE
  OBVIOUS
<1>1. <<t, 0>> \in Jobs /\ TaskOf(<<t, 0>>) = req[q].task
  BY ConstantsAssumption DEF Jobs, TaskOf
<1>2. pc[<<t, 0>>] = "none"
  BY <1>1 DEF FollowUpAlone
<1> QED
  BY <1>2

\* A step of an API request keeps the invariant, if the clients of a session do
\* not resume it twice at once.
LEMMA RequestKeepsExclusion ==
  ASSUME ~ResumesOverlap, ExclusionInv, RequestStep
  PROVE  ExclusionInv'
<1> USE JobFacts DEF ExclusionInv, rows
<1>1. TypeOK'
  BY RequestTypes
<1>2. ASSUME NEW t \in Tasks, ChatNew(t) PROVE ExclusionInv'
  BY <1>1, <1>2, CreateKeeps DEF ChatNew, Fresh
<1>3. ASSUME NEW r \in Requests, NEW t \in Tasks, FollowUpRead(r, t) PROVE ExclusionInv'
  <2>1. /\ req'[r].kind = "followup" /\ req'[r].task = t /\ pc[<<t, 0>>] = "none"
        /\ \A q \in Requests : q # r => req'[q] = req[q]
        /\ \A q \in Requests : req[q].task # t
        /\ UNCHANGED <<status, pending, pc, host, lock>>
    BY <1>3 DEF FollowUpRead, Fresh, TypeOK
  <2>2. FollowUpAlone'
    <3>1. \A j \in Jobs : TaskOf(j) = t => pc[j] = "none"
      BY <2>1 DEF RowAfterChat
    <3> QED
      BY <2>1, <3>1 DEF FollowUpAlone
  <2>3. ResumeReads'
    BY <2>1 DEF ResumeReads
  <2> QED
    BY <1>1, <2>1, <2>2, <2>3, ReadKeeps
<1>4. ASSUME NEW r \in Requests, NEW t \in Tasks, ResumeRead(r, t) PROVE ExclusionInv'
  <2>1. /\ req'[r].kind = "resume" /\ req'[r].task = t
        /\ \A q \in Requests : q # r => req'[q] = req[q]
        /\ t \in pending /\ status[t] # "absent"
        /\ \A q \in Requests : req[q].kind = "resume" => SessionOf[req[q].task] # SessionOf[t]
        /\ UNCHANGED <<status, pending, pc, host, lock>>
    BY <1>4 DEF ResumeRead, Latest, Rows, TypeOK
  <2>2. pc[<<t, 0>>] # "none"
    BY <2>1 DEF RowAfterChat
  <2>3. FollowUpAlone'
    <3>1. \A q \in Requests : req[q].kind = "followup" => req[q].task # t
      BY <2>2, FollowUpIsNew
    <3> QED
      BY <2>1, <3>1 DEF FollowUpAlone
  <2>4. ResumeReads'
    BY <2>1, <2>2 DEF ResumeReads
  <2> QED
    BY <1>1, <2>1, <2>3, <2>4, ReadKeeps
<1>5. ASSUME NEW r \in Requests, NEW t \in Tasks, CleanupRead(r, t) PROVE ExclusionInv'
  <2>1. /\ req'[r].kind = "cleanup" /\ req'[r].task = t
        /\ \A q \in Requests : q # r => req'[q] = req[q]
        /\ status[t] # "absent"
        /\ UNCHANGED <<status, pending, pc, host, lock>>
    BY <1>5 DEF CleanupRead, Latest, Rows, TypeOK
  <2>2. FollowUpAlone'
    <3> pc[<<t, 0>>] # "none"
      BY <2>1 DEF RowAfterChat
    <3>1. \A q \in Requests : req[q].kind = "followup" => req[q].task # t
      BY FollowUpIsNew
    <3> QED
      BY <2>1, <3>1 DEF FollowUpAlone
  <2>3. ResumeReads'
    BY <2>1 DEF ResumeReads
  <2> QED
    BY <1>1, <2>1, <2>2, <2>3, ReadKeeps
<1>6. ASSUME NEW r \in Requests, FollowUpCommit(r) PROVE ExclusionInv'
  <2> DEFINE t == req[r].task
  <2>1. /\ req[r].kind = "followup" /\ t \in Tasks
        /\ req' = [req EXCEPT ![r] = Idle]
        /\ pc[<<t, 0>>] = "none"
        /\ UNCHANGED <<lock, host>>
    BY <1>6 DEF FollowUpCommit, FollowUpAlone, TypeOK
  <2>2. \A q \in Requests : req'[q].task # t /\ req'[q] \in {req[q], Idle}
    BY <2>1, ConstantsAssumption DEF FollowUpAlone, TypeOK, Idle
  <2>3. CASE CreateRow(t, req[r].ord)
    BY <1>1, <2>1, <2>2, <2>3, CreateKeeps
  <2>4. CASE UNCHANGED <<sess, rows, pc>>
    <3>1. FollowUpAlone'
      <4>1. \A q \in Requests : req'[q].kind = "followup" => req'[q] = req[q]
        BY <2>2 DEF Idle
      <4>2. \A q \in Requests : req'[q].task \in {req[q].task, NoTask}
        BY <2>2 DEF Idle
      <4> QED
        BY <2>4, <4>1, <4>2, ConstantsAssumption DEF FollowUpAlone, TypeOK
    <3>2. ResumeReads'
      BY <2>1, <2>4 DEF ResumeReads, TypeOK, Idle
    <3> QED
      BY <1>1, <2>1, <2>4, <3>1, <3>2, ReadKeeps
  <2> QED
    BY <1>6, <2>3, <2>4 DEF FollowUpCommit
<1>7. ASSUME NEW r \in Requests, CleanupCommit(r) PROVE ExclusionInv'
  <2>1. /\ req' = [req EXCEPT ![r] = Idle] /\ req[r].task \in Tasks
        /\ UNCHANGED <<pending, pc, host, lock>>
    BY <1>7 DEF CleanupCommit, TypeOK
  <2>2. \A u \in Tasks : status'[u] = "absent" <=> status[u] = "absent"
    BY <1>7, <2>1 DEF CleanupCommit, TypeOK
  <2>3. LockCoversRun' /\ OneLiveJobPerTask' /\ HostedIsAtWork'
    BY <2>1 DEF LockCoversRun, OneLiveJobPerTask, HostedIsAtWork
  <2>4. RowAfterChat' /\ ApprovalAlone'
    BY <2>1, <2>2 DEF RowAfterChat, ApprovalAlone, TypeOK
  <2>5. /\ \A q \in Requests : req'[q].kind # "idle" => req'[q] = req[q]
        /\ \A q \in Requests : req'[q].task \in {req[q].task, NoTask}
    BY <2>1 DEF Idle, TypeOK
  <2>6. FollowUpAlone'
    BY <2>1, <2>5, ConstantsAssumption DEF FollowUpAlone, TypeOK
  <2>7. ResumeReads'
    BY <2>1, <2>2, <2>5 DEF ResumeReads, TypeOK
  <2> QED
    BY <1>1, <2>3, <2>4, <2>6, <2>7
<1>8. ASSUME NEW r \in Requests, NEW n \in 1..MaxResumes, ResumeCommit(r, n)
      PROVE  ExclusionInv'
  <2> DEFINE t == req[r].task
             i == <<t, n>>
  <2>1. /\ req[r].kind = "resume" /\ t \in Tasks /\ i \in Jobs /\ TaskOf(i) = t
        /\ req' = [req EXCEPT ![r] = Idle]
        /\ pc[i] = "none"
        /\ UNCHANGED <<status, lock, host>>
    BY <1>8 DEF ResumeCommit, TypeOK
  <2>2. /\ \A q \in Requests : req'[q].kind # "idle" => req'[q] = req[q] /\ q # r
        /\ \A q \in Requests : req'[q].task \in {req[q].task, NoTask}
    BY <2>1 DEF Idle, TypeOK
  <2>3. CASE status[t] = "absent"
    <3>1. UNCHANGED <<pending, pc>>
      BY <1>8, <2>3 DEF ResumeCommit
    <3>2. FollowUpAlone'
      BY <2>2, <3>1, ConstantsAssumption DEF FollowUpAlone, TypeOK
    <3>3. ResumeReads'
      BY <2>1, <2>2, <3>1 DEF ResumeReads
    <3> QED
      BY <1>1, <2>1, <3>1, <3>2, <3>3, ReadKeeps
  <2>4. CASE status[t] # "absent"
    <3>1. pending' = pending \ {t} /\ pc' = [pc EXCEPT ![i] = "posting"]
      BY <1>8, <2>4 DEF ResumeCommit
    <3>2. t \in pending /\ pc[<<t, 0>>] # "none"
      BY <2>1, <2>4 DEF ResumeReads
    <3>3. \A k \in Jobs : TaskOf(k) = t => pc[k] \notin Live
      BY <3>2 DEF ApprovalAlone
    <3>4. /\ LockCoversRun' /\ OneLiveJobPerTask' /\ HostedIsAtWork'
          /\ \A k \in Jobs : TaskOf(k) # t => pc'[k] = pc[k]
          /\ \A k \in Jobs : pc[k] # "none" => pc'[k] # "none"
      BY <2>1, <3>1, <3>3, PostKeeps
    <3>5. RowAfterChat'
      BY <2>1, <3>2, <3>4 DEF RowAfterChat
    <3>6. ApprovalAlone'
      BY <2>1, <3>1, <3>4 DEF ApprovalAlone, TypeOK
    <3>7. FollowUpAlone'
      <4>1. \A q \in Requests : req[q].kind = "followup" => req[q].task # t
        BY <2>1, <3>2 DEF FollowUpAlone
      <4> QED
        BY <2>2, <3>4, <4>1, ConstantsAssumption DEF FollowUpAlone, TypeOK
    <3>8. ResumeReads'
      <4>1. \A q \in Requests : req'[q].kind = "resume" => req[q].task # t
        BY <2>1, <2>2 DEF ResumeReads
      <4> QED
        BY <2>1, <2>2, <3>1, <3>4, <4>1 DEF ResumeReads, TypeOK
    <3> QED
      BY <1>1, <3>4, <3>5, <3>6, <3>7, <3>8
  <2> QED
    BY <2>3, <2>4
<1>9. ASSUME NEW s \in Sessions, DeleteSession(s) PROVE ExclusionInv'
  <2>1. /\ status' = [t \in Tasks |-> IF SessionOf[t] = s THEN "absent" ELSE status[t]]
        /\ pending' = {t \in pending : SessionOf[t] # s}
        /\ UNCHANGED <<req, pc, host, lock>>
    BY <1>9 DEF DeleteSession
  <2>2. LockCoversRun' /\ OneLiveJobPerTask' /\ HostedIsAtWork' /\ FollowUpAlone'
    BY <2>1 DEF LockCoversRun, OneLiveJobPerTask, HostedIsAtWork, FollowUpAlone
  <2>3. RowAfterChat' /\ ApprovalAlone'
    BY <2>1 DEF RowAfterChat, ApprovalAlone, TypeOK
  <2>4. ResumeReads'
    BY <2>1 DEF ResumeReads, TypeOK
  <2> QED
    BY <1>1, <2>2, <2>3, <2>4
<1> QED
  BY <1>2, <1>3, <1>4, <1>5, <1>6, <1>7, <1>8, <1>9 DEF RequestStep

\* The invariant that excludes holds initially ...
LEMMA InitExclusion == Init => ExclusionInv
BY InitTypes, ConstantsAssumption, JobFacts
DEF Init, ExclusionInv, LockCoversRun, OneLiveJobPerTask, FollowUpAlone, RowAfterChat,
    ApprovalAlone, ResumeReads, HostedIsAtWork, Idle, Live, InSlot, Critical

\* ... is kept by every step ...
LEMMA StepExclusion ==
  ASSUME LeaseOutlivesRun, ~ResumesOverlap
  PROVE  ExclusionInv /\ [Next]_vars => ExclusionInv'
<1> SUFFICES ASSUME ExclusionInv, [Next]_vars PROVE ExclusionInv'
  OBVIOUS
<1>1. CASE UNCHANGED vars
  <2>1. TypeOK'
    BY <1>1, StepTypes DEF ExclusionInv
  <2> QED
    BY <1>1, <2>1 DEF vars, rows, ExclusionInv, LockCoversRun, OneLiveJobPerTask,
       FollowUpAlone, RowAfterChat, ApprovalAlone, ResumeReads, HostedIsAtWork
<1> QED
  BY <1>1, RequestKeepsExclusion, JobKeepsExclusion, EnvKeepsExclusion DEF Next

\* ... and gives two runs of a session no place to meet: both would own the lock
\* for their task, and a task has one live job.
LEMMA InvExcludes == ExclusionInv => SessionExclusion
BY PlaceFacts DEF ExclusionInv, LockCoversRun, OneLiveJobPerTask, SessionExclusion

\* If no lease runs out under its run and the clients of a session do not resume
\* it twice at once, a session never has two runs behind its lock, whatever
\* crashes, fails, is deleted, cleaned up or followed up meanwhile.
THEOREM Exclusion ==
  ASSUME LeaseOutlivesRun, ~ResumesOverlap
  PROVE  Spec => []SessionExclusion
<1>1. Init => ExclusionInv
  BY InitExclusion
<1>2. ExclusionInv /\ [Next]_vars => ExclusionInv'
  BY StepExclusion
<1>3. ExclusionInv => SessionExclusion
  BY InvExcludes
<1> QED
  BY <1>1, <1>2, <1>3, PTL DEF Spec

\* Under the same assumptions a run behind the lock owns it until it releases it.
THEOREM LockHeld ==
  ASSUME LeaseOutlivesRun, ~ResumesOverlap
  PROVE  Spec => []LockCoversRun
<1>1. Init => ExclusionInv
  BY InitExclusion
<1>2. ExclusionInv /\ [Next]_vars => ExclusionInv'
  BY StepExclusion
<1>3. ExclusionInv => LockCoversRun
  BY DEF ExclusionInv
<1> QED
  BY <1>1, <1>2, <1>3, PTL DEF Spec

\* Under the same assumptions a thread never has two live runs.
THEOREM OneRunPerThread ==
  ASSUME LeaseOutlivesRun, ~ResumesOverlap
  PROVE  Spec => []OneLiveJobPerTask
<1>1. Init => ExclusionInv
  BY InitExclusion
<1>2. ExclusionInv /\ [Next]_vars => ExclusionInv'
  BY StepExclusion
<1>3. ExclusionInv => OneLiveJobPerTask
  BY DEF ExclusionInv
<1> QED
  BY <1>1, <1>2, <1>3, PTL DEF Spec

-----------------------------------------------------------------------------
(* Rows.  Sessions and tasks agree and what is deleted stays deleted, with  *)
(* expiring leases, overlapping resumes and every failure: this part needs  *)
(* none of the assumptions exclusion needs.                                 *)

\* A run has set is_breakpoint once its verdict was "suspended" and keeps it in what it
\* saves, although it may fail after that.
BreakpointsStand ==
  \A j \in Jobs :
    /\ out[j] = "suspended" => j \in bp
    /\ j \in bp => /\ out[j] \in {"suspended", "failed"}
                   /\ pc[j] \in {"publishing", "releasing", "archiving", "done"}

RowInv ==
  /\ TypeOK
  /\ SessionMatchesRows
  /\ BreakpointsStand
  /\ FollowUpAlone
  /\ RowAfterChat
  /\ HostedIsAtWork

\* What SessionMatchesRows says of one session.
SessionMatches(s) ==
  /\ sess[s] = "absent" <=> Rows(s) = {}
  /\ sess[s] \notin {"absent", "failed"} =>
       \/ sess[s] \in {status[t] : t \in Rows(s)}
       \/ sess[s] = "suspended" /\ \E j \in CutOff : /\ SessionOfJob(j) = s
                                                    /\ status[TaskOf(j)] = "failed"

\* A session none of whose rows is written stays in agreement with them, as a run that
\* was cut off stays so.
LEMMA UntouchedSession ==
  ASSUME NEW s \in Sessions, TypeOK, SessionMatches(s), CutOff \subseteq CutOff', sess'[s] = sess[s],
         \A t \in Tasks : SessionOf[t] = s => status'[t] = status[t]
  PROVE  SessionMatches(s)'
<1>1. Rows(s)' = Rows(s) /\ \A t \in Rows(s) : status'[t] = status[t]
  BY DEF Rows
<1>2. \A j \in CutOff : SessionOfJob(j) = s => status'[TaskOf(j)] = status[TaskOf(j)]
  BY JobFacts DEF CutOff, BreakpointsStand, SessionOfJob, TypeOK, Jobs, TaskOf
<1>3. CASE sess[s] \in {"absent", "failed"}
  BY <1>1, <1>3 DEF SessionMatches
<1>4. CASE sess[s] \in {status[t] : t \in Rows(s)}
  <2>1. sess'[s] \in {status'[t] : t \in Rows(s)'}
    BY <1>1, <1>4
  <2> QED
    BY <1>1, <2>1 DEF SessionMatches
<1>5. ASSUME sess[s] = "suspended", NEW j \in CutOff, SessionOfJob(j) = s, status[TaskOf(j)] = "failed"
      PROVE  SessionMatches(s)'
  <2>1. j \in CutOff' /\ status'[TaskOf(j)] = "failed"
    BY <1>2, <1>5
  <2> QED
    BY <1>1, <1>5, <2>1 DEF SessionMatches, SessionOfJob, TaskOf
<1> QED
  BY <1>3, <1>4, <1>5 DEF SessionMatches

\* Writing a status to a task and one to its session keeps them in agreement, if it is
\* the same, or "failed", or "suspended" by a run cut off at its breakpoint.
LEMMA WrittenTogether ==
  ASSUME NEW t \in Tasks, NEW v \in RowStatus, NEW w \in RowStatus, TypeOK, SessionMatchesRows,
         CutOff \subseteq CutOff',
         status' = [status EXCEPT ![t] = v],
         sess' = [sess EXCEPT ![SessionOf[t]] = w],
         \/ w \in {v, "failed"}
         \/ w = "suspended" /\ v = "failed" /\ \E j \in CutOff' : TaskOf(j) = t
  PROVE  SessionMatchesRows'
<1> USE JobFacts
<1>1. status'[t] = v /\ sess'[SessionOf[t]] = w /\ v # "absent" /\ w # "absent"
  BY DEF TypeOK, RowStatus
<1>2. \A u \in Tasks : u # t => status'[u] = status[u]
  BY DEF TypeOK
<1> SUFFICES ASSUME NEW s \in Sessions PROVE SessionMatches(s)'
  BY DEF SessionMatchesRows, SessionMatches
<1>3. CASE s = SessionOf[t]
  <2>1. t \in Rows(s)'
    BY <1>1, <1>3 DEF Rows
  <2>2. CASE w \in {v, "failed"}
    BY <1>1, <1>3, <2>1, <2>2 DEF SessionMatches
  <2>3. ASSUME w = "suspended", v = "failed", NEW j \in CutOff', TaskOf(j) = t
        PROVE  SessionMatches(s)'
    <3>1. SessionOfJob(j) = s /\ status'[TaskOf(j)] = "failed"
      BY <1>1, <1>3, <2>3 DEF SessionOfJob
    <3> QED
      BY <1>1, <1>3, <2>1, <2>3, <3>1 DEF SessionMatches, SessionOfJob, TaskOf
  <2> QED
    BY <2>2, <2>3
<1>4. CASE s # SessionOf[t]
  <2>1. sess'[s] = sess[s] /\ SessionMatches(s)
    BY <1>4 DEF TypeOK, SessionMatchesRows, SessionMatches
  <2>2. \A u \in Tasks : SessionOf[u] = s => status'[u] = status[u]
    BY <1>2, <1>4
  <2> QED
    BY <2>1, <2>2, UntouchedSession
<1> QED
  BY <1>3, <1>4

\* A step that writes no row leaves all sessions in agreement.
LEMMA UntouchedSessions ==
  ASSUME TypeOK, SessionMatchesRows, CutOff \subseteq CutOff', UNCHANGED <<status, sess>>
  PROVE  SessionMatchesRows'
<1> SUFFICES ASSUME NEW s \in Sessions PROVE SessionMatches(s)'
  BY DEF SessionMatchesRows, SessionMatches
<1>1. SessionMatches(s)
  BY DEF SessionMatchesRows, SessionMatches
<1> QED
  BY <1>1, UntouchedSession

\* A step of a job: one that ended is not touched, and a row is written with the
\* session's status of the same run.
LEMMA JobSessions ==
  ASSUME NEW j \in Jobs, TypeOK, SessionMatchesRows, BreakpointsStand, JobStep(j)
  PROVE  SessionMatchesRows'
<1> USE JobFacts
<1>1. pc[j] # "done" /\ \A k \in Jobs : k # j => pc'[k] = pc[k]
  BY JobMoves, PlaceFacts DEF TypeOK
<1>2. CutOff \subseteq CutOff'
  BY <1>1, JobThread DEF CutOff, TypeOK
<1>3. CASE UNCHANGED <<status, sess>>
  BY <1>2, <1>3, UntouchedSessions
<1>4. CASE ~UNCHANGED <<status, sess>>
  <2>1. /\ pc'[j] = "done" /\ ArchivedStatus(out[j]) \in RowStatus
        /\ status' = [status EXCEPT ![TaskOf(j)] = ArchivedStatus(out[j])]
        /\ sess' = [sess EXCEPT ![SessionOf[TaskOf(j)]] = SessionStatus(j)]
        /\ UNCHANGED <<out, bp>>
    BY <1>4, JobRows
  <2>2. SessionStatus(j) \in RowStatus
    BY <2>1 DEF SessionStatus, RowStatus
  <2>3. CASE j \in bp /\ out[j] = "failed"
    <3>1. j \in CutOff' /\ SessionStatus(j) = "suspended" /\ ArchivedStatus(out[j]) = "failed"
      BY <2>1, <2>3 DEF CutOff, SessionStatus, ArchivedStatus
    <3> QED
      BY <1>2, <2>1, <2>2, <3>1, WrittenTogether
  <2>4. CASE ~(j \in bp /\ out[j] = "failed")
    <3>1. SessionStatus(j) = ArchivedStatus(out[j])
      BY <2>4 DEF BreakpointsStand, SessionStatus, ArchivedStatus
    <3> QED
      BY <1>2, <2>1, <2>2, <3>1, WrittenTogether
  <2> QED
    BY <2>3, <2>4
<1> QED
  BY <1>3, <1>4

\* A step of a job keeps what is said of its breakpoint.
LEMMA JobBreakpoints ==
  ASSUME NEW j \in Jobs, TypeOK, BreakpointsStand, JobStep(j)
  PROVE  BreakpointsStand'
<1>1. /\ out[j] = "suspended" => j \in bp
      /\ j \in bp => /\ out[j] \in {"suspended", "failed"}
                     /\ pc[j] \in {"publishing", "releasing", "archiving", "done"}
  BY DEF BreakpointsStand
<1>2. /\ out'[j] = "suspended" => j \in bp'
      /\ j \in bp' => /\ out'[j] \in {"suspended", "failed"}
                      /\ pc'[j] \in {"publishing", "releasing", "archiving", "done"}
  <2>1. CASE Post(j) \/ \E w \in Workers : Pop(j, w)
    BY <1>1, <2>1 DEF Post, Pop, TypeOK
  <2>2. CASE Start(j) \/ CheckOwner(j) \/ Superstep(j) \/ EndStream(j)
    BY <1>1, <2>2 DEF Start, CheckOwner, Superstep, EndStream, TypeOK
  <2>3. CASE TryLock(j) \/ Renew(j)
    BY <1>1, <2>3 DEF TryLock, Renew, Enter, TypeOK
  <2>4. CASE RunFails(j)
    BY <1>1, <2>4 DEF RunFails, TypeOK
  <2>5. CASE Inspect(j)
    <3>1. PICK v \in Verdicts(ckpt[TaskOf(j)]) :
                 /\ out' = [out EXCEPT ![j] = v]
                 /\ bp' = IF v = "suspended" THEN bp \cup {j} ELSE bp
      BY <2>5 DEF Inspect
    <3>2. pc[j] = "ended" /\ pc'[j] = "publishing"
      BY <2>5 DEF Inspect, TypeOK
    <3> QED
      BY <1>1, <3>1, <3>2 DEF TypeOK
  <2>6. CASE Announce(j) \/ Release(j)
    BY <1>1, <2>6 DEF Announce, Release, TypeOK
  <2>7. CASE Archive(j)
    BY <1>1, <2>7 DEF Archive, TypeOK
  <2> QED
    BY <2>1, <2>2, <2>3, <2>4, <2>5, <2>6, <2>7 DEF JobStep, JobProgress
<1>3. \A k \in Jobs : k # j => pc'[k] = pc[k] /\ out'[k] = out[k] /\ (k \in bp' <=> k \in bp)
  BY JobMoves, JobThread DEF TypeOK
<1> QED
  BY <1>2, <1>3 DEF BreakpointsStand

\* A step of a job keeps the invariant of the rows.
LEMMA JobKeepsRows ==
  ASSUME NEW j \in Jobs, RowInv, JobStep(j)
  PROVE  RowInv'
<1> USE JobFacts DEF RowInv
<1>1. TypeOK' /\ SessionMatchesRows' /\ BreakpointsStand'
  BY JobTypes, JobSessions, JobBreakpoints
<1>2. PICK p \in Places \ {"none"} : pc' = [pc EXCEPT ![j] = p]
  BY JobMoves
<1>3. pc[j] # "none" /\ req' = req
  BY JobMoves, PlaceFacts
<1>4. /\ \A k \in Jobs : pc'[k] = "none" <=> pc[k] = "none"
      /\ \A k \in Jobs : k # j => pc'[k] = pc[k]
  BY <1>2, <1>3 DEF TypeOK
<1>5. \A t \in Tasks : status'[t] = "absent" <=> status[t] = "absent"
  BY JobRows DEF RowStatus, TypeOK
<1>6. FollowUpAlone'
  BY <1>3, <1>4 DEF FollowUpAlone
<1>7. RowAfterChat'
  BY <1>4, <1>5 DEF RowAfterChat
<1>8. HostedIsAtWork'
  BY <1>4, JobMoves DEF HostedIsAtWork
<1> QED
  BY <1>1, <1>6, <1>7, <1>8

\* A step of the environment keeps it.
LEMMA EnvKeepsRows == RowInv /\ EnvStep => RowInv'
<1> USE JobFacts DEF RowInv
<1> SUFFICES ASSUME RowInv, EnvStep PROVE RowInv'
  OBVIOUS
<1>1. UNCHANGED <<status, sess, req>> /\ HostedIsAtWork'
  BY EnvMoves
<1>2. \A k \in Jobs : pc'[k] = pc[k] \/ (pc[k] \in Live /\ pc'[k] = "dead")
  BY EnvMoves
<1>3. \A k \in Jobs : \/ out'[k] = out[k] /\ (k \in bp' <=> k \in bp)
                      \/ pc'[k] = "dead" /\ out'[k] = "running" /\ k \notin bp'
  BY EnvMoves
<1>4. \A k \in Jobs : pc'[k] = "none" <=> pc[k] = "none"
  BY <1>2, PlaceFacts
<1>5. SessionMatchesRows'
  <2>1. CutOff \subseteq CutOff'
    BY <1>2, <1>3, PlaceFacts DEF CutOff, TypeOK
  <2> QED
    BY <1>1, <2>1, UntouchedSessions
<1>6. BreakpointsStand'
  <2> SUFFICES ASSUME NEW k \in Jobs
               PROVE  /\ out'[k] = "suspended" => k \in bp'
                      /\ k \in bp' => /\ out'[k] \in {"suspended", "failed"}
                                      /\ pc'[k] \in {"publishing", "releasing", "archiving", "done"}
    BY DEF BreakpointsStand
  <2>2. CASE k \in bp'
    <3>1. pc'[k] = pc[k] \/ pc[k] \in BeforeStart \cup BeforeRun
      BY <2>2, EnvMoves
    <3>2. out'[k] = out[k] /\ k \in bp
      BY <1>3, <2>2
    <3> QED
      BY <2>2, <3>1, <3>2 DEF BreakpointsStand, BeforeStart, BeforeRun
  <2>3. CASE k \notin bp'
    BY <1>3, <2>3 DEF BreakpointsStand
  <2> QED
    BY <2>2, <2>3
<1>7. FollowUpAlone' /\ RowAfterChat'
  BY <1>1, <1>4 DEF FollowUpAlone, RowAfterChat
<1> QED
  BY <1>1, <1>5, <1>6, <1>7, EnvTypes

\* A request posts jobs and nothing else: breakpoints and runs cut off stay.
LEMMA RequestsPost ==
  ASSUME TypeOK, BreakpointsStand, UNCHANGED <<out, bp>>,
         \A k \in Jobs : pc[k] # "none" => pc'[k] = pc[k]
  PROVE  BreakpointsStand' /\ CutOff \subseteq CutOff'
BY DEF BreakpointsStand, CutOff, TypeOK

\* Inserting the row of a task that has no job and that no other request holds.
LEMMA CreateKeepsRows ==
  ASSUME NEW t \in Tasks, NEW n, RowInv, TypeOK', CreateRow(t, n),
         UNCHANGED <<host, out, bp>>, pc[<<t, 0>>] = "none",
         \A q \in Requests : req'[q].task # t /\ req'[q] \in {req[q], Idle}
  PROVE  RowInv'
<1> USE JobFacts DEF RowInv
<1>1. pc'[<<t, 0>>] = "posting" /\ \A k \in Jobs : k # <<t, 0>> => pc'[k] = pc[k]
  BY DEF CreateRow, TypeOK
<1>6. BreakpointsStand' /\ CutOff \subseteq CutOff'
  BY <1>1, RequestsPost
<1>2. SessionMatchesRows'
  BY <1>6, WrittenTogether DEF CreateRow, RowStatus
<1>3. FollowUpAlone'
  <2> SUFFICES ASSUME NEW r \in Requests, req'[r].kind = "followup"
               PROVE  /\ \A j \in Jobs : TaskOf(j) = req'[r].task => pc'[j] = "none"
                      /\ \A q \in Requests : q # r => req'[q].task # req'[r].task
    BY DEF FollowUpAlone
  <2>1. req'[r] = req[r] /\ req[r].task \in Tasks /\ req[r].task # t
    BY DEF Idle, TypeOK
  <2>2. \A q \in Requests : req'[q].task \in {req[q].task, NoTask}
    BY DEF Idle
  <2> QED
    BY <1>1, <2>1, <2>2, ConstantsAssumption DEF FollowUpAlone
<1>4. RowAfterChat'
  BY <1>1 DEF RowAfterChat, CreateRow, TypeOK
<1>5. HostedIsAtWork'
  BY <1>1, PlaceFacts DEF HostedIsAtWork
<1> QED
  BY <1>2, <1>3, <1>4, <1>5, <1>6

\* A request that leaves rows, jobs and hosts alone keeps the invariant, if it
\* holds no task a follow-up is about to insert.
LEMMA ReadKeepsRows ==
  ASSUME RowInv, TypeOK', FollowUpAlone', UNCHANGED <<sess, status, pc, host, out, bp>>
  PROVE  RowInv'
<1>1. BreakpointsStand' /\ CutOff \subseteq CutOff'
  BY RequestsPost DEF RowInv
<1>2. SessionMatchesRows'
  BY <1>1, UntouchedSessions DEF RowInv
<1>3. RowAfterChat' /\ HostedIsAtWork'
  BY DEF RowInv, RowAfterChat, HostedIsAtWork
<1> QED
  BY <1>1, <1>2, <1>3 DEF RowInv

\* A request that ends takes nothing from the others.
LEMMA RequestEnds ==
  ASSUME NEW r \in Requests, TypeOK, FollowUpAlone, req' = [req EXCEPT ![r] = Idle],
         \A q \in Requests : req[q].kind = "followup" /\ q # r =>
           \A k \in Jobs : TaskOf(k) = req[q].task => pc'[k] = pc[k]
  PROVE  FollowUpAlone'
<1>1. /\ \A q \in Requests : req'[q].kind # "idle" => req'[q] = req[q] /\ q # r
      /\ \A q \in Requests : req'[q].task \in {req[q].task, NoTask}
  BY DEF Idle, TypeOK
<1> QED
  BY <1>1, ConstantsAssumption DEF FollowUpAlone, TypeOK

\* A step of an API request keeps the invariant.
LEMMA RequestKeepsRows == RowInv /\ RequestStep => RowInv'
<1> USE JobFacts DEF RowInv, rows
<1> SUFFICES ASSUME RowInv, RequestStep PROVE RowInv'
  OBVIOUS
<1>1. TypeOK'
  BY RequestTypes
<1>2. ASSUME NEW t \in Tasks, ChatNew(t) PROVE RowInv'
  BY <1>1, <1>2, CreateKeepsRows DEF ChatNew, Fresh
<1>3. ASSUME NEW r \in Requests, NEW t \in Tasks, FollowUpRead(r, t) PROVE RowInv'
  <2>1. /\ req'[r].kind = "followup" /\ req'[r].task = t /\ pc[<<t, 0>>] = "none"
        /\ \A q \in Requests : q # r => req'[q] = req[q]
        /\ \A q \in Requests : req[q].task # t
        /\ UNCHANGED <<sess, status, pc, host, out, bp>>
    BY <1>3 DEF FollowUpRead, Fresh, TypeOK
  <2>2. \A j \in Jobs : TaskOf(j) = t => pc[j] = "none"
    BY <2>1 DEF RowAfterChat
  <2>3. FollowUpAlone'
    BY <2>1, <2>2 DEF FollowUpAlone
  <2> QED
    BY <1>1, <2>1, <2>3, ReadKeepsRows
<1>4. ASSUME NEW r \in Requests, NEW t \in Tasks, ResumeRead(r, t) \/ CleanupRead(r, t)
      PROVE  RowInv'
  <2>1. /\ req'[r].kind # "followup" /\ req'[r].task = t
        /\ \A q \in Requests : q # r => req'[q] = req[q]
        /\ status[t] # "absent"
        /\ UNCHANGED <<sess, status, pc, host, out, bp>>
    BY <1>4 DEF ResumeRead, CleanupRead, Latest, Rows, TypeOK
  <2>2. \A q \in Requests : req[q].kind = "followup" => req[q].task # t
    BY <2>1, FollowUpIsNew DEF RowAfterChat
  <2>3. FollowUpAlone'
    BY <2>1, <2>2 DEF FollowUpAlone
  <2> QED
    BY <1>1, <2>1, <2>3, ReadKeepsRows
<1>5. ASSUME NEW r \in Requests, FollowUpCommit(r) PROVE RowInv'
  <2> DEFINE t == req[r].task
  <2>1. /\ req[r].kind = "followup" /\ t \in Tasks
        /\ req' = [req EXCEPT ![r] = Idle]
        /\ pc[<<t, 0>>] = "none"
        /\ UNCHANGED <<host, out, bp>>
    BY <1>5 DEF FollowUpCommit, FollowUpAlone, TypeOK
  <2>2. \A q \in Requests : req'[q].task # t /\ req'[q] \in {req[q], Idle}
    BY <2>1, ConstantsAssumption DEF FollowUpAlone, TypeOK, Idle
  <2>3. CASE CreateRow(t, req[r].ord)
    BY <1>1, <2>1, <2>2, <2>3, CreateKeepsRows
  <2>4. CASE UNCHANGED <<sess, rows, pc>>
    BY <1>1, <2>1, <2>4, RequestEnds, ReadKeepsRows
  <2> QED
    BY <1>5, <2>3, <2>4 DEF FollowUpCommit
<1>6. ASSUME NEW r \in Requests, CleanupCommit(r) PROVE RowInv'
  <2> DEFINE t == req[r].task
             s == SessionOf[t]
  <2>1. /\ req' = [req EXCEPT ![r] = Idle] /\ t \in Tasks /\ s \in Sessions
        /\ UNCHANGED <<pc, host, out, bp>>
    BY <1>6 DEF CleanupCommit, TypeOK
  <2>6. BreakpointsStand' /\ CutOff \subseteq CutOff'
    BY <2>1, RequestsPost
  <2>2. \A u \in Tasks : status'[u] = "absent" <=> status[u] = "absent"
    BY <1>6, <2>1 DEF CleanupCommit, TypeOK
  <2>3. SessionMatchesRows'
    <3>1. CASE status[t] # "absent"
      <4>1. sess[s] # "absent"
        BY <2>1, <3>1 DEF SessionMatchesRows, Rows
      <4>2. status' = [status EXCEPT ![t] = "failed"] /\ sess' = [sess EXCEPT ![s] = "failed"]
        BY <1>6, <3>1, <4>1 DEF CleanupCommit
      <4> QED
        BY <2>1, <2>6, <4>2, WrittenTogether DEF RowStatus
    <3>2. CASE status[t] = "absent"
      <4>1. /\ status' = status
            /\ \A v \in Sessions : \/ sess'[v] = sess[v]
                                   \/ sess[v] # "absent" /\ sess'[v] = "failed"
        BY <1>6, <2>1, <3>2 DEF CleanupCommit, TypeOK
      <4> SUFFICES ASSUME NEW v \in Sessions PROVE SessionMatches(v)'
        BY DEF SessionMatchesRows, SessionMatches
      <4>2. CASE sess'[v] = sess[v]
        <5>1. SessionMatches(v)
          BY DEF SessionMatchesRows, SessionMatches
        <5> QED
          BY <2>6, <4>1, <4>2, <5>1, UntouchedSession
      <4>3. CASE sess[v] # "absent" /\ sess'[v] = "failed"
        BY <4>1, <4>3 DEF SessionMatchesRows, SessionMatches, Rows
      <4> QED
        BY <4>1, <4>2, <4>3
    <3> QED
      BY <3>1, <3>2
  <2>4. FollowUpAlone'
    BY <2>1, RequestEnds
  <2>5. RowAfterChat' /\ HostedIsAtWork'
    BY <2>1, <2>2 DEF RowAfterChat, HostedIsAtWork
  <2> QED
    BY <1>1, <2>3, <2>4, <2>5, <2>6
<1>7. ASSUME NEW r \in Requests, NEW n \in 1..MaxResumes, ResumeCommit(r, n)
      PROVE  RowInv'
  <2> DEFINE t == req[r].task
             i == <<t, n>>
  <2>1. /\ t \in Tasks /\ i \in Jobs /\ TaskOf(i) = t
        /\ req' = [req EXCEPT ![r] = Idle]
        /\ UNCHANGED <<sess, status, host, out, bp>>
    BY <1>7 DEF ResumeCommit, TypeOK
  <2>2. CASE pc' = pc
    BY <1>1, <2>1, <2>2, RequestEnds, ReadKeepsRows
  <2>3. CASE pc' # pc
    <3>1. status[t] # "absent" /\ pc' = [pc EXCEPT ![i] = "posting"]
      BY <1>7, <2>3 DEF ResumeCommit
    <3>2. /\ pc[<<t, 0>>] # "none" /\ pc'[<<t, 0>>] # "none" /\ pc'[i] = "posting"
          /\ \A k \in Jobs : k # i => pc'[k] = pc[k]
      BY <2>1, <3>1 DEF RowAfterChat, TypeOK
    <3>3. FollowUpAlone'
      <4>1. \A q \in Requests : req[q].kind = "followup" => req[q].task # t
        BY <2>1, <3>2, FollowUpIsNew
      <4>2. \A q \in Requests : req[q].kind = "followup" =>
              \A k \in Jobs : TaskOf(k) = req[q].task => pc'[k] = pc[k]
        BY <2>1, <3>2, <4>1
      <4> QED
        BY <2>1, <4>2, RequestEnds
    <3>5. pc[i] = "none"
      BY <1>7 DEF ResumeCommit
    <3>4. RowAfterChat' /\ HostedIsAtWork'
      <4>1. RowAfterChat'
        BY <2>1, <3>2 DEF RowAfterChat
      <4>2. HostedIsAtWork'
        BY <2>1, <3>2, <3>5, PlaceFacts DEF HostedIsAtWork
      <4> QED
        BY <4>1, <4>2
    <3>6. BreakpointsStand' /\ CutOff \subseteq CutOff'
      BY <2>1, <3>2, <3>5, RequestsPost
    <3>7. SessionMatchesRows'
      BY <2>1, <3>6, UntouchedSessions
    <3> QED
      BY <1>1, <3>3, <3>4, <3>6, <3>7
  <2> QED
    BY <2>2, <2>3
<1>8. ASSUME NEW s \in Sessions, DeleteSession(s) PROVE RowInv'
  <2>1. /\ sess' = [sess EXCEPT ![s] = "absent"]
        /\ status' = [t \in Tasks |-> IF SessionOf[t] = s THEN "absent" ELSE status[t]]
        /\ UNCHANGED <<req, pc, host, out, bp>>
    BY <1>8 DEF DeleteSession
  <2>5. BreakpointsStand' /\ CutOff \subseteq CutOff'
    BY <2>1, RequestsPost
  <2>2. FollowUpAlone' /\ RowAfterChat' /\ HostedIsAtWork'
    BY <2>1 DEF FollowUpAlone, RowAfterChat, HostedIsAtWork
  <2>3. ASSUME NEW v \in Sessions PROVE SessionMatches(v)'
    <3>1. CASE v = s
      BY <2>1, <3>1 DEF SessionMatches, Rows, TypeOK
    <3>2. CASE v # s
      <4>1. sess'[v] = sess[v] /\ \A t \in Tasks : SessionOf[t] = v => status'[t] = status[t]
        BY <2>1, <3>2 DEF TypeOK
      <4>2. SessionMatches(v)
        BY DEF SessionMatchesRows, SessionMatches
      <4> QED
        BY <2>5, <4>1, <4>2, UntouchedSession
    <3> QED
      BY <3>1, <3>2
  <2>4. SessionMatchesRows'
    BY <2>3 DEF SessionMatchesRows, SessionMatches
  <2> QED
    BY <1>1, <2>2, <2>4, <2>5
<1> QED
  BY <1>2, <1>3, <1>4, <1>5, <1>6, <1>7, <1>8 DEF RequestStep

\* The rows' invariant holds initially and every step keeps it.
LEMMA RowsHold ==
  /\ Init => RowInv
  /\ RowInv /\ [Next]_vars => RowInv'
<1>1. Init => RowInv
  <2> SUFFICES ASSUME Init PROVE RowInv
    OBVIOUS
  <2>1. TypeOK
    BY InitTypes
  <2>2. SessionMatchesRows /\ BreakpointsStand /\ FollowUpAlone /\ RowAfterChat /\ HostedIsAtWork
    BY DEF Init, SessionMatchesRows, Rows, BreakpointsStand, FollowUpAlone, RowAfterChat,
           HostedIsAtWork, Idle
  <2> QED
    BY <2>1, <2>2 DEF RowInv
<1>2. ASSUME RowInv, UNCHANGED vars PROVE RowInv'
  <2>1. TypeOK' /\ FollowUpAlone'
    BY <1>2 DEF RowInv, TypeOK, FollowUpAlone, vars, rows
  <2> QED
    BY <1>2, <2>1, ReadKeepsRows DEF vars, rows
<1> QED
  BY <1>1, <1>2, RequestKeepsRows, JobKeepsRows, EnvKeepsRows DEF Next

\* A session row exists exactly as long as it has tasks and shows the status of one of
\* them, or "failed" from a cleanup, or "suspended" from a run cut off at its breakpoint,
\* whatever fails and however requests, cleanups and archives overlap.
THEOREM SessionFollows == Spec => []SessionMatchesRows
<1>1. RowInv => SessionMatchesRows
  BY DEF RowInv
<1> QED
  BY <1>1, RowsHold, PTL DEF Spec

\* No step gives a deleted task its row back.
LEMMA OnlyNewRows ==
  ASSUME RowInv, [Next]_vars, NEW t \in Tasks, status[t] = "absent", status'[t] # "absent"
  PROVE  pc[<<t, 0>>] = "none"
<1> USE JobFacts DEF RowInv, rows
<1>1. ASSUME NEW u \in Tasks, NEW n, CreateRow(u, n) PROVE t = u
  BY <1>1 DEF CreateRow, TypeOK
<1>2. CASE RequestStep
  <2>1. ASSUME NEW u \in Tasks, ChatNew(u) PROVE pc[<<t, 0>>] = "none"
    BY <1>1, <2>1 DEF ChatNew, Fresh
  <2>2. ASSUME NEW r \in Requests, FollowUpCommit(r) PROVE pc[<<t, 0>>] = "none"
    <3>1. req[r].kind = "followup" /\ req[r].task \in Tasks
      BY <2>2 DEF FollowUpCommit, TypeOK
    <3>2. CreateRow(req[r].task, req[r].ord)
      BY <2>2 DEF FollowUpCommit
    <3>3. t = req[r].task
      BY <1>1, <3>1, <3>2
    <3> QED
      BY <3>1, <3>3 DEF FollowUpAlone
  <2>3. ASSUME NEW r \in Requests, CleanupCommit(r) PROVE FALSE
    BY <2>3 DEF CleanupCommit, TypeOK
  <2>4. ASSUME NEW s \in Sessions, DeleteSession(s) PROVE FALSE
    BY <2>4 DEF DeleteSession
  <2>5. ASSUME NEW r \in Requests, NEW u \in Tasks,
               FollowUpRead(r, u) \/ ResumeRead(r, u) \/ CleanupRead(r, u)
        PROVE  FALSE
    BY <2>5 DEF FollowUpRead, ResumeRead, CleanupRead
  <2>6. ASSUME NEW r \in Requests, NEW n \in 1..MaxResumes, ResumeCommit(r, n) PROVE FALSE
    BY <2>6 DEF ResumeCommit
  <2> QED
    BY <1>2, <2>1, <2>2, <2>3, <2>4, <2>5, <2>6 DEF RequestStep
<1>3. ASSUME NEW j \in Jobs, JobStep(j) PROVE FALSE
  BY <1>3, JobRows DEF RowStatus, TypeOK
<1>4. CASE EnvStep
  BY <1>4 DEF EnvStep, PostFails, PopFails, StartFails, LockExpires, Crash, CheckpointsCleaned
<1>5. CASE UNCHANGED vars
  BY <1>5 DEF vars
<1> QED
  BY <1>2, <1>3, <1>4, <1>5 DEF Next

\* A deleted task stays deleted, whatever requests and archives outlive its row.
THEOREM DeletedForGood == Spec => DeletedStaysDeleted
<1>1. RowInv /\ [Next]_vars =>
        [\A t \in Tasks :
           status[t] = "absent" /\ status'[t] # "absent" => pc[<<t, 0>>] = "none"]_status
  BY OnlyNewRows
<1> QED
  BY <1>1, RowsHold, PTL DEF Spec, DeletedStaysDeleted

-----------------------------------------------------------------------------
(* Unfinished rows.  Also without any assumption: resumes of a thread are   *)
(* posted in order and after its chat's job has ended, and a row that is     *)
(* not finished has a job, or an outcome, that says why.                     *)

\* The chat's job of a task was posted and has ended.
ChatOver(t) == pc[<<t, 0>>] \notin Live \cup {"none"}

\* A task is resumed after its chat's job has ended.
ChatFirst ==
  /\ \A t \in pending : ChatOver(t)
  /\ \A r \in Requests : req[r].kind = "resume" => ChatOver(req[r].task)
  /\ \A j \in Jobs : IsResume(j) /\ pc[j] # "none" => ChatOver(TaskOf(j))

ResumesInOrder ==
  \A t \in Tasks, n, m \in 1..MaxResumes :
    n < m /\ pc[<<t, m>>] # "none" => pc[<<t, n>>] # "none"

\* What UnfinishedRowIsExplained says of one task.
Explained(t) ==
  /\ status[t] = "running" =>
       \/ pc[<<t, 0>>] \in Unanswered
       \/ \E j \in Jobs : /\ TaskOf(j) = t
                          /\ pc[j] = "done"
                          /\ out[j] \in {"lost", "running"}
  /\ status[t] = "suspended" /\ t \notin pending =>
       \E n \in 1..MaxResumes :
         /\ pc[<<t, n>>] \in Unanswered
         /\ \A m \in (n + 1)..MaxResumes : pc[<<t, m>>] = "none"

ExplainInv == RowInv /\ ChatFirst /\ ResumesInOrder /\ UnfinishedRowIsExplained

\* A job is the chat's or a resume.
LEMMA JobIs ==
  /\ \A j \in Jobs : ~IsResume(j) => j = <<TaskOf(j), 0>>
  /\ \A t \in Tasks : ~IsResume(<<t, 0>>)
  /\ \A t \in Tasks, n \in 1..MaxResumes :
       <<t, n>> \in Jobs /\ IsResume(<<t, n>>) /\ TaskOf(<<t, n>>) = t
  /\ \A n \in 1..MaxResumes : \A m \in (n + 1)..MaxResumes : m \in 1..MaxResumes /\ n < m
BY ConstantsAssumption DEF Jobs, IsResume, TaskOf

\* A task whose row and jobs rest stays explained: a job may still die of it, or be
\* posted for the chat.
LEMMA StaysExplained ==
  ASSUME NEW t \in Tasks, Explained(t), status'[t] = status[t], t \in pending <=> t \in pending',
         \A k \in Jobs : TaskOf(k) = t =>
           \/ pc'[k] = pc[k] /\ (pc[k] = "done" => out'[k] = out[k])
           \/ pc[k] \in Live /\ pc'[k] \in Unanswered
  PROVE  Explained(t)'
<1> USE JobFacts, JobIs
<1>1. \A k \in Jobs : TaskOf(k) = t =>
        /\ pc[k] \in Unanswered => pc'[k] \in Unanswered
        /\ pc[k] = "none" => pc'[k] = "none"
        /\ pc[k] = "done" => pc'[k] = "done" /\ out'[k] = out[k]
  BY PlaceFacts
<1>2. CASE status[t] = "running"
  <2>1. CASE pc[<<t, 0>>] \in Unanswered
    <3>1. pc'[<<t, 0>>] \in Unanswered
      BY <1>1, <2>1
    <3> QED
      BY <1>2, <3>1 DEF Explained, Unanswered, Live, InSlot
  <2>2. ASSUME NEW j \in Jobs, TaskOf(j) = t, pc[j] = "done", out[j] \in {"lost", "running"}
        PROVE  Explained(t)'
    <3>1. pc'[j] = "done" /\ out'[j] \in {"lost", "running"}
      BY <1>1, <2>2
    <3> QED
      BY <1>2, <2>2, <3>1 DEF Explained, TaskOf
  <2> QED
    BY <1>2, <2>1, <2>2 DEF Explained
<1>3. CASE status[t] = "suspended" /\ t \notin pending
  <2>1. PICK n \in 1..MaxResumes : /\ pc[<<t, n>>] \in Unanswered
                                   /\ \A m \in (n + 1)..MaxResumes : pc[<<t, m>>] = "none"
    BY <1>3 DEF Explained
  <2>2. pc'[<<t, n>>] \in Unanswered /\ \A m \in (n + 1)..MaxResumes : pc'[<<t, m>>] = "none"
    BY <1>1, <2>1
  <2> QED
    BY <1>3, <2>2 DEF Explained, Unanswered, Live, InSlot
<1> QED
  BY <1>2, <1>3 DEF Explained

\* Until it is done a job has not answered, and it is done with its outcome in the row,
\* unless the row is gone.
LEMMA JobAnswers ==
  ASSUME NEW j \in Jobs, TypeOK, JobStep(j)
  PROVE  \/ pc'[j] \in Unanswered /\ UNCHANGED <<status, pending>>
         \/ status[TaskOf(j)] = "absent" /\ UNCHANGED <<status, pending>>
         \/ /\ pc'[j] = "done" /\ out'[j] = out[j]
            /\ status' = [status EXCEPT ![TaskOf(j)] = ArchivedStatus(out[j])]
            /\ pending' = IF j \in bp THEN pending \cup {TaskOf(j)} ELSE pending \ {TaskOf(j)}
<1>1. CASE UNCHANGED <<status, pending>> /\ ~Archive(j)
  BY <1>1 DEF JobStep, JobProgress, Post, Pop, Start, TryLock, Enter, CheckOwner, Renew, Superstep,
     EndStream, RunFails, Inspect, Announce, Release, Unanswered, Live, InSlot, TypeOK
<1>2. CASE Archive(j)
  <2>1. CASE status[TaskOf(j)] = "absent"
    BY <1>2, <2>1 DEF Archive, rows
  <2>2. CASE pc' = [pc EXCEPT ![j] = "unsaved"] /\ UNCHANGED <<rows, sess>>
    BY <2>2 DEF Unanswered, TypeOK, rows
  <2>3. CASE status[TaskOf(j)] # "absent" /\ ~(pc' = [pc EXCEPT ![j] = "unsaved"] /\ UNCHANGED <<rows, sess>>)
    <3>1. /\ pc' = [pc EXCEPT ![j] = "done"] /\ UNCHANGED out
          /\ status' = [status EXCEPT ![TaskOf(j)] = ArchivedStatus(out[j])]
          /\ pending' = IF j \in bp THEN pending \cup {TaskOf(j)} ELSE pending \ {TaskOf(j)}
      BY <1>2, <2>3 DEF Archive
    <3> QED
      BY <3>1 DEF TypeOK
  <2> QED
    BY <2>1, <2>2, <2>3
<1>3. CASE ~UNCHANGED <<status, pending>>
  BY <1>2, <1>3, JobRows
<1> QED
  BY <1>1, <1>2, <1>3

\* A step of a job explains what it leaves unfinished.
LEMMA JobExplains ==
  ASSUME ExplainInv, NEW j \in Jobs, JobStep(j)
  PROVE  ChatFirst' /\ ResumesInOrder' /\ UnfinishedRowIsExplained'
<1> DEFINE t == TaskOf(j)
<1> USE JobFacts DEF ExplainInv, RowInv
<1>1. /\ pc[j] \in Live /\ pc[j] # "none" /\ req' = req
      /\ pc'[j] # "none" /\ \A k \in Jobs : k # j => pc'[k] = pc[k]
  BY JobMoves, PlaceFacts DEF TypeOK
<1>2. \A k \in Jobs : pc'[k] = "none" <=> pc[k] = "none"
  BY <1>1
<1>3. ASSUME NEW u \in Tasks, ChatOver(u) PROVE ChatOver(u)'
  BY <1>1, <1>3 DEF ChatOver, Live, InSlot
<1>4. ChatFirst'
  <2>1. \A u \in pending' : ChatOver(u)'
    <3> SUFFICES ASSUME NEW u \in pending' PROVE ChatOver(u)'
      OBVIOUS
    <3>1. CASE u \in pending
      BY <1>3, <3>1 DEF ChatFirst, TypeOK
    <3>2. CASE u \notin pending
      <4>1. u = t /\ pc'[j] = "done"
        BY <3>2, JobRows
      <4>2. CASE IsResume(j)
        BY <1>1, <1>3, <4>1, <4>2 DEF ChatFirst
      <4>3. CASE ~IsResume(j)
        <5>1. pc'[<<u, 0>>] = "done"
          BY <4>1, <4>3, JobIs
        <5> QED
          BY <5>1 DEF ChatOver, Live, InSlot
      <4> QED
        BY <4>2, <4>3
    <3> QED
      BY <3>1, <3>2
  <2>2. \A r \in Requests : req[r].kind = "resume" => ChatOver(req[r].task)'
    <3>1. \A r \in Requests : req[r].kind = "resume" => req[r].task \in Tasks /\ ChatOver(req[r].task)
      BY DEF ChatFirst, TypeOK
    <3> QED
      BY <1>1, <1>3, <3>1
  <2>3. \A k \in Jobs : IsResume(k) /\ pc'[k] # "none" => ChatOver(TaskOf(k))'
    BY <1>2, <1>3 DEF ChatFirst
  <2> QED
    BY <1>1, <2>1, <2>2, <2>3 DEF ChatFirst, IsResume, TaskOf, ChatOver
<1>5. ResumesInOrder'
  BY <1>2, JobIs DEF ResumesInOrder
<1>6. UnfinishedRowIsExplained'
  <2> SUFFICES ASSUME NEW u \in Tasks PROVE Explained(u)'
    BY DEF UnfinishedRowIsExplained, Explained
  <2>1. Explained(u)
    BY DEF UnfinishedRowIsExplained, Explained
  <2>2. \A k \in Jobs : k # j => out'[k] = out[k]
    BY JobThread
  <2>3. ASSUME status'[u] = status[u], u \in pending <=> u \in pending',
               t = u => pc'[j] \in Unanswered
        PROVE  Explained(u)'
    <3>1. \A k \in Jobs : TaskOf(k) = u =>
            \/ pc'[k] = pc[k] /\ (pc[k] = "done" => out'[k] = out[k])
            \/ pc[k] \in Live /\ pc'[k] \in Unanswered
      BY <1>1, <2>2, <2>3
    <3> QED
      BY <2>1, <2>3, <3>1, StaysExplained
  <2>4. CASE pc'[j] \in Unanswered /\ UNCHANGED <<status, pending>>
    BY <2>3, <2>4
  <2>5. CASE status[t] = "absent" /\ UNCHANGED <<status, pending>>
    <3>1. CASE u = t
      BY <2>5, <3>1 DEF Explained
    <3>2. CASE u # t
      BY <2>3, <2>5, <3>2
    <3> QED
      BY <3>1, <3>2
  <2>6. CASE /\ pc'[j] = "done" /\ out'[j] = out[j]
             /\ status' = [status EXCEPT ![t] = ArchivedStatus(out[j])]
             /\ pending' = IF j \in bp THEN pending \cup {t} ELSE pending \ {t}
    <3>1. CASE u # t
      <4>1. status'[u] = status[u] /\ (u \in pending <=> u \in pending')
        BY <2>6, <3>1 DEF TypeOK
      <4> QED
        BY <2>3, <3>1, <4>1
    <3>2. CASE u = t
      <4>1. status'[u] = ArchivedStatus(out[j]) /\ TaskOf(j) = u
        BY <2>6, <3>2 DEF TypeOK
      <4>2. CASE out[j] \in {"lost", "running"}
        BY <2>6, <4>1, <4>2 DEF Explained, ArchivedStatus, TaskOf
      <4>3. CASE out[j] = "suspended"
        <5>1. u \in pending' /\ status'[u] = "suspended"
          BY <2>6, <3>2, <4>1, <4>3 DEF BreakpointsStand, ArchivedStatus
        <5> QED
          BY <5>1 DEF Explained
      <4>4. CASE out[j] \in {"completed", "failed"}
        BY <4>1, <4>4 DEF Explained, ArchivedStatus
      <4> QED
        BY <4>2, <4>3, <4>4 DEF TypeOK, Outcome, RowStatus
    <3> QED
      BY <3>1, <3>2
  <2> QED
    BY <2>4, <2>5, <2>6, JobAnswers
<1> QED
  BY <1>4, <1>5, <1>6

\* A step of the environment only makes jobs dead, and the dead explain.
LEMMA EnvExplains ==
  ASSUME ExplainInv, EnvStep
  PROVE  ChatFirst' /\ ResumesInOrder' /\ UnfinishedRowIsExplained'
<1> USE JobFacts DEF ExplainInv, RowInv
<1>1. /\ UNCHANGED <<status, pending, req>>
      /\ \A k \in Jobs : pc'[k] = pc[k] \/ (pc[k] \in Live /\ pc'[k] = "dead")
      /\ \A k \in Jobs : out'[k] = out[k] \/ pc'[k] = "dead"
  BY EnvMoves
<1>2. \A k \in Jobs : pc'[k] = "none" <=> pc[k] = "none"
  BY <1>1, PlaceFacts
<1>3. ASSUME NEW u \in Tasks, ChatOver(u) PROVE ChatOver(u)'
  BY <1>1, <1>3 DEF ChatOver, Live, InSlot
<1>4. ChatFirst'
  <2>1. \A u \in pending : ChatOver(u)'
    BY <1>3 DEF ChatFirst, TypeOK
  <2>2. \A r \in Requests : req[r].kind = "resume" => ChatOver(req[r].task)'
    <3>1. \A r \in Requests : req[r].kind = "resume" => req[r].task \in Tasks /\ ChatOver(req[r].task)
      BY DEF ChatFirst, TypeOK
    <3> QED
      BY <1>1, <1>3, <3>1
  <2>3. \A k \in Jobs : IsResume(k) /\ pc'[k] # "none" => ChatOver(TaskOf(k))'
    BY <1>2, <1>3 DEF ChatFirst
  <2> QED
    BY <1>1, <2>1, <2>2, <2>3 DEF ChatFirst, IsResume, TaskOf, ChatOver
<1>5. ResumesInOrder'
  BY <1>2, JobIs DEF ResumesInOrder
<1>6. UnfinishedRowIsExplained'
  <2> SUFFICES ASSUME NEW u \in Tasks PROVE Explained(u)'
    BY DEF UnfinishedRowIsExplained, Explained
  <2>1. Explained(u)
    BY DEF UnfinishedRowIsExplained, Explained
  <2>2. \A k \in Jobs : TaskOf(k) = u =>
          \/ pc'[k] = pc[k] /\ (pc[k] = "done" => out'[k] = out[k])
          \/ pc[k] \in Live /\ pc'[k] \in Unanswered
    BY <1>1 DEF Unanswered
  <2> QED
    BY <1>1, <2>1, <2>2, StaysExplained
<1> QED
  BY <1>4, <1>5, <1>6

\* A step of a request posts jobs, a resume only for a request to resume.
LEMMA RequestMoves ==
  ASSUME RowInv, RequestStep
  PROVE  /\ UNCHANGED <<ckpt, hasNext, out, bp>>
         /\ \A k \in Jobs : pc'[k] = pc[k] \/ (pc[k] = "none" /\ pc'[k] = "posting")
         /\ \A k \in Jobs : IsResume(k) /\ pc'[k] # pc[k] =>
              \E r \in Requests, n \in 1..MaxResumes :
                ResumeCommit(r, n) /\ k = <<req[r].task, n>>
<1> USE JobFacts, JobIs DEF RowInv, rows
<1>1. UNCHANGED <<ckpt, hasNext, out, bp>>
  BY DEF RequestStep, ChatNew, FollowUpRead, ResumeRead, CleanupRead, FollowUpCommit, CleanupCommit,
         ResumeCommit, DeleteSession
<1>2. ASSUME NEW t \in Tasks, pc[<<t, 0>>] = "none", pc' = [pc EXCEPT ![<<t, 0>>] = "posting"]
      PROVE  /\ \A k \in Jobs : pc'[k] = pc[k] \/ (pc[k] = "none" /\ pc'[k] = "posting")
             /\ \A k \in Jobs : IsResume(k) => pc'[k] = pc[k]
  BY <1>2 DEF TypeOK
<1>3. ASSUME NEW t \in Tasks, ChatNew(t)
      PROVE  pc[<<t, 0>>] = "none" /\ pc' = [pc EXCEPT ![<<t, 0>>] = "posting"]
  BY <1>3 DEF ChatNew, Fresh, CreateRow
<1>4. ASSUME NEW r \in Requests, FollowUpCommit(r)
      PROVE  \/ pc' = pc
             \/ /\ req[r].task \in Tasks /\ pc[<<req[r].task, 0>>] = "none"
                /\ pc' = [pc EXCEPT ![<<req[r].task, 0>>] = "posting"]
  <2>1. req[r].task \in Tasks /\ pc[<<req[r].task, 0>>] = "none"
    BY <1>4 DEF FollowUpCommit, FollowUpAlone, TypeOK
  <2> QED
    BY <1>4, <2>1 DEF FollowUpCommit, CreateRow
<1>5. ASSUME NEW r \in Requests, NEW n \in 1..MaxResumes, ResumeCommit(r, n)
      PROVE  \/ pc' = pc
             \/ /\ req[r].task \in Tasks /\ pc[<<req[r].task, n>>] = "none"
                /\ pc' = [pc EXCEPT ![<<req[r].task, n>>] = "posting"]
  <2>1. req[r].task \in Tasks /\ pc[<<req[r].task, n>>] = "none"
    BY <1>5 DEF ResumeCommit, TypeOK
  <2> QED
    BY <1>5, <2>1 DEF ResumeCommit
<1>6. CASE pc' = pc
  BY <1>1, <1>6
<1>7. CASE \E t \in Tasks : ChatNew(t)
  BY <1>1, <1>2, <1>3, <1>7
<1>8. CASE \E r \in Requests : FollowUpCommit(r)
  BY <1>1, <1>2, <1>4, <1>6, <1>8
<1>9. CASE \E r \in Requests, n \in 1..MaxResumes : ResumeCommit(r, n)
  <2>1. PICK r \in Requests, n \in 1..MaxResumes : ResumeCommit(r, n)
    BY <1>9
  <2>2. CASE /\ req[r].task \in Tasks /\ pc[<<req[r].task, n>>] = "none"
             /\ pc' = [pc EXCEPT ![<<req[r].task, n>>] = "posting"]
    <3>1. \A k \in Jobs : k # <<req[r].task, n>> => pc'[k] = pc[k]
      BY <2>2 DEF TypeOK
    <3>2. pc'[<<req[r].task, n>>] = "posting" /\ <<req[r].task, n>> \in Jobs
      BY <2>2 DEF TypeOK
    <3> QED
      BY <1>1, <2>1, <2>2, <3>1, <3>2
  <2> QED
    BY <1>5, <1>6, <2>1, <2>2
<1> QED
  BY <1>6, <1>7, <1>8, <1>9 DEF RequestStep, FollowUpRead, ResumeRead, CleanupRead, CleanupCommit,
     DeleteSession

\* A step of a request: what it creates or approves gets a job, and what it gives up or
\* deletes is not unfinished.
LEMMA RequestExplains ==
  ASSUME ExplainInv, RequestStep
  PROVE  ChatFirst' /\ ResumesInOrder' /\ UnfinishedRowIsExplained'
<1> USE JobFacts DEF ExplainInv, RowInv
<1>1. /\ \A k \in Jobs : pc'[k] = pc[k] \/ (pc[k] = "none" /\ pc'[k] = "posting")
      /\ \A k \in Jobs : IsResume(k) /\ pc'[k] # pc[k] =>
           \E r \in Requests, n \in 1..MaxResumes :
             ResumeCommit(r, n) /\ k = <<req[r].task, n>>
      /\ out' = out
  BY RequestMoves
<1>2. \A u \in Tasks : ChatOver(u) => pc'[<<u, 0>>] \notin Live \cup {"none"}
  BY <1>1 DEF ChatOver
<1>3. ChatFirst'
  <2>1. pending' \subseteq pending
    BY DEF RequestStep, ChatNew, CreateRow, FollowUpRead, ResumeRead, CleanupRead, FollowUpCommit,
           CleanupCommit, ResumeCommit, DeleteSession, rows
  <2>2. \A r \in Requests : req'[r].kind = "resume" => req'[r] = req[r] \/ req'[r].task \in pending
    <3>1. ASSUME NEW r \in Requests, NEW t \in Tasks, ResumeRead(r, t)
          PROVE  \A q \in Requests : req'[q] = req[q] \/ req'[q].task \in pending
      BY <3>1 DEF ResumeRead, Latest, TypeOK
    <3>2. ASSUME NEW r \in Requests, NEW t \in Tasks, FollowUpRead(r, t) \/ CleanupRead(r, t)
          PROVE  \A q \in Requests : req'[q] = req[q] \/ req'[q].kind # "resume"
      BY <3>2 DEF FollowUpRead, CleanupRead, TypeOK
    <3>3. ASSUME NEW r \in Requests, req' = [req EXCEPT ![r] = Idle]
          PROVE  \A q \in Requests : req'[q] = req[q] \/ req'[q].kind # "resume"
      BY <3>3 DEF Idle, TypeOK
    <3> QED
      BY <3>1, <3>2, <3>3 DEF RequestStep, ChatNew, FollowUpCommit, CleanupCommit, ResumeCommit, DeleteSession
  <2>3. \A u \in pending' : pc'[<<u, 0>>] \notin Live \cup {"none"}
    BY <1>2, <2>1 DEF ChatFirst, TypeOK
  <2>4. ASSUME NEW r \in Requests, req'[r].kind = "resume"
        PROVE  pc'[<<req'[r].task, 0>>] \notin Live \cup {"none"}
    <3>1. (req'[r] = req[r] /\ ChatOver(req[r].task) /\ req[r].task \in Tasks) \/ req'[r].task \in pending
      BY <2>2, <2>4 DEF ChatFirst, TypeOK
    <3> QED
      BY <1>2, <2>2, <2>4, <3>1 DEF ChatFirst, TypeOK
  <2>5. ASSUME NEW k \in Jobs, IsResume(k), pc'[k] # "none"
        PROVE  pc'[<<TaskOf(k), 0>>] \notin Live \cup {"none"}
    <3>1. CASE pc'[k] = pc[k]
      BY <1>2, <2>5, <3>1 DEF ChatFirst
    <3>2. CASE pc'[k] # pc[k]
      <4>1. PICK r \in Requests, n \in 1..MaxResumes :
                   ResumeCommit(r, n) /\ k = <<req[r].task, n>>
        BY <1>1, <2>5, <3>2
      <4>2. req[r].kind = "resume" /\ req[r].task \in Tasks /\ TaskOf(k) = req[r].task
        BY <4>1 DEF ResumeCommit, TypeOK, TaskOf
      <4> QED
        BY <1>2, <4>2 DEF ChatFirst
    <3> QED
      BY <3>1, <3>2
  <2> QED
    BY <2>3, <2>4, <2>5 DEF ChatFirst, ChatOver, Live, InSlot, IsResume, TaskOf
<1>4. ResumesInOrder'
  <2> SUFFICES ASSUME NEW t \in Tasks, NEW n \in 1..MaxResumes, NEW m \in 1..MaxResumes,
                      n < m, pc'[<<t, m>>] # "none"
               PROVE  pc'[<<t, n>>] # "none"
    BY DEF ResumesInOrder
  <2>1. pc[<<t, n>>] # "none" => pc'[<<t, n>>] # "none"
    BY <1>1
  <2>2. CASE pc[<<t, m>>] # "none"
    BY <2>1, <2>2 DEF ResumesInOrder
  <2>3. CASE pc[<<t, m>>] = "none"
    <3>1. IsResume(<<t, m>>) /\ <<t, m>> \in Jobs
      BY JobIs
    <3>2. PICK r \in Requests, q \in 1..MaxResumes : ResumeCommit(r, q) /\ <<t, m>> = <<req[r].task, q>>
      BY <1>1, <2>3, <3>1
    <3>3. q = m /\ req[r].task = t
      BY <3>2
    <3>4. pc[<<t, n>>] # "none"
      BY <3>2, <3>3 DEF ResumeCommit
    <3> QED
      BY <2>1, <3>4
  <2> QED
    BY <2>2, <2>3
<1>5. UnfinishedRowIsExplained'
  <2> SUFFICES ASSUME NEW u \in Tasks PROVE Explained(u)'
    BY DEF UnfinishedRowIsExplained, Explained
  <2>1. Explained(u)
    BY DEF UnfinishedRowIsExplained, Explained
  <2>2. ASSUME status'[u] = status[u], u \in pending <=> u \in pending',
               \A k \in Jobs : TaskOf(k) = u => pc'[k] = pc[k]
        PROVE  Explained(u)'
    BY <1>1, <2>1, <2>2, StaysExplained
  <2>3. ASSUME status'[u] \in {"absent", "failed"} PROVE Explained(u)'
    BY <2>3 DEF Explained
  <2>4. ASSUME NEW t \in Tasks, NEW n, CreateRow(t, n) PROVE Explained(u)'
    <3>1. /\ \A k \in Jobs : k # <<t, 0>> => pc'[k] = pc[k]
          /\ pc'[<<t, 0>>] = "posting"
          /\ status' = [status EXCEPT ![t] = "running"] /\ pending' = pending \ {t}
      BY <2>4 DEF CreateRow, TypeOK
    <3>2. CASE u = t
      BY <3>1, <3>2 DEF Explained, Unanswered, Live, TypeOK
    <3>3. CASE u # t
      <4>1. status'[u] = status[u] /\ (u \in pending <=> u \in pending')
        BY <3>1, <3>3 DEF TypeOK
      <4>2. \A k \in Jobs : TaskOf(k) = u => pc'[k] = pc[k]
        BY <3>1, <3>3
      <4> QED
        BY <2>2, <4>1, <4>2
    <3> QED
      BY <3>2, <3>3
  <2>5. ASSUME UNCHANGED <<status, pending, pc>> PROVE Explained(u)'
    BY <2>2, <2>5
  <2>6. ASSUME NEW t \in Tasks, ChatNew(t) PROVE Explained(u)'
    BY <2>4, <2>6 DEF ChatNew
  <2>7. ASSUME NEW r \in Requests, FollowUpCommit(r) PROVE Explained(u)'
    <3>1. req[r].task \in Tasks
      BY <2>7 DEF FollowUpCommit, TypeOK
    <3> QED
      BY <2>4, <2>5, <2>7, <3>1 DEF FollowUpCommit, rows
  <2>8. ASSUME NEW r \in Requests, CleanupCommit(r) PROVE Explained(u)'
    <3>1. UNCHANGED <<pending, pc>> /\ status'[u] \in {status[u], "failed"}
      BY <2>8 DEF CleanupCommit, TypeOK
    <3> QED
      BY <2>2, <2>3, <3>1
  <2>9. ASSUME NEW s \in Sessions, DeleteSession(s) PROVE Explained(u)'
    <3>1. /\ pc' = pc
          /\ SessionOf[u] = s => status'[u] = "absent"
          /\ SessionOf[u] # s => status'[u] = status[u] /\ (u \in pending <=> u \in pending')
      BY <2>9 DEF DeleteSession
    <3> QED
      BY <2>2, <2>3, <3>1
  <2>10. ASSUME NEW r \in Requests, NEW n \in 1..MaxResumes, ResumeCommit(r, n) PROVE Explained(u)'
    <3> DEFINE t == req[r].task
    <3>1. status' = status /\ t \in Tasks /\ pc[<<t, n>>] = "none" /\ <<t, n>> \in Jobs
      BY <2>10 DEF ResumeCommit, TypeOK
    <3>2. CASE UNCHANGED <<pending, pc>>
      BY <2>5, <3>1, <3>2
    <3>3. CASE pending' = pending \ {t} /\ pc' = [pc EXCEPT ![<<t, n>>] = "posting"]
      <4>1. pc'[<<t, n>>] = "posting" /\ \A k \in Jobs : k # <<t, n>> => pc'[k] = pc[k]
        BY <3>1, <3>3 DEF TypeOK
      <4>2. CASE u # t
        BY <2>2, <3>1, <3>3, <4>1, <4>2
      <4>3. CASE u = t
        <5>1. ASSUME NEW m \in (n + 1)..MaxResumes PROVE pc'[<<t, m>>] = "none"
          <6>1. m \in 1..MaxResumes /\ n < m /\ <<t, m>> \in Jobs /\ <<t, m>> # <<t, n>>
            BY <3>1, <5>1, JobIs
          <6> QED
            BY <3>1, <4>1, <6>1 DEF ResumesInOrder
        <5>2. \E i \in 1..MaxResumes : /\ pc'[<<u, i>>] \in Unanswered
                                       /\ \A m \in (i + 1)..MaxResumes : pc'[<<u, m>>] = "none"
          BY <4>1, <4>3, <5>1 DEF Unanswered, Live
        <5>3. status[u] = "running" =>
                \/ pc'[<<u, 0>>] \in Unanswered
                \/ \E j \in Jobs : /\ TaskOf(j) = u
                                   /\ pc'[j] = "done"
                                   /\ out'[j] \in {"lost", "running"}
          <6>1. \A k \in Jobs : pc[k] # "none" => pc'[k] = pc[k]
            BY <1>1
          <6>2. "none" \notin Unanswered /\ "done" # "none"
            BY PlaceFacts DEF Unanswered
          <6> QED
            BY <1>1, <2>1, <6>1, <6>2 DEF Explained
        <5> QED
          BY <3>1, <5>2, <5>3 DEF Explained, Unanswered, Live, InSlot, TaskOf
      <4> QED
        BY <4>2, <4>3
    <3> QED
      BY <2>10, <3>2, <3>3 DEF ResumeCommit
  <2> QED
    BY <2>5, <2>6, <2>7, <2>8, <2>9, <2>10 DEF RequestStep, FollowUpRead, ResumeRead, CleanupRead, rows
<1> QED
  BY <1>3, <1>4, <1>5

\* The invariant of the explanations holds initially and every step keeps it.
LEMMA ExplanationsHold ==
  /\ Init => ExplainInv
  /\ ExplainInv /\ [Next]_vars => ExplainInv'
<1>1. Init => ExplainInv
  BY RowsHold, JobIs DEF Init, ExplainInv, ChatFirst, ResumesInOrder, UnfinishedRowIsExplained, Idle
<1>2. ASSUME ExplainInv, UNCHANGED vars PROVE ExplainInv'
  <2>1. RowInv'
    BY <1>2, RowsHold DEF ExplainInv
  <2>2. ChatFirst' /\ ResumesInOrder' /\ UnfinishedRowIsExplained'
    BY <1>2 DEF ExplainInv, ChatFirst, ChatOver, ResumesInOrder, UnfinishedRowIsExplained,
                Unanswered, Live, InSlot, vars, rows
  <2> QED
    BY <2>1, <2>2 DEF ExplainInv
<1>3. ExplainInv /\ [Next]_vars => RowInv'
  BY RowsHold DEF ExplainInv
<1>4. ExplainInv /\ Next => ChatFirst' /\ ResumesInOrder' /\ UnfinishedRowIsExplained'
  BY RequestExplains, JobExplains, EnvExplains DEF Next
<1> QED
  BY <1>1, <1>2, <1>3, <1>4 DEF ExplainInv

\* A row stays unfinished only for a reason the code has: a job on its way, refused,
\* lost with its message or worker or not saved, or a run that read no checkpoint or one
\* another run was writing.  Whatever fails and however requests overlap.
THEOREM LossesAreExplained == Spec => []UnfinishedRowIsExplained
<1>1. ExplainInv => UnfinishedRowIsExplained
  BY DEF ExplainInv
<1> QED
  BY <1>1, ExplanationsHold, PTL DEF Spec

\* However requests overlap and whatever fails, a resume never joins the run of the chat
\* it follows: two live jobs of one thread are both resumes.
THEOREM ResumesFollow == Spec => []OnlyResumesDouble
<1>1. ExplainInv => OnlyResumesDouble
  <2> SUFFICES ASSUME ExplainInv, NEW j \in Jobs, NEW k \in Jobs,
                      TaskOf(j) = TaskOf(k), pc[j] \in Live, pc[k] \in Live, j # k, ~IsResume(j)
               PROVE  FALSE
    BY DEF OnlyResumesDouble
  <2>1. j = <<TaskOf(j), 0>> /\ IsResume(k)
    BY JobIs
  <2>2. ChatOver(TaskOf(j))
    BY <2>1, PlaceFacts DEF ExplainInv, ChatFirst
  <2> QED
    BY <2>1, <2>2 DEF ChatOver
<1> QED
  BY <1>1, ExplanationsHold, PTL DEF Spec

-----------------------------------------------------------------------------
(* Outcomes.  Under the assumptions of exclusion the thread of a task stands *)
(* where its row says: at the interrupt, unless its checkpoints were cleaned *)
(* up, while the task waits for approval and until its next run has started. *)

\* Checkpoints may be cleaned up in this instance, and then they are gone.
Wipes == "checkpoint" \in Faults
Stands(t) == ckpt[t] = "interrupted" \/ (Wipes /\ ckpt[t] = "none")

\* The places of a run that has left the graph.
Leaving == {"publishing", "releasing", "archiving"}

\* What ApprovalIsResumable says of a task besides its jobs.
Approvable(t) ==
  /\ Stands(t)
  /\ \/ status[t] = "suspended"
     \/ status[t] = "failed" /\ (t \in cleaned \/ \E j \in CutOff : TaskOf(j) = t)

PendingStands == \A t \in pending : Approvable(t)

\* The thread of a resume stands at the interrupt until its graph runs.
ResumesStand ==
  \A j \in Jobs : IsResume(j) /\ pc[j] \in BeforeStart \cup BeforeRun =>
    Wipes \/ ckpt[TaskOf(j)] = "interrupted"

\* A stream ends at the end of the graph or at the interrupt, a run that asks for
\* approval left its thread there, and so did one that read no snapshot of it.
VerdictsStand ==
  \A j \in Jobs :
    /\ pc[j] = "ended" => ckpt[TaskOf(j)] = "done" \/ Stands(TaskOf(j))
    /\ pc[j] \in Leaving =>
         /\ j \in bp => Stands(TaskOf(j))
         /\ out[j] = "running" => Wipes
         /\ out[j] = "lost" => IsResume(j) /\ (Wipes \/ ckpt[TaskOf(j)] = "interrupted")

\* A task with a live job is not completed.
CompletedIsOver == \A j \in Jobs : pc[j] \in Live => status[TaskOf(j)] # "completed"

OutcomeInv ==
  /\ ExclusionInv
  /\ RowInv
  /\ PendingStands
  /\ ResumesStand
  /\ VerdictsStand
  /\ CompletedIsOver

\* A run that was cut off stays so.
LEMMA CutOffStays == ASSUME RowInv, Next PROVE CutOff \subseteq CutOff'
<1> USE DEF RowInv
<1>1. ASSUME NEW j \in Jobs, JobStep(j) PROVE CutOff \subseteq CutOff'
  <2>1. pc[j] # "done" /\ \A k \in Jobs : k # j => pc'[k] = pc[k]
    BY <1>1, JobMoves, PlaceFacts DEF TypeOK
  <2> QED
    BY <1>1, <2>1, JobThread DEF CutOff, TypeOK
<1>2. ASSUME EnvStep PROVE CutOff \subseteq CutOff'
  BY <1>2, EnvMoves, PlaceFacts DEF CutOff, TypeOK
<1>3. ASSUME RequestStep PROVE CutOff \subseteq CutOff'
  BY <1>3, RequestMoves DEF CutOff, TypeOK
<1> QED
  BY <1>1, <1>2, <1>3 DEF Next

\* A task that waits and whose row and thread rest can still be approved.
LEMMA StaysApprovable ==
  ASSUME TypeOK, NEW t \in Tasks, Approvable(t), CutOff \subseteq CutOff',
         ckpt'[t] = ckpt[t] \/ (Wipes /\ ckpt'[t] = "none"),
         \/ status'[t] = status[t] /\ (t \in cleaned => t \in cleaned')
         \/ status'[t] = "failed" /\ t \in cleaned'
  PROVE  Approvable(t)'
BY DEF Approvable, Stands, Wipes, TaskOf

\* What the step of a job says of the job itself.
LEMMA JobStands ==
  ASSUME NEW j \in Jobs, OutcomeInv, JobStep(j)
  PROVE  /\ IsResume(j) /\ pc'[j] \in BeforeStart \cup BeforeRun =>
              Wipes \/ ckpt'[TaskOf(j)] = "interrupted"
         /\ pc'[j] = "ended" => ckpt'[TaskOf(j)] = "done" \/ Stands(TaskOf(j))'
         /\ pc'[j] \in Leaving =>
              /\ j \in bp' => Stands(TaskOf(j))'
              /\ out'[j] = "running" => Wipes
              /\ out'[j] = "lost" => IsResume(j) /\ (Wipes \/ ckpt'[TaskOf(j)] = "interrupted")
<1> DEFINE t == TaskOf(j)
           Goal == /\ IsResume(j) /\ pc'[j] \in BeforeStart \cup BeforeRun =>
                        Wipes \/ ckpt'[t] = "interrupted"
                   /\ pc'[j] = "ended" => ckpt'[t] = "done" \/ Stands(t)'
                   /\ pc'[j] \in Leaving =>
                        /\ j \in bp' => Stands(t)'
                        /\ out'[j] = "running" => Wipes
                        /\ out'[j] = "lost" => IsResume(j) /\ (Wipes \/ ckpt'[t] = "interrupted")
<1> USE JobFacts DEF OutcomeInv, RowInv, BeforeStart, BeforeRun, Leaving, TaskOf, Wipes
<1>0. /\ IsResume(j) /\ pc[j] \in BeforeStart \cup BeforeRun =>
           Wipes \/ ckpt[t] = "interrupted"
      /\ pc[j] = "ended" => ckpt[t] = "done" \/ Stands(t)
      /\ pc[j] \in Leaving =>
           /\ j \in bp => Stands(t)
           /\ out[j] = "running" => Wipes
           /\ out[j] = "lost" => IsResume(j) /\ (Wipes \/ ckpt[t] = "interrupted")
      /\ j \in bp => pc[j] \in Leaving \cup {"done"}
  BY DEF ResumesStand, VerdictsStand, BreakpointsStand
<1>1. CASE Post(j)
  BY <1>0, <1>1 DEF Post, TypeOK
<1>2. CASE \E w \in Workers : Pop(j, w)
  BY <1>0, <1>2 DEF Pop, TypeOK
<1>3. CASE Start(j)
  <2>1. pc[j] = "waiting" /\ pc'[j] = "locking"
    BY <1>3 DEF Start, TypeOK
  <2>2. IsResume(j) /\ ckpt[t] = "interrupted" => ckpt'[t] = "interrupted"
    BY <1>3 DEF Start, TypeOK
  <2> QED
    BY <1>0, <2>1, <2>2
<1>4. CASE TryLock(j)
  <2>1. ckpt' = ckpt /\ pc[j] = "locking" /\ bp' = bp
    BY <1>4 DEF TryLock
  <2>2. \/ pc'[j] \in {"contending", "running"}
        \/ pc'[j] = "releasing" /\ out'[j] = "lost" /\ IsResume(j)
    BY <1>4 DEF TryLock, Enter, TypeOK
  <2> QED
    BY <1>0, <2>1, <2>2
<1>5. CASE CheckOwner(j)
  <2>1. ckpt' = ckpt /\ pc[j] = "contending" /\ pc'[j] \in {"renewing", "refused"}
    BY <1>5 DEF CheckOwner, TypeOK
  <2> QED
    BY <1>0, <2>1
<1>6. CASE Renew(j)
  <2>1. ckpt' = ckpt /\ pc[j] = "renewing" /\ bp' = bp
    BY <1>6 DEF Renew
  <2>2. \/ pc'[j] = "running"
        \/ pc'[j] = "releasing" /\ out'[j] = "lost" /\ IsResume(j)
    BY <1>6 DEF Renew, Enter, TypeOK
  <2> QED
    BY <1>0, <2>1, <2>2
<1>7. CASE Superstep(j)
  BY <1>7 DEF Superstep
<1>8. CASE EndStream(j)
  <2>1. pc'[j] = "ended" /\ ckpt'[t] \in {"interrupted", "done"}
    BY <1>8 DEF EndStream, TypeOK
  <2> QED
    BY <2>1 DEF Stands
<1>9. CASE RunFails(j)
  <2>1. /\ pc[j] \in {"running", "ended", "publishing"} /\ pc'[j] = "releasing"
        /\ out'[j] = "failed" /\ bp' = bp /\ ckpt' = ckpt
    BY <1>9 DEF RunFails, TypeOK
  <2> QED
    BY <1>0, <2>1 DEF Stands
<1>10. CASE Inspect(j)
  <2>1. PICK v \in Verdicts(ckpt[t]) : /\ out' = [out EXCEPT ![j] = v]
                                       /\ bp' = IF v = "suspended" THEN bp \cup {j} ELSE bp
    BY <1>10 DEF Inspect
  <2>2. /\ pc[j] = "ended" /\ pc'[j] = "publishing" /\ ckpt' = ckpt /\ out'[j] = v
        /\ j \notin bp
    BY <1>0, <1>10, <2>1 DEF Inspect, TypeOK
  <2>3. ckpt[t] = "done" \/ ckpt[t] = "interrupted" \/ (Wipes /\ ckpt[t] = "none")
    BY <1>0, <2>2 DEF Stands
  <2> QED
    BY <2>1, <2>2, <2>3 DEF Verdicts, Stands
<1>11. CASE Announce(j) \/ Release(j)
  <2>1. pc[j] \in Leaving /\ pc'[j] \in Leaving /\ out' = out /\ ckpt' = ckpt /\ bp' = bp
    BY <1>11 DEF Announce, Release, TypeOK
  <2> QED
    BY <1>0, <2>1 DEF Stands
<1>12. CASE Archive(j)
  <2>1. pc'[j] \in {"done", "unsaved"}
    BY <1>12 DEF Archive, TypeOK
  <2> QED
    BY <2>1
<1>13. Goal
  BY <1>1, <1>2, <1>3, <1>4, <1>5, <1>6, <1>7, <1>8, <1>9, <1>10, <1>11, <1>12
  DEF JobStep, JobProgress
<1> QED
  BY <1>13

\* A step of a job keeps the invariant of the outcomes.
LEMMA JobKeepsOutcome ==
  ASSUME NEW j \in Jobs, OutcomeInv, JobStep(j)
  PROVE  OutcomeInv'
<1> USE JobFacts DEF OutcomeInv, ExclusionInv
<1> DEFINE t == TaskOf(j)
<1>1. ExclusionInv' /\ RowInv'
  BY JobKeepsExclusion, JobKeepsRows DEF OutcomeInv
<1>2. /\ pc[j] \in Live
      /\ \A k \in Jobs : k # j => pc'[k] = pc[k] /\ out'[k] = out[k] /\ (k \in bp' <=> k \in bp)
  BY JobMoves, JobThread DEF TypeOK
<1>3. t \notin pending
  BY <1>2 DEF ApprovalAlone
<1>4. \A k \in Jobs : k # j /\ pc[k] \in Live => TaskOf(k) # t
  BY <1>2 DEF OneLiveJobPerTask
<1>5. \A k \in Jobs : k # j /\ pc[k] \in Live => ckpt'[TaskOf(k)] = ckpt[TaskOf(k)]
  BY <1>4, JobThread
<1>6. /\ BeforeStart \cup BeforeRun \subseteq Live
      /\ Leaving \cup {"ended"} \subseteq Live
  BY DEF BeforeStart, BeforeRun, Leaving, Live, InSlot
<1>7. ResumesStand'
  <2> SUFFICES ASSUME NEW k \in Jobs, IsResume(k), pc'[k] \in BeforeStart \cup BeforeRun
               PROVE  Wipes \/ ckpt'[TaskOf(k)] = "interrupted"
    BY DEF ResumesStand, IsResume, TaskOf, BeforeStart, BeforeRun, Wipes
  <2>1. CASE k = j
    BY <2>1, JobStands
  <2>2. CASE k # j
    BY <1>2, <1>5, <1>6, <2>2 DEF ResumesStand
  <2> QED
    BY <2>1, <2>2
<1>8. VerdictsStand'
  <2> SUFFICES ASSUME NEW k \in Jobs
               PROVE  /\ pc'[k] = "ended" => ckpt'[TaskOf(k)] = "done" \/ Stands(TaskOf(k))'
                      /\ pc'[k] \in Leaving =>
                           /\ k \in bp' => Stands(TaskOf(k))'
                           /\ out'[k] = "running" => Wipes
                           /\ out'[k] = "lost" => IsResume(k) /\ (Wipes \/ ckpt'[TaskOf(k)] = "interrupted")
    BY DEF VerdictsStand, TaskOf, IsResume, Leaving, Wipes
  <2>1. CASE k = j
    BY <2>1, JobStands
  <2>2. CASE k # j /\ pc[k] \in Leaving \cup {"ended"}
    <3>1. ckpt'[TaskOf(k)] = ckpt[TaskOf(k)]
      BY <1>5, <1>6, <2>2
    <3>2. Stands(TaskOf(k)) => Stands(TaskOf(k))'
      BY <3>1 DEF Stands, Wipes, TaskOf
    <3> QED
      BY <1>2, <2>2, <3>1, <3>2 DEF VerdictsStand
  <2>3. CASE k # j /\ pc[k] \notin Leaving \cup {"ended"}
    BY <1>2, <2>3
  <2> QED
    BY <2>1, <2>2, <2>3
<1>11. CutOff \subseteq CutOff'
  BY CutOffStays DEF Next
<1>12. \A u \in Tasks : u # t => ckpt'[u] = ckpt[u]
  BY JobThread
<1>9. CASE UNCHANGED <<status, pending, cleaned>>
  <2>1. PendingStands'
    <3> SUFFICES ASSUME NEW u \in pending PROVE Approvable(u)'
      BY <1>9 DEF PendingStands
    <3>1. u \in Tasks /\ u # t /\ Approvable(u)
      BY <1>3 DEF TypeOK, PendingStands
    <3> QED
      BY <1>9, <1>11, <1>12, <3>1, StaysApprovable
  <2>2. CompletedIsOver'
    BY <1>2, <1>9 DEF CompletedIsOver
  <2> QED
    BY <1>1, <1>7, <1>8, <2>1, <2>2 DEF OutcomeInv
<1>10. CASE ~UNCHANGED <<status, pending, cleaned>>
  <2>2. /\ pc[j] = "archiving" /\ pc'[j] = "done"
        /\ status' = [status EXCEPT ![t] = ArchivedStatus(out[j])]
        /\ pending' = IF j \in bp THEN pending \cup {t} ELSE pending \ {t}
        /\ cleaned' = cleaned \ {t}
        /\ UNCHANGED <<out, bp, ckpt>>
    BY <1>10, JobRows
  <2>4. \A u \in Tasks : u # t => status'[u] = status[u]
    BY <2>2 DEF TypeOK
  <2>5. PendingStands'
    <3> SUFFICES ASSUME NEW u \in pending' PROVE Approvable(u)'
      BY DEF PendingStands
    <3>1. CASE u = t
      <4>1. j \in bp /\ Stands(t)
        BY <1>3, <2>2, <3>1 DEF VerdictsStand, Leaving
      <4>2. out[j] \in {"suspended", "failed"}
        BY <4>1 DEF RowInv, BreakpointsStand
      <4>3. status'[t] = out[j]
        BY <2>2, <4>2 DEF ArchivedStatus, TypeOK
      <4>4. out[j] = "failed" => j \in CutOff'
        BY <2>2, <4>1 DEF CutOff
      <4>5. Stands(t)'
        BY <2>2, <4>1 DEF Stands, Wipes, TaskOf
      <4> QED
        BY <3>1, <4>2, <4>3, <4>4, <4>5 DEF Approvable, TaskOf
    <3>2. CASE u # t
      <4>1. u \in pending /\ u \in Tasks
        BY <2>2, <3>2 DEF TypeOK
      <4>2. Approvable(u)
        BY <4>1 DEF PendingStands
      <4> QED
        BY <1>11, <1>12, <2>2, <2>4, <3>2, <4>1, <4>2, StaysApprovable
    <3> QED
      BY <3>1, <3>2
  <2>6. CompletedIsOver'
    <3> SUFFICES ASSUME NEW k \in Jobs, pc'[k] \in Live
                 PROVE  status'[TaskOf(k)] # "completed"
      BY DEF CompletedIsOver, TaskOf, Live
    <3>1. k # j /\ pc[k] \in Live
      BY <1>2, <2>2, PlaceFacts
    <3>2. TaskOf(k) # t
      BY <1>4, <3>1
    <3> QED
      BY <2>4, <3>1, <3>2 DEF CompletedIsOver
  <2> QED
    BY <1>1, <1>7, <1>8, <2>5, <2>6 DEF OutcomeInv
<1> QED
  BY <1>9, <1>10

\* A step at which the threads rest: jobs only die or are posted, what the runs know of
\* their threads does not change, and the threads stay or are wiped.
ThreadsRest ==
  /\ \A t \in Tasks : ckpt'[t] = ckpt[t] \/ (Wipes /\ ckpt'[t] = "none")
  /\ \A k \in Jobs :
       \/ pc'[k] = "dead"
       \/ pc'[k] = "posting" /\ (IsResume(k) => Wipes \/ ckpt'[TaskOf(k)] = "interrupted")
       \/ pc'[k] = pc[k] /\ out'[k] = out[k] /\ (k \in bp' <=> k \in bp)

\* Then what the invariant says of the threads still holds.
LEMMA RestKeepsThreads ==
  ASSUME ResumesStand, VerdictsStand, ThreadsRest
  PROVE  ResumesStand' /\ VerdictsStand'
<1> USE JobFacts
<1>1. \A t \in Tasks : Stands(t) => Stands(t)'
  BY DEF ThreadsRest, Stands, Wipes
<1>2. \A t \in Tasks : Wipes \/ ckpt[t] = "interrupted" => Wipes \/ ckpt'[t] = "interrupted"
  BY DEF ThreadsRest
<1>3. ResumesStand'
  <2> SUFFICES ASSUME NEW k \in Jobs, IsResume(k), pc'[k] \in BeforeStart \cup BeforeRun
               PROVE  Wipes \/ ckpt'[TaskOf(k)] = "interrupted"
    BY DEF ResumesStand, IsResume, TaskOf, BeforeStart, BeforeRun, Wipes
  <2> QED
    BY <1>2 DEF ThreadsRest, ResumesStand, BeforeStart, BeforeRun
<1>4. VerdictsStand'
  <2> SUFFICES ASSUME NEW k \in Jobs
               PROVE  /\ pc'[k] = "ended" => ckpt'[TaskOf(k)] = "done" \/ Stands(TaskOf(k))'
                      /\ pc'[k] \in Leaving =>
                           /\ k \in bp' => Stands(TaskOf(k))'
                           /\ out'[k] = "running" => Wipes
                           /\ out'[k] = "lost" => IsResume(k) /\ (Wipes \/ ckpt'[TaskOf(k)] = "interrupted")
    BY DEF VerdictsStand, TaskOf, IsResume, Leaving, Wipes
  <2>1. CASE pc'[k] \in {"dead", "posting"}
    BY <2>1 DEF Leaving
  <2>2. CASE pc'[k] = pc[k] /\ out'[k] = out[k] /\ (k \in bp' <=> k \in bp)
    <3>1. pc[k] = "ended" => ckpt'[TaskOf(k)] = "done" \/ Stands(TaskOf(k))'
      BY <1>1 DEF VerdictsStand, ThreadsRest, Stands, Wipes, TaskOf
    <3> QED
      BY <1>1, <1>2, <2>2, <3>1 DEF VerdictsStand
  <2> QED
    BY <2>1, <2>2 DEF ThreadsRest
<1> QED
  BY <1>3, <1>4

\* A step of the environment keeps the invariant of the outcomes.
LEMMA EnvKeepsOutcome ==
  ASSUME LeaseOutlivesRun, OutcomeInv, EnvStep
  PROVE  OutcomeInv'
<1> USE JobFacts DEF OutcomeInv
<1>1. ExclusionInv' /\ RowInv'
  BY EnvKeepsExclusion, EnvKeepsRows
<1>2. /\ UNCHANGED <<status, pending, cleaned>>
      /\ \A k \in Jobs : pc'[k] = pc[k] \/ pc'[k] = "dead"
      /\ \A k \in Jobs : \/ out'[k] = out[k] /\ (k \in bp' <=> k \in bp)
                         \/ pc'[k] = "dead"
      /\ \A t \in Tasks : ckpt'[t] = ckpt[t] \/ (Wipes /\ ckpt'[t] = "none")
  BY EnvMoves DEF RowInv, Wipes
<1>3. ResumesStand' /\ VerdictsStand'
  <2>1. ThreadsRest
    BY <1>2 DEF ThreadsRest
  <2> QED
    BY <2>1, RestKeepsThreads
<1>4. CutOff \subseteq CutOff'
  BY CutOffStays DEF Next
<1>5. PendingStands'
  <2> SUFFICES ASSUME NEW u \in pending PROVE Approvable(u)'
    BY <1>2 DEF PendingStands
  <2>1. u \in Tasks /\ Approvable(u) /\ TypeOK
    BY DEF RowInv, TypeOK, PendingStands
  <2> QED
    BY <1>2, <1>4, <2>1, StaysApprovable
<1>6. CompletedIsOver'
  BY <1>2, PlaceFacts DEF CompletedIsOver
<1> QED
  BY <1>1, <1>3, <1>5, <1>6

\* Inserting a row keeps it: the task has no other job and does not wait.
LEMMA CreateKeepsOutcome ==
  ASSUME NEW t \in Tasks, NEW n, OutcomeInv, ExclusionInv', RowInv', CreateRow(t, n),
         CutOff \subseteq CutOff', UNCHANGED <<ckpt, out, bp>>, pc[<<t, 0>>] = "none"
  PROVE  OutcomeInv'
<1> USE JobFacts DEF OutcomeInv, ExclusionInv
<1>1. /\ pc'[<<t, 0>>] = "posting" /\ ~IsResume(<<t, 0>>)
      /\ \A k \in Jobs : k # <<t, 0>> => pc'[k] = pc[k]
  BY DEF CreateRow, TypeOK, IsResume
<1>2. ResumesStand' /\ VerdictsStand'
  <2>1. ThreadsRest
    BY <1>1 DEF ThreadsRest
  <2> QED
    BY <2>1, RestKeepsThreads
<1>3. \A u \in Tasks : status'[u] = IF u = t THEN "running" ELSE status[u]
  BY DEF CreateRow, TypeOK
<1>4. PendingStands'
  <2> SUFFICES ASSUME NEW u \in pending' PROVE Approvable(u)'
    BY DEF PendingStands
  <2>1. u \in Tasks /\ u # t /\ Approvable(u) /\ (u \in cleaned => u \in cleaned')
    BY DEF CreateRow, PendingStands, TypeOK
  <2> QED
    BY <1>3, <2>1, StaysApprovable
<1>5. CompletedIsOver'
  BY <1>1, <1>3 DEF CompletedIsOver
<1> QED
  BY <1>2, <1>4, <1>5 DEF OutcomeInv

\* A step of an API request keeps it.
LEMMA RequestKeepsOutcome ==
  ASSUME ~ResumesOverlap, OutcomeInv, RequestStep
  PROVE  OutcomeInv'
<1> USE JobFacts DEF OutcomeInv, ExclusionInv, rows
<1>1. ExclusionInv' /\ RowInv'
  BY RequestKeepsExclusion, RequestKeepsRows DEF OutcomeInv
<1>2. UNCHANGED <<ckpt, out, bp>> /\ CutOff \subseteq CutOff'
  BY RequestMoves, CutOffStays DEF Next
<1>10. ASSUME \A u \in pending' : /\ u \in pending
                                  /\ \/ status'[u] = status[u] /\ (u \in cleaned => u \in cleaned')
                                     \/ status'[u] = "failed" /\ u \in cleaned'
       PROVE  PendingStands'
  <2> SUFFICES ASSUME NEW u \in pending' PROVE Approvable(u)'
    BY DEF PendingStands
  <2>1. u \in Tasks /\ Approvable(u)
    BY <1>10 DEF TypeOK, PendingStands
  <2> QED
    BY <1>2, <1>10, <2>1, StaysApprovable
<1>3. ASSUME UNCHANGED <<status, pending, cleaned, pc>> PROVE OutcomeInv'
  <2>1. ResumesStand' /\ VerdictsStand'
    <3>1. ThreadsRest
      BY <1>2, <1>3 DEF ThreadsRest
    <3> QED
      BY <3>1, RestKeepsThreads
  <2>2. PendingStands' /\ CompletedIsOver'
    BY <1>2, <1>3, <1>10 DEF CompletedIsOver
  <2> QED
    BY <1>1, <2>1, <2>2 DEF OutcomeInv
<1>4. ASSUME NEW t \in Tasks, ChatNew(t) PROVE OutcomeInv'
  BY <1>1, <1>2, <1>4, CreateKeepsOutcome DEF ChatNew, Fresh
<1>5. ASSUME NEW r \in Requests, FollowUpCommit(r) PROVE OutcomeInv'
  <2>1. req[r].task \in Tasks /\ pc[<<req[r].task, 0>>] = "none"
    BY <1>5 DEF FollowUpCommit, FollowUpAlone, TypeOK
  <2>2. CASE CreateRow(req[r].task, req[r].ord)
    BY <1>1, <1>2, <2>1, <2>2, CreateKeepsOutcome
  <2>3. CASE UNCHANGED <<sess, rows, pc>>
    BY <1>3, <2>3
  <2> QED
    BY <1>5, <2>2, <2>3 DEF FollowUpCommit
<1>6. ASSUME NEW r \in Requests, CleanupCommit(r) PROVE OutcomeInv'
  <2>1. UNCHANGED <<pending, pc>>
    BY <1>6 DEF CleanupCommit
  <2>2. \A u \in Tasks : \/ status'[u] = status[u] /\ (u \in cleaned => u \in cleaned')
                         \/ status'[u] = "failed" /\ u \in cleaned'
    BY <1>6 DEF CleanupCommit, TypeOK
  <2>3. PendingStands' /\ CompletedIsOver'
    BY <1>2, <1>10, <2>1, <2>2 DEF CompletedIsOver, TypeOK
  <2>4. ThreadsRest
    BY <1>2, <2>1 DEF ThreadsRest
  <2>5. ResumesStand' /\ VerdictsStand'
    BY <2>4, RestKeepsThreads
  <2> QED
    BY <1>1, <2>3, <2>5
<1>7. ASSUME NEW r \in Requests, NEW n \in 1..MaxResumes, ResumeCommit(r, n)
      PROVE  OutcomeInv'
  <2> DEFINE t == req[r].task
             i == <<t, n>>
  <2>1. /\ t \in Tasks /\ i \in Jobs /\ TaskOf(i) = t /\ req[r].kind = "resume"
        /\ UNCHANGED <<status, cleaned>>
    BY <1>7 DEF ResumeCommit, TypeOK
  <2>2. CASE status[t] = "absent"
    BY <1>3, <1>7, <2>1, <2>2 DEF ResumeCommit
  <2>3. CASE status[t] # "absent"
    <3>1. pending' = pending \ {t} /\ pc' = [pc EXCEPT ![i] = "posting"]
      BY <1>7, <2>3 DEF ResumeCommit
    <3>2. t \in pending
      BY <2>1, <2>3 DEF ResumeReads
    <3>3. (Wipes \/ ckpt[t] = "interrupted") /\ status[t] # "completed"
      BY <3>2 DEF PendingStands, Approvable, Stands
    <3>4. pc'[i] = "posting" /\ \A k \in Jobs : k # i => pc'[k] = pc[k]
      BY <2>1, <3>1 DEF TypeOK
    <3>5. ResumesStand' /\ VerdictsStand'
      <4>1. ThreadsRest
        BY <1>2, <2>1, <3>3, <3>4 DEF ThreadsRest
      <4> QED
        BY <4>1, RestKeepsThreads
    <3>6. PendingStands' /\ CompletedIsOver'
      BY <1>2, <1>10, <2>1, <3>1, <3>3, <3>4 DEF CompletedIsOver
    <3> QED
      BY <1>1, <3>5, <3>6 DEF OutcomeInv
  <2> QED
    BY <2>2, <2>3
<1>8. ASSUME NEW s \in Sessions, DeleteSession(s) PROVE OutcomeInv'
  <2>1. /\ status' = [t \in Tasks |-> IF SessionOf[t] = s THEN "absent" ELSE status[t]]
        /\ pending' = {t \in pending : SessionOf[t] # s}
        /\ cleaned' = {t \in cleaned : SessionOf[t] # s}
        /\ pc' = pc
    BY <1>8 DEF DeleteSession
  <2>2. \A u \in Tasks : status'[u] \in {status[u], "absent"}
    BY <2>1
  <2>6. \A u \in pending' : u \in pending /\ status'[u] = status[u] /\ (u \in cleaned => u \in cleaned')
    BY <2>1 DEF TypeOK
  <2>3. PendingStands' /\ CompletedIsOver'
    BY <1>2, <1>10, <2>1, <2>2, <2>6 DEF CompletedIsOver, TypeOK
  <2>4. ThreadsRest
    BY <1>2, <2>1 DEF ThreadsRest
  <2>5. ResumesStand' /\ VerdictsStand'
    BY <2>4, RestKeepsThreads
  <2> QED
    BY <1>1, <2>3, <2>5
<1>9. ASSUME NEW r \in Requests, NEW t \in Tasks,
             FollowUpRead(r, t) \/ ResumeRead(r, t) \/ CleanupRead(r, t)
      PROVE  OutcomeInv'
  BY <1>3, <1>9 DEF FollowUpRead, ResumeRead, CleanupRead
<1> QED
  BY <1>4, <1>5, <1>6, <1>7, <1>8, <1>9 DEF RequestStep

\* The invariant of the outcomes holds initially and every step keeps it.
LEMMA OutcomesHold ==
  ASSUME LeaseOutlivesRun, ~ResumesOverlap
  PROVE  /\ Init => OutcomeInv
         /\ OutcomeInv /\ [Next]_vars => OutcomeInv'
<1>1. Init => OutcomeInv
  <2> SUFFICES ASSUME Init PROVE OutcomeInv
    OBVIOUS
  <2>1. ExclusionInv /\ RowInv
    BY InitExclusion, RowsHold
  <2>2. PendingStands /\ ResumesStand /\ VerdictsStand /\ CompletedIsOver
    BY PlaceFacts DEF Init, PendingStands, ResumesStand, VerdictsStand, CompletedIsOver,
       BeforeStart, BeforeRun, Leaving
  <2> QED
    BY <2>1, <2>2 DEF OutcomeInv
<1>2. ASSUME OutcomeInv, UNCHANGED vars PROVE OutcomeInv'
  <2>1. ExclusionInv' /\ RowInv'
    BY <1>2, StepExclusion, RowsHold DEF OutcomeInv
  <2>2. ResumesStand' /\ VerdictsStand'
    <3>1. ThreadsRest
      BY <1>2 DEF ThreadsRest, vars
    <3> QED
      BY <1>2, <3>1, RestKeepsThreads DEF OutcomeInv
  <2>3. PendingStands' /\ CompletedIsOver'
    BY <1>2 DEF OutcomeInv, PendingStands, Approvable, Stands, Wipes, CutOff, TaskOf,
                CompletedIsOver, vars, rows
  <2> QED
    BY <2>1, <2>2, <2>3 DEF OutcomeInv
<1> QED
  BY <1>1, <1>2, RequestKeepsOutcome, JobKeepsOutcome, EnvKeepsOutcome DEF Next

\* A task that waits for approval can be resumed: no run is about to move its thread or
\* to write its row, the thread stands at the interrupt unless its checkpoints were
\* cleaned up, and the row says suspended, unless a cleanup or a run cut off at its
\* breakpoint made it say failed.  Whatever fails, under the assumptions of exclusion.
THEOREM Resumable ==
  ASSUME LeaseOutlivesRun, ~ResumesOverlap
  PROVE  Spec => []ApprovalIsResumable
<1>1. OutcomeInv => ApprovalIsResumable
  BY DEF OutcomeInv, ExclusionInv, TypeOK, PendingStands, Approvable, Stands, Wipes, ApprovalAlone,
         ApprovalIsResumable, LiveJobs
<1> QED
  BY <1>1, OutcomesHold, PTL DEF Spec

-----------------------------------------------------------------------------
(* ResearchRun implements ResearchService: every step of the queue, the     *)
(* worker, the lock and the requests is a step of the service or leaves     *)
(* what a user sees of it alone.  First, the task that runs in a session,   *)
(* from the places of its jobs.                                             *)

Holders(p, s) == {j \in Jobs : SessionOfJob(j) = s /\ p[j] \in Critical}

\* With one job at most behind the lock, the task that runs is the task of that job.
LEMMA ActiveIs ==
  ASSUME SessionExclusion, NEW j \in Jobs, pc[j] \in Critical
  PROVE  ActiveTask(SessionOfJob(j)) = TaskOf(j) /\ TaskOf(j) # NoTask
<1> DEFINE P(k) == SessionOfJob(k) = SessionOfJob(j) /\ pc[k] \in Critical
<1>1. \A k \in Jobs : P(k) => k = j
  BY DEF SessionExclusion
<1>2. (CHOOSE k \in Jobs : P(k)) = j
  BY <1>1
<1> QED
  BY <1>2, JobFacts, ConstantsAssumption DEF ActiveTask

\* The same after a step.
LEMMA ActiveIsThen ==
  ASSUME SessionExclusion', NEW j \in Jobs, pc'[j] \in Critical
  PROVE  ActiveTask(SessionOfJob(j))' = TaskOf(j)
<1> DEFINE P(k) == SessionOfJob(k) = SessionOfJob(j) /\ pc'[k] \in Critical
<1>1. \A k \in Jobs : P(k) => k = j
  BY DEF SessionExclusion, SessionOfJob, TaskOf, Critical
<1>2. (CHOOSE k \in Jobs : P(k)) = j
  BY <1>1
<1> QED
  BY <1>2 DEF ActiveTask, SessionOfJob, TaskOf, Critical

\* A session without a job behind its lock has no task that runs, before and after.
LEMMA NoneActive ==
  ASSUME NEW s \in Sessions
  PROVE  /\ ActiveTask(s) # NoTask => Holders(pc, s) # {}
         /\ ActiveTask(s)' # NoTask => Holders(pc', s) # {}
         /\ Holders(pc, s) = {} => ActiveTask(s) = NoTask
BY DEF ActiveTask, Holders, SessionOfJob, TaskOf, Critical

\* A step that takes no job behind a lock and leaves the rows alone ends runs.
LEMMA EndRefines ==
  ASSUME SessionExclusion, SessionExclusion', UNCHANGED <<status, pending>>,
         \A k \in Jobs : pc'[k] \in Critical => pc[k] \in Critical
  PROVE  Service!Next
<1> DEFINE S == {s \in Sessions : ActiveTask(s) # NoTask /\ ActiveTask(s)' = NoTask}
<1>1. ASSUME NEW s \in Sessions, s \notin S PROVE ActiveTask(s)' = ActiveTask(s)
  <2>1. CASE Holders(pc', s) = {}
    BY <1>1, <2>1, NoneActive
  <2>2. ASSUME NEW k \in Holders(pc', s) PROVE ActiveTask(s)' = ActiveTask(s)
    <3>1. k \in Jobs /\ SessionOfJob(k) = s /\ pc'[k] \in Critical /\ pc[k] \in Critical
      BY <2>2 DEF Holders
    <3> QED
      BY <3>1, ActiveIs, ActiveIsThen
  <2> QED
    BY <2>1, <2>2
<1>2. Service!End(S)
  BY <1>1 DEF Service!End
<1> QED
  BY <1>2 DEF Service!Next

\* If the same jobs are behind the locks, the same tasks run.
LEMMA ActiveKept ==
  ASSUME SessionExclusion, SessionExclusion',
         \A k \in Jobs : pc'[k] \in Critical <=> pc[k] \in Critical
  PROVE  \A s \in Sessions : ActiveTask(s)' = ActiveTask(s)
<1> SUFFICES ASSUME NEW s \in Sessions PROVE ActiveTask(s)' = ActiveTask(s)
  OBVIOUS
<1>1. CASE Holders(pc, s) = {}
  <2>1. Holders(pc', s) = {}
    BY <1>1 DEF Holders
  <2> QED
    BY <1>1, <2>1, NoneActive
<1>2. ASSUME NEW k \in Holders(pc, s) PROVE ActiveTask(s)' = ActiveTask(s)
  <2>1. k \in Jobs /\ SessionOfJob(k) = s /\ pc'[k] \in Critical /\ pc[k] \in Critical
    BY <1>2 DEF Holders
  <2> QED
    BY <2>1, ActiveIs, ActiveIsThen
<1> QED
  BY <1>1, <1>2

-----------------------------------------------------------------------------
(* The steps.                                                              *)

\* A step of a job: taking the lock begins a run, leaving it ends one, an archive
\* that finds its row settles or abandons the task, and every other step is not seen.
LEMMA JobRefines ==
  ASSUME NEW j \in Jobs, OutcomeInv, SessionExclusion, SessionExclusion', JobStep(j)
  PROVE  Service!Next \/ UNCHANGED Service!vars
<1> DEFINE t == TaskOf(j)
           s == SessionOfJob(j)
<1> USE JobFacts DEF OutcomeInv, ExclusionInv, RowInv, rows
<1>1. /\ t \in Tasks /\ s \in Sessions /\ s = SessionOf[t] /\ pc[j] \in Live
      /\ \A k \in Jobs : k # j => pc'[k] = pc[k]
  BY JobMoves DEF TypeOK, SessionOfJob
<1>2. t \notin pending
  BY <1>1 DEF ApprovalAlone
<1>3. CASE UNCHANGED <<status, pending>>
  <2>1. CASE pc'[j] \in Critical /\ pc[j] \notin Critical
    <3>1. \A k \in Jobs : k # j /\ pc[k] \in Critical => SessionOfJob(k) # s
      BY <1>1, <2>1 DEF SessionExclusion, SessionOfJob, TaskOf, Critical
    <3>2. ActiveTask(s) = NoTask
      BY <1>1, <2>1, <3>1, NoneActive DEF Holders
    <3>3. ActiveTask(s)' = t
      BY <2>1, ActiveIsThen
    <3>4. ASSUME NEW v \in Sessions, v # s PROVE ActiveTask(v)' = ActiveTask(v)
      <4>1. CASE Holders(pc, v) = {}
        <5>1. Holders(pc', v) = {}
          BY <1>1, <3>4, <4>1 DEF Holders
        <5> QED
          BY <4>1, <5>1, NoneActive
      <4>2. ASSUME NEW k \in Holders(pc, v) PROVE ActiveTask(v)' = ActiveTask(v)
        <5>1. k \in Jobs /\ SessionOfJob(k) = v /\ pc'[k] \in Critical /\ pc[k] \in Critical
          BY <1>1, <3>4, <4>2 DEF Holders
        <5> QED
          BY <5>1, ActiveIs, ActiveIsThen
      <4> QED
        BY <4>1, <4>2
    <3>5. Service!Begin(t)
      BY <1>1, <1>2, <1>3, <3>2, <3>3, <3>4 DEF Service!Begin
    <3> QED
      BY <1>1, <3>5 DEF Service!Next
  <2>2. CASE pc'[j] \in Critical => pc[j] \in Critical
    BY <1>1, <1>3, <2>2, EndRefines
  <2> QED
    BY <2>1, <2>2
<1>4. CASE ~UNCHANGED <<status, pending>>
  <2>2. /\ pc[j] = "archiving" /\ pc'[j] = "done" /\ status[t] # "absent"
        /\ status' = [status EXCEPT ![t] = ArchivedStatus(out[j])]
        /\ pending' = IF j \in bp THEN pending \cup {t} ELSE pending \ {t}
    BY <1>4, JobRows
  <2>3. \/ out[j] \in {"lost", "running"} /\ j \notin bp /\ ArchivedStatus(out[j]) = "running"
        \/ out[j] = "suspended" /\ j \in bp /\ ArchivedStatus(out[j]) = "suspended"
        \/ out[j] = "completed" /\ j \notin bp /\ ArchivedStatus(out[j]) = "completed"
        \/ out[j] = "failed" /\ ArchivedStatus(out[j]) = "failed"
    BY DEF BreakpointsStand, ArchivedStatus, TypeOK, Outcome, RowStatus
  <2>4. status[t] # "completed"
    BY <1>1 DEF CompletedIsOver
  <2>5. pc[j] \notin Critical /\ pc'[j] \notin Critical
    BY <2>2 DEF Critical
  <2>6. \A v \in Sessions : ActiveTask(v)' = ActiveTask(v)
    BY <1>1, <2>5, ActiveKept
  <2>7. ActiveTask(s) # t
    <3>1. \A k \in Jobs : k # j /\ pc[k] \in Critical => TaskOf(k) # t
      BY <1>1, PlaceFacts DEF OneLiveJobPerTask
    <3>2. CASE Holders(pc, s) = {}
      BY <1>1, <3>2, NoneActive, ConstantsAssumption
    <3>3. ASSUME NEW k \in Holders(pc, s) PROVE ActiveTask(s) # t
      <4>1. k \in Jobs /\ SessionOfJob(k) = s /\ pc[k] \in Critical
        BY <3>3 DEF Holders
      <4> QED
        BY <2>5, <3>1, <4>1, ActiveIs
    <3> QED
      BY <3>2, <3>3
  <2>8. pending' = IF j \in bp THEN pending \cup {t} ELSE pending
    BY <1>2, <2>2
  <2>9. CASE out[j] \in {"lost", "running"}
    <3>1. status' = [status EXCEPT ![t] = "running"] /\ pending' = pending
      BY <2>2, <2>3, <2>8, <2>9
    <3>2. Service!Abandon(t)
      BY <1>1, <1>2, <2>2, <2>4, <2>6, <2>7, <3>1 DEF Service!Abandon
    <3> QED
      BY <1>1, <3>2 DEF Service!Next
  <2>10. CASE out[j] \notin {"lost", "running"}
    <3>1. \/ status' = [status EXCEPT ![t] = "suspended"] /\ pending' = pending \cup {t}
          \/ status' = [status EXCEPT ![t] = "completed"] /\ pending' = pending
          \/ /\ status' = [status EXCEPT ![t] = "failed"]
             /\ pending' \in {pending, pending \cup {t}}
      BY <2>2, <2>3, <2>8, <2>10
    <3>2. Service!Settle(t)
      BY <1>1, <1>2, <2>2, <2>4, <2>6, <2>7, <3>1 DEF Service!Settle
    <3> QED
      BY <1>1, <3>2 DEF Service!Next
  <2> QED
    BY <2>9, <2>10
<1> QED
  BY <1>3, <1>4

\* A step of the environment leaves the rows alone and puts no job behind a lock.
LEMMA EnvRefines ==
  ASSUME OutcomeInv, SessionExclusion, SessionExclusion', EnvStep
  PROVE  Service!Next
<1>1. /\ UNCHANGED <<status, pending>>
      /\ \A k \in Jobs : pc'[k] = pc[k] \/ pc'[k] = "dead"
  BY EnvMoves DEF OutcomeInv, RowInv
<1> QED
  BY <1>1, EndRefines, PlaceFacts

\* A row is only created for a task without one.
LEMMA CreateRefines ==
  ASSUME NEW t \in Tasks, NEW n, OutcomeInv, pc[<<t, 0>>] = "none", CreateRow(t, n),
         \A s \in Sessions : ActiveTask(s)' = ActiveTask(s)
  PROVE  Service!Next
<1> USE JobFacts DEF OutcomeInv, ExclusionInv
<1>1. status[t] = "absent"
  BY DEF RowAfterChat
<1>2. t \notin pending
  BY <1>1 DEF ApprovalAlone
<1>3. Service!Create(t)
  BY <1>1, <1>2 DEF Service!Create, CreateRow
<1> QED
  BY <1>3 DEF Service!Next

\* All that a request does to jobs is to post new ones.
OnlyPosts == \A k \in Jobs : pc'[k] = pc[k] \/ (pc'[k] = "posting" /\ pc[k] = "none")

\* A step of a request starts and ends no run: it creates a task, approves one that
\* waits, gives one up, deletes a session, or only reads.
LEMMA RequestRefines ==
  ASSUME OutcomeInv, SessionExclusion, SessionExclusion', RequestStep
  PROVE  Service!Next \/ UNCHANGED Service!vars
<1>0. /\ TypeOK /\ FollowUpAlone /\ ResumeReads /\ SessionMatchesRows
      /\ \A t \in Tasks, n \in 1..MaxResumes : <<t, n>> \in Jobs
  BY JobFacts DEF OutcomeInv, ExclusionInv, RowInv
<1>1. OnlyPosts => \A s \in Sessions : ActiveTask(s)' = ActiveTask(s)
  BY ActiveKept, PlaceFacts DEF OnlyPosts
<1>2. ASSUME UNCHANGED <<status, pending>>, \A s \in Sessions : ActiveTask(s)' = ActiveTask(s)
      PROVE  UNCHANGED Service!vars
  BY <1>2 DEF Service!vars
<1>3. ASSUME UNCHANGED <<status, pending, pc>> PROVE UNCHANGED Service!vars
  <2>1. \A s \in Sessions : ActiveTask(s)' = ActiveTask(s)
    <3>1. OnlyPosts
      BY <1>3 DEF OnlyPosts
    <3> QED
      BY <1>1, <3>1
  <2> QED
    BY <1>2, <1>3, <2>1
<1>4. ASSUME NEW t \in Tasks, ChatNew(t) PROVE Service!Next
  <2>1. pc[<<t, 0>>] = "none" /\ CreateRow(t, 0)
    BY <1>4 DEF ChatNew, Fresh
  <2>2. \A s \in Sessions : ActiveTask(s)' = ActiveTask(s)
    <3>1. OnlyPosts
      BY <1>0, <2>1 DEF OnlyPosts, CreateRow, TypeOK
    <3> QED
      BY <1>1, <3>1
  <2> QED
    BY <2>1, <2>2, CreateRefines
<1>5. ASSUME NEW r \in Requests, FollowUpCommit(r) PROVE Service!Next \/ UNCHANGED Service!vars
  <2> DEFINE t == req[r].task
  <2>1. t \in Tasks /\ pc[<<t, 0>>] = "none"
    BY <1>0, <1>5, JobFacts DEF FollowUpCommit, FollowUpAlone, TypeOK
  <2>2. CASE CreateRow(t, req[r].ord)
    <3>1. OnlyPosts
      BY <1>0, <2>1, <2>2 DEF OnlyPosts, CreateRow, TypeOK
    <3>2. \A s \in Sessions : ActiveTask(s)' = ActiveTask(s)
      BY <1>1, <3>1
    <3> QED
      BY <2>1, <2>2, <3>2, CreateRefines
  <2>3. CASE UNCHANGED <<sess, rows, pc>>
    <3>1. UNCHANGED <<status, pending, pc>>
      BY <2>3 DEF rows
    <3> QED
      BY <1>3, <3>1
  <2> QED
    BY <1>5, <2>2, <2>3 DEF FollowUpCommit
<1>6. ASSUME NEW r \in Requests, CleanupCommit(r) PROVE Service!Next \/ UNCHANGED Service!vars
  <2> DEFINE t == req[r].task
  <2>1. t \in Tasks /\ UNCHANGED <<pending, pc>>
    BY <1>0, <1>6 DEF CleanupCommit, TypeOK
  <2>2. \A s \in Sessions : ActiveTask(s)' = ActiveTask(s)
    BY <1>1, <2>1 DEF OnlyPosts
  <2>3. CASE status[t] = "absent"
    <3>1. status' = status
      BY <1>6, <2>3 DEF CleanupCommit
    <3> QED
      BY <1>3, <2>1, <3>1
  <2>4. CASE status[t] # "absent"
    <3>1. status' = [status EXCEPT ![t] = "failed"]
      BY <1>6, <2>4 DEF CleanupCommit
    <3>2. Service!GiveUp(t)
      BY <2>1, <2>2, <2>4, <3>1 DEF Service!GiveUp
    <3> QED
      BY <2>1, <3>2 DEF Service!Next
  <2> QED
    BY <2>3, <2>4
<1>7. ASSUME NEW r \in Requests, NEW n \in 1..MaxResumes, ResumeCommit(r, n)
      PROVE  Service!Next \/ UNCHANGED Service!vars
  <2> DEFINE t == req[r].task
  <2>1. t \in Tasks /\ <<t, n>> \in Jobs /\ req[r].kind = "resume" /\ status' = status
        /\ pc[<<t, n>>] = "none"
    BY <1>0, <1>7 DEF ResumeCommit, TypeOK
  <2>2. \A s \in Sessions : ActiveTask(s)' = ActiveTask(s)
    <3>1. pc' = pc \/ pc' = [pc EXCEPT ![<<t, n>>] = "posting"]
      BY <1>7 DEF ResumeCommit
    <3>2. OnlyPosts
      BY <1>0, <2>1, <3>1 DEF OnlyPosts, TypeOK
    <3> QED
      BY <1>1, <3>2
  <2>3. CASE status[t] = "absent"
    <3>1. pending' = pending
      BY <1>7, <2>3 DEF ResumeCommit
    <3> QED
      BY <1>2, <2>1, <2>2, <3>1
  <2>4. CASE status[t] # "absent"
    <3>1. t \in pending /\ pending' = pending \ {t}
      BY <1>0, <1>7, <2>1, <2>4 DEF ResumeReads, ResumeCommit
    <3>2. Service!Approve(t)
      BY <2>1, <2>2, <3>1 DEF Service!Approve
    <3> QED
      BY <2>1, <3>2 DEF Service!Next
  <2> QED
    BY <2>3, <2>4
<1>8. ASSUME NEW s \in Sessions, DeleteSession(s) PROVE Service!Next
  <2>1. /\ sess[s] # "absent" /\ pc' = pc
        /\ status' = [t \in Tasks |-> IF SessionOf[t] = s THEN "absent" ELSE status[t]]
        /\ pending' = {t \in pending : SessionOf[t] # s}
    BY <1>8 DEF DeleteSession
  <2>2. \E t \in Tasks : SessionOf[t] = s /\ status[t] # "absent"
    BY <1>0, <1>8, <2>1 DEF SessionMatchesRows, Rows
  <2>3. \A v \in Sessions : ActiveTask(v)' = ActiveTask(v)
    BY <1>1, <2>1 DEF OnlyPosts
  <2>4. Service!Delete(s)
    BY <2>1, <2>2, <2>3 DEF Service!Delete
  <2> QED
    BY <2>4 DEF Service!Next
<1>9. ASSUME NEW r \in Requests, NEW t \in Tasks,
             FollowUpRead(r, t) \/ ResumeRead(r, t) \/ CleanupRead(r, t)
      PROVE  UNCHANGED Service!vars
  <2>1. UNCHANGED <<status, pending, pc>>
    BY <1>9 DEF FollowUpRead, ResumeRead, CleanupRead, rows
  <2> QED
    BY <1>3, <2>1
<1> QED
  BY <1>4, <1>5, <1>6, <1>7, <1>8, <1>9 DEF RequestStep

\* Every step is one of the service's, or is not seen.
LEMMA StepRefines ==
  ASSUME LeaseOutlivesRun, ~ResumesOverlap, OutcomeInv, OutcomeInv', [Next]_vars
  PROVE  [Service!Next]_Service!vars
<1>1. SessionExclusion
  BY InvExcludes DEF OutcomeInv
<1>2. SessionExclusion'
  <2>1. LockCoversRun' /\ OneLiveJobPerTask'
    BY DEF OutcomeInv, ExclusionInv
  <2> QED
    BY <2>1, PlaceFacts DEF SessionExclusion, LockCoversRun, OneLiveJobPerTask, SessionOfJob, TaskOf,
       Critical, Live, InSlot
<1>3. CASE UNCHANGED vars
  <2>1. UNCHANGED <<status, pending, pc>>
    BY <1>3 DEF vars, rows
  <2> QED
    BY <1>1, <1>2, <2>1, ActiveKept DEF Service!vars
<1> QED
  BY <1>1, <1>2, <1>3, JobRefines, EnvRefines, RequestRefines DEF Next

-----------------------------------------------------------------------------
\* Refinement: queue, worker, lock, requests and rows together keep what
\* ResearchService promises, whatever fails, as long as leases outlive runs and
\* clients do not resume a session twice at once.
THEOREM Implements ==
  ASSUME LeaseOutlivesRun, ~ResumesOverlap
  PROVE  Spec => ImplementsService
<1>1. Init => Service!Init
  <2> SUFFICES ASSUME Init PROVE Service!Init
    OBVIOUS
  <2>1. \A s \in Sessions : Holders(pc, s) = {}
    BY DEF Init, Holders, Critical
  <2> QED
    BY <2>1, NoneActive DEF Init, Service!Init
<1>2. OutcomeInv /\ OutcomeInv' /\ [Next]_vars => [Service!Next]_Service!vars
  BY StepRefines
<1> QED
  BY <1>1, <1>2, OutcomesHold, PTL DEF Spec, ImplementsService, Service!Spec

\* A completed task is never reopened: the service knows no such step.
THEOREM NeverReopened ==
  ASSUME LeaseOutlivesRun, ~ResumesOverlap
  PROVE  Spec => CompletedIsNeverReopened
<1>1. TypeOK /\ [Service!Next]_Service!vars
        => \A t \in Tasks : status[t] = "completed" => status'[t] \in {"completed", "failed", "absent"}
  BY DEF TypeOK, Service!Next, Service!vars, Service!Create, Service!Begin, Service!End, Service!Settle,
         Service!Abandon, Service!Approve, Service!GiveUp, Service!Delete
<1>2. OutcomeInv /\ OutcomeInv' /\ [Next]_vars
        => \A t \in Tasks : status[t] = "completed" => status'[t] \in {"completed", "failed", "absent"}
  BY <1>1, StepRefines DEF OutcomeInv, RowInv
<1> QED
  BY <1>2, OutcomesHold, PTL DEF Spec, CompletedIsNeverReopened

\* Requests and the environment make no row running but one they create.
LEMMA OthersRunNothing ==
  ASSUME RowInv, RequestStep \/ EnvStep, NEW t \in Tasks,
         status[t] \notin {"absent", "running"}
  PROVE  status'[t] # "running"
<1> USE JobFacts DEF RowInv
<1>1. ASSUME NEW u \in Tasks, NEW n, CreateRow(u, n), pc[<<u, 0>>] = "none"
      PROVE  status'[t] # "running"
  BY <1>1 DEF RowAfterChat, CreateRow, TypeOK
<1>2. ASSUME NEW u \in Tasks, ChatNew(u) PROVE status'[t] # "running"
  BY <1>1, <1>2 DEF ChatNew, Fresh
<1>3. ASSUME NEW r \in Requests, FollowUpCommit(r) PROVE status'[t] # "running"
  <2>1. req[r].task \in Tasks /\ pc[<<req[r].task, 0>>] = "none"
    BY <1>3 DEF FollowUpCommit, FollowUpAlone, TypeOK
  <2> QED
    BY <1>1, <1>3, <2>1 DEF FollowUpCommit, rows
<1>4. CASE \/ \E r \in Requests, u \in Tasks :
                FollowUpRead(r, u) \/ ResumeRead(r, u) \/ CleanupRead(r, u)
           \/ \E r \in Requests : CleanupCommit(r)
           \/ \E r \in Requests, n \in 1..MaxResumes : ResumeCommit(r, n)
           \/ \E s \in Sessions : DeleteSession(s)
  BY <1>4 DEF FollowUpRead, ResumeRead, CleanupRead, CleanupCommit, ResumeCommit, DeleteSession,
              rows, TypeOK
<1>5. CASE EnvStep
  BY <1>5, EnvMoves
<1> QED
  BY <1>2, <1>3, <1>4, <1>5 DEF RequestStep

\* A row becomes running again only through a resume whose snapshot could not be read,
\* with its thread still at the interrupt, as long as nobody cleans checkpoints up.
THEOREM RunningAgain ==
  ASSUME LeaseOutlivesRun, ~ResumesOverlap, "checkpoint" \notin Faults
  PROVE  Spec => RunningAgainIsUnread
<1> DEFINE Unread(t) ==
      /\ ckpt[t] = "interrupted"
      /\ \E j \in Jobs : TaskOf(j) = t /\ IsResume(j) /\ pc[j] = "archiving" /\ out[j] = "lost"
<1>1. ASSUME OutcomeInv, Next, NEW t \in Tasks,
             status[t] \notin {"absent", "running"}, status'[t] = "running"
      PROVE  Unread(t)
  <2>1. PICK j \in Jobs : JobStep(j)
    BY <1>1, OthersRunNothing DEF Next, OutcomeInv
  <2>2. pc[j] = "archiving" /\ status' = [status EXCEPT ![TaskOf(j)] = ArchivedStatus(out[j])]
    BY <1>1, <2>1, JobRows DEF OutcomeInv, RowInv
  <2>3. TaskOf(j) = t /\ ArchivedStatus(out[j]) = "running"
    BY <1>1, <2>2, JobFacts DEF OutcomeInv, RowInv, TypeOK
  <2>4. out[j] \in {"lost", "running"}
    BY <2>3 DEF ArchivedStatus
  <2>5. out[j] = "lost" /\ IsResume(j) /\ ckpt[t] = "interrupted"
    BY <1>1, <2>2, <2>3, <2>4 DEF OutcomeInv, VerdictsStand, Leaving, Wipes
  <2> QED
    BY <2>2, <2>3, <2>5
<1>2. OutcomeInv /\ [Next]_vars
        => [\A t \in Tasks :
              status[t] \notin {"absent", "running"} /\ status'[t] = "running" => Unread(t)]_status
  BY <1>1 DEF vars, rows
<1> QED
  BY <1>2, OutcomesHold, PTL DEF Spec, RunningAgainIsUnread

-----------------------------------------------------------------------------
(* A message is served once.  BRPOP takes it out of Redis, so nobody else   *)
(* gets it, and a worker that dies takes its jobs with it.                  *)

\* A worker holds a job from BRPOP to the end of its coroutine, and no longer.
HeldAtWork == \A j \in Jobs : host[j] # NoWorker <=> pc[j] \in AtWork

Stage ==
  [p \in Places |->
     CASE p = "none"       -> 0
       [] p = "posting"    -> 1
       [] p = "queued"     -> 2
       [] p = "waiting"    -> 3
       [] p = "locking"    -> 4
       [] p = "contending" -> 5
       [] p = "renewing"   -> 6
       [] p = "running"    -> 7
       [] p = "ended"      -> 8
       [] p = "publishing" -> 9
       [] p = "releasing"  -> 10
       [] p = "archiving"  -> 11
       [] OTHER            -> 12]

LEMMA Stages ==
  /\ Stage["none"] = 0 /\ Stage["posting"] = 1 /\ Stage["queued"] = 2 /\ Stage["waiting"] = 3
  /\ Stage["locking"] = 4 /\ Stage["contending"] = 5 /\ Stage["renewing"] = 6
  /\ Stage["running"] = 7 /\ Stage["ended"] = 8 /\ Stage["publishing"] = 9
  /\ Stage["releasing"] = 10 /\ Stage["archiving"] = 11 /\ Stage["done"] = 12
  /\ Stage["unsaved"] = 12 /\ Stage["refused"] = 12 /\ Stage["dead"] = 12
BY DEF Stage, Places

Later(p, q) == Stage[p] < Stage[q]

JobsAdvance == \A j \in Jobs : pc'[j] = pc[j] \/ Later(pc[j], pc'[j])

LEMMA StepAdvances ==
  ASSUME RowInv, HeldAtWork, [Next]_vars PROVE HeldAtWork' /\ JobsAdvance
<1> USE DEF HeldAtWork, JobsAdvance, AtWork, InSlot, Later
<1>1. /\ TypeOK /\ pc \in [Jobs -> Places] /\ host \in [Jobs -> Workers \cup {NoWorker}]
      /\ NoWorker \notin Workers
  BY ConstantsAssumption DEF RowInv, TypeOK
<1>2. ASSUME NEW j \in Jobs, pc[j] = "none", pc' = [pc EXCEPT ![j] = "posting"], host' = host
      PROVE  HeldAtWork' /\ JobsAdvance
  BY <1>1, <1>2, Stages
<1>3. CASE UNCHANGED <<pc, host>>
  BY <1>3
<1>4. CASE RequestStep
  <2>1. ASSUME NEW t \in Tasks, ChatNew(t) PROVE HeldAtWork' /\ JobsAdvance
    BY <1>2, <2>1, JobFacts DEF ChatNew, CreateRow, Fresh
  <2>2. ASSUME NEW r \in Requests, FollowUpCommit(r) PROVE HeldAtWork' /\ JobsAdvance
    <3>1. req[r].task \in Tasks /\ req[r].kind = "followup" /\ host' = host
      BY <1>1, <2>2 DEF FollowUpCommit, TypeOK
    <3>2. pc[<<req[r].task, 0>>] = "none" /\ <<req[r].task, 0>> \in Jobs
      BY <3>1, JobFacts DEF RowInv, FollowUpAlone
    <3>3. CASE UNCHANGED pc
      BY <1>3, <3>1, <3>3
    <3>4. CASE CreateRow(req[r].task, req[r].ord)
      BY <1>2, <3>1, <3>2, <3>4 DEF CreateRow
    <3> QED
      BY <2>2, <3>3, <3>4 DEF FollowUpCommit
  <2>3. ASSUME NEW r \in Requests, NEW n \in 1..MaxResumes, ResumeCommit(r, n)
        PROVE  HeldAtWork' /\ JobsAdvance
    <3>1. req[r].task \in Tasks /\ pc[<<req[r].task, n>>] = "none" /\ host' = host
      BY <1>1, <2>3 DEF ResumeCommit, TypeOK
    <3>2. <<req[r].task, n>> \in Jobs
      BY <3>1, JobFacts
    <3> QED
      BY <1>2, <1>3, <2>3, <3>1, <3>2 DEF ResumeCommit
  <2>4. CASE \/ \E r \in Requests, t \in Tasks :
                  FollowUpRead(r, t) \/ ResumeRead(r, t) \/ CleanupRead(r, t)
             \/ \E r \in Requests : CleanupCommit(r)
             \/ \E s \in Sessions : DeleteSession(s)
    BY <1>3, <2>4 DEF FollowUpRead, ResumeRead, CleanupRead, CleanupCommit, DeleteSession
  <2> QED
    BY <1>4, <2>1, <2>2, <2>3, <2>4 DEF RequestStep
<1>5. ASSUME NEW j \in Jobs, NEW p \in Places, pc' = [pc EXCEPT ![j] = p], Later(pc[j], p),
             host' = host, pc[j] \in AtWork <=> p \in AtWork
      PROVE  HeldAtWork' /\ JobsAdvance
  <2>1. pc'[j] = p /\ \A k \in Jobs : k # j => pc'[k] = pc[k]
    BY <1>1, <1>5
  <2> QED
    BY <1>5, <2>1
<1>9. ASSUME NEW j \in Jobs, NEW p \in Places, pc' = [pc EXCEPT ![j] = p], Later(pc[j], p),
             NEW w \in Workers \cup {NoWorker}, host' = [host EXCEPT ![j] = w],
             w # NoWorker <=> p \in AtWork
      PROVE  HeldAtWork' /\ JobsAdvance
  <2>1. /\ pc'[j] = p /\ host'[j] = w
        /\ \A k \in Jobs : k # j => pc'[k] = pc[k] /\ host'[k] = host[k]
    BY <1>1, <1>9
  <2> QED
    BY <1>9, <2>1
<1>10. ASSUME NEW j \in Jobs, NEW p \in Places, pc' = [pc EXCEPT ![j] = p], Later(pc[j], p),
              host' = [host EXCEPT ![j] = NoWorker], p \notin AtWork
       PROVE  HeldAtWork' /\ JobsAdvance
  BY <1>9, <1>10
<1>6. ASSUME NEW j \in Jobs, JobStep(j) PROVE HeldAtWork' /\ JobsAdvance
  <2>1. CASE Superstep(j)
    BY <1>3, <2>1 DEF Superstep
  <2>2. ASSUME NEW p \in Places, pc' = [pc EXCEPT ![j] = p], Later(pc[j], p), host' = host,
               pc[j] \in AtWork <=> p \in AtWork
        PROVE  HeldAtWork' /\ JobsAdvance
    BY <1>5, <2>2
  <2>3. CASE Post(j)
    BY <2>2, <2>3, Stages DEF Post, Places
  <2>4. ASSUME NEW w \in Workers, Pop(j, w) PROVE HeldAtWork' /\ JobsAdvance
    <3>1. /\ pc[j] = "queued" /\ pc' = [pc EXCEPT ![j] = "waiting"]
          /\ host' = [host EXCEPT ![j] = w] /\ w # NoWorker
      BY <1>1, <2>4 DEF Pop
    <3>2. Later(pc[j], "waiting") /\ "waiting" \in Places
      BY <3>1, Stages DEF Places
    <3> QED
      BY <1>9, <3>1, <3>2
  <2>5. CASE Start(j)
    BY <2>2, <2>5, Stages DEF Start, Places
  <2>6. CASE TryLock(j)
    <3>1. pc[j] = "locking" /\ host' = host
      BY <2>6 DEF TryLock
    <3>2. \E p \in {"releasing", "running", "contending"} : pc' = [pc EXCEPT ![j] = p]
      BY <2>6 DEF TryLock, Enter
    <3> QED
      BY <2>2, <3>1, <3>2, Stages DEF Places
  <2>7. CASE CheckOwner(j)
    <3>1. CASE pc' = [pc EXCEPT ![j] = "renewing"] /\ host' = host
      BY <2>2, <2>7, <3>1, Stages DEF CheckOwner, Places
    <3>2. CASE pc' = [pc EXCEPT ![j] = "refused"] /\ host' = [host EXCEPT ![j] = NoWorker]
      <4>1. pc[j] = "contending"
        BY <2>7 DEF CheckOwner
      <4>2. Later(pc[j], "refused") /\ "refused" \in Places /\ "refused" \notin AtWork
        BY <4>1, Stages DEF Places
      <4> QED
        BY <1>10, <3>2, <4>2
    <3> QED
      BY <2>7, <3>1, <3>2 DEF CheckOwner
  <2>8. CASE Renew(j)
    <3>1. pc[j] = "renewing" /\ host' = host
      BY <2>8 DEF Renew
    <3>2. \E p \in {"releasing", "running"} : pc' = [pc EXCEPT ![j] = p]
      BY <2>8 DEF Renew, Enter
    <3> QED
      BY <2>2, <3>1, <3>2, Stages DEF Places
  <2>9. CASE EndStream(j)
    BY <2>2, <2>9, Stages DEF EndStream, Places
  <2>10. CASE RunFails(j) \/ Announce(j)
    <3>1. pc[j] \in {"running", "ended", "publishing"} /\ host' = host
          /\ pc' = [pc EXCEPT ![j] = "releasing"]
      BY <2>10 DEF RunFails, Announce
    <3> QED
      BY <2>2, <3>1, Stages DEF Places
  <2>13. CASE Inspect(j)
    BY <2>2, <2>13, Stages DEF Inspect, Places
  <2>11. CASE Release(j)
    BY <2>2, <2>11, Stages DEF Release, Places
  <2>12. CASE Archive(j)
    <3>1. pc[j] = "archiving" /\ host' = [host EXCEPT ![j] = NoWorker]
      BY <2>12 DEF Archive
    <3>2. \E p \in {"done", "unsaved"} : pc' = [pc EXCEPT ![j] = p]
      BY <2>12 DEF Archive
    <3>3. \A p \in {"done", "unsaved"} : Later(pc[j], p) /\ p \in Places /\ p \notin AtWork
      BY <3>1, Stages DEF Places
    <3> QED
      BY <1>10, <3>1, <3>2, <3>3
  <2> QED
    BY <1>6, <2>1, <2>3, <2>4, <2>5, <2>6, <2>7, <2>8, <2>9, <2>10, <2>11, <2>12,
       <2>13 DEF JobStep, JobProgress
<1>7. CASE EnvStep
  <2>1. ASSUME NEW j \in Jobs, PostFails(j) \/ PopFails(j) PROVE HeldAtWork' /\ JobsAdvance
    <3>1. pc[j] \in {"posting", "queued"} /\ pc' = [pc EXCEPT ![j] = "dead"] /\ host' = host
      BY <2>1 DEF PostFails, PopFails
    <3>2. Later(pc[j], "dead") /\ "dead" \in Places /\ (pc[j] \in AtWork <=> "dead" \in AtWork)
      BY <3>1, Stages DEF Places
    <3> QED
      BY <1>5, <3>1, <3>2
  <2>2. ASSUME NEW j \in Jobs, StartFails(j) PROVE HeldAtWork' /\ JobsAdvance
    <3>1. pc[j] \in {"locking", "contending", "renewing"} /\ host' = [host EXCEPT ![j] = NoWorker]
          /\ pc' = [pc EXCEPT ![j] = "dead"]
      BY <2>2 DEF StartFails
    <3>2. Later(pc[j], "dead") /\ "dead" \in Places /\ "dead" \notin AtWork
      BY <3>1, Stages DEF Places
    <3> QED
      BY <1>10, <3>1, <3>2
  <2>3. ASSUME NEW w \in Workers, Crash(w) PROVE HeldAtWork' /\ JobsAdvance
    <3>1. \A j \in Jobs : IF host[j] = w THEN pc'[j] = "dead" /\ host'[j] = NoWorker
                          ELSE pc'[j] = pc[j] /\ host'[j] = host[j]
      BY <2>3 DEF Crash
    <3>2. \A j \in Jobs : host[j] = w => pc[j] \in AtWork
      BY <1>1
    <3>3. \A j \in Jobs : pc[j] \in AtWork => Later(pc[j], "dead")
      BY Stages
    <3> QED
      BY <1>1, <3>1, <3>2, <3>3
  <2>4. CASE \/ \E s \in Sessions : LockExpires(s)
             \/ \E t \in Tasks : CheckpointsCleaned(t)
    BY <1>3, <2>4 DEF LockExpires, CheckpointsCleaned
  <2> QED
    BY <1>7, <2>1, <2>2, <2>3, <2>4 DEF EnvStep
<1>8. CASE UNCHANGED vars
  BY <1>3, <1>8 DEF vars
<1> QED
  BY <1>4, <1>6, <1>7, <1>8 DEF Next

\* No message is served twice, with every failure and any overlap of requests: a job
\* only moves towards its end, so it is posted, popped, let behind the lock and
\* archived at most once and takes a bounded number of steps but for those of its
\* graph; a worker holds exactly the jobs that are at work.
THEOREM ServedOnce == Spec => []HeldAtWork /\ [][JobsAdvance]_vars
<1>1. Init => HeldAtWork
  BY DEF Init, HeldAtWork, AtWork, InSlot
<1>2. RowInv /\ HeldAtWork /\ [Next]_vars => HeldAtWork' /\ [JobsAdvance]_vars
  BY StepAdvances
<1> QED
  BY <1>1, <1>2, RowsHold, PTL DEF Spec

=============================================================================
