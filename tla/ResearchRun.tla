----------------------------- MODULE ResearchRun -----------------------------
(***************************************************************************)
(* The life of a research task: the chat, resume, reconnect and delete     *)
(* handlers of the API process, the Redis queue, the worker that runs the  *)
(* task's graph under the lock of its session, and the rows that record    *)
(* the outcome.  Code: backend/api/chat.py, backend/services/              *)
(* chat_service.py, backend/worker.py, backend/services/sse/manager.py,    *)
(* backend/services/research_lifecycle.py, backend/db/crud.py.             *)
(*                                                                         *)
(* A job is one message of the queue: <<t, 0>> is the run the chat handler *)
(* enqueues for task t, <<t, n>> the run its n-th resume enqueues.         *)
(***************************************************************************)
EXTENDS Integers, FiniteSets

CONSTANTS
  Sessions,           \* research sessions (research_id)
  Tasks,              \* task ids; uuid4, never used twice
  SessionOf,          \* the session a task id is created for
  HitlTasks,          \* tasks whose chat request sets control.enable_hitl
  Workers,            \* worker processes
  Requests,           \* API requests in flight at a time (a bound)
  NoTask, NoWorker,   \* null values
  MaxConcurrentJobs,  \* MAX_CONCURRENT_JOBS, the slots of one worker
  MaxResumes,         \* bound: resumes committed for one task
  LeaseOutlivesRun,   \* environment: no lock expires under a run that holds it
  ResumesOverlap,     \* environment: clients may resume a session twice at once
  Faults              \* environment: which failures happen

FaultKinds ==
  {"crash",       \* a worker process dies
   "post",        \* an API handler fails between its commit and the LPUSH
   "pop",         \* a message that left the queue cannot be read
   "start",       \* a job fails before the try block of execute_and_publish
   "snapshot",    \* aget_state before the lock fails and is swallowed
   "release",     \* deleting the lock fails and is swallowed
   "archive",     \* saving the result fails and is swallowed
   "checkpoint"}  \* the checkpoints of an old task are cleaned up

ASSUME ConstantsAssumption ==
  /\ SessionOf \in [Tasks -> Sessions]
  /\ HitlTasks \subseteq Tasks
  /\ NoTask \notin Tasks
  /\ NoWorker \notin Workers
  /\ MaxConcurrentJobs \in Nat \ {0}
  /\ MaxResumes \in Nat
  /\ LeaseOutlivesRun \in BOOLEAN
  /\ ResumesOverlap \in BOOLEAN
  /\ Faults \subseteq FaultKinds

VARIABLES
  sess,     \* session row: its status, or "absent"
  status,   \* task row: its status, or "absent" when there is no row
  pending,  \* the tasks whose row has pending_approval
  ord,      \* task row: its ordinal
  cleaned,  \* the tasks whose row carries the error_log of a cleanup
  req,      \* API requests between a read of the database and their commit
  pc,       \* where a job is
  host,     \* the worker that popped a job
  hasNext,  \* the jobs whose snapshot, read before locking, had a next node
  out,      \* research_status of a job's run, kept while it runs and in what it saved
  bp,       \* the jobs whose run has set is_breakpoint, likewise
  lock,     \* lock:research:<session>, the owner's task id
  ckpt      \* what the checkpoint of a task's thread says

rows == <<status, pending, ord, cleaned>>
vars == <<sess, rows, req, pc, host, hasNext, out, bp, lock, ckpt>>

Jobs == Tasks \X (0..MaxResumes)
TaskOf(j) == j[1]
IsResume(j) == j[2] > 0
SessionOfJob(j) == SessionOf[TaskOf(j)]

RowStatus == {"running", "suspended", "completed", "failed"}
Outcome == RowStatus \cup {"lost"}
Places == {"none", "posting", "queued", "waiting", "locking", "contending",
           "renewing", "running", "ended", "publishing", "releasing",
           "archiving", "done", "unsaved", "refused", "dead"}

\* The places of a job that has a slot of its worker's semaphore.
InSlot == {"locking", "contending", "renewing", "running", "ended",
           "publishing", "releasing", "archiving"}
\* The places of a job that believes it owns the lock of its session.
Critical == {"renewing", "running", "ended", "publishing", "releasing"}
\* The places of a job that may still change a row, the lock or a checkpoint.
Live == {"posting", "queued", "waiting"} \cup InSlot

Idle == [kind |-> "idle", task |-> NoTask, ord |-> 0]

Rows(s) == {t \in Tasks : SessionOf[t] = s /\ status[t] # "absent"}
\* ORDER BY ordinal DESC LIMIT 1; a tie is broken arbitrarily.
Latest(S) == {t \in S : \A u \in S : ord[u] <= ord[t]}
Fresh(t) == pc[<<t, 0>>] = "none" /\ \A r \in Requests : req[r].task # t

TypeOK ==
  /\ sess \in [Sessions -> {"absent"} \cup RowStatus]
  /\ status \in [Tasks -> {"absent"} \cup RowStatus]
  /\ pending \subseteq Tasks
  /\ ord \in [Tasks -> Nat]
  /\ cleaned \subseteq Tasks
  /\ req \in [Requests -> [kind : {"idle", "followup", "resume", "cleanup"},
                           task : Tasks \cup {NoTask}, ord : Nat]]
  /\ \A r \in Requests : req[r].kind # "idle" => req[r].task \in Tasks
  /\ pc \in [Jobs -> Places]
  /\ host \in [Jobs -> Workers \cup {NoWorker}]
  /\ hasNext \subseteq Jobs
  /\ out \in [Jobs -> Outcome]
  /\ bp \subseteq Jobs
  /\ lock \in [Sessions -> Tasks \cup {NoTask}]
  /\ ckpt \in [Tasks -> {"none", "midway", "interrupted", "done"}]

Init ==
  /\ sess = [s \in Sessions |-> "absent"]
  /\ status = [t \in Tasks |-> "absent"]
  /\ pending = {}
  /\ ord = [t \in Tasks |-> 0]
  /\ cleaned = {}
  /\ req = [r \in Requests |-> Idle]
  /\ pc = [j \in Jobs |-> "none"]
  /\ host = [j \in Jobs |-> NoWorker]
  /\ hasNext = {}
  /\ out = [j \in Jobs |-> "running"]
  /\ bp = {}
  /\ lock = [s \in Sessions |-> NoTask]
  /\ ckpt = [t \in Tasks |-> "none"]

-----------------------------------------------------------------------------
(* The API process.                                                        *)

\* crud.create_research_task: the row, and the session back to "running".
CreateRow(t, n) ==
  /\ status' = [status EXCEPT ![t] = "running"]
  /\ pending' = pending \ {t}
  /\ ord' = [ord EXCEPT ![t] = n]
  /\ cleaned' = cleaned \ {t}
  /\ sess' = [sess EXCEPT ![SessionOf[t]] = "running"]
  /\ pc' = [pc EXCEPT ![<<t, 0>>] = "posting"]

\* A chat request without a session: session and first task in one commit.
ChatNew(t) ==
  /\ Fresh(t)
  /\ sess[SessionOf[t]] = "absent"
  /\ CreateRow(t, 0)
  /\ UNCHANGED <<req, host, hasNext, out, bp, lock, ckpt>>

\* A follow-up reads the session and its last ordinal ...
FollowUpRead(r, t) ==
  /\ req[r] = Idle
  /\ Fresh(t)
  /\ sess[SessionOf[t]] # "absent"
  /\ \E last \in Latest(Rows(SessionOf[t])) :
       req' = [req EXCEPT ![r] = [kind |-> "followup", task |-> t,
                                  ord |-> ord[last] + 1]]
  /\ UNCHANGED <<sess, rows, pc, host, hasNext, out, bp, lock, ckpt>>

\* ... and inserts its row with that ordinal, unless the session is gone.
FollowUpCommit(r) ==
  /\ req[r].kind = "followup"
  /\ req' = [req EXCEPT ![r] = Idle]
  /\ IF sess[SessionOf[req[r].task]] # "absent"
       THEN CreateRow(req[r].task, req[r].ord)
       ELSE UNCHANGED <<sess, rows, pc>>
  /\ UNCHANGED <<host, hasNext, out, bp, lock, ckpt>>

\* Mutant: the query forgets that the task must be suspended and pending.
ResumeReadAny(r, t) ==
  /\ req[r] = Idle
  /\ t \in Latest(Rows(SessionOf[t]))
  /\ ResumesOverlap \/ \A q \in Requests :
       req[q].kind = "resume" => SessionOf[req[q].task] # SessionOf[t]
  /\ req' = [req EXCEPT ![r] = [kind |-> "resume", task |-> t, ord |-> 0]]
  /\ UNCHANGED <<sess, rows, pc, host, hasNext, out, bp, lock, ckpt>>

\* A resume request selects the latest task that waits for approval ...
ResumeRead(r, t) ==
  /\ req[r] = Idle
  /\ t \in Latest({u \in Rows(SessionOf[t]) :
                     status[u] = "suspended" /\ u \in pending})
  /\ ResumesOverlap \/ \A q \in Requests :
       req[q].kind = "resume" => SessionOf[req[q].task] # SessionOf[t]
  /\ req' = [req EXCEPT ![r] = [kind |-> "resume", task |-> t, ord |-> 0]]
  /\ UNCHANGED <<sess, rows, pc, host, hasNext, out, bp, lock, ckpt>>

\* Mutant: the flag is not reset.
ResumeCommitKeepsFlag(r, n) ==
  /\ req[r].kind = "resume"
  /\ pc[<<req[r].task, n>>] = "none"
  /\ \A m \in 1..(n - 1) : pc[<<req[r].task, m>>] # "none"
  /\ req' = [req EXCEPT ![r] = Idle]
  /\ status[req[r].task] # "absent"
  /\ pc' = [pc EXCEPT ![<<req[r].task, n>>] = "posting"]
  /\ UNCHANGED <<sess, rows, host, hasNext, out, bp, lock, ckpt>>

\* ... and commits pending_approval = False without looking again.
ResumeCommit(r, n) ==
  LET t == req[r].task
  IN  /\ req[r].kind = "resume"
      /\ pc[<<t, n>>] = "none"
      /\ \A m \in 1..(n - 1) : pc[<<t, m>>] # "none"
      /\ req' = [req EXCEPT ![r] = Idle]
      /\ IF status[t] # "absent"
           THEN /\ pending' = pending \ {t}
                /\ pc' = [pc EXCEPT ![<<t, n>>] = "posting"]
           ELSE UNCHANGED <<pending, pc>>
      /\ UNCHANGED <<sess, status, ord, cleaned, host, hasNext, out, bp, lock, ckpt>>

\* A reconnect finds the latest running task older than the threshold ...
CleanupRead(r, t) ==
  /\ req[r] = Idle
  /\ t \in Latest({u \in Rows(SessionOf[t]) : status[u] = "running"})
  /\ req' = [req EXCEPT ![r] = [kind |-> "cleanup", task |-> t, ord |-> 0]]
  /\ UNCHANGED <<sess, rows, pc, host, hasNext, out, bp, lock, ckpt>>

\* Mutant: the session's status is written even if it was deleted meanwhile.
CleanupCommitUpsert(r) ==
  /\ req[r].kind = "cleanup"
  /\ req' = [req EXCEPT ![r] = Idle]
  /\ sess' = [sess EXCEPT ![SessionOf[req[r].task]] = "failed"]
  /\ UNCHANGED <<rows, pc, host, hasNext, out, bp, lock, ckpt>>

\* ... and marks it, with a message in its error_log, and its session failed, by id.
CleanupCommit(r) ==
  LET t == req[r].task
      s == SessionOf[t]
  IN  /\ req[r].kind = "cleanup"
      /\ req' = [req EXCEPT ![r] = Idle]
      /\ IF status[t] = "absent"
           THEN UNCHANGED <<status, cleaned>>
           ELSE /\ status' = [status EXCEPT ![t] = "failed"]
                /\ cleaned' = cleaned \cup {t}
      /\ sess' = IF sess[s] = "absent" THEN sess
                 ELSE [sess EXCEPT ![s] = "failed"]
      /\ UNCHANGED <<pending, ord, pc, host, hasNext, out, bp, lock, ckpt>>

\* DELETE /researches/{id}: the rows go, queue, lock and jobs stay.
DeleteSession(s) ==
  /\ sess[s] # "absent"
  /\ sess' = [sess EXCEPT ![s] = "absent"]
  /\ status' = [t \in Tasks |-> IF SessionOf[t] = s THEN "absent" ELSE status[t]]
  /\ pending' = {t \in pending : SessionOf[t] # s}
  /\ ord' = [t \in Tasks |-> IF SessionOf[t] = s THEN 0 ELSE ord[t]]
  /\ cleaned' = {t \in cleaned : SessionOf[t] # s}
  /\ UNCHANGED <<req, pc, host, hasNext, out, bp, lock, ckpt>>

\* LPUSH, after the commit that created the job.
Post(j) ==
  /\ pc[j] = "posting"
  /\ pc' = [pc EXCEPT ![j] = "queued"]
  /\ UNCHANGED <<sess, rows, req, host, hasNext, out, bp, lock, ckpt>>

\* The handler fails between its commit and the LPUSH, or the LPUSH fails.
PostFails(j) ==
  /\ "post" \in Faults
  /\ pc[j] = "posting"
  /\ pc' = [pc EXCEPT ![j] = "dead"]
  /\ UNCHANGED <<sess, rows, req, host, hasNext, out, bp, lock, ckpt>>

-----------------------------------------------------------------------------
(* The worker process.                                                     *)

\* BRPOP has taken the message, and its reply is lost or cannot be read.
PopFails(j) ==
  /\ "pop" \in Faults
  /\ pc[j] = "queued"
  /\ pc' = [pc EXCEPT ![j] = "dead"]
  /\ UNCHANGED <<sess, rows, req, host, hasNext, out, bp, lock, ckpt>>

\* BRPOP and create_task: the message now exists in the worker's memory only.
Pop(j, w) ==
  /\ pc[j] = "queued"
  /\ pc' = [pc EXCEPT ![j] = "waiting"]
  /\ host' = [host EXCEPT ![j] = w]
  /\ UNCHANGED <<sess, rows, req, hasNext, out, bp, lock, ckpt>>

SlotsUsed(w) == {j \in Jobs : host[j] = w /\ pc[j] \in InSlot}

\* A slot of the semaphore, aupdate_state for a resume, then aget_state.  On a
\* thread that has no checkpoint aupdate_state may start one.
Start(j) ==
  /\ pc[j] = "waiting"
  /\ Cardinality(SlotsUsed(host[j])) < MaxConcurrentJobs
  /\ \E c \in IF IsResume(j) /\ ckpt[TaskOf(j)] = "none" THEN {"none", "midway"}
              ELSE {ckpt[TaskOf(j)]} :
       /\ ckpt' = [ckpt EXCEPT ![TaskOf(j)] = c]
       /\ \/ hasNext' = IF c \in {"midway", "interrupted"} THEN hasNext \cup {j}
                        ELSE hasNext \ {j}
          \/ "snapshot" \in Faults /\ hasNext' = hasNext \ {j}
  /\ pc' = [pc EXCEPT ![j] = "locking"]
  /\ UNCHANGED <<sess, rows, req, host, out, bp, lock>>

\* Anything raised before the try block ends the job without an archive.
StartFails(j) ==
  /\ "start" \in Faults
  /\ pc[j] \in {"locking", "contending", "renewing"}
  /\ pc' = [pc EXCEPT ![j] = "dead"]
  /\ host' = [host EXCEPT ![j] = NoWorker]
  /\ UNCHANGED <<sess, rows, req, hasNext, out, bp, lock, ckpt>>

\* Behind the lock: run the graph, unless a resume found nothing to resume.
Enter(j) ==
  IF IsResume(j) /\ j \notin hasNext
    THEN /\ pc' = [pc EXCEPT ![j] = "releasing"]
         /\ out' = [out EXCEPT ![j] = "lost"]
    ELSE /\ pc' = [pc EXCEPT ![j] = "running"]
         /\ out' = out

\* Mutant: SET without NX.
TryLockNoNx(j) ==
  /\ pc[j] = "locking"
  /\ lock' = [lock EXCEPT ![SessionOfJob(j)] = TaskOf(j)]
  /\ Enter(j)
  /\ UNCHANGED <<sess, rows, req, host, hasNext, bp, ckpt>>

\* SET NX EX: free, or look who owns it.
TryLock(j) ==
  LET s == SessionOfJob(j)
  IN  /\ pc[j] = "locking"
      /\ \/ /\ lock[s] = NoTask
            /\ lock' = [lock EXCEPT ![s] = TaskOf(j)]
            /\ Enter(j)
         \/ /\ lock[s] # NoTask
            /\ pc' = [pc EXCEPT ![j] = "contending"]
            /\ UNCHANGED <<lock, out>>
      /\ UNCHANGED <<sess, rows, req, host, hasNext, bp, ckpt>>

\* Mutant: any owner passes for the job's own task.
CheckOwnerAny(j) ==
  /\ pc[j] = "contending"
  /\ pc' = [pc EXCEPT ![j] = "renewing"]
  /\ UNCHANGED <<sess, rows, req, host, hasNext, out, bp, lock, ckpt>>

\* Mutant: a job waits for the lock to become its own.
CheckOwnerWaits(j) ==
  /\ pc[j] = "contending"
  /\ lock[SessionOfJob(j)] = TaskOf(j)
  /\ pc' = [pc EXCEPT ![j] = "renewing"]
  /\ UNCHANGED <<sess, rows, req, host, hasNext, out, bp, lock, ckpt>>

\* GET: the same task re-enters, any other job is turned away for good.
CheckOwner(j) ==
  /\ pc[j] = "contending"
  /\ \/ /\ lock[SessionOfJob(j)] = TaskOf(j)
        /\ pc' = [pc EXCEPT ![j] = "renewing"]
        /\ host' = host
     \/ /\ lock[SessionOfJob(j)] # TaskOf(j)
        /\ pc' = [pc EXCEPT ![j] = "refused"]
        /\ host' = [host EXCEPT ![j] = NoWorker]
  /\ UNCHANGED <<sess, rows, req, hasNext, out, bp, lock, ckpt>>

\* EXPIRE: it does nothing to a lock that has gone meanwhile.
Renew(j) ==
  /\ pc[j] = "renewing"
  /\ Enter(j)
  /\ UNCHANGED <<sess, rows, req, host, hasNext, bp, lock, ckpt>>

\* A node of the graph ends and its checkpoint is written.
Superstep(j) ==
  /\ pc[j] = "running"
  /\ ckpt[TaskOf(j)] # "midway"
  /\ ckpt' = [ckpt EXCEPT ![TaskOf(j)] = "midway"]
  /\ UNCHANGED <<sess, rows, req, pc, host, hasNext, out, bp, lock>>

\* The event stream ends: the graph is finished or stopped before a node
\* that needs approval.
EndStream(j) ==
  /\ pc[j] = "running"
  /\ \E c \in {"done"} \cup (IF IsResume(j) \/ TaskOf(j) \in HitlTasks
                               THEN {"interrupted"} ELSE {}) :
       ckpt' = [ckpt EXCEPT ![TaskOf(j)] = c]
  /\ pc' = [pc EXCEPT ![j] = "ended"]
  /\ UNCHANGED <<sess, rows, req, host, hasNext, out, bp, lock>>

\* Mutant: a run that fails leaves without the finally block.
RunFailsNoArchive(j) ==
  /\ pc[j] \in {"running", "ended", "publishing"}
  /\ pc' = [pc EXCEPT ![j] = "done"]
  /\ host' = [host EXCEPT ![j] = NoWorker]
  /\ out' = [out EXCEPT ![j] = "failed"]
  /\ UNCHANGED <<sess, rows, req, hasNext, bp, lock, ckpt>>

\* An error line of the stream, an exception or a cancellation of the coroutine,
\* until the verdict is published.  is_breakpoint stays what it is.
RunFails(j) ==
  /\ pc[j] \in {"running", "ended", "publishing"}
  /\ pc' = [pc EXCEPT ![j] = "releasing"]
  /\ out' = [out EXCEPT ![j] = "failed"]
  /\ UNCHANGED <<sess, rows, req, host, hasNext, bp, lock, ckpt>>

\* Mutant: a finished graph may be taken for one that waits for approval.
VerdictsLoose(c) == IF c = "done" THEN {"completed", "suspended"} ELSE {"suspended"}

\* What aget_state after the stream makes of the run.  A checkpoint that still
\* has a next node is one another run of the same thread is writing.
Verdicts(c) == CASE c = "interrupted" -> {"suspended"}
                 [] c = "done"        -> {"completed"}
                 [] c = "midway"      -> {"running", "suspended"}
                 [] c = "none"        -> {"running"}

\* The verdict sets research_status and is_breakpoint ...
Inspect(j) ==
  /\ pc[j] = "ended"
  /\ \E v \in Verdicts(ckpt[TaskOf(j)]) :
       /\ out' = [out EXCEPT ![j] = v]
       /\ bp' = IF v = "suspended" THEN bp \cup {j} ELSE bp
  /\ pc' = [pc EXCEPT ![j] = "publishing"]
  /\ UNCHANGED <<sess, rows, req, host, hasNext, lock, ckpt>>

\* ... and its event, breakpoint or complete, is published.
Announce(j) ==
  /\ pc[j] = "publishing"
  /\ pc' = [pc EXCEPT ![j] = "releasing"]
  /\ UNCHANGED <<sess, rows, req, host, hasNext, out, bp, lock, ckpt>>

\* The finally block deletes the lock, whoever owns it; a failure is swallowed.
Release(j) ==
  /\ pc[j] = "releasing"
  /\ \/ lock' = [lock EXCEPT ![SessionOfJob(j)] = NoTask]
     \/ "release" \in Faults /\ lock' = lock
  /\ pc' = [pc EXCEPT ![j] = "archiving"]
  /\ UNCHANGED <<sess, rows, req, host, hasNext, out, bp, ckpt>>

\* The status save_research_result is called with, and the one that is returned.
ArchivedStatus(o) == IF o = "lost" THEN "running" ELSE o
ReturnedStatus(o) == IF o = "lost" THEN "failed" ELSE o

\* The session shows "suspended" whenever approval is pending.
SessionStatus(j) == IF j \in bp THEN "suspended" ELSE ArchivedStatus(out[j])

\* Mutant: the row is written whether or not it still exists.
ArchiveUpsert(j) ==
  /\ pc[j] = "archiving"
  /\ status' = [status EXCEPT ![TaskOf(j)] = ArchivedStatus(out[j])]
  /\ pending' = IF j \in bp THEN pending \cup {TaskOf(j)} ELSE pending
  /\ sess' = [sess EXCEPT ![SessionOfJob(j)] = SessionStatus(j)]
  /\ pc' = [pc EXCEPT ![j] = "done"]
  /\ host' = [host EXCEPT ![j] = NoWorker]
  /\ UNCHANGED <<ord, cleaned, req, hasNext, out, bp, lock, ckpt>>

\* save_research_result and its commit; ignored when the row is gone, rolled
\* back and swallowed when it raises.  research_status and is_breakpoint are
\* written each for itself.
Archive(j) ==
  LET t == TaskOf(j)
      saved == status[t] # "absent"
  IN  /\ pc[j] = "archiving"
      /\ \/ /\ saved
            /\ status' = [status EXCEPT ![t] = ArchivedStatus(out[j])]
            /\ pending' = IF j \in bp THEN pending \cup {t} ELSE pending \ {t}
            /\ cleaned' = cleaned \ {t}
            /\ ord' = ord
            /\ sess' = [sess EXCEPT ![SessionOf[t]] = SessionStatus(j)]
            /\ pc' = [pc EXCEPT ![j] = "done"]
            /\ UNCHANGED <<out, bp>>
         \/ /\ ~saved
            /\ pc' = [pc EXCEPT ![j] = "done"]
            /\ UNCHANGED <<rows, sess, out, bp>>
         \/ /\ saved /\ "archive" \in Faults
            /\ pc' = [pc EXCEPT ![j] = "unsaved"]
            /\ out' = [out EXCEPT ![j] = "running"]
            /\ bp' = bp \ {j}
            /\ UNCHANGED <<rows, sess>>
      /\ host' = [host EXCEPT ![j] = NoWorker]
      /\ UNCHANGED <<req, hasNext, lock, ckpt>>

-----------------------------------------------------------------------------
(* The environment.                                                        *)

\* Mutant: the lock is set without EX.
LockExpiresNever(s) == FALSE /\ s \in Sessions /\ UNCHANGED vars

\* EX 900 runs out.
LockExpires(s) ==
  /\ lock[s] # NoTask
  /\ LeaseOutlivesRun =>
       \A j \in Jobs : SessionOfJob(j) = s => pc[j] \notin Critical
  /\ lock' = [lock EXCEPT ![s] = NoTask]
  /\ UNCHANGED <<sess, rows, req, pc, host, hasNext, out, bp, ckpt>>

\* A worker dies: everything it popped is gone, its locks stay.
Crash(w) ==
  /\ "crash" \in Faults
  /\ \E j \in Jobs : host[j] = w
  /\ pc' = [j \in Jobs |-> IF host[j] = w THEN "dead" ELSE pc[j]]
  /\ host' = [j \in Jobs |-> IF host[j] = w THEN NoWorker ELSE host[j]]
  /\ out' = [j \in Jobs |-> IF host[j] = w THEN "running" ELSE out[j]]
  /\ bp' = {j \in bp : host[j] # w}
  /\ UNCHANGED <<sess, rows, req, hasNext, lock, ckpt>>

\* _periodic_checkpoints_cleanup: the checkpoints of a task older than 30 days.
CheckpointsCleaned(t) ==
  /\ "checkpoint" \in Faults
  /\ status[t] # "absent"
  /\ ckpt[t] # "none"
  /\ ckpt' = [ckpt EXCEPT ![t] = "none"]
  /\ UNCHANGED <<sess, rows, req, pc, host, hasNext, out, bp, lock>>

-----------------------------------------------------------------------------
RequestStep ==
  \/ \E t \in Tasks : ChatNew(t)
  \/ \E r \in Requests, t \in Tasks :
       FollowUpRead(r, t) \/ ResumeRead(r, t) \/ CleanupRead(r, t)
  \/ \E r \in Requests : FollowUpCommit(r) \/ CleanupCommit(r)
  \/ \E r \in Requests, n \in 1..MaxResumes : ResumeCommit(r, n)
  \/ \E s \in Sessions : DeleteSession(s)

\* The steps that bring a job to its end.
JobProgress(j) ==
  \/ Post(j)
  \/ \E w \in Workers : Pop(j, w)
  \/ Start(j) \/ TryLock(j) \/ CheckOwner(j) \/ Renew(j)
  \/ EndStream(j) \/ RunFails(j) \/ Inspect(j) \/ Announce(j)
  \/ Release(j) \/ Archive(j)

JobStep(j) == JobProgress(j) \/ Superstep(j)

EnvStep ==
  \/ \E j \in Jobs : PostFails(j) \/ PopFails(j) \/ StartFails(j)
  \/ \E s \in Sessions : LockExpires(s)
  \/ \E w \in Workers : Crash(w)
  \/ \E t \in Tasks : CheckpointsCleaned(t)

Next == RequestStep \/ (\E j \in Jobs : JobStep(j)) \/ EnvStep

Spec == Init /\ [][Next]_vars

\* The worker loop keeps polling, asyncio serves the semaphore in order, every
\* graph run ends (bounded rounds, timeouts on each call) and Redis expires keys.
FairSpec ==
  /\ Spec
  /\ \A j \in Jobs : WF_vars(JobProgress(j))
  /\ \A s \in Sessions : WF_vars(LockExpires(s))

-----------------------------------------------------------------------------
(* Safety.                                                                 *)

LiveJobs(t) == {j \in Jobs : TaskOf(j) = t /\ pc[j] \in Live}

\* A session never has two runs behind its lock: the promise of the lock
\* execute_and_publish takes, over refusals, re-entry, crashes and resumes.
SessionExclusion ==
  \A j, k \in Jobs :
    /\ SessionOfJob(j) = SessionOfJob(k)
    /\ pc[j] \in Critical
    /\ pc[k] \in Critical
    => j = k

\* A run behind the lock still owns it: no refused, failing or finishing job of
\* the session has deleted it with the unconditional delete of the finally block.
LockCoversRun ==
  \A j \in Jobs : pc[j] \in Critical => lock[SessionOfJob(j)] = TaskOf(j)

\* A thread has one run at a time from posting to archive, so the snapshot read
\* before the lock is still the thread's when the graph starts.
OneLiveJobPerTask ==
  \A j, k \in Jobs :
    TaskOf(j) = TaskOf(k) /\ pc[j] \in Live /\ pc[k] \in Live => j = k

\* A run cut off between setting is_breakpoint and the finally block: it is archived
\* as failed, with approval pending and its session suspended.
CutOff == {j \in bp : pc[j] = "done" /\ out[j] = "failed"}

\* A task that waits for approval can be resumed: no run is about to move its thread
\* or to overwrite its row, the thread stands at the interrupt unless its checkpoints
\* were cleaned up, and the row says suspended, which a resume asks for.  Only two
\* make it say failed, so that nobody can approve it any more: a cleanup that read
\* the row while it was running, and a run cut off while it published its breakpoint.
ApprovalIsResumable ==
  \A t \in pending :
    /\ LiveJobs(t) = {}
    /\ \/ ckpt[t] = "interrupted"
       \/ "checkpoint" \in Faults /\ ckpt[t] = "none"
    /\ \/ status[t] = "suspended"
       \/ status[t] = "failed" /\ (t \in cleaned \/ \E j \in CutOff : TaskOf(j) = t)

\* Two jobs of one thread at once are both resumes: however requests overlap, a
\* resume never joins the run it was to follow, and nothing else doubles a job.
OnlyResumesDouble ==
  \A j, k \in Jobs :
    TaskOf(j) = TaskOf(k) /\ pc[j] \in Live /\ pc[k] \in Live /\ j # k
      => IsResume(j) /\ IsResume(k)

\* On its way, or ended without a word in the row: turned away by the lock, lost with
\* its message or its worker, or not saved.
Unanswered == Live \cup {"refused", "dead", "unsaved"}

\* A row stays unfinished only for a reason the code has.  It says running as long as
\* the chat's job has written no outcome; later only a run writes that, one that found
\* no checkpoint to resume or to inspect, or one another run was writing.  It says
\* suspended without waiting for approval only if the last resume posted for it has
\* not answered.
UnfinishedRowIsExplained ==
  \A t \in Tasks :
    /\ status[t] = "running" =>
         \/ pc[<<t, 0>>] \in Unanswered
         \/ \E j \in Jobs : /\ TaskOf(j) = t
                            /\ pc[j] = "done"
                            /\ out[j] \in {"lost", "running"}
    /\ status[t] = "suspended" /\ t \notin pending =>
         \E n \in 1..MaxResumes :
           /\ pc[<<t, n>>] \in Unanswered
           /\ \A m \in (n + 1)..MaxResumes : pc[<<t, m>>] = "none"

\* A completed task is never reopened: no late archive of another run makes it
\* running or suspended again.  Only a cleanup that read the row before may
\* still mark it failed.
CompletedIsNeverReopened ==
  [][\A t \in Tasks :
       status[t] = "completed" =>
         status'[t] \in {"completed", "failed", "absent"}]_status

\* A row becomes running again only through a resume that could not read the snapshot
\* of its thread.  The thread still stands at the interrupt: nothing was lost, but the
\* row no longer waits for anybody.
RunningAgainIsUnread ==
  [][\A t \in Tasks :
       status[t] \notin {"absent", "running"} /\ status'[t] = "running"
         => /\ ckpt[t] = "interrupted"
            /\ \E j \in Jobs : TaskOf(j) = t /\ IsResume(j) /\ pc[j] = "archiving"
                               /\ out[j] = "lost"]_status

\* A deleted task stays deleted: no late archive, resume or cleanup of a run that
\* outlived its row brings the row or its session back.
DeletedStaysDeleted ==
  [][\A t \in Tasks :
       status[t] = "absent" /\ status'[t] # "absent" => pc[<<t, 0>>] = "none"]_status

\* A session row exists exactly as long as it has tasks, and its one status, which
\* a reconnect believes, is the status of one of them, although every request and
\* every archive of any of its tasks writes it, long after it read the rows.  Only
\* "failed" may be left by a cleanup whose task was deleted meanwhile, and
\* "suspended" by a run cut off at its breakpoint, over the failed row of its task.
SessionMatchesRows ==
  \A s \in Sessions :
    /\ sess[s] = "absent" <=> Rows(s) = {}
    /\ sess[s] \notin {"absent", "failed"} =>
         \/ sess[s] \in {status[t] : t \in Rows(s)}
         \/ sess[s] = "suspended" /\ \E j \in CutOff : /\ SessionOfJob(j) = s
                                                      /\ status[TaskOf(j)] = "failed"

-----------------------------------------------------------------------------
(* Liveness.                                                               *)

\* Every posted job ends, archived, refused or dead: queue, slots and locks never
\* make jobs wait for each other for good, whatever fails.
PostedJobEnds == \A j \in Jobs : pc[j] = "posting" ~> pc[j] \notin Live

\* The lock of a session always becomes free again, whoever crashed under it.
LockIsFreedAgain == \A s \in Sessions : lock[s] # NoTask ~> lock[s] = NoTask

-----------------------------------------------------------------------------
(* What the service promises, and how this module keeps it.                *)

\* The task whose run is behind the lock of a session.
ActiveTask(s) ==
  IF \E j \in Jobs : SessionOfJob(j) = s /\ pc[j] \in Critical
    THEN TaskOf(CHOOSE j \in Jobs : SessionOfJob(j) = s /\ pc[j] \in Critical)
    ELSE NoTask

Service ==
  INSTANCE ResearchService WITH
    approval <- pending,
    active   <- [s \in Sessions |-> ActiveTask(s)]

\* Refinement: queue, worker, lock, requests and rows together keep what
\* ResearchService promises, whatever fails, as long as leases outlive runs and
\* clients do not resume a session twice at once.
ImplementsService == Service!Spec
=============================================================================
