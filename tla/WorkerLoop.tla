----------------------------- MODULE WorkerLoop -----------------------------
(***************************************************************************)
(* The scheduler of the worker processes: three Redis lists polled by      *)
(* weight, the coroutines a worker starts for the messages it popped, the  *)
(* semaphore that lets a few of them run, and the listener for             *)
(* cancellations beside them.  What a job does while it runs is the        *)
(* subject of ResearchRun.  Code: backend/worker.py, and                   *)
(* start_cancellation_listener of backend/services/sse/manager.py.         *)
(***************************************************************************)
EXTENDS Integers, FiniteSets, Sequences, SequencesExt

CONSTANTS
  Jobs,               \* messages; one that has ended may be sent again
  Workers,            \* worker processes
  FastJobs, ExpertJobs, \* the lane a job is sent to; the others are pipeline jobs
  MaxConcurrentJobs,  \* MAX_CONCURRENT_JOBS
  MaxCancels          \* bound: cancellations broadcast

ASSUME LoopAssumption ==
  /\ FastJobs \subseteq Jobs /\ ExpertJobs \subseteq Jobs \ FastJobs
  /\ MaxConcurrentJobs \in Nat \ {0}
  /\ MaxCancels \in Nat

VARIABLES
  queue,     \* the Redis lists, the oldest message first
  turn,      \* schedule_idx of each worker, modulo the schedule
  waiting,   \* coroutines that wait for the semaphore, in order
  running,   \* coroutines that hold it
  listener,  \* the cancellation listener of each worker
  inbox,     \* cancellations delivered to a worker's subscription
  cancels,   \* number of cancellations broadcast
  told,      \* history: jobs cancelled while they ran on the worker that heard it,
             \* until they are sent again
  ignored,   \* history: those of them that ran to their end all the same
  sent,      \* history: the jobs in the system
  before,    \* history: <<j, k>> when j was sent before k to one lane and both are in
             \* the system
  passed,    \* history: jobs a worker took from other lanes while fast ones waited,
             \* since the fast list answered it or refused it four times
  missed     \* history: polls of the fast list that failed since then

sight == <<passed, missed>>
vars == <<queue, turn, waiting, running, listener, inbox, cancels, told,
          ignored, sent, before, passed, missed>>
order == <<sent, before>>

Lanes == {"fast", "expert", "pipeline"}

LaneOf(j) == IF j \in FastJobs THEN "fast"
             ELSE IF j \in ExpertJobs THEN "expert" ELSE "pipeline"

\* Mutant: the weights are the wrong way round.
ScheduleReversed ==
  <<"fast", "expert", "expert", "pipeline", "pipeline", "pipeline", "pipeline">>

\* _WEIGHTED_SCHEDULE
Schedule == <<"fast", "fast", "fast", "fast", "expert", "expert", "pipeline">>

TypeOK ==
  /\ queue \in [Lanes -> Seq(Jobs)]
  /\ turn \in [Workers -> DOMAIN Schedule]
  /\ waiting \in [Workers -> Seq(Jobs)]
  /\ running \in [Workers -> SUBSET Jobs]
  /\ \A w \in Workers : Cardinality(running[w]) <= MaxConcurrentJobs
  /\ listener \in [Workers -> {"starting", "listening", "dead"}]
  /\ inbox \in [Workers -> Seq(Jobs)]
  /\ cancels \in 0..MaxCancels
  /\ told \subseteq Jobs /\ ignored \subseteq Jobs
  /\ sent \subseteq Jobs /\ before \subseteq sent \X sent
  /\ passed \in [Workers -> Nat]
  /\ missed \in [Workers -> 0..3]

Init ==
  /\ queue = [l \in Lanes |-> <<>>]
  /\ turn = [w \in Workers |-> 1]
  /\ waiting = [w \in Workers |-> <<>>]
  /\ running = [w \in Workers |-> {}]
  /\ listener = [w \in Workers |-> "starting"]
  /\ inbox = [w \in Workers |-> <<>>]
  /\ cancels = 0
  /\ told = {}
  /\ ignored = {}
  /\ sent = {} /\ before = {}
  /\ passed = [w \in Workers |-> 0]
  /\ missed = [w \in Workers |-> 0]

-----------------------------------------------------------------------------
(* The lists and the schedule.                                             *)

\* LPUSH by the API process, to the lane of the speed asked for.
Enqueue(j) ==
  /\ j \notin sent
  /\ queue' = [queue EXCEPT ![LaneOf(j)] = Append(@, j)]
  /\ sent' = sent \cup {j}
  /\ before' = before \cup ({k \in sent : LaneOf(k) = LaneOf(j)} \X {j})
  /\ told' = told \ {j}
  /\ ignored' = ignored \ {j}
  /\ UNCHANGED <<turn, waiting, running, listener, inbox, cancels, sight>>

\* Mutant: the schedule advances only past an empty list.
NextTurnDrains(w) ==
  IF queue[Schedule[turn[w]]] # <<>> THEN turn[w] ELSE (turn[w] % Len(Schedule)) + 1

\* The schedule advances at every poll, whatever it finds.
NextTurn(w) == (turn[w] % Len(Schedule)) + 1

\* Mutant: BLPOP, the newest message.
TakenNewest(q) == [job |-> Last(q), rest |-> Front(q)]

\* BRPOP, the oldest message.
Taken(q) == [job |-> Head(q), rest |-> Tail(q)]

\* A job that ends or is lost leaves the order of those that were sent.
Forget(j) ==
  /\ sent' = sent \ {j}
  /\ before' = before \cap (sent' \X sent')

\* Redis answers a poll: the schedule advances, and what the worker knows of the fast
\* list is new.
Answered(w) ==
  LET lane == Schedule[turn[w]]
  IN  /\ turn' = [turn EXCEPT ![w] = NextTurn(w)]
      /\ passed' = [passed EXCEPT ![w] =
                      IF lane = "fast" \/ queue["fast"] = <<>> THEN 0
                      ELSE IF queue[lane] = <<>> THEN @ ELSE @ + 1]
      /\ missed' = [missed EXCEPT ![w] = IF lane = "fast" THEN 0 ELSE @]

\* One poll.  A popped job is a coroutine of this worker, whatever its load; a
\* timeout finds nothing.
Poll(w) ==
  LET lane == Schedule[turn[w]]
      q    == queue[lane]
  IN  /\ Answered(w)
      /\ \/ /\ q # <<>>
            /\ queue' = [queue EXCEPT ![lane] = Taken(q).rest]
            /\ waiting' = [waiting EXCEPT ![w] = Append(@, Taken(q).job)]
         \/ /\ q = <<>>
            /\ UNCHANGED <<queue, waiting>>
      /\ UNCHANGED <<running, listener, inbox, cancels, told, ignored, order>>

\* The message has left its list, and its reply is lost or cannot be read.
PollLoses(w) ==
  LET lane == Schedule[turn[w]]
      q    == queue[lane]
  IN  /\ Answered(w)
      /\ q # <<>>
      /\ queue' = [queue EXCEPT ![lane] = Taken(q).rest]
      /\ Forget(Taken(q).job)
      /\ UNCHANGED <<waiting, running, listener, inbox, cancels, told, ignored>>

\* BRPOP fails, whatever is in the list: the turn of the lane is over.
PollFails(w) ==
  LET fast == Schedule[turn[w]] = "fast"
  IN  /\ turn' = [turn EXCEPT ![w] = NextTurn(w)]
      /\ missed' = [missed EXCEPT ![w] = IF fast THEN (@ + 1) % 4 ELSE @]
      /\ passed' = [passed EXCEPT ![w] = IF fast /\ missed[w] = 3 THEN 0 ELSE @]
      /\ UNCHANGED <<queue, waiting, running, listener, inbox, cancels, told, ignored, order>>

-----------------------------------------------------------------------------
(* The semaphore.                                                          *)

HasSlot(w) == Cardinality(running[w]) < MaxConcurrentJobs

\* asyncio.Semaphore wakes its waiters in order.
StartJob(w) ==
  /\ waiting[w] # <<>>
  /\ HasSlot(w)
  /\ running' = [running EXCEPT ![w] = @ \cup {Head(waiting[w])}]
  /\ waiting' = [waiting EXCEPT ![w] = Tail(@)]
  /\ UNCHANGED <<queue, turn, listener, inbox, cancels, told, ignored, order, sight>>

EndJob(w, j) ==
  /\ j \in running[w]
  /\ running' = [running EXCEPT ![w] = @ \ {j}]
  /\ ignored' = ignored \cup ({j} \cap told)
  /\ Forget(j)
  /\ UNCHANGED <<queue, turn, waiting, listener, inbox, cancels, told, sight>>

-----------------------------------------------------------------------------
(* Cancellation.                                                           *)

\* The client of a job leaves: PUBLISH reaches the listeners that are subscribed.
Cancel(j) ==
  /\ cancels < MaxCancels
  /\ j \in sent
  /\ cancels' = cancels + 1
  /\ inbox' = [w \in Workers |->
                 IF listener[w] = "listening" THEN Append(inbox[w], j) ELSE inbox[w]]
  /\ UNCHANGED <<queue, turn, waiting, running, listener, told, ignored, order, sight>>

Listen(w) ==
  /\ listener[w] = "starting"
  /\ listener' = [listener EXCEPT ![w] = "listening"]
  /\ UNCHANGED <<queue, turn, waiting, running, inbox, cancels, told, ignored, order, sight>>

\* The connection breaks; the listener subscribes again after a delay.
ListenFails(w) ==
  /\ listener[w] = "listening"
  /\ listener' = [listener EXCEPT ![w] = "starting"]
  /\ inbox' = [inbox EXCEPT ![w] = <<>>]
  /\ UNCHANGED <<queue, turn, waiting, running, cancels, told, ignored, order, sight>>

\* The task the listener cancels is the current one: itself.  Its next await
\* raises CancelledError, and it leaves its loop for good.
Hear(w) ==
  /\ listener[w] = "listening"
  /\ inbox[w] # <<>>
  /\ listener' = [listener EXCEPT ![w] = "dead"]
  /\ inbox' = [inbox EXCEPT ![w] = <<>>]
  /\ told' = told \cup ({Head(inbox[w])} \cap running[w])
  /\ UNCHANGED <<queue, turn, waiting, running, cancels, ignored, order, sight>>

-----------------------------------------------------------------------------
Next ==
  \/ \E j \in Jobs : Enqueue(j) \/ Cancel(j)
  \/ \E w \in Workers : Poll(w) \/ PollLoses(w) \/ PollFails(w) \/ StartJob(w)
  \/ \E w \in Workers : Listen(w) \/ ListenFails(w) \/ Hear(w)
  \/ \E w \in Workers, j \in Jobs : EndJob(w, j)

Spec == Init /\ [][Next]_vars

\* The loop polls for ever, Redis does not fail at a list for ever, released slots are
\* handed on, every run ends.
FairSpec ==
  /\ Spec
  /\ \A w \in Workers : WF_vars(Poll(w) \/ PollLoses(w) \/ PollFails(w))
  /\ \A w \in Workers, l \in Lanes :
       SF_vars(Schedule[turn[w]] = l /\ (Poll(w) \/ PollLoses(w)))
  /\ \A w \in Workers : WF_vars(StartJob(w))
  /\ \A w \in Workers, j \in Jobs : WF_vars(EndJob(w, j))

-----------------------------------------------------------------------------
(* Properties.                                                             *)

\* A worker starts no job while an older one of the same lane is still queued or
\* waits for a slot of the same worker, through list, schedule and semaphore.
LaneOrderIsKept ==
  [][\A w \in Workers : \A k \in running'[w] \ running[w] : \A j \in Jobs :
       <<j, k>> \in before =>
         j \notin ToSet(queue[LaneOf(j)]) \cup ToSet(waiting[w])]_running

\* While fast jobs wait, a worker takes at most the three jobs of one round of the
\* schedule from the other lanes between two answers of the fast list, and three more
\* for every four polls of it that fail.
FastJobsAreSoon == \A w \in Workers : passed[w] <= 3

\* Every job sent is started or lost with its message, although new fast jobs may be
\* sent for ever and polls fail.
EveryJobStarts ==
  \A j \in Jobs :
    j \in ToSet(queue[LaneOf(j)])
      ~> j \notin sent \/ \E w \in Workers : j \in running[w]

\* A run whose cancellation has reached its worker does not go on to its end.
CancelledRunStops == ignored = {}
=============================================================================
