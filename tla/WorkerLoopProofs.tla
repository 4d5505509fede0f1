-------------------------- MODULE WorkerLoopProofs --------------------------
(***************************************************************************)
(* Theorems about the worker loop: types and slots, that fast jobs are     *)
(* passed by one round of the schedule at most, and that jobs of a lane    *)
(* start in the order they were sent, for any jobs, workers and slots.     *)
(***************************************************************************)
EXTENDS WorkerLoop, FiniteSetTheorems, TLAPS

-----------------------------------------------------------------------------
(* Sequences.                                                              *)

LEMMA AppendFacts ==
  ASSUME NEW S, NEW s \in Seq(S), NEW e \in S
  PROVE  /\ Append(s, e) \in Seq(S) /\ Len(Append(s, e)) = Len(s) + 1
         /\ \A i \in 1..Len(s) : Append(s, e)[i] = s[i]
         /\ Append(s, e)[Len(s) + 1] = e
         /\ Len(s) \in Nat
OBVIOUS

LEMMA TailFacts ==
  ASSUME NEW S, NEW s \in Seq(S), s # <<>>
  PROVE  /\ Tail(s) \in Seq(S) /\ Len(s) \in Nat \ {0} /\ Len(Tail(s)) = Len(s) - 1
         /\ \A i \in 1..Len(s) - 1 : Tail(s)[i] = s[i + 1]
         /\ Head(s) = s[1] /\ Head(s) \in S
OBVIOUS

LEMMA ToSetFacts ==
  ASSUME NEW S, NEW s \in Seq(S), NEW e \in ToSet(s)
  PROVE  \E i \in 1..Len(s) : s[i] = e
BY DEF ToSet

LEMMA LaneType == \A j : LaneOf(j) \in Lanes
BY DEF LaneOf, Lanes

-----------------------------------------------------------------------------
(* Types and slots.                                                        *)

SlotInv == TypeOK /\ \A w \in Workers : IsFiniteSet(running[w])

LEMMA SlotInit == Init => SlotInv
<1> SUFFICES ASSUME Init PROVE SlotInv OBVIOUS
<1>1. \A w \in Workers : IsFiniteSet(running[w]) /\ Cardinality(running[w]) <= MaxConcurrentJobs
  BY FS_EmptySet, LoopAssumption DEF Init
<1>2. <<>> \in Seq(Jobs)
  OBVIOUS
<1> QED
  BY <1>1, <1>2, LoopAssumption DEF Init, SlotInv, TypeOK, Lanes, Schedule

LEMMA SlotStep == SlotInv /\ [Next]_vars => SlotInv'
<1> SUFFICES ASSUME SlotInv, [Next]_vars PROVE SlotInv' OBVIOUS
<1> USE DEF SlotInv, order, sight
<1>1. ASSUME NEW j \in Jobs, Enqueue(j) PROVE SlotInv'
  <2>1. queue' \in [Lanes -> Seq(Jobs)]
    <3>1. queue[LaneOf(j)] \in Seq(Jobs)
      BY LaneType DEF TypeOK
    <3>2. Append(queue[LaneOf(j)], j) \in Seq(Jobs)
      BY <3>1, AppendFacts
    <3> QED
      BY <1>1, <3>2 DEF Enqueue, TypeOK
  <2> QED
    BY <1>1, <2>1 DEF Enqueue, TypeOK
<1>2. ASSUME NEW j \in Jobs, Cancel(j) PROVE SlotInv'
  <2>1. \A w \in Workers : Append(inbox[w], j) \in Seq(Jobs)
    BY AppendFacts DEF TypeOK
  <2>2. cancels' \in 0..MaxCancels
    BY <1>2, LoopAssumption DEF Cancel, TypeOK
  <2> QED
    BY <1>2, <2>1, <2>2 DEF Cancel, TypeOK
<1>3. ASSUME NEW w \in Workers
      PROVE  /\ turn[w] \in 1..7 /\ Schedule[turn[w]] \in Lanes
             /\ queue[Schedule[turn[w]]] \in Seq(Jobs) /\ NextTurn(w) \in DOMAIN Schedule
             /\ passed[w] \in Nat /\ missed[w] \in 0..3
  <2>1. turn[w] \in 1..7 /\ Schedule[turn[w]] \in Lanes
    BY DEF TypeOK, Schedule, Lanes
  <2> QED
    BY <2>1 DEF TypeOK, NextTurn, Schedule
<1>8. ASSUME NEW w \in Workers, Answered(w)
      PROVE  /\ turn' \in [Workers -> DOMAIN Schedule]
             /\ passed' \in [Workers -> Nat] /\ missed' \in [Workers -> 0..3]
  <2>1. turn' \in [Workers -> DOMAIN Schedule]
    BY <1>3, <1>8 DEF Answered, TypeOK
  <2>2. PICK n \in {0, passed[w], passed[w] + 1} : passed' = [passed EXCEPT ![w] = n]
    BY <1>8 DEF Answered
  <2>3. PICK m \in {0, missed[w]} : missed' = [missed EXCEPT ![w] = m]
    BY <1>8 DEF Answered
  <2>4. passed' \in [Workers -> Nat]
    <3>1. n \in Nat
      BY <1>3
    <3>2. passed \in [Workers -> Nat]
      BY DEF TypeOK
    <3> QED
      BY <2>2, <3>1, <3>2
  <2>5. missed' \in [Workers -> 0..3]
    <3>1. m \in 0..3
      BY <1>3
    <3>2. missed \in [Workers -> 0..3]
      BY DEF TypeOK
    <3> QED
      BY <2>3, <3>1, <3>2
  <2> QED
    BY <2>1, <2>4, <2>5
<1>9. ASSUME NEW w \in Workers, queue[Schedule[turn[w]]] # <<>>
      PROVE  /\ Taken(queue[Schedule[turn[w]]]).rest \in Seq(Jobs)
             /\ Taken(queue[Schedule[turn[w]]]).job \in Jobs
  <2>1. /\ Tail(queue[Schedule[turn[w]]]) \in Seq(Jobs)
        /\ Head(queue[Schedule[turn[w]]]) \in Jobs
    BY <1>3, <1>9, TailFacts
  <2> QED
    BY <2>1 DEF Taken
<1>10. ASSUME NEW w \in Workers, Poll(w) PROVE SlotInv'
  <2> DEFINE lane == Schedule[turn[w]]
             q    == queue[lane]
  <2>1. queue' \in [Lanes -> Seq(Jobs)] /\ waiting' \in [Workers -> Seq(Jobs)]
    <3>1. CASE q # <<>>
      <4>1. Taken(q).rest \in Seq(Jobs) /\ Taken(q).job \in Jobs
        BY <1>9, <3>1
      <4>2. Append(waiting[w], Taken(q).job) \in Seq(Jobs)
        BY <4>1, AppendFacts DEF TypeOK
      <4>3. /\ queue' = [queue EXCEPT ![lane] = Taken(q).rest]
            /\ waiting' = [waiting EXCEPT ![w] = Append(@, Taken(q).job)]
        BY <1>10, <3>1 DEF Poll
      <4> QED
        BY <4>1, <4>2, <4>3 DEF TypeOK
    <3>2. CASE q = <<>>
      BY <1>10, <3>2 DEF Poll, TypeOK
    <3> QED
      BY <3>1, <3>2
  <2> QED
    BY <1>8, <1>10, <2>1 DEF Poll, TypeOK
<1>11. ASSUME NEW w \in Workers, PollLoses(w) PROVE SlotInv'
  <2> DEFINE lane == Schedule[turn[w]]
             q    == queue[lane]
  <2>1. queue' = [queue EXCEPT ![lane] = Taken(q).rest] /\ Taken(q).rest \in Seq(Jobs)
    BY <1>9, <1>11 DEF PollLoses
  <2>2. queue' \in [Lanes -> Seq(Jobs)]
    BY <2>1 DEF TypeOK
  <2>3. sent' \subseteq Jobs /\ before' \subseteq sent' \X sent'
    BY <1>11 DEF PollLoses, Forget, TypeOK
  <2> QED
    BY <1>8, <1>11, <2>2, <2>3 DEF PollLoses, TypeOK
<1>12. ASSUME NEW w \in Workers, PollFails(w) PROVE SlotInv'
  <2>1. turn' \in [Workers -> DOMAIN Schedule]
    BY <1>3, <1>12 DEF PollFails, TypeOK
  <2>2. PICK n \in {0, passed[w]} : passed' = [passed EXCEPT ![w] = n]
    BY <1>12 DEF PollFails
  <2>3. PICK m \in {(missed[w] + 1) % 4, missed[w]} : missed' = [missed EXCEPT ![w] = m]
    BY <1>12 DEF PollFails
  <2>4. passed' \in [Workers -> Nat]
    BY <1>3, <2>2 DEF TypeOK
  <2>5. (missed[w] + 1) % 4 \in 0..3
    BY <1>3
  <2>6. missed' \in [Workers -> 0..3]
    BY <1>3, <2>3, <2>5 DEF TypeOK
  <2> QED
    BY <1>12, <2>1, <2>4, <2>6 DEF PollFails, TypeOK
<1>4. ASSUME NEW w \in Workers, StartJob(w) PROVE SlotInv'
  <2>1. Tail(waiting[w]) \in Seq(Jobs) /\ Head(waiting[w]) \in Jobs
    BY <1>4, TailFacts DEF StartJob, TypeOK
  <2>2. IsFiniteSet(running[w]) /\ Cardinality(running[w]) \in Nat
    BY FS_CardinalityType
  <2>3. /\ IsFiniteSet(running[w] \cup {Head(waiting[w])})
        /\ Cardinality(running[w] \cup {Head(waiting[w])}) <= MaxConcurrentJobs
    <3> DEFINE h == Head(waiting[w])
    <3>1. /\ IsFiniteSet(running[w] \cup {h})
          /\ Cardinality(running[w] \cup {h}) =
               IF h \in running[w] THEN Cardinality(running[w]) ELSE Cardinality(running[w]) + 1
      BY <2>2, FS_AddElement, Zenon
    <3>2. Cardinality(running[w]) < MaxConcurrentJobs /\ MaxConcurrentJobs \in Nat
      BY <1>4, LoopAssumption DEF StartJob, HasSlot
    <3> QED
      BY <2>2, <3>1, <3>2
  <2> QED
    BY <1>4, <2>1, <2>3 DEF StartJob, TypeOK
<1>5. ASSUME NEW w \in Workers, NEW j \in Jobs, EndJob(w, j) PROVE SlotInv'
  <2>1. IsFiniteSet(running[w]) /\ Cardinality(running[w]) \in Nat
    BY FS_CardinalityType
  <2>2. /\ IsFiniteSet(running[w] \ {j})
        /\ Cardinality(running[w] \ {j}) <= MaxConcurrentJobs
    <3>1. /\ IsFiniteSet(running[w] \ {j})
          /\ Cardinality(running[w] \ {j}) =
               IF j \in running[w] THEN Cardinality(running[w]) - 1 ELSE Cardinality(running[w])
      BY <2>1, FS_RemoveElement, Zenon
    <3>2. Cardinality(running[w]) <= MaxConcurrentJobs /\ MaxConcurrentJobs \in Nat
      BY LoopAssumption DEF TypeOK
    <3> QED
      BY <2>1, <3>1, <3>2
  <2> QED
    BY <1>5, <2>2 DEF EndJob, Forget, TypeOK
<1>6. ASSUME NEW w \in Workers, Listen(w) \/ ListenFails(w) \/ Hear(w) PROVE SlotInv'
  <2>1. <<>> \in Seq(Jobs)
    OBVIOUS
  <2>2. told' \subseteq Jobs /\ inbox' \in [Workers -> Seq(Jobs)]
    BY <1>6, <2>1 DEF Listen, ListenFails, Hear, TypeOK
  <2> QED
    BY <1>6, <2>2 DEF Listen, ListenFails, Hear, TypeOK
<1>7. CASE UNCHANGED vars
  BY <1>7 DEF vars, TypeOK
<1> QED
  BY <1>1, <1>2, <1>4, <1>5, <1>6, <1>7, <1>10, <1>11, <1>12 DEF Next

\* Lists, coroutines, listeners and counters keep their types, and no worker
\* runs more jobs than its semaphore has slots.
THEOREM TypeCorrect == Spec => []TypeOK
<1>1. SlotInv => TypeOK
  BY DEF SlotInv
<1> QED
  BY SlotInit, SlotStep, <1>1, PTL DEF Spec

-----------------------------------------------------------------------------
(* Fast jobs.                                                              *)

\* How many jobs of other lanes a worker can have taken at a place of the
\* schedule, since the fast list answered it or refused it four times.  At the places
\* of the fast list it has taken some only if each place before has failed.
Allowed(n) == CASE n = 6 -> 1 [] n = 7 -> 2 [] n \in 1..4 -> 3 [] OTHER -> 0

PassedInv ==
  \A w \in Workers :
    /\ passed[w] <= Allowed(turn[w])
    /\ turn[w] \in 2..4 => passed[w] = 0 \/ missed[w] >= turn[w] - 1

LEMMA TurnFacts ==
  ASSUME NEW w \in Workers, turn[w] \in 1..7
  PROVE  /\ Schedule[turn[w]] = "fast" <=> turn[w] \in 1..4
         /\ NextTurn(w) = IF turn[w] = 7 THEN 1 ELSE turn[w] + 1
<1>1. Len(Schedule) = 7 /\ (Schedule[turn[w]] = "fast" <=> turn[w] \in 1..4)
  BY DEF Schedule
<1>2. (turn[w] % 7) + 1 = IF turn[w] = 7 THEN 1 ELSE turn[w] + 1
  OBVIOUS
<1> QED
  BY <1>1, <1>2 DEF NextTurn

LEMMA PassedStep == SlotInv /\ PassedInv /\ [Next]_vars => PassedInv'
<1> SUFFICES ASSUME SlotInv, PassedInv, [Next]_vars PROVE PassedInv' OBVIOUS
<1>0. /\ turn \in [Workers -> 1..7] /\ passed \in [Workers -> Nat]
      /\ missed \in [Workers -> 0..3]
  BY DEF SlotInv, TypeOK, Schedule
<1>1. ASSUME NEW w \in Workers, NEW n, NEW p, NEW m,
             turn' = [turn EXCEPT ![w] = n], passed' = [passed EXCEPT ![w] = p],
             missed' = [missed EXCEPT ![w] = m],
             p <= Allowed(n), n \in 2..4 => p = 0 \/ m >= n - 1
      PROVE  PassedInv'
  <2> SUFFICES ASSUME NEW v \in Workers
               PROVE  /\ passed'[v] <= Allowed(turn'[v])
                      /\ turn'[v] \in 2..4 => passed'[v] = 0 \/ missed'[v] >= turn'[v] - 1
    BY DEF PassedInv
  <2>1. CASE v = w
    <3>1. turn'[v] = n /\ passed'[v] = p /\ missed'[v] = m
      BY <1>0, <1>1, <2>1
    <3> QED
      BY <1>1, <3>1
  <2>2. CASE v # w
    <3>1. turn'[v] = turn[v] /\ passed'[v] = passed[v] /\ missed'[v] = missed[v]
      BY <1>0, <1>1, <2>2
    <3> QED
      BY <3>1 DEF PassedInv
  <2> QED
    BY <2>1, <2>2
<1>2. ASSUME NEW w \in Workers
      PROVE  /\ turn[w] \in 1..7 /\ passed[w] \in Nat /\ missed[w] \in 0..3
             /\ passed[w] <= Allowed(turn[w])
             /\ turn[w] \in 2..4 => passed[w] = 0 \/ missed[w] >= turn[w] - 1
             /\ Schedule[turn[w]] = "fast" <=> turn[w] \in 1..4
             /\ NextTurn(w) = IF turn[w] = 7 THEN 1 ELSE turn[w] + 1
  BY <1>0, TurnFacts DEF PassedInv
<1>3. ASSUME NEW w \in Workers, Answered(w) PROVE PassedInv'
  <2> DEFINE n == NextTurn(w)
  <2>1. PICK p \in {0, passed[w], passed[w] + 1} :
          /\ passed' = [passed EXCEPT ![w] = p]
          /\ turn[w] \in 1..4 => p = 0
    BY <1>2, <1>3 DEF Answered
  <2>2. PICK m : missed' = [missed EXCEPT ![w] = m]
    BY <1>3 DEF Answered
  <2>3. turn' = [turn EXCEPT ![w] = n]
    BY <1>3 DEF Answered
  <2>4. p <= Allowed(n)
    BY <1>2, <2>1 DEF Allowed
  <2>5. n \in 2..4 => p = 0
    BY <1>2, <2>1
  <2> QED
    BY <1>1, <2>1, <2>2, <2>3, <2>4, <2>5
<1>4. ASSUME NEW w \in Workers, PollFails(w) PROVE PassedInv'
  <2> DEFINE n    == NextTurn(w)
             fast == turn[w] \in 1..4
             p    == IF fast /\ missed[w] = 3 THEN 0 ELSE passed[w]
             m    == IF fast THEN (missed[w] + 1) % 4 ELSE missed[w]
  <2>1. /\ turn' = [turn EXCEPT ![w] = n] /\ passed' = [passed EXCEPT ![w] = p]
        /\ missed' = [missed EXCEPT ![w] = m]
    BY <1>2, <1>4 DEF PollFails
  <2>2. missed[w] # 3 => (missed[w] + 1) % 4 = missed[w] + 1
    BY <1>2
  <2>3. p <= Allowed(n)
    <3>1. CASE turn[w] = 4
      <4>1. p = 0
        BY <1>2, <3>1
      <4> QED
        BY <1>2, <3>1, <4>1 DEF Allowed
    <3>2. CASE turn[w] # 4
      BY <1>2, <3>2 DEF Allowed
    <3> QED
      BY <3>1, <3>2
  <2>4. n \in 2..4 => p = 0 \/ m >= n - 1
    BY <1>2, <2>2
  <2> QED
    BY <1>1, <2>1, <2>3, <2>4
<1>5. CASE UNCHANGED <<turn, passed, missed>>
  BY <1>5 DEF PassedInv
<1> QED
  BY <1>3, <1>4, <1>5 DEF Next, vars, sight, Poll, PollLoses, Enqueue, Cancel, StartJob, EndJob, Listen,
                          ListenFails, Hear

\* Of the other lanes a worker takes at most one round of the schedule, three
\* jobs, while a fast job waits, between two answers of the fast list, and as many
\* for every four polls of it that fail.
THEOREM FastOnesAreSoon == Spec => []FastJobsAreSoon
<1>1. Init => PassedInv
  BY DEF Init, PassedInv, Allowed
<1>2. SlotInv /\ PassedInv => FastJobsAreSoon
  <2> SUFFICES ASSUME SlotInv, PassedInv, NEW w \in Workers PROVE passed[w] <= 3
    BY DEF FastJobsAreSoon
  <2>1. turn[w] \in 1..7 /\ passed[w] \in Nat /\ passed[w] <= Allowed(turn[w])
    BY DEF SlotInv, TypeOK, Schedule, PassedInv
  <2>2. Allowed(turn[w]) \in 0..3
    BY <2>1 DEF Allowed
  <2> QED
    BY <2>1, <2>2
<1> QED
  BY SlotInit, SlotStep, PassedStep, <1>1, <1>2, PTL DEF Spec

-----------------------------------------------------------------------------
(* The order of a lane.                                                    *)

\* A list holds jobs of its lane that are in the system, in the order sent.
QueuedInOrder ==
  \A l \in Lanes :
    /\ \A n \in 1..Len(queue[l]) : LaneOf(queue[l][n]) = l /\ queue[l][n] \in sent
    /\ \A m, n \in 1..Len(queue[l]) : m < n => <<queue[l][m], queue[l][n]>> \in before

\* Those that wait for a slot are in order too, and ahead of the queued ones.
WaitInOrder ==
  \A w \in Workers :
    /\ \A n \in 1..Len(waiting[w]) : waiting[w][n] \in sent
    /\ \A m, n \in 1..Len(waiting[w]) :
         m < n /\ LaneOf(waiting[w][m]) = LaneOf(waiting[w][n]) =>
           <<waiting[w][m], waiting[w][n]>> \in before
    /\ \A m \in 1..Len(waiting[w]), l \in Lanes : \A n \in 1..Len(queue[l]) :
         l = LaneOf(waiting[w][m]) => <<waiting[w][m], queue[l][n]>> \in before

\* No job is in two places.
OnePlace ==
  \A w \in Workers :
    /\ \A v \in Workers : v # w =>
         /\ running[v] \cap running[w] = {}
         /\ \A m \in 1..Len(waiting[v]), n \in 1..Len(waiting[w]) : waiting[v][m] # waiting[w][n]
    /\ \A j \in running[w] :
         /\ j \in sent
         /\ \A v \in Workers : \A n \in 1..Len(waiting[v]) : waiting[v][n] # j
         /\ \A l \in Lanes : \A n \in 1..Len(queue[l]) : queue[l][n] # j

\* Of two jobs at most one was sent first, and only jobs of one lane are compared.
SentInOrder ==
  \A j, k \in Jobs :
    <<j, k>> \in before => LaneOf(j) = LaneOf(k) /\ <<k, j>> \notin before

OrderInv == SlotInv /\ QueuedInOrder /\ WaitInOrder /\ OnePlace /\ SentInOrder

LEMMA OrderInit == Init => OrderInv
<1> SUFFICES ASSUME Init PROVE OrderInv OBVIOUS
<1>1. \A l \in Lanes : queue[l] = <<>> /\ Len(queue[l]) = 0
  BY DEF Init
<1>2. \A w \in Workers : Len(waiting[w]) = 0 /\ running[w] = {}
  BY DEF Init
<1>3. QueuedInOrder
  BY <1>1 DEF QueuedInOrder
<1>4. WaitInOrder
  BY <1>2 DEF WaitInOrder
<1>5. OnePlace
  BY <1>2 DEF OnePlace
<1>6. SentInOrder
  BY DEF Init, SentInOrder
<1> QED
  BY SlotInit, <1>3, <1>4, <1>5, <1>6 DEF OrderInv

LEMMA EnqueueKeepsOrder ==
  ASSUME OrderInv, SlotInv', NEW j \in Jobs, Enqueue(j) PROVE OrderInv'
<1> DEFINE k == LaneOf(j)
<1>1. k \in Lanes /\ queue[k] \in Seq(Jobs) /\ j \notin sent
  BY LaneType DEF OrderInv, SlotInv, TypeOK, Enqueue
<1>2. /\ queue' = [queue EXCEPT ![k] = Append(queue[k], j)]
      /\ \A l \in Lanes : l # k => queue'[l] = queue[l]
      /\ Len(queue'[k]) = Len(queue[k]) + 1 /\ Len(queue[k]) \in Nat
      /\ \A i \in 1..Len(queue[k]) : queue'[k][i] = queue[k][i]
      /\ queue'[k][Len(queue[k]) + 1] = j
  BY <1>1, AppendFacts DEF Enqueue, OrderInv, SlotInv, TypeOK
<1>3. /\ waiting' = waiting /\ running' = running
      /\ sent' = sent \cup {j}
      /\ before' = before \cup ({i \in sent : LaneOf(i) = k} \X {j})
      /\ before \subseteq sent \X sent
  BY DEF Enqueue, OrderInv, SlotInv, TypeOK
<1>4. QueuedInOrder'
  <2>1. ASSUME NEW l \in Lanes, l # k
        PROVE  /\ \A n \in 1..Len(queue'[l]) :
                    LaneOf(queue'[l][n]) = l /\ queue'[l][n] \in sent'
               /\ \A m, n \in 1..Len(queue'[l]) :
                    m < n => <<queue'[l][m], queue'[l][n]>> \in before'
    <3>1. queue'[l] = queue[l]
      BY <1>2, <2>1
    <3>2. sent \subseteq sent' /\ before \subseteq before'
      BY <1>3
    <3>3. /\ \A n \in 1..Len(queue[l]) : LaneOf(queue[l][n]) = l /\ queue[l][n] \in sent
          /\ \A m, n \in 1..Len(queue[l]) : m < n => <<queue[l][m], queue[l][n]>> \in before
      BY DEF OrderInv, QueuedInOrder
    <3> QED
      BY <3>1, <3>2, <3>3
  <2>2. /\ \A n \in 1..Len(queue'[k]) : LaneOf(queue'[k][n]) = k /\ queue'[k][n] \in sent'
        /\ \A m, n \in 1..Len(queue'[k]) :
             m < n => <<queue'[k][m], queue'[k][n]>> \in before'
    <3>1. ASSUME NEW n \in 1..Len(queue'[k])
          PROVE  LaneOf(queue'[k][n]) = k /\ queue'[k][n] \in sent'
      <4>1. CASE n \in 1..Len(queue[k])
        BY <1>1, <1>2, <1>3, <4>1 DEF OrderInv, QueuedInOrder
      <4>2. CASE n = Len(queue[k]) + 1
        BY <1>2, <1>3, <4>2
      <4> QED
        BY <1>2, <4>1, <4>2
    <3>2. ASSUME NEW m \in 1..Len(queue'[k]), NEW n \in 1..Len(queue'[k]), m < n
          PROVE  <<queue'[k][m], queue'[k][n]>> \in before'
      <4>1. /\ m \in 1..Len(queue[k]) /\ queue'[k][m] = queue[k][m]
            /\ queue[k][m] \in sent /\ LaneOf(queue[k][m]) = k
        BY <1>1, <1>2, <3>2 DEF OrderInv, QueuedInOrder
      <4>2. CASE n \in 1..Len(queue[k])
        BY <1>1, <1>2, <1>3, <3>2, <4>1, <4>2 DEF OrderInv, QueuedInOrder
      <4>3. CASE n = Len(queue[k]) + 1
        BY <1>2, <1>3, <4>1, <4>3
      <4> QED
        BY <1>2, <4>2, <4>3
    <3> QED
      BY <3>1, <3>2
  <2>3. ASSUME NEW l \in Lanes, NEW n \in 1..Len(queue'[l])
        PROVE  LaneOf(queue'[l][n]) = l /\ queue'[l][n] \in sent'
    BY <2>1, <2>2
  <2>4. ASSUME NEW l \in Lanes, NEW m \in 1..Len(queue'[l]), NEW n \in 1..Len(queue'[l]), m < n
        PROVE  <<queue'[l][m], queue'[l][n]>> \in before'
    BY <2>1, <2>2, <2>4
  <2> QED
    BY <2>3, <2>4 DEF QueuedInOrder
<1>5. WaitInOrder'
  <2>1. ASSUME NEW w \in Workers, NEW m \in 1..Len(waiting[w]), NEW l \in Lanes,
               NEW n \in 1..Len(queue'[l]), l = LaneOf(waiting[w][m])
        PROVE  <<waiting[w][m], queue'[l][n]>> \in before'
    <3>1. waiting[w][m] \in sent
      BY DEF OrderInv, WaitInOrder
    <3>2. CASE l = k /\ n = Len(queue[k]) + 1
      <4>1. queue'[l][n] = j /\ LaneOf(waiting[w][m]) = k
        BY <1>2, <2>1, <3>2
      <4> QED
        BY <1>3, <3>1, <4>1
    <3>3. CASE ~(l = k /\ n = Len(queue[k]) + 1)
      <4>1. n \in 1..Len(queue[l]) /\ queue'[l][n] = queue[l][n]
        BY <1>1, <1>2, <3>3
      <4> QED
        BY <1>3, <2>1, <4>1 DEF OrderInv, WaitInOrder
    <3> QED
      BY <3>2, <3>3
  <2> QED
    BY <1>3, <2>1 DEF OrderInv, WaitInOrder
<1>6. OnePlace'
  <2>1. ASSUME NEW w \in Workers, NEW r \in running[w], NEW l \in Lanes, NEW n \in 1..Len(queue'[l])
        PROVE  queue'[l][n] # r
    <3>1. r \in sent
      BY DEF OrderInv, OnePlace
    <3>2. CASE l = k /\ n = Len(queue[k]) + 1
      BY <1>1, <1>2, <3>1, <3>2
    <3>3. CASE ~(l = k /\ n = Len(queue[k]) + 1)
      <4>1. n \in 1..Len(queue[l]) /\ queue'[l][n] = queue[l][n]
        BY <1>1, <1>2, <3>3
      <4> QED
        BY <4>1 DEF OrderInv, OnePlace
    <3> QED
      BY <3>2, <3>3
  <2> QED
    BY <1>3, <2>1 DEF OrderInv, OnePlace
<1>7. SentInOrder'
  BY <1>1, <1>3 DEF OrderInv, SentInOrder
<1> QED
  BY <1>4, <1>5, <1>6, <1>7 DEF OrderInv

LEMMA PollKeepsOrder ==
  ASSUME OrderInv, SlotInv', NEW w \in Workers, Poll(w) PROVE OrderInv'
<1> DEFINE k == Schedule[turn[w]]
           j == Head(queue[k])
<1>1. k \in Lanes /\ queue[k] \in Seq(Jobs) /\ waiting[w] \in Seq(Jobs)
  <2>1. turn[w] \in 1..7
    BY DEF OrderInv, SlotInv, TypeOK, Schedule
  <2>2. k \in Lanes
    BY <2>1 DEF Schedule, Lanes
  <2> QED
    BY <2>2 DEF OrderInv, SlotInv, TypeOK
<1>2. running' = running /\ sent' = sent /\ before' = before
  BY DEF Poll, order
<1>3. CASE queue[k] = <<>>
  <2>1. queue' = queue /\ waiting' = waiting
    BY <1>3 DEF Poll
  <2>2. QueuedInOrder' /\ SentInOrder'
    BY <1>2, <2>1 DEF OrderInv, QueuedInOrder, SentInOrder
  <2>3. WaitInOrder'
    BY <1>2, <2>1 DEF OrderInv, WaitInOrder
  <2>4. OnePlace'
    BY <1>2, <2>1 DEF OrderInv, OnePlace
  <2> QED
    BY <2>2, <2>3, <2>4 DEF OrderInv
<1>4. CASE queue[k] # <<>>
  <2>1. /\ \A l \in Lanes : l # k => queue'[l] = queue[l]
        /\ queue'[k] = Tail(queue[k])
        /\ \A v \in Workers : v # w => waiting'[v] = waiting[v]
        /\ waiting'[w] = Append(waiting[w], j)
    BY <1>1, <1>4 DEF Poll, Taken, OrderInv, SlotInv, TypeOK
  <2>2. /\ Len(queue[k]) \in Nat \ {0} /\ Len(queue'[k]) = Len(queue[k]) - 1
        /\ \A i \in 1..Len(queue[k]) - 1 : queue'[k][i] = queue[k][i + 1]
        /\ j = queue[k][1] /\ j \in Jobs
    BY <1>1, <1>4, <2>1, TailFacts
  <2>3. /\ Len(waiting[w]) \in Nat /\ Len(waiting'[w]) = Len(waiting[w]) + 1
        /\ \A i \in 1..Len(waiting[w]) : waiting'[w][i] = waiting[w][i]
        /\ waiting'[w][Len(waiting[w]) + 1] = j
    BY <1>1, <2>1, <2>2, AppendFacts
  <2>4. LaneOf(j) = k /\ j \in sent
    BY <1>1, <2>2 DEF OrderInv, QueuedInOrder
  <2>5. \A l \in Lanes : \A n \in 1..Len(queue'[l]) :
          \E i \in 1..Len(queue[l]) : queue'[l][n] = queue[l][i] /\ (l = k => i = n + 1)
                                      /\ (l # k => i = n)
    <3> TAKE l \in Lanes
    <3> TAKE n \in 1..Len(queue'[l])
    <3>1. CASE l = k
      <4>1. n + 1 \in 1..Len(queue[l]) /\ queue'[l][n] = queue[l][n + 1]
        BY <2>2, <3>1
      <4> QED
        BY <3>1, <4>1
    <3>2. CASE l # k
      BY <2>1, <3>2
    <3> QED
      BY <3>1, <3>2
  <2>6. QueuedInOrder'
    <3>1. ASSUME NEW l \in Lanes, NEW n \in 1..Len(queue'[l])
          PROVE  LaneOf(queue'[l][n]) = l /\ queue'[l][n] \in sent'
      BY <1>2, <2>5 DEF OrderInv, QueuedInOrder
    <3>2. ASSUME NEW l \in Lanes, NEW m \in 1..Len(queue'[l]), NEW n \in 1..Len(queue'[l]), m < n
          PROVE  <<queue'[l][m], queue'[l][n]>> \in before'
      <4>1. CASE l = k
        <5>1. /\ m + 1 \in 1..Len(queue[k]) /\ n + 1 \in 1..Len(queue[k]) /\ m + 1 < n + 1
              /\ queue'[k][m] = queue[k][m + 1] /\ queue'[k][n] = queue[k][n + 1]
          <6>1. m \in 1..Len(queue[k]) - 1 /\ n \in 1..Len(queue[k]) - 1
            BY <2>2, <3>2, <4>1
          <6>2. queue'[k][m] = queue[k][m + 1] /\ queue'[k][n] = queue[k][n + 1]
            BY <2>2, <6>1
          <6>3. Len(queue[k]) \in Nat
            BY <2>2
          <6>4. m + 1 \in 1..Len(queue[k]) /\ n + 1 \in 1..Len(queue[k]) /\ m + 1 < n + 1
            BY <3>2, <6>1, <6>3
          <6> QED
            BY <6>2, <6>4
        <5> QED
          BY <1>1, <1>2, <4>1, <5>1 DEF OrderInv, QueuedInOrder
      <4>2. CASE l # k
        BY <1>2, <2>1, <3>2, <4>2 DEF OrderInv, QueuedInOrder
      <4> QED
        BY <4>1, <4>2
    <3> QED
      BY <3>1, <3>2 DEF QueuedInOrder
  <2>7. WaitInOrder'
    <3> SUFFICES ASSUME NEW v \in Workers
                 PROVE  /\ \A n \in 1..Len(waiting'[v]) : waiting'[v][n] \in sent
                        /\ \A m, n \in 1..Len(waiting'[v]) :
                             m < n /\ LaneOf(waiting'[v][m]) = LaneOf(waiting'[v][n]) =>
                               <<waiting'[v][m], waiting'[v][n]>> \in before
                        /\ \A m \in 1..Len(waiting'[v]), l \in Lanes : \A n \in 1..Len(queue'[l]) :
                             l = LaneOf(waiting'[v][m]) => <<waiting'[v][m], queue'[l][n]>> \in before
      BY <1>2 DEF WaitInOrder
    <3>1. CASE v # w
      <4>1. waiting'[v] = waiting[v]
        BY <2>1, <3>1
      <4>2. /\ \A n \in 1..Len(waiting[v]) : waiting[v][n] \in sent
            /\ \A m, n \in 1..Len(waiting[v]) :
                 m < n /\ LaneOf(waiting[v][m]) = LaneOf(waiting[v][n]) =>
                   <<waiting[v][m], waiting[v][n]>> \in before
            /\ \A m \in 1..Len(waiting[v]), l \in Lanes : \A n \in 1..Len(queue[l]) :
                 l = LaneOf(waiting[v][m]) => <<waiting[v][m], queue[l][n]>> \in before
        BY DEF OrderInv, WaitInOrder
      <4>3. ASSUME NEW m \in 1..Len(waiting[v]), NEW l \in Lanes, NEW n \in 1..Len(queue'[l]),
                   l = LaneOf(waiting[v][m])
            PROVE  <<waiting[v][m], queue'[l][n]>> \in before
        <5>1. PICK i \in 1..Len(queue[l]) : queue'[l][n] = queue[l][i]
          BY <2>5
        <5> QED
          BY <4>2, <4>3, <5>1
      <4> QED
        BY <4>1, <4>2, <4>3
    <3>2. CASE v = w
      <4>1. \A n \in 1..Len(waiting'[w]) : waiting'[w][n] \in sent
        BY <2>3, <2>4 DEF OrderInv, WaitInOrder
      <4>2. ASSUME NEW m \in 1..Len(waiting'[w]), NEW n \in 1..Len(waiting'[w]), m < n,
                   LaneOf(waiting'[w][m]) = LaneOf(waiting'[w][n])
            PROVE  <<waiting'[w][m], waiting'[w][n]>> \in before
        <5>1. m \in 1..Len(waiting[w]) /\ waiting'[w][m] = waiting[w][m]
          BY <2>3, <4>2
        <5>2. CASE n \in 1..Len(waiting[w])
          BY <2>3, <4>2, <5>1, <5>2 DEF OrderInv, WaitInOrder
        <5>3. CASE n = Len(waiting[w]) + 1
          <6>1. waiting'[w][n] = queue[k][1] /\ LaneOf(waiting[w][m]) = k /\ 1 \in 1..Len(queue[k])
            BY <2>2, <2>3, <2>4, <4>2, <5>1, <5>3
          <6> QED
            BY <1>1, <5>1, <6>1 DEF OrderInv, WaitInOrder
        <5> QED
          BY <2>3, <5>2, <5>3
      <4>3. ASSUME NEW m \in 1..Len(waiting'[w]), NEW l \in Lanes, NEW n \in 1..Len(queue'[l]),
                   l = LaneOf(waiting'[w][m])
            PROVE  <<waiting'[w][m], queue'[l][n]>> \in before
        <5>1. CASE m \in 1..Len(waiting[w])
          <6>1. waiting'[w][m] = waiting[w][m]
            BY <2>3, <5>1
          <6>2. PICK i \in 1..Len(queue[l]) : queue'[l][n] = queue[l][i]
            BY <2>5
          <6> QED
            BY <4>3, <5>1, <6>1, <6>2 DEF OrderInv, WaitInOrder
        <5>2. CASE m = Len(waiting[w]) + 1
          <6>1. l = k /\ waiting'[w][m] = queue[k][1] /\ queue'[k][n] = queue[k][n + 1]
                /\ 1 \in 1..Len(queue[k]) /\ n + 1 \in 1..Len(queue[k]) /\ 1 < n + 1
            BY <2>2, <2>3, <2>4, <4>3, <5>2
          <6> QED
            BY <1>1, <6>1 DEF OrderInv, QueuedInOrder
        <5> QED
          BY <2>3, <5>1, <5>2
      <4> QED
        BY <3>2, <4>1, <4>2, <4>3
    <3> QED
      BY <3>1, <3>2
  <2>8. OnePlace'
    <3>1. \A v \in Workers : \A n \in 1..Len(waiting'[v]) :
            \/ n \in 1..Len(waiting[v]) /\ waiting'[v][n] = waiting[v][n]
            \/ v = w /\ waiting'[v][n] = j
      BY <2>1, <2>3
    <3>2. \A v \in Workers : \A n \in 1..Len(waiting[v]) : waiting[v][n] # j
      <4> SUFFICES ASSUME NEW v \in Workers, NEW n \in 1..Len(waiting[v]), waiting[v][n] = j
                   PROVE  FALSE
        OBVIOUS
      <4>1. 1 \in 1..Len(queue[k]) /\ k = LaneOf(waiting[v][n])
        BY <2>2, <2>4
      <4>2. <<waiting[v][n], queue[k][1]>> \in before
        BY <1>1, <4>1 DEF OrderInv, WaitInOrder
      <4> QED
        BY <2>2, <4>2 DEF OrderInv, SentInOrder
    <3>3. \A v \in Workers : j \notin running[v]
      BY <1>1, <2>2 DEF OrderInv, OnePlace
    <3>4. \A v, u \in Workers : v # u =>
            \A m \in 1..Len(waiting'[v]), n \in 1..Len(waiting'[u]) : waiting'[v][m] # waiting'[u][n]
      BY <3>1, <3>2 DEF OrderInv, OnePlace
    <3>5. \A v, u \in Workers : \A r \in running[v], n \in 1..Len(waiting'[u]) : waiting'[u][n] # r
      BY <3>1, <3>3 DEF OrderInv, OnePlace
    <3>6. \A v \in Workers : \A r \in running[v], l \in Lanes : \A n \in 1..Len(queue'[l]) :
            queue'[l][n] # r
      BY <2>5 DEF OrderInv, OnePlace
    <3> QED
      BY <1>2, <3>4, <3>5, <3>6 DEF OrderInv, OnePlace
  <2> QED
    BY <1>2, <2>6, <2>7, <2>8 DEF OrderInv, SentInOrder
<1> QED
  BY <1>3, <1>4

\* A message that is lost takes its job out of the order.
LEMMA LossKeepsOrder ==
  ASSUME OrderInv, SlotInv', NEW w \in Workers, PollLoses(w) PROVE OrderInv'
<1> DEFINE k == Schedule[turn[w]]
           h == Head(queue[k])
<1>1. k \in Lanes /\ queue[k] \in Seq(Jobs) /\ queue[k] # <<>>
  <2>1. turn[w] \in 1..7
    BY DEF OrderInv, SlotInv, TypeOK, Schedule
  <2>2. k \in Lanes
    BY <2>1 DEF Schedule, Lanes
  <2> QED
    BY <2>2 DEF PollLoses, OrderInv, SlotInv, TypeOK
<1>2. /\ running' = running /\ waiting' = waiting
      /\ sent' = sent \ {h} /\ before' = before \cap (sent' \X sent')
      /\ before \subseteq sent \X sent
      /\ \A l \in Lanes : l # k => queue'[l] = queue[l]
      /\ queue'[k] = Tail(queue[k])
  BY <1>1 DEF PollLoses, Forget, Taken, OrderInv, SlotInv, TypeOK
<1>3. /\ Len(queue[k]) \in Nat \ {0} /\ Len(queue'[k]) = Len(queue[k]) - 1
      /\ \A i \in 1..Len(queue[k]) - 1 : queue'[k][i] = queue[k][i + 1]
      /\ h = queue[k][1] /\ h \in Jobs
  BY <1>1, <1>2, TailFacts
<1>4. LaneOf(h) = k /\ 1 \in 1..Len(queue[k]) /\ <<h, h>> \notin before
  BY <1>1, <1>3 DEF OrderInv, QueuedInOrder, SentInOrder
<1>5. \A i, m : <<i, m>> \in before /\ i # h /\ m # h => <<i, m>> \in before'
  BY <1>2
<1>6. \A l \in Lanes : \A n \in 1..Len(queue'[l]) :
        \E i \in 1..Len(queue[l]) : queue'[l][n] = queue[l][i] /\ (l = k => i = n + 1)
                                    /\ (l # k => i = n)
  <2> TAKE l \in Lanes
  <2> TAKE n \in 1..Len(queue'[l])
  <2>1. CASE l = k
    <3>1. n + 1 \in 1..Len(queue[l]) /\ queue'[l][n] = queue[l][n + 1]
      BY <1>3, <2>1
    <3> QED
      BY <2>1, <3>1
  <2>2. CASE l # k
    BY <1>2, <2>2
  <2> QED
    BY <2>1, <2>2
<1>7. \A l \in Lanes : \A n \in 1..Len(queue'[l]) : queue'[l][n] # h
  <2> SUFFICES ASSUME NEW l \in Lanes, NEW n \in 1..Len(queue'[l]), queue'[l][n] = h
               PROVE  FALSE
    OBVIOUS
  <2>1. PICK i \in 1..Len(queue[l]) : h = queue[l][i] /\ (l = k => i = n + 1)
    BY <1>6
  <2>2. l = k /\ 1 < i
    <3>1. l = k
      BY <1>4, <2>1 DEF OrderInv, QueuedInOrder
    <3> QED
      BY <2>1, <3>1
  <2>3. <<queue[k][1], queue[k][i]>> \in before
    BY <1>1, <1>4, <2>1, <2>2 DEF OrderInv, QueuedInOrder
  <2> QED
    BY <1>3, <1>4, <2>1, <2>2, <2>3
<1>8. \A v \in Workers : \A n \in 1..Len(waiting[v]) : waiting[v][n] # h
  <2> SUFFICES ASSUME NEW v \in Workers, NEW n \in 1..Len(waiting[v]), waiting[v][n] = h
               PROVE  FALSE
    OBVIOUS
  <2>1. <<waiting[v][n], queue[k][1]>> \in before
    BY <1>1, <1>4 DEF OrderInv, WaitInOrder
  <2> QED
    BY <1>3, <1>4, <2>1
<1>9. QueuedInOrder'
  <2>1. ASSUME NEW l \in Lanes, NEW n \in 1..Len(queue'[l])
        PROVE  LaneOf(queue'[l][n]) = l /\ queue'[l][n] \in sent'
    <3>1. PICK i \in 1..Len(queue[l]) : queue'[l][n] = queue[l][i]
      BY <1>6
    <3> QED
      BY <1>2, <1>7, <3>1 DEF OrderInv, QueuedInOrder
  <2>2. ASSUME NEW l \in Lanes, NEW m \in 1..Len(queue'[l]), NEW n \in 1..Len(queue'[l]), m < n
        PROVE  <<queue'[l][m], queue'[l][n]>> \in before'
    <3>1. PICK i \in 1..Len(queue[l]) : queue'[l][m] = queue[l][i] /\ (l = k => i = m + 1)
                                        /\ (l # k => i = m)
      BY <1>6
    <3>2. PICK q \in 1..Len(queue[l]) : queue'[l][n] = queue[l][q] /\ (l = k => q = n + 1)
                                        /\ (l # k => q = n)
      BY <1>6
    <3>3. i < q
      BY <2>2, <3>1, <3>2
    <3>4. <<queue'[l][m], queue'[l][n]>> \in before
      BY <3>1, <3>2, <3>3 DEF OrderInv, QueuedInOrder
    <3> QED
      BY <1>5, <1>7, <3>4
  <2> QED
    BY <2>1, <2>2 DEF QueuedInOrder
<1>10. WaitInOrder'
  <2>1. ASSUME NEW v \in Workers, NEW n \in 1..Len(waiting[v]) PROVE waiting[v][n] \in sent'
    BY <1>2, <1>8 DEF OrderInv, WaitInOrder
  <2>2. ASSUME NEW v \in Workers, NEW m \in 1..Len(waiting[v]), NEW n \in 1..Len(waiting[v]),
               m < n, LaneOf(waiting[v][m]) = LaneOf(waiting[v][n])
        PROVE  <<waiting[v][m], waiting[v][n]>> \in before'
    <3>1. <<waiting[v][m], waiting[v][n]>> \in before
      BY <2>2 DEF OrderInv, WaitInOrder
    <3> QED
      BY <1>5, <1>8, <3>1
  <2>3. ASSUME NEW v \in Workers, NEW m \in 1..Len(waiting[v]), NEW l \in Lanes,
               NEW n \in 1..Len(queue'[l]), l = LaneOf(waiting[v][m])
        PROVE  <<waiting[v][m], queue'[l][n]>> \in before'
    <3>1. PICK i \in 1..Len(queue[l]) : queue'[l][n] = queue[l][i]
      BY <1>6
    <3>2. <<waiting[v][m], queue'[l][n]>> \in before
      BY <2>3, <3>1 DEF OrderInv, WaitInOrder
    <3> QED
      BY <1>5, <1>7, <1>8, <3>2
  <2>4. waiting' = waiting
    BY <1>2
  <2> QED
    BY <2>1, <2>2, <2>3, <2>4 DEF WaitInOrder
<1>11. OnePlace'
  <2>1. \A v \in Workers : h \notin running[v]
    BY <1>1, <1>3, <1>4 DEF OrderInv, OnePlace
  <2>2. \A v \in Workers : \A r \in running[v] :
          /\ r \in sent'
          /\ \A l \in Lanes : \A n \in 1..Len(queue'[l]) : queue'[l][n] # r
    BY <1>2, <1>6, <2>1 DEF OrderInv, OnePlace
  <2> QED
    BY <1>2, <2>2 DEF OrderInv, OnePlace
<1>12. SentInOrder'
  BY <1>2 DEF OrderInv, SentInOrder
<1> QED
  BY <1>9, <1>10, <1>11, <1>12 DEF OrderInv

LEMMA StartKeepsOrder ==
  ASSUME OrderInv, SlotInv', NEW w \in Workers, StartJob(w)
  PROVE  /\ OrderInv'
         /\ \A j \in Jobs : <<j, Head(waiting[w])>> \in before =>
              j \notin ToSet(queue[LaneOf(j)]) \cup ToSet(waiting[w])
<1> DEFINE h == Head(waiting[w])
<1>1. /\ queue' = queue /\ sent' = sent /\ before' = before
      /\ running' = [running EXCEPT ![w] = @ \cup {h}]
      /\ waiting' = [waiting EXCEPT ![w] = Tail(@)]
      /\ waiting[w] # <<>> /\ waiting[w] \in Seq(Jobs)
  BY DEF StartJob, order, OrderInv, SlotInv, TypeOK
<1>2. /\ Len(waiting[w]) \in Nat \ {0} /\ Len(Tail(waiting[w])) = Len(waiting[w]) - 1
      /\ \A i \in 1..Len(waiting[w]) - 1 : Tail(waiting[w])[i] = waiting[w][i + 1]
      /\ h = waiting[w][1] /\ h \in Jobs
  BY <1>1, TailFacts
<1>3. \A v \in Workers : \A n \in 1..Len(waiting'[v]) :
        \E i \in 1..Len(waiting[v]) : waiting'[v][n] = waiting[v][i] /\ (v = w => i = n + 1)
                                      /\ (v # w => i = n)
  <2> TAKE v \in Workers
  <2> TAKE n \in 1..Len(waiting'[v])
  <2>1. CASE v = w
    <3>1. waiting'[w] = Tail(waiting[w])
      BY <1>1 DEF OrderInv, SlotInv, TypeOK
    <3>2. n + 1 \in 1..Len(waiting[w]) /\ waiting'[w][n] = waiting[w][n + 1]
      BY <1>2, <2>1, <3>1
    <3> QED
      BY <2>1, <3>2
  <2>2. CASE v # w
    BY <1>1, <2>2 DEF OrderInv, SlotInv, TypeOK
  <2> QED
    BY <2>1, <2>2
<1>4. 1 \in 1..Len(waiting[w]) /\ h \in sent /\ LaneOf(h) \in Lanes
  BY <1>2, LaneType DEF OrderInv, WaitInOrder
<1>5. <<h, h>> \notin before
  BY <1>2 DEF OrderInv, SentInOrder
<1>6. \A i \in 2..Len(waiting[w]) : LaneOf(waiting[w][i]) = LaneOf(h) => <<h, waiting[w][i]>> \in before
  BY <1>2, <1>4 DEF OrderInv, WaitInOrder
<1>7. \A n \in 1..Len(queue[LaneOf(h)]) : <<h, queue[LaneOf(h)][n]>> \in before
  BY <1>2, <1>4 DEF OrderInv, WaitInOrder
<1>8. WaitInOrder'
  <2>1. ASSUME NEW v \in Workers, NEW m \in 1..Len(waiting'[v]), NEW n \in 1..Len(waiting'[v]), m < n,
               LaneOf(waiting'[v][m]) = LaneOf(waiting'[v][n])
        PROVE  <<waiting'[v][m], waiting'[v][n]>> \in before
    <3>1. PICK i \in 1..Len(waiting[v]) : waiting'[v][m] = waiting[v][i]
                                          /\ (v = w => i = m + 1) /\ (v # w => i = m)
      BY <1>3
    <3>2. PICK k \in 1..Len(waiting[v]) : waiting'[v][n] = waiting[v][k]
                                          /\ (v = w => k = n + 1) /\ (v # w => k = n)
      BY <1>3
    <3>3. i < k
      BY <2>1, <3>1, <3>2
    <3> QED
      BY <2>1, <3>1, <3>2, <3>3 DEF OrderInv, WaitInOrder
  <2>2. ASSUME NEW v \in Workers, NEW m \in 1..Len(waiting'[v])
        PROVE  /\ waiting'[v][m] \in sent
               /\ \A l \in Lanes : \A n \in 1..Len(queue[l]) :
                    l = LaneOf(waiting'[v][m]) => <<waiting'[v][m], queue[l][n]>> \in before
    <3>1. PICK i \in 1..Len(waiting[v]) : waiting'[v][m] = waiting[v][i]
      BY <1>3
    <3> QED
      BY <3>1 DEF OrderInv, WaitInOrder
  <2>3. ASSUME NEW v \in Workers
        PROVE  /\ \A n \in 1..Len(waiting'[v]) : waiting'[v][n] \in sent'
               /\ \A m, n \in 1..Len(waiting'[v]) :
                    m < n /\ LaneOf(waiting'[v][m]) = LaneOf(waiting'[v][n]) =>
                      <<waiting'[v][m], waiting'[v][n]>> \in before'
               /\ \A m \in 1..Len(waiting'[v]), l \in Lanes : \A n \in 1..Len(queue'[l]) :
                    l = LaneOf(waiting'[v][m]) => <<waiting'[v][m], queue'[l][n]>> \in before'
    <3>1. queue' = queue /\ sent' = sent /\ before' = before
      BY <1>1
    <3>2. \A n \in 1..Len(waiting'[v]) : waiting'[v][n] \in sent'
      BY <2>2, <3>1
    <3>3. \A m, n \in 1..Len(waiting'[v]) :
            m < n /\ LaneOf(waiting'[v][m]) = LaneOf(waiting'[v][n]) =>
              <<waiting'[v][m], waiting'[v][n]>> \in before'
      BY <2>1, <3>1
    <3>4. \A m \in 1..Len(waiting'[v]), l \in Lanes : \A n \in 1..Len(queue'[l]) :
            l = LaneOf(waiting'[v][m]) => <<waiting'[v][m], queue'[l][n]>> \in before'
      BY <2>2, <3>1
    <3> QED
      BY <3>2, <3>3, <3>4
  <2> QED
    BY <2>3 DEF WaitInOrder
<1>9. OnePlace'
  <2>1. /\ running'[w] = running[w] \cup {h}
        /\ \A v \in Workers : v # w => running'[v] = running[v]
    BY <1>1 DEF OrderInv, SlotInv, TypeOK
  <2>2. \A v \in Workers : \A n \in 1..Len(waiting'[v]) : waiting'[v][n] # h
    <3> SUFFICES ASSUME NEW v \in Workers, NEW n \in 1..Len(waiting'[v]), waiting'[v][n] = h
                 PROVE  FALSE
      OBVIOUS
    <3>1. PICK i \in 1..Len(waiting[v]) : h = waiting[v][i] /\ (v = w => i = n + 1)
      BY <1>3
    <3>2. CASE v = w
      BY <1>2, <1>5, <1>6, <3>1, <3>2
    <3>3. CASE v # w
      BY <1>2, <1>4, <3>1, <3>3 DEF OrderInv, OnePlace
    <3> QED
      BY <3>2, <3>3
  <2>3. \A l \in Lanes : \A n \in 1..Len(queue[l]) : queue[l][n] # h
    BY <1>5, <1>7 DEF OrderInv, QueuedInOrder
  <2>4. \A v \in Workers : h \notin running[v]
    BY <1>2, <1>4 DEF OrderInv, OnePlace
  <2>5. ASSUME NEW v \in Workers, NEW u \in Workers, v # u
        PROVE  /\ running'[v] \cap running'[u] = {}
               /\ \A m \in 1..Len(waiting'[v]), n \in 1..Len(waiting'[u]) : waiting'[v][m] # waiting'[u][n]
    <3>1. running'[v] \cap running'[u] = {}
      BY <2>1, <2>4, <2>5 DEF OrderInv, OnePlace
    <3>2. ASSUME NEW m \in 1..Len(waiting'[v]), NEW n \in 1..Len(waiting'[u])
          PROVE  waiting'[v][m] # waiting'[u][n]
      <4>1. PICK i \in 1..Len(waiting[v]) : waiting'[v][m] = waiting[v][i]
        BY <1>3
      <4>2. PICK k \in 1..Len(waiting[u]) : waiting'[u][n] = waiting[u][k]
        BY <1>3
      <4> QED
        BY <2>5, <4>1, <4>2 DEF OrderInv, OnePlace
    <3> QED
      BY <3>1, <3>2
  <2>6. ASSUME NEW v \in Workers, NEW r \in running'[v]
        PROVE  /\ r \in sent
               /\ \A u \in Workers : \A n \in 1..Len(waiting'[u]) : waiting'[u][n] # r
               /\ \A l \in Lanes : \A n \in 1..Len(queue[l]) : queue[l][n] # r
    <3>1. CASE r = h
      BY <1>4, <2>2, <2>3, <3>1
    <3>2. CASE r # h
      <4>1. r \in running[v]
        BY <2>1, <3>2
      <4>2. ASSUME NEW u \in Workers, NEW n \in 1..Len(waiting'[u]) PROVE waiting'[u][n] # r
        <5>1. PICK i \in 1..Len(waiting[u]) : waiting'[u][n] = waiting[u][i]
          BY <1>3
        <5> QED
          BY <4>1, <5>1 DEF OrderInv, OnePlace
      <4> QED
        BY <4>1, <4>2 DEF OrderInv, OnePlace
    <3> QED
      BY <3>1, <3>2
  <2>7. queue' = queue /\ sent' = sent
    BY <1>1
  <2> SUFFICES ASSUME NEW u \in Workers
               PROVE  /\ \A v \in Workers : v # u =>
                           /\ running'[v] \cap running'[u] = {}
                           /\ \A m \in 1..Len(waiting'[v]), n \in 1..Len(waiting'[u]) :
                                waiting'[v][m] # waiting'[u][n]
                      /\ \A r \in running'[u] :
                           /\ r \in sent
                           /\ \A v \in Workers : \A n \in 1..Len(waiting'[v]) : waiting'[v][n] # r
                           /\ \A l \in Lanes : \A n \in 1..Len(queue[l]) : queue[l][n] # r
    BY <2>7, Zenon DEF OnePlace
  <2>8. ASSUME NEW v \in Workers, v # u
        PROVE  /\ running'[v] \cap running'[u] = {}
               /\ \A m \in 1..Len(waiting'[v]), n \in 1..Len(waiting'[u]) :
                    waiting'[v][m] # waiting'[u][n]
    BY <2>5, <2>8, Zenon
  <2> QED
    BY <2>6, <2>8, Zenon
<1>10. ASSUME NEW j \in Jobs, <<j, h>> \in before
       PROVE  j \notin ToSet(queue[LaneOf(j)]) \cup ToSet(waiting[w])
  <2>1. <<h, j>> \notin before /\ j # h /\ LaneOf(j) = LaneOf(h)
    BY <1>2, <1>5, <1>10 DEF OrderInv, SentInOrder
  <2>2. ASSUME j \in ToSet(queue[LaneOf(h)]) PROVE FALSE
    <3>1. queue[LaneOf(h)] \in Seq(Jobs)
      BY <1>4 DEF OrderInv, SlotInv, TypeOK
    <3>2. PICK n \in 1..Len(queue[LaneOf(h)]) : queue[LaneOf(h)][n] = j
      BY <2>2, <3>1, ToSetFacts
    <3> QED
      BY <1>7, <2>1, <3>2
  <2>3. ASSUME j \in ToSet(waiting[w]) PROVE FALSE
    <3>1. PICK n \in 1..Len(waiting[w]) : waiting[w][n] = j
      BY <1>1, <2>3, ToSetFacts
    <3>2. n \in 2..Len(waiting[w])
      BY <1>2, <2>1, <3>1
    <3> QED
      BY <1>6, <2>1, <3>1, <3>2
  <2> QED
    BY <2>1, <2>2, <2>3
<1> QED
  BY <1>1, <1>8, <1>9, <1>10 DEF OrderInv, QueuedInOrder, SentInOrder

LEMMA EndKeepsOrder ==
  ASSUME OrderInv, SlotInv', NEW w \in Workers, NEW j \in Jobs, EndJob(w, j)
  PROVE  OrderInv' /\ \A v \in Workers : running'[v] \subseteq running[v]
<1>1. /\ queue' = queue /\ waiting' = waiting /\ j \in running[w]
      /\ sent' = sent \ {j} /\ before' = before \cap (sent' \X sent')
      /\ running'[w] = running[w] \ {j}
      /\ \A v \in Workers : v # w => running'[v] = running[v]
      /\ before \subseteq sent \X sent
  BY DEF EndJob, Forget, OrderInv, SlotInv, TypeOK
<1>2. \A k, m : <<k, m>> \in before /\ k # j /\ m # j => <<k, m>> \in before'
  BY <1>1
<1>3. QueuedInOrder'
  <2>1. \A l \in Lanes : \A n \in 1..Len(queue[l]) : queue[l][n] # j
    BY <1>1 DEF OrderInv, OnePlace
  <2>2. ASSUME NEW l \in Lanes, NEW n \in 1..Len(queue[l])
        PROVE  LaneOf(queue[l][n]) = l /\ queue[l][n] \in sent'
    BY <1>1, <2>1 DEF OrderInv, QueuedInOrder
  <2>3. ASSUME NEW l \in Lanes, NEW m \in 1..Len(queue[l]), NEW n \in 1..Len(queue[l]), m < n
        PROVE  <<queue[l][m], queue[l][n]>> \in before'
    BY <1>2, <2>1, <2>3 DEF OrderInv, QueuedInOrder
  <2> QED
    BY <1>1, <2>2, <2>3 DEF QueuedInOrder
<1>4. WaitInOrder'
  <2>1. /\ \A l \in Lanes : \A n \in 1..Len(queue'[l]) : queue'[l][n] # j
        /\ \A v \in Workers : \A n \in 1..Len(waiting'[v]) : waiting'[v][n] # j
    BY <1>1 DEF OrderInv, OnePlace
  <2>2. ASSUME NEW v \in Workers, NEW n \in 1..Len(waiting'[v]) PROVE waiting'[v][n] \in sent'
    BY <1>1, <2>1 DEF OrderInv, WaitInOrder
  <2>3. ASSUME NEW v \in Workers, NEW m \in 1..Len(waiting'[v]), NEW n \in 1..Len(waiting'[v]),
               m < n, LaneOf(waiting'[v][m]) = LaneOf(waiting'[v][n])
        PROVE  <<waiting'[v][m], waiting'[v][n]>> \in before'
    <3>1. <<waiting'[v][m], waiting'[v][n]>> \in before
      BY <1>1, <2>3 DEF OrderInv, WaitInOrder
    <3> QED
      BY <1>2, <2>1, <3>1
  <2>4. ASSUME NEW v \in Workers, NEW m \in 1..Len(waiting'[v]), NEW l \in Lanes,
               NEW n \in 1..Len(queue'[l]), l = LaneOf(waiting'[v][m])
        PROVE  <<waiting'[v][m], queue'[l][n]>> \in before'
    <3>1. <<waiting'[v][m], queue'[l][n]>> \in before
      BY <1>1, <2>4 DEF OrderInv, WaitInOrder
    <3> QED
      BY <1>2, <2>1, <3>1
  <2> QED
    BY <2>2, <2>3, <2>4, Zenon DEF WaitInOrder
<1>5. OnePlace'
  BY <1>1 DEF OrderInv, OnePlace
<1>6. SentInOrder'
  BY <1>1 DEF OrderInv, SentInOrder
<1>7. \A v \in Workers : running'[v] \subseteq running[v]
  BY <1>1
<1> QED
  BY <1>3, <1>4, <1>5, <1>6, <1>7 DEF OrderInv

LEMMA OrderStep == OrderInv /\ [Next]_vars => OrderInv'
<1> SUFFICES ASSUME OrderInv, [Next]_vars PROVE OrderInv' OBVIOUS
<1>1. SlotInv'
  BY SlotStep DEF OrderInv
<1>2. ASSUME UNCHANGED <<queue, waiting, running, sent, before>> PROVE OrderInv'
  <2>1. QueuedInOrder' /\ SentInOrder'
    BY <1>2 DEF OrderInv, QueuedInOrder, SentInOrder
  <2>2. WaitInOrder'
    BY <1>2 DEF OrderInv, WaitInOrder
  <2>3. OnePlace'
    BY <1>2 DEF OrderInv, OnePlace
  <2> QED
    BY <1>1, <2>1, <2>2, <2>3 DEF OrderInv
<1> QED
  BY <1>1, <1>2, EnqueueKeepsOrder, PollKeepsOrder, LossKeepsOrder, StartKeepsOrder, EndKeepsOrder
     DEF Next, vars, order, PollFails, Cancel, Listen, ListenFails, Hear

\* Through list, schedule and semaphore, the jobs of a lane that one worker takes
\* start in the order in which they were sent.
THEOREM LanesAreOrdered == Spec => LaneOrderIsKept
<1> DEFINE Kept == \A w \in Workers : \A k \in running'[w] \ running[w] : \A j \in Jobs :
                     <<j, k>> \in before =>
                       j \notin ToSet(queue[LaneOf(j)]) \cup ToSet(waiting[w])
<1>1. OrderInv /\ [Next]_vars => [Kept]_running
  <2> SUFFICES ASSUME OrderInv, [Next]_vars, running' # running PROVE Kept
    OBVIOUS
  <2>1. SlotInv'
    BY SlotStep DEF OrderInv
  <2>2. \/ \E w \in Workers : StartJob(w)
        \/ \E w \in Workers, j \in Jobs : EndJob(w, j)
    BY DEF Next, vars, Enqueue, Cancel, Poll, PollLoses, PollFails, Listen, ListenFails, Hear
  <2>3. ASSUME NEW w \in Workers, StartJob(w) PROVE Kept
    <3>1. running' = [running EXCEPT ![w] = @ \cup {Head(waiting[w])}]
      BY <2>3 DEF StartJob
    <3>2. \A v \in Workers : \A k \in running'[v] \ running[v] : v = w /\ k = Head(waiting[w])
      BY <3>1 DEF OrderInv, SlotInv, TypeOK
    <3> QED
      BY <2>1, <2>3, <3>2, StartKeepsOrder
  <2>4. ASSUME NEW w \in Workers, NEW j \in Jobs, EndJob(w, j) PROVE Kept
    BY <2>1, <2>4, EndKeepsOrder
  <2> QED
    BY <2>2, <2>3, <2>4
<1> QED
  BY OrderInit, OrderStep, <1>1, PTL DEF Spec, LaneOrderIsKept
=============================================================================
