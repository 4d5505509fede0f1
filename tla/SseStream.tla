------------------------------ MODULE SseStream ------------------------------
(***************************************************************************)
(* The events of one task on their way to the page.  The worker publishes  *)
(* each event and then appends it to a capped Redis stream; a connection   *)
(* of the API process first replays that stream and then subscribes; the   *)
(* page shows what its connections deliver.  A task that stops for         *)
(* approval is resumed under the same task id, hence on the same channel.  *)
(* Code: backend/services/sse/manager.py and consumer.py, backend/api/     *)
(* chat.py, frontend/src/hooks/useResearchStream.ts and                    *)
(* features/chat/ChatDetailsContainer.tsx.                                 *)
(***************************************************************************)
EXTENDS Integers, Sequences, SequencesExt

CONSTANTS
  MaxLen,      \* STREAM_MAXLEN, also the number of events a replay asks for
  MaxEvents,   \* bound: events of the task
  MaxReloads,  \* bound: reloads of the page
  Hitl,        \* the task may stop for approval
  Faults       \* environment: which failures happen

FaultKinds ==
  {"publish",   \* PUBLISH fails, the event is dropped
   "xadd",      \* XADD fails, the event is live only
   "history",   \* XREVRANGE fails, nothing is replayed
   "consumer",  \* a connection of the API process ends with an exception
   "crash"}     \* the worker dies: no last event, no archive

ASSUME StreamAssumption ==
  /\ MaxLen \in Nat \ {0}
  /\ MaxEvents \in Nat
  /\ MaxReloads \in Nat
  /\ Hitl \in BOOLEAN
  /\ Faults \subseteq FaultKinds

VARIABLES
  phase,      \* where the run of the task is
  row,        \* the task row; "approved" is suspended without pending_approval
  published,  \* kinds of the events the run has published; their ids are 1, 2, ...
  sending,    \* the event between PUBLISH and XADD, or 0
  stream,     \* sse_stream:<task>, ids of events
  conn,       \* the connections of the page
  page,       \* what the page shows
  reloads,    \* number of reloads
  failed,     \* history: a failure has happened
  base,       \* history: what the stream held when a connection read it
  since       \* history: how many events there were when a connection subscribed

vars == <<phase, row, published, sending, stream, conn, page, reloads, failed,
          base, since>>
history == <<base, since>>

\* The hook of the chat page and the hook of the approval card each own one.
Slots == {"chat", "approval"}
Kinds == {"token", "breakpoint", "complete", "error"}
Ids == 1..MaxEvents

Closed == [at |-> "closed", todo |-> <<>>, inbox |-> <<>>, got |-> <<>>]
Opening == [Closed EXCEPT !.at = "opening"]

Kind(id) == published[id]
Open(c) == conn[c].at # "closed"

TypeOK ==
  /\ phase \in {"ready", "running", "breaking", "ending", "suspended", "over", "dead"}
  /\ row \in {"running", "suspended", "approved", "final"}
  /\ published \in Seq(Kinds) /\ Len(published) <= MaxEvents
  /\ sending \in {0} \cup Ids
  /\ stream \in Seq(Ids)
  /\ conn \in [Slots -> [at : {"closed", "asking", "opening", "replaying", "live"},
                         todo : Seq(Ids), inbox : Seq(Ids), got : Seq(Ids)]]
  /\ \A c \in Slots : Len(conn[c].todo) <= MaxLen
  /\ page \in [at : {"loading", "connecting", "open"},
               dialog : {0} \cup Ids, done : BOOLEAN]
  /\ reloads \in 0..MaxReloads
  /\ failed \in BOOLEAN
  /\ base \in [Slots -> SUBSET Ids]
  /\ since \in [Slots -> 0..MaxEvents]

\* A chat request has been accepted: its job is queued, its stream is opening.
Init ==
  /\ phase = "ready"
  /\ row = "running"
  /\ published = <<>>
  /\ sending = 0
  /\ stream = <<>>
  /\ conn = [c \in Slots |-> IF c = "chat" THEN Opening ELSE Closed]
  /\ page = [at |-> "open", dialog |-> 0, done |-> FALSE]
  /\ reloads = 0
  /\ failed = FALSE
  /\ base = [c \in Slots |-> {}]
  /\ since = [c \in Slots |-> 0]

-----------------------------------------------------------------------------
(* The worker.                                                             *)

StartRun ==
  /\ phase = "ready"
  /\ phase' = "running"
  /\ UNCHANGED <<row, published, sending, stream, conn, page, reloads, failed, history>>

\* Mutant: a connection is subscribed before it replays.
HearsEarly(c) == conn[c].at # "closed"

\* The connections PUBLISH reaches.
Hears(c) == conn[c].at = "live"

\* What the run does after an event of this kind: go on, or leave and archive.
PhaseAfter(k) == CASE k = "token"      -> "running"
                   [] k = "breakpoint" -> "breaking"
                   [] OTHER            -> "ending"

\* _publish_event, first half.  Only a run of a task with approval stops.
Publish(k) ==
  LET id == Len(published) + 1
  IN  /\ phase = "running"
      /\ sending = 0
      /\ id <= MaxEvents
      /\ k = "breakpoint" => Hitl
      /\ k \in {"token", "breakpoint"} => id < MaxEvents
      /\ published' = Append(published, k)
      /\ phase' = PhaseAfter(k)
      /\ \/ /\ conn' = [c \in Slots |->
                          IF Hears(c)
                            THEN [conn[c] EXCEPT !.inbox = Append(@, id)]
                            ELSE conn[c]]
            /\ sending' = id
            /\ UNCHANGED failed
         \/ /\ "publish" \in Faults
            /\ failed' = TRUE
            /\ UNCHANGED <<conn, sending>>
      /\ UNCHANGED <<row, stream, page, reloads, history>>

\* Second half.  MAXLEN is approximate: at least the last MaxLen events stay.
XAdd ==
  /\ sending # 0
  /\ sending' = 0
  /\ \/ /\ LET s == Append(stream, sending)
           IN  \E n \in 1..Len(s) :
                 /\ n = 1 \/ Len(s) - n + 1 >= MaxLen
                 /\ stream' = SubSeq(s, n, Len(s))
        /\ UNCHANGED failed
     \/ /\ "xadd" \in Faults
        /\ failed' = TRUE
        /\ UNCHANGED stream
  /\ UNCHANGED <<phase, row, published, conn, page, reloads, history>>

\* The finally block saves the row after the last event has gone out.
ArchiveRun ==
  /\ phase \in {"breaking", "ending"}
  /\ sending = 0
  /\ IF phase = "breaking"
       THEN phase' = "suspended" /\ row' = "suspended"
       ELSE phase' = "over" /\ row' = "final"
  /\ UNCHANGED <<published, sending, stream, conn, page, reloads, failed, history>>

Crash ==
  /\ "crash" \in Faults
  /\ phase \in {"ready", "running", "breaking", "ending"}
  /\ phase' = "dead"
  /\ sending' = 0
  /\ failed' = TRUE
  /\ UNCHANGED <<row, published, stream, conn, page, reloads, history>>

-----------------------------------------------------------------------------
(* A connection of the API process, and the page at its other end.         *)

\* Mutant: the page does not take an error for the end.
ReceiveComplete(id) ==
  page' = CASE Kind(id) = "breakpoint" -> [page EXCEPT !.dialog = id]
            [] Kind(id) = "complete"   -> [page EXCEPT !.done = TRUE]
            [] OTHER                   -> page

\* What the page does with an event.
Receive(id) ==
  page' = CASE Kind(id) = "token"      -> page
            [] Kind(id) = "breakpoint" -> [page EXCEPT !.dialog = id]
            [] OTHER                   -> [page EXCEPT !.done = TRUE]

\* Mutant: the replay leaves the oldest event out.
RecentButOne(s) == SubSeq(s, IF Len(s) > MaxLen THEN Len(s) - MaxLen + 2 ELSE 2, Len(s))

\* XREVRANGE count, reversed.
Recent(s) == SubSeq(s, IF Len(s) > MaxLen THEN Len(s) - MaxLen + 1 ELSE 1, Len(s))

ReadHistory(c) ==
  /\ conn[c].at = "opening"
  /\ \/ /\ conn' = [conn EXCEPT ![c].at = "replaying", ![c].todo = Recent(stream)]
        /\ UNCHANGED failed
     \/ /\ "history" \in Faults
        /\ conn' = [conn EXCEPT ![c].at = "replaying"]
        /\ failed' = TRUE
  /\ base' = [base EXCEPT ![c] = {stream[i] : i \in
                {i \in 1..Len(stream) : i > Len(stream) - MaxLen}}]
  /\ UNCHANGED <<phase, row, published, sending, stream, page, reloads, since>>

ReplayNext(c) ==
  /\ conn[c].at = "replaying"
  /\ conn[c].todo # <<>>
  /\ LET id == Head(conn[c].todo)
     IN  /\ conn' = [conn EXCEPT ![c].todo = Tail(@), ![c].got = Append(@, id)]
         /\ Receive(id)
  /\ UNCHANGED <<phase, row, published, sending, stream, reloads, failed, history>>

Subscribe(c) ==
  /\ conn[c].at = "replaying"
  /\ conn[c].todo = <<>>
  /\ conn' = [conn EXCEPT ![c].at = "live"]
  /\ since' = [since EXCEPT ![c] = Len(published)]
  /\ UNCHANGED <<phase, row, published, sending, stream, page, reloads, failed, base>>

\* Mutant: an error event does not end the connection.
LastEventComplete(k) == k = "complete"

LastEvent(k) == k \in {"complete", "error"}

\* get_message: the connection ends itself only at a live last event.
DeliverLive(c) ==
  /\ conn[c].at = "live"
  /\ conn[c].inbox # <<>>
  /\ LET id == Head(conn[c].inbox)
     IN  /\ conn' = [conn EXCEPT
                       ![c].inbox = Tail(@), ![c].got = Append(@, id),
                       ![c].at = IF LastEvent(Kind(id)) THEN "closed" ELSE "live"]
         /\ Receive(id)
  /\ UNCHANGED <<phase, row, published, sending, stream, reloads, failed, history>>

\* The page takes a clean close for the end and does not connect again.
ConsumerFails(c) ==
  /\ "consumer" \in Faults
  /\ conn[c].at \in {"replaying", "live"}
  /\ conn' = [conn EXCEPT ![c] = Closed]
  /\ failed' = TRUE
  /\ UNCHANGED <<phase, row, published, sending, stream, page, reloads, history>>

-----------------------------------------------------------------------------
(* The page.                                                               *)

\* The user approves.  The card's hook aborts its own last connection, not the
\* one of the chat, and posts the resume.
Approve ==
  /\ page.at = "open"
  /\ page.dialog # 0
  /\ page' = [page EXCEPT !.dialog = 0]
  /\ conn' = [conn EXCEPT !["approval"] = [Closed EXCEPT !.at = "asking"]]
  /\ UNCHANGED <<phase, row, published, sending, stream, reloads, failed, history>>

\* The resume is answered with a stream, or with 404 while no task is pending;
\* the hook posts it again a few times and then shows the error.
AskResume ==
  /\ conn["approval"].at = "asking"
  /\ \/ /\ row = "suspended"
        /\ row' = "approved"
        /\ phase' = "ready"
        /\ conn' = [conn EXCEPT !["approval"] = Opening]
        /\ page' = page
     \/ /\ row # "suspended"
        /\ conn' = [conn EXCEPT !["approval"] = Closed]
        /\ page' = [page EXCEPT !.done = TRUE]
        /\ UNCHANGED <<row, phase>>
  /\ UNCHANGED <<published, sending, stream, reloads, failed, history>>

Reload ==
  /\ reloads < MaxReloads
  /\ reloads' = reloads + 1
  /\ conn' = [c \in Slots |-> Closed]
  /\ page' = [at |-> "loading", dialog |-> 0, done |-> FALSE]
  /\ UNCHANGED <<phase, row, published, sending, stream, failed, history>>

\* The latest breakpoint event, or 0.
LastBreakpoint ==
  LET B == {i \in DOMAIN published : published[i] = "breakpoint"}
  IN  IF B = {} THEN 0 ELSE CHOOSE i \in B : \A k \in B : k <= i

\* loadSessionHistory: reconnect to a running task, ask for a pending approval,
\* and show any other task as it is.
LoadHistory ==
  /\ page.at = "loading"
  /\ page' = CASE row = "running"   -> [page EXCEPT !.at = "connecting"]
               [] row = "suspended" -> [page EXCEPT !.at = "open", !.dialog = LastBreakpoint]
               [] OTHER             -> [page EXCEPT !.at = "open", !.done = TRUE]
  /\ UNCHANGED <<phase, row, published, sending, stream, conn, reloads, failed, history>>

\* POST /chat without a message: only a running task can be reconnected to; the
\* hook repeats a refused request a few times, in vain.
Reconnect ==
  /\ page.at = "connecting"
  /\ IF row = "running"
       THEN /\ conn' = [conn EXCEPT !["chat"] = Opening]
            /\ page' = [page EXCEPT !.at = "open"]
       ELSE /\ conn' = conn
            /\ page' = [page EXCEPT !.at = "open", !.done = TRUE]
  /\ UNCHANGED <<phase, row, published, sending, stream, reloads, failed, history>>

-----------------------------------------------------------------------------
WorkerStep == StartRun \/ (\E k \in Kinds : Publish(k)) \/ XAdd \/ ArchiveRun

ConnStep(c) ==
  ReadHistory(c) \/ ReplayNext(c) \/ Subscribe(c) \/ DeliverLive(c)

PageStep == Approve \/ AskResume \/ Reload \/ LoadHistory \/ Reconnect

FaultStep == Crash \/ \E c \in Slots : ConsumerFails(c)

Next == WorkerStep \/ (\E c \in Slots : ConnStep(c)) \/ PageStep \/ FaultStep

Spec == Init /\ [][Next]_vars

\* A run publishes a last event in the end (every graph run ends, its failures
\* are caught and published); each connection is a loop of the API's event loop.
FairSpec ==
  /\ Spec
  /\ WF_vars(WorkerStep)
  /\ WF_vars(\E k \in Kinds \ {"token"} : Publish(k))
  /\ \A c \in Slots : WF_vars(ConnStep(c))
  /\ WF_vars(LoadHistory \/ Reconnect)

-----------------------------------------------------------------------------
(* Properties.                                                             *)

\* A connection delivers events in the order of the run and none twice, although
\* it takes them from two sources that are written one after the other.
InOrderOnce ==
  \A c \in Slots : LET g == conn[c].got
                   IN  \A i, k \in DOMAIN g : i < k => g[i] < g[k]

\* What a live connection has not delivered and will not deliver was published
\* between its replay and its subscription, or a failure or the cap lost it.
OnlyTheGapIsLost ==
  \A c \in Slots : conn[c].at = "live" /\ ~failed =>
    \A id \in DOMAIN published :
      \/ id \in ToSet(conn[c].got) \cup ToSet(conn[c].inbox)
      \/ id <= since[c] /\ id \notin base[c]

\* A subscribed connection of a run that ends, ends with it, or stays for the
\* approval the run stopped for.
LiveConnectionEnds ==
  \A c \in Slots :
    conn[c].at = "live" /\ phase = "running"
      ~> conn[c].at # "live" \/ phase = "suspended" \/ failed

\* The last event of the run went out between the replay of a connection and its
\* subscription.
EndIsInTheGap(c) ==
  LET last == Len(published)
  IN  conn[c].at = "live" /\ 0 < last /\ last <= since[c] /\ last \notin base[c]

\* A page that is open while its task runs, also one that has been reloaded, comes
\* to show the end or the approval the run asks for.  Only a failure, another
\* reload or a last event in the gap keep it from that.
OpenPageSeesTheEnd ==
  \A n \in 0..MaxReloads :
    page.at = "open" /\ Open("chat") /\ phase = "running" /\ reloads = n
      ~> page.done \/ page.dialog # 0 \/ reloads # n \/ failed \/ EndIsInTheGap("chat")
=============================================================================
