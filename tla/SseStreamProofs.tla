--------------------------- MODULE SseStreamProofs ---------------------------
(***************************************************************************)
(* Theorems about the events of a task on their way to the page: types,    *)
(* that a connection delivers in order and nothing twice, and that without *)
(* failures it loses only what is published between its two sources, for   *)
(* any cap of the stream, number of events and reloads; and, for every     *)
(* text, that the processor of thinking tags does not see where it is cut. *)
(***************************************************************************)
EXTENDS SseStream, ThinkingTags, SequenceTheorems, WellFoundedInduction, TLAPS

-----------------------------------------------------------------------------
(* Ascending sequences of event ids.                                       *)

Ascends(s) == \A i, k \in 1..Len(s) : i < k => s[i] < s[k]

LEMMA EmptyAscends == <<>> \in Seq(Ids) /\ Ascends(<<>>) /\ ToSet(<<>>) = {} /\ Len(<<>>) = 0
BY DEF Ascends, ToSet

LEMMA MembersOf == ASSUME NEW S, NEW s \in Seq(S) PROVE \A i \in 1..Len(s) : s[i] \in ToSet(s)
BY DEF ToSet

LEMMA AppendAscends ==
  ASSUME NEW s \in Seq(Ids), NEW e \in Ids
  PROVE  /\ Append(s, e) \in Seq(Ids)
         /\ ToSet(Append(s, e)) = ToSet(s) \cup {e}
         /\ Ascends(s) /\ (\A x \in ToSet(s) : x < e) => Ascends(Append(s, e))
<1>1. /\ Len(s) \in Nat /\ Append(s, e) \in Seq(Ids) /\ Len(Append(s, e)) = Len(s) + 1
      /\ \A i \in 1..Len(s) : Append(s, e)[i] = s[i] /\ s[i] \in ToSet(s)
      /\ Append(s, e)[Len(s) + 1] = e
  BY DEF ToSet
<1>2. ToSet(Append(s, e)) \subseteq ToSet(s) \cup {e}
  <2> SUFFICES ASSUME NEW i \in 1..Len(s) + 1 PROVE Append(s, e)[i] \in ToSet(s) \cup {e}
    BY <1>1 DEF ToSet
  <2> QED
    BY <1>1
<1>3. ToSet(s) \cup {e} \subseteq ToSet(Append(s, e))
  <2>1. \A i \in 1..Len(s) + 1 : Append(s, e)[i] \in ToSet(Append(s, e))
    BY <1>1 DEF ToSet
  <2>2. \A i \in 1..Len(s) : s[i] \in ToSet(Append(s, e))
    BY <1>1, <2>1
  <2>3. ToSet(s) \subseteq ToSet(Append(s, e))
    BY <2>2 DEF ToSet
  <2>4. Len(s) + 1 \in 1..Len(s) + 1
    BY <1>1
  <2>5. e \in ToSet(Append(s, e))
    BY <1>1, <2>1, <2>4
  <2> QED
    BY <2>3, <2>5
<1>4. ASSUME Ascends(s), \A x \in ToSet(s) : x < e PROVE Ascends(Append(s, e))
  <2> SUFFICES ASSUME NEW i \in 1..Len(s) + 1, NEW k \in 1..Len(s) + 1, i < k
               PROVE  Append(s, e)[i] < Append(s, e)[k]
    BY <1>1 DEF Ascends
  <2>1. i \in 1..Len(s)
    BY <1>1
  <2>2. CASE k \in 1..Len(s)
    BY <1>1, <1>4, <2>1, <2>2 DEF Ascends
  <2>3. CASE k = Len(s) + 1
    BY <1>1, <1>4, <2>1, <2>3
  <2> QED
    BY <1>1, <2>2, <2>3
<1> QED
  BY <1>1, <1>2, <1>3, <1>4

LEMMA TailAscends ==
  ASSUME NEW s \in Seq(Ids), s # <<>>
  PROVE  /\ Tail(s) \in Seq(Ids) /\ Head(s) \in Ids
         /\ Len(s) \in Nat /\ Len(Tail(s)) = Len(s) - 1
         /\ ToSet(s) = {Head(s)} \cup ToSet(Tail(s))
         /\ Ascends(s) => Ascends(Tail(s)) /\ \A x \in ToSet(Tail(s)) : Head(s) < x
<1>1. /\ Tail(s) \in Seq(Ids) /\ Head(s) \in Ids
      /\ Len(s) \in Nat \ {0} /\ Len(Tail(s)) = Len(s) - 1
      /\ Head(s) = s[1] /\ \A i \in 1..Len(s) - 1 : Tail(s)[i] = s[i + 1]
  OBVIOUS
<1>2. \A i \in 1..Len(s) : s[i] \in ToSet(s)
  BY DEF ToSet
<1>3. \A i \in 1..Len(s) - 1 : Tail(s)[i] \in ToSet(Tail(s))
  BY <1>1 DEF ToSet
<1>4. ToSet(s) \subseteq {Head(s)} \cup ToSet(Tail(s))
  <2> SUFFICES ASSUME NEW i \in 1..Len(s) PROVE s[i] \in {Head(s)} \cup ToSet(Tail(s))
    BY DEF ToSet
  <2>1. CASE i = 1
    BY <1>1, <2>1
  <2>2. CASE i # 1
    <3>1. i - 1 \in 1..Len(s) - 1 /\ s[i] = Tail(s)[i - 1]
      BY <1>1, <2>2
    <3> QED
      BY <1>3, <3>1
  <2> QED
    BY <2>1, <2>2
<1>5. {Head(s)} \cup ToSet(Tail(s)) \subseteq ToSet(s)
  <2>1. ASSUME NEW i \in 1..Len(s) - 1 PROVE Tail(s)[i] \in ToSet(s)
    BY <1>1, <1>2
  <2>2. ToSet(Tail(s)) \subseteq ToSet(s)
    BY <1>1, <2>1 DEF ToSet
  <2> QED
    BY <1>1, <1>2, <2>2
<1>6. ASSUME Ascends(s) PROVE Ascends(Tail(s)) /\ \A x \in ToSet(Tail(s)) : Head(s) < x
  <2>1. Ascends(Tail(s))
    <3> SUFFICES ASSUME NEW i \in 1..Len(s) - 1, NEW k \in 1..Len(s) - 1, i < k
                 PROVE  Tail(s)[i] < Tail(s)[k]
      BY <1>1 DEF Ascends
    <3>1. i + 1 \in 1..Len(s) /\ k + 1 \in 1..Len(s) /\ i + 1 < k + 1
      BY <1>1
    <3> QED
      BY <1>1, <1>6, <3>1 DEF Ascends
  <2>2. ASSUME NEW i \in 1..Len(s) - 1 PROVE Head(s) < Tail(s)[i]
    <3>1. 1 \in 1..Len(s) /\ i + 1 \in 1..Len(s) /\ 1 < i + 1
      BY <1>1
    <3> QED
      BY <1>1, <1>6, <3>1 DEF Ascends
  <2> QED
    BY <1>1, <2>1, <2>2 DEF ToSet
<1> QED
  BY <1>1, <1>4, <1>5, <1>6

LEMMA CutAscends ==
  ASSUME NEW s \in Seq(Ids), NEW n \in 1..Len(s) + 1
  PROVE  /\ SubSeq(s, n, Len(s)) \in Seq(Ids)
         /\ Len(SubSeq(s, n, Len(s))) = Len(s) - n + 1
         /\ ToSet(SubSeq(s, n, Len(s))) = {s[i] : i \in n..Len(s)}
         /\ ToSet(SubSeq(s, n, Len(s))) \subseteq ToSet(s)
         /\ Ascends(s) => Ascends(SubSeq(s, n, Len(s)))
<1> DEFINE t == SubSeq(s, n, Len(s))
<1>1. /\ Len(s) \in Nat /\ t \in Seq(Ids) /\ Len(t) = Len(s) - n + 1
      /\ \A i \in 1..Len(t) : t[i] = s[n + i - 1]
  OBVIOUS
<1>2. ToSet(t) \subseteq {s[i] : i \in n..Len(s)}
  <2> SUFFICES ASSUME NEW i \in 1..Len(t) PROVE t[i] \in {s[k] : k \in n..Len(s)}
    BY <1>1 DEF ToSet
  <2>1. n + i - 1 \in n..Len(s)
    BY <1>1
  <2> QED
    BY <1>1, <2>1
<1>3. {s[i] : i \in n..Len(s)} \subseteq ToSet(t)
  <2> SUFFICES ASSUME NEW k \in n..Len(s) PROVE s[k] \in ToSet(t)
    OBVIOUS
  <2>1. k - n + 1 \in 1..Len(t) /\ s[k] = t[k - n + 1]
    BY <1>1
  <2>2. \A i \in 1..Len(t) : t[i] \in ToSet(t)
    BY <1>1, MembersOf
  <2> QED
    BY <2>1, <2>2
<1>4. {s[i] : i \in n..Len(s)} \subseteq ToSet(s)
  BY <1>1 DEF ToSet
<1>5. ASSUME Ascends(s) PROVE Ascends(t)
  <2> SUFFICES ASSUME NEW i \in 1..Len(t), NEW k \in 1..Len(t), i < k PROVE t[i] < t[k]
    BY DEF Ascends
  <2>1. n + i - 1 \in 1..Len(s) /\ n + k - 1 \in 1..Len(s) /\ n + i - 1 < n + k - 1
    BY <1>1
  <2> QED
    BY <1>1, <1>5, <2>1 DEF Ascends
<1> QED
  BY <1>1, <1>2, <1>3, <1>4, <1>5

LEMMA RecentAscends ==
  ASSUME NEW s \in Seq(Ids)
  PROVE  /\ Recent(s) \in Seq(Ids) /\ Len(Recent(s)) <= MaxLen
         /\ ToSet(Recent(s)) = {s[i] : i \in {i \in 1..Len(s) : i > Len(s) - MaxLen}}
         /\ ToSet(Recent(s)) \subseteq ToSet(s)
         /\ Ascends(s) => Ascends(Recent(s))
<1> DEFINE n == IF Len(s) > MaxLen THEN Len(s) - MaxLen + 1 ELSE 1
<1>1. /\ n \in 1..Len(s) + 1 /\ Len(s) - n + 1 <= MaxLen
      /\ {i \in 1..Len(s) : i > Len(s) - MaxLen} = n..Len(s)
  BY StreamAssumption
<1>2. Recent(s) = SubSeq(s, n, Len(s))
  BY DEF Recent
<1> HIDE DEF n
<1> QED
  BY <1>1, <1>2, CutAscends

-----------------------------------------------------------------------------
(* Types.                                                                  *)

ConnType == [at : {"closed", "asking", "opening", "replaying", "live"},
             todo : Seq(Ids), inbox : Seq(Ids), got : Seq(Ids)]

LEMMA FreshConns ==
  \A a \in {"closed", "asking", "opening"} :
    /\ [Closed EXCEPT !.at = a] \in ConnType
    /\ Len([Closed EXCEPT !.at = a].todo) <= MaxLen
    /\ Closed = [Closed EXCEPT !.at = "closed"] /\ Opening = [Closed EXCEPT !.at = "opening"]
<1> TAKE a \in {"closed", "asking", "opening"}
<1>1. [Closed EXCEPT !.at = a] \in ConnType
  BY EmptyAscends DEF Closed, ConnType
<1>2. [Closed EXCEPT !.at = a].todo = <<>>
  BY DEF Closed
<1>3. Len(<<>>) <= MaxLen
  BY EmptyAscends, StreamAssumption
<1>4. Closed = [Closed EXCEPT !.at = "closed"]
  BY DEF Closed
<1> QED
  BY <1>1, <1>2, <1>3, <1>4 DEF Opening

LEMMA TypeInit == Init => TypeOK
<1> SUFFICES ASSUME Init PROVE TypeOK OBVIOUS
<1>1. /\ conn \in [Slots -> ConnType]
      /\ \A c \in Slots : Len(conn[c].todo) <= MaxLen
  BY FreshConns DEF Init
<1>2. published \in Seq(Kinds) /\ Len(published) <= MaxEvents /\ stream \in Seq(Ids)
  BY EmptyAscends, StreamAssumption DEF Init
<1>3. 0 \in 0..MaxReloads /\ 0 \in 0..MaxEvents
  BY StreamAssumption
<1>4. base \in [Slots -> SUBSET Ids] /\ since \in [Slots -> 0..MaxEvents]
  BY <1>3 DEF Init
<1>5. page \in [at : {"loading", "connecting", "open"}, dialog : {0} \cup Ids, done : BOOLEAN]
  BY DEF Init
<1> QED
  BY <1>1, <1>2, <1>3, <1>4, <1>5 DEF Init, TypeOK, ConnType

\* A step changes connections so that they keep their type.
ConnsKept == /\ conn' \in [Slots -> ConnType]
             /\ \A c \in Slots : Len(conn'[c].todo) <= MaxLen

LEMMA SetConn ==
  ASSUME TypeOK, NEW c \in Slots, NEW r \in ConnType, Len(r.todo) <= MaxLen,
         conn' = [conn EXCEPT ![c] = r]
  PROVE  ConnsKept
BY DEF TypeOK, ConnsKept, ConnType

LEMMA ReceiveType ==
  ASSUME TypeOK, NEW id \in Ids, Receive(id)
  PROVE  page' \in [at : {"loading", "connecting", "open"}, dialog : {0} \cup Ids, done : BOOLEAN]
BY DEF TypeOK, Receive

LEMMA WorkerTypes == TypeOK /\ (WorkerStep \/ Crash) => TypeOK'
<1> SUFFICES ASSUME TypeOK, WorkerStep \/ Crash PROVE TypeOK' OBVIOUS
<1>1. CASE StartRun \/ ArchiveRun \/ Crash
  BY <1>1 DEF StartRun, ArchiveRun, Crash, TypeOK, history
<1>2. ASSUME NEW k \in Kinds, Publish(k) PROVE TypeOK'
  <2> DEFINE id == Len(published) + 1
  <2>1. id \in Ids /\ id <= MaxEvents
    BY <1>2, StreamAssumption DEF Publish, TypeOK, Ids
  <2>2. published' \in Seq(Kinds) /\ Len(published') <= MaxEvents
    <3>1. Append(published, k) \in Seq(Kinds) /\ Len(Append(published, k)) = id
      BY DEF TypeOK
    <3> QED
      BY <1>2, <2>1, <3>1 DEF Publish
  <2>3. ConnsKept
    <3>1. conn \in [Slots -> ConnType] /\ \A c \in Slots : Len(conn[c].todo) <= MaxLen
      BY DEF TypeOK, ConnType
    <3>2. CASE conn' = conn
      BY <3>1, <3>2 DEF ConnsKept
    <3>3. CASE conn' = [c \in Slots |-> IF Hears(c)
                          THEN [conn[c] EXCEPT !.inbox = Append(@, id)] ELSE conn[c]]
      <4>1. \A c \in Slots : Append(conn[c].inbox, id) \in Seq(Ids)
        BY <2>1, <3>1, AppendAscends DEF ConnType
      <4>2. \A c \in Slots : /\ [conn[c] EXCEPT !.inbox = Append(@, id)] \in ConnType
                             /\ [conn[c] EXCEPT !.inbox = Append(@, id)].todo = conn[c].todo
        BY <3>1, <4>1 DEF ConnType
      <4> QED
        BY <3>1, <3>3, <4>2 DEF ConnsKept
    <3> QED
      BY <1>2, <3>2, <3>3 DEF Publish
  <2>4. phase' \in {"running", "breaking", "ending"}
    BY <1>2 DEF Publish, PhaseAfter
  <2>5. sending' \in {0} \cup Ids /\ failed' \in BOOLEAN
    BY <1>2, <2>1 DEF Publish, TypeOK
  <2> QED
    BY <1>2, <2>2, <2>3, <2>4, <2>5 DEF Publish, TypeOK, ConnsKept, ConnType, history
<1>3. CASE XAdd
  <2>1. sending \in Ids /\ stream \in Seq(Ids)
    BY <1>3 DEF XAdd, TypeOK
  <2>2. \A n \in 1..Len(Append(stream, sending)) :
          SubSeq(Append(stream, sending), n, Len(Append(stream, sending))) \in Seq(Ids)
    BY <2>1, AppendAscends, CutAscends
  <2>3. stream' \in Seq(Ids)
    BY <1>3, <2>1, <2>2 DEF XAdd
  <2> QED
    BY <1>3, <2>3 DEF XAdd, TypeOK, history
<1> QED
  BY <1>1, <1>2, <1>3 DEF WorkerStep

LEMMA ConnTypes ==
  ASSUME TypeOK, NEW c \in Slots, ConnStep(c) \/ ConsumerFails(c) PROVE TypeOK'
<1>1. conn[c] \in ConnType /\ Len(conn[c].todo) <= MaxLen
  BY DEF TypeOK, ConnType
<1>2. CASE ReadHistory(c)
  <2>1. stream \in Seq(Ids)
    BY DEF TypeOK
  <2>2. ConnsKept
    <3>1. CASE conn' = [conn EXCEPT ![c].at = "replaying", ![c].todo = Recent(stream)]
      <4> DEFINE r == [conn[c] EXCEPT !.at = "replaying", !.todo = Recent(stream)]
      <4>1. r \in ConnType /\ Len(r.todo) <= MaxLen
        BY <1>1, <2>1, RecentAscends DEF ConnType
      <4>2. conn' = [conn EXCEPT ![c] = r]
        BY <3>1 DEF TypeOK
      <4> QED
        BY <4>1, <4>2, SetConn
    <3>2. CASE conn' = [conn EXCEPT ![c].at = "replaying"]
      <4> DEFINE r == [conn[c] EXCEPT !.at = "replaying"]
      <4>1. r \in ConnType /\ Len(r.todo) <= MaxLen
        BY <1>1 DEF ConnType
      <4>2. conn' = [conn EXCEPT ![c] = r]
        BY <3>2 DEF TypeOK
      <4> QED
        BY <4>1, <4>2, SetConn
    <3> QED
      BY <1>2, <3>1, <3>2 DEF ReadHistory
  <2>3. \A i \in 1..Len(stream) : stream[i] \in Ids
    BY <2>1
  <2>4. base' \in [Slots -> SUBSET Ids] /\ failed' \in BOOLEAN
    <3>1. {stream[i] : i \in {i \in 1..Len(stream) : i > Len(stream) - MaxLen}} \subseteq Ids
      BY <2>3
    <3> QED
      BY <1>2, <3>1 DEF ReadHistory, TypeOK
  <2> QED
    BY <1>2, <2>2, <2>4 DEF ReadHistory, TypeOK, ConnsKept, ConnType
<1>3. CASE ReplayNext(c)
  <2> DEFINE r == [conn[c] EXCEPT !.todo = Tail(@), !.got = Append(@, Head(conn[c].todo))]
  <2>1. /\ conn[c].todo \in Seq(Ids) /\ conn[c].todo # <<>> /\ conn[c].got \in Seq(Ids)
    BY <1>1, <1>3 DEF ReplayNext, ConnType
  <2>2. /\ Tail(conn[c].todo) \in Seq(Ids) /\ Head(conn[c].todo) \in Ids
        /\ Len(Tail(conn[c].todo)) = Len(conn[c].todo) - 1 /\ Len(conn[c].todo) \in Nat
    BY <2>1, TailAscends
  <2>3. Append(conn[c].got, Head(conn[c].todo)) \in Seq(Ids)
    BY <2>1, <2>2, AppendAscends
  <2>4. r \in ConnType /\ Len(r.todo) <= MaxLen
    <3>1. r \in ConnType /\ r.todo = Tail(conn[c].todo)
      BY <1>1, <2>2, <2>3 DEF ConnType
    <3> QED
      BY <1>1, <2>2, <3>1, StreamAssumption
  <2>5. conn' = [conn EXCEPT ![c] = r]
    BY <1>3 DEF ReplayNext, TypeOK
  <2>6. ConnsKept
    BY <2>4, <2>5, SetConn
  <2>7. page' \in [at : {"loading", "connecting", "open"}, dialog : {0} \cup Ids, done : BOOLEAN]
    BY <1>3, <2>2, ReceiveType DEF ReplayNext
  <2> QED
    BY <1>3, <2>6, <2>7 DEF ReplayNext, TypeOK, ConnsKept, ConnType, history
<1>4. CASE Subscribe(c)
  <2> DEFINE r == [conn[c] EXCEPT !.at = "live"]
  <2>1. r \in ConnType /\ Len(r.todo) <= MaxLen
    BY <1>1 DEF ConnType
  <2>2. conn' = [conn EXCEPT ![c] = r]
    BY <1>4 DEF Subscribe, TypeOK
  <2>3. ConnsKept
    BY <2>1, <2>2, SetConn
  <2>4. Len(published) \in 0..MaxEvents
    BY StreamAssumption DEF TypeOK
  <2> QED
    BY <1>4, <2>3, <2>4 DEF Subscribe, TypeOK, ConnsKept, ConnType
<1>5. CASE DeliverLive(c)
  <2> DEFINE id == Head(conn[c].inbox)
             r == [conn[c] EXCEPT !.inbox = Tail(@), !.got = Append(@, id),
                                  !.at = IF LastEvent(Kind(id)) THEN "closed" ELSE "live"]
  <2>1. /\ conn[c].inbox \in Seq(Ids) /\ conn[c].inbox # <<>> /\ conn[c].got \in Seq(Ids)
    BY <1>1, <1>5 DEF DeliverLive, ConnType
  <2>2. Tail(conn[c].inbox) \in Seq(Ids) /\ id \in Ids
    BY <2>1, TailAscends
  <2>3. Append(conn[c].got, id) \in Seq(Ids)
    BY <2>1, <2>2, AppendAscends
  <2>4. r \in ConnType /\ Len(r.todo) <= MaxLen
    BY <1>1, <2>2, <2>3 DEF ConnType
  <2>5. conn' = [conn EXCEPT ![c] = r]
    BY <1>5 DEF DeliverLive, TypeOK
  <2>6. ConnsKept
    BY <2>4, <2>5, SetConn
  <2>7. page' \in [at : {"loading", "connecting", "open"}, dialog : {0} \cup Ids, done : BOOLEAN]
    BY <1>5, <2>2, ReceiveType DEF DeliverLive
  <2> QED
    BY <1>5, <2>6, <2>7 DEF DeliverLive, TypeOK, ConnsKept, ConnType, history
<1>6. CASE ConsumerFails(c)
  <2>1. Closed \in ConnType /\ Len(Closed.todo) <= MaxLen
    BY FreshConns
  <2>2. ConnsKept
    BY <1>6, <2>1, SetConn DEF ConsumerFails
  <2> QED
    BY <1>6, <2>2 DEF ConsumerFails, TypeOK, ConnsKept, ConnType, history
<1> QED
  BY <1>2, <1>3, <1>4, <1>5, <1>6 DEF ConnStep

LEMMA PageTypes == TypeOK /\ PageStep => TypeOK'
<1> SUFFICES ASSUME TypeOK, PageStep PROVE TypeOK' OBVIOUS
<1>1. \A a \in {"closed", "asking", "opening"} :
        [Closed EXCEPT !.at = a] \in ConnType /\ Len([Closed EXCEPT !.at = a].todo) <= MaxLen
  BY FreshConns
<1>2. Closed \in ConnType /\ Len(Closed.todo) <= MaxLen
      /\ Opening \in ConnType /\ Len(Opening.todo) <= MaxLen
  BY FreshConns
<1>3. CASE Approve
  <2>1. ConnsKept
    BY <1>1, <1>3, SetConn DEF Approve, Slots
  <2> QED
    BY <1>3, <2>1 DEF Approve, TypeOK, ConnsKept, ConnType, history
<1>4. CASE AskResume
  <2>1. ConnsKept
    BY <1>2, <1>4, SetConn DEF AskResume, Slots
  <2>2. /\ page' \in [at : {"loading", "connecting", "open"}, dialog : {0} \cup Ids, done : BOOLEAN]
        /\ row' \in {"running", "suspended", "approved", "final"}
        /\ phase' \in {phase, "ready"}
    BY <1>4 DEF AskResume, TypeOK
  <2> QED
    BY <1>4, <2>1, <2>2 DEF AskResume, TypeOK, ConnsKept, ConnType, history
<1>5. CASE Reload
  <2>1. ConnsKept
    BY <1>2, <1>5 DEF Reload, ConnsKept
  <2>2. reloads' \in 0..MaxReloads
    BY <1>5, StreamAssumption DEF Reload, TypeOK
  <2> QED
    BY <1>5, <2>1, <2>2 DEF Reload, TypeOK, ConnsKept, ConnType, history
<1>6. CASE LoadHistory
  <2>1. LastBreakpoint \in {0} \cup Ids
    <3> DEFINE B == {i \in DOMAIN published : published[i] = "breakpoint"}
    <3>1. B \subseteq Ids
      BY StreamAssumption DEF TypeOK, Ids
    <3> QED
      BY <3>1 DEF LastBreakpoint
  <2>2. page' \in [at : {"loading", "connecting", "open"}, dialog : {0} \cup Ids, done : BOOLEAN]
    BY <1>6, <2>1 DEF LoadHistory, TypeOK
  <2> QED
    BY <1>6, <2>2 DEF LoadHistory, TypeOK, history
<1>7. CASE Reconnect
  <2>1. ConnsKept
    <3>1. CASE conn' = conn
      BY <3>1 DEF ConnsKept, TypeOK, ConnType
    <3>2. CASE conn' = [conn EXCEPT !["chat"] = Opening]
      BY <1>2, <3>2, SetConn DEF Slots
    <3> QED
      BY <1>7, <3>1, <3>2 DEF Reconnect
  <2>2. page' \in [at : {"loading", "connecting", "open"}, dialog : {0} \cup Ids, done : BOOLEAN]
    BY <1>7 DEF Reconnect, TypeOK
  <2> QED
    BY <1>7, <2>1, <2>2 DEF Reconnect, TypeOK, ConnsKept, ConnType, history
<1> QED
  BY <1>3, <1>4, <1>5, <1>6, <1>7 DEF PageStep

LEMMA TypeStep == TypeOK /\ [Next]_vars => TypeOK'
<1>1. TypeOK /\ UNCHANGED vars => TypeOK'
  BY DEF TypeOK, vars
<1> QED
  BY <1>1, WorkerTypes, ConnTypes, PageTypes DEF Next, FaultStep

\* Rows, events, connections and the page keep their types.
THEOREM TypeCorrect == Spec => []TypeOK
BY TypeInit, TypeStep, PTL DEF Spec

-----------------------------------------------------------------------------
(* Order.                                                                  *)

\* What a connection has delivered comes before what it still holds; it holds
\* events of one of its two sources at a time.
InOrder(r) ==
  /\ Ascends(r.got) /\ Ascends(r.todo) /\ Ascends(r.inbox)
  /\ \A x \in ToSet(r.got), y \in ToSet(r.todo) \cup ToSet(r.inbox) : x < y
  /\ r.at \in {"asking", "opening"} => r.got = <<>> /\ r.todo = <<>> /\ r.inbox = <<>>
  /\ r.at = "replaying" => r.inbox = <<>>
  /\ r.at = "live" => r.todo = <<>>

Held(r) == ToSet(r.got) \cup ToSet(r.todo) \cup ToSet(r.inbox)
Known(S) == \A x \in S : x <= Len(published)

\* The stream is ascending, and what is still to be appended is the newest event.
StreamInOrder ==
  /\ Ascends(stream) /\ Known(ToSet(stream))
  /\ sending # 0 => sending = Len(published) /\ \A x \in ToSet(stream) : x < sending

OrderInv ==
  /\ TypeOK
  /\ StreamInOrder
  /\ \A c \in Slots : InOrder(conn[c]) /\ Known(Held(conn[c]))

LEMMA FreshInOrder ==
  \A a \in {"closed", "asking", "opening"} :
    InOrder([Closed EXCEPT !.at = a]) /\ Held([Closed EXCEPT !.at = a]) = {}
<1> TAKE a \in {"closed", "asking", "opening"}
<1> DEFINE r == [Closed EXCEPT !.at = a]
<1>1. r.at = a /\ r.got = <<>> /\ r.todo = <<>> /\ r.inbox = <<>>
  BY DEF Closed
<1> HIDE DEF r
<1>2. InOrder(r) /\ Held(r) = {}
  BY <1>1, EmptyAscends DEF InOrder, Held
<1> QED
  BY <1>2 DEF r

LEMMA OrderInit == Init => OrderInv
<1> SUFFICES ASSUME Init PROVE OrderInv OBVIOUS
<1>1. StreamInOrder
  BY EmptyAscends DEF Init, StreamInOrder, Known
<1>2. \A c \in Slots : conn[c] \in {Closed, Opening}
  BY DEF Init
<1>3. \A c \in Slots : InOrder(conn[c]) /\ Held(conn[c]) = {}
  BY <1>2, FreshConns, FreshInOrder
<1> QED
  BY <1>1, <1>3, TypeInit DEF OrderInv, Known

\* A step that leaves events and stream alone, and makes at most fresh
\* connections, keeps the order.
LEMMA FreshKeepsOrder ==
  ASSUME OrderInv, TypeOK', UNCHANGED <<published, stream>>, sending' \in {sending, 0},
         \A c \in Slots : \/ conn'[c] = conn[c]
                          \/ \E a \in {"closed", "asking", "opening"} :
                               conn'[c] = [Closed EXCEPT !.at = a]
  PROVE  OrderInv'
<1>1. StreamInOrder'
  BY DEF OrderInv, StreamInOrder, Known
<1>2. ASSUME NEW c \in Slots PROVE InOrder(conn'[c]) /\ \A x \in Held(conn'[c]) : x <= Len(published)
  BY FreshInOrder DEF OrderInv, Known
<1> QED
  BY <1>1, <1>2 DEF OrderInv, Known

\* A step that changes one connection, to one that is in order and holds known
\* events, keeps the order.
LEMMA OneKeepsOrder ==
  ASSUME OrderInv, TypeOK', UNCHANGED <<published, stream, sending>>,
         NEW c \in Slots, NEW r, conn' = [conn EXCEPT ![c] = r],
         InOrder(r), \A x \in Held(r) : x <= Len(published)
  PROVE  OrderInv'
<1>1. StreamInOrder'
  BY DEF OrderInv, StreamInOrder, Known
<1>2. ASSUME NEW d \in Slots PROVE InOrder(conn'[d]) /\ \A x \in Held(conn'[d]) : x <= Len(published)
  BY DEF OrderInv, Known, TypeOK
<1> QED
  BY <1>1, <1>2 DEF OrderInv, Known

LEMMA PublishKeepsOrder ==
  ASSUME OrderInv, TypeOK', NEW k \in Kinds, Publish(k) PROVE OrderInv'
<1> DEFINE id == Len(published) + 1
<1>1. /\ id \in Ids /\ Len(published) \in Nat /\ published' = Append(published, k)
      /\ stream' = stream /\ sending = 0 /\ sending' \in {0, id}
  BY StreamAssumption DEF Publish, OrderInv, TypeOK, Ids
<1>2. Len(published') = id
  BY <1>1 DEF OrderInv, TypeOK
<1>3. ToSet(stream) \subseteq Ids
  BY DEF OrderInv, TypeOK, ToSet
<1>4. StreamInOrder'
  BY <1>1, <1>2, <1>3 DEF OrderInv, StreamInOrder, Known, Ids
<1>5. ASSUME NEW c \in Slots PROVE InOrder(conn'[c]) /\ \A x \in Held(conn'[c]) : x <= id
  <2>1. /\ conn[c] \in ConnType /\ InOrder(conn[c])
        /\ \A x \in Held(conn[c]) : x \in Ids /\ x < id
    <3>1. conn[c] \in ConnType /\ InOrder(conn[c]) /\ \A x \in Held(conn[c]) : x <= Len(published)
      BY DEF OrderInv, Known, TypeOK, ConnType
    <3>2. Held(conn[c]) \subseteq Ids
      BY <3>1 DEF ConnType, Held, ToSet
    <3> QED
      BY <1>1, <3>1, <3>2 DEF Ids
  <2>2. CASE conn'[c] = conn[c]
    BY <1>1, <2>1, <2>2 DEF Ids
  <2>3. CASE conn[c].at = "live" /\ conn'[c] = [conn[c] EXCEPT !.inbox = Append(@, id)]
    <3> DEFINE r == conn'[c]
               n == Append(conn[c].inbox, id)
    <3>1. r.at = "live" /\ r.got = conn[c].got /\ r.todo = conn[c].todo /\ r.inbox = n
      BY <2>1, <2>3 DEF ConnType
    <3>2. conn[c].inbox \in Seq(Ids) /\ conn[c].todo = <<>>
      BY <2>1, <2>3 DEF ConnType, InOrder
    <3>3. ToSet(n) = ToSet(conn[c].inbox) \cup {id} /\ Ascends(n)
      BY <1>1, <2>1, <3>2, AppendAscends DEF InOrder, Held
    <3>4. InOrder(r)
      BY <2>1, <3>1, <3>2, <3>3 DEF InOrder, Held
    <3>5. \A x \in Held(r) : x <= id
      BY <1>1, <2>1, <3>1, <3>3 DEF Held, Ids
    <3> QED
      BY <3>4, <3>5
  <2>4. conn'[c] = conn[c] \/ (conn[c].at = "live" /\ conn'[c] = [conn[c] EXCEPT !.inbox = Append(@, id)])
    BY DEF Publish, Hears
  <2> QED
    BY <2>2, <2>3, <2>4
<1> QED
  BY <1>2, <1>4, <1>5 DEF OrderInv, Known

LEMMA XAddKeepsOrder == ASSUME OrderInv, TypeOK', XAdd PROVE OrderInv'
<1>1. sending \in Ids /\ sending = Len(published) /\ stream \in Seq(Ids) /\ ToSet(stream) \subseteq Ids
  BY DEF XAdd, OrderInv, TypeOK, StreamInOrder, ToSet
<1>2. /\ Append(stream, sending) \in Seq(Ids) /\ Ascends(Append(stream, sending))
      /\ ToSet(Append(stream, sending)) = ToSet(stream) \cup {sending}
  BY <1>1, AppendAscends DEF XAdd, OrderInv, StreamInOrder
<1>3. Ascends(stream') /\ ToSet(stream') \subseteq ToSet(stream) \cup {sending}
  <2>1. CASE stream' = stream
    BY <2>1 DEF OrderInv, StreamInOrder
  <2>2. CASE \E n \in 1..Len(Append(stream, sending)) :
               stream' = SubSeq(Append(stream, sending), n, Len(Append(stream, sending)))
    <3> DEFINE s == Append(stream, sending)
    <3>1. PICK n \in 1..Len(s) : stream' = SubSeq(s, n, Len(s))
      BY <2>2
    <3>2. s \in Seq(Ids) /\ n \in 1..Len(s) + 1
      BY <1>2
    <3> HIDE DEF s
    <3>3. ToSet(stream') \subseteq ToSet(s) /\ (Ascends(s) => Ascends(stream'))
      BY <3>1, <3>2, CutAscends
    <3> QED
      BY <1>2, <3>3 DEF s
  <2> QED
    BY <2>1, <2>2 DEF XAdd
<1>4. StreamInOrder'
  BY <1>1, <1>3 DEF XAdd, OrderInv, StreamInOrder, Known, Ids
<1> QED
  BY <1>4 DEF XAdd, OrderInv, Known

LEMMA ConnKeepsOrder ==
  ASSUME OrderInv, TypeOK', NEW c \in Slots, ConnStep(c) PROVE OrderInv'
<1>1. /\ conn[c] \in ConnType /\ InOrder(conn[c])
      /\ \A x \in Held(conn[c]) : x <= Len(published)
  BY DEF OrderInv, Known, TypeOK, ConnType
<1>2. CASE ReadHistory(c)
  <2>1. conn[c].got = <<>> /\ conn[c].todo = <<>> /\ conn[c].inbox = <<>> /\ stream \in Seq(Ids)
    BY <1>1, <1>2 DEF ReadHistory, InOrder, OrderInv, TypeOK
  <2>2. Ascends(Recent(stream)) /\ ToSet(Recent(stream)) \subseteq ToSet(stream)
    BY <2>1, RecentAscends DEF OrderInv, StreamInOrder
  <2>3. ASSUME NEW t \in {<<>>, Recent(stream)}
        PROVE  /\ InOrder([conn[c] EXCEPT !.at = "replaying", !.todo = t])
               /\ \A x \in Held([conn[c] EXCEPT !.at = "replaying", !.todo = t]) : x <= Len(published)
    <3> DEFINE r == [conn[c] EXCEPT !.at = "replaying", !.todo = t]
    <3>1. r.at = "replaying" /\ r.got = <<>> /\ r.todo = t /\ r.inbox = <<>>
      BY <1>1, <2>1 DEF ConnType
    <3>2. Ascends(t) /\ ToSet(t) \subseteq ToSet(stream)
      BY <2>2, EmptyAscends
    <3> HIDE DEF r
    <3>3. InOrder(r) /\ \A x \in Held(r) : x <= Len(published)
      BY <3>1, <3>2, EmptyAscends DEF InOrder, Held, OrderInv, StreamInOrder, Known
    <3> QED
      BY <3>3 DEF r
  <2>4. \E t \in {<<>>, Recent(stream)} :
          conn' = [conn EXCEPT ![c] = [conn[c] EXCEPT !.at = "replaying", !.todo = t]]
    <3>1. CASE conn' = [conn EXCEPT ![c].at = "replaying", ![c].todo = Recent(stream)]
      BY <3>1 DEF OrderInv, TypeOK
    <3>2. CASE conn' = [conn EXCEPT ![c].at = "replaying"]
      <4>1. [conn[c] EXCEPT !.at = "replaying"] = [conn[c] EXCEPT !.at = "replaying", !.todo = <<>>]
        BY <1>1, <2>1 DEF ConnType
      <4> QED
        BY <3>2, <4>1 DEF OrderInv, TypeOK
    <3> QED
      BY <1>2, <3>1, <3>2 DEF ReadHistory
  <2> QED
    BY <1>2, <2>3, <2>4, OneKeepsOrder DEF ReadHistory
<1>3. CASE ReplayNext(c)
  <2> DEFINE id == Head(conn[c].todo)
             r == [conn[c] EXCEPT !.todo = Tail(@), !.got = Append(@, id)]
  <2>1. /\ conn[c].todo \in Seq(Ids) /\ conn[c].todo # <<>> /\ conn[c].got \in Seq(Ids)
        /\ conn[c].inbox = <<>> /\ conn[c].at = "replaying"
    BY <1>1, <1>3 DEF ReplayNext, ConnType, InOrder
  <2>2. /\ id \in Ids /\ ToSet(conn[c].todo) = {id} \cup ToSet(Tail(conn[c].todo))
        /\ Ascends(Tail(conn[c].todo)) /\ \A x \in ToSet(Tail(conn[c].todo)) : id < x
    BY <1>1, <2>1, TailAscends DEF InOrder
  <2>3. /\ ToSet(Append(conn[c].got, id)) = ToSet(conn[c].got) \cup {id}
        /\ Ascends(Append(conn[c].got, id))
    BY <1>1, <2>1, <2>2, AppendAscends DEF InOrder
  <2>4. /\ r.at = "replaying" /\ r.got = Append(conn[c].got, id)
        /\ r.todo = Tail(conn[c].todo) /\ r.inbox = <<>>
    BY <1>1, <2>1 DEF ConnType
  <2>5. conn' = [conn EXCEPT ![c] = r]
    BY <1>3 DEF ReplayNext, OrderInv, TypeOK
  <2> HIDE DEF r, id
  <2>6. InOrder(r) /\ \A x \in Held(r) : x <= Len(published)
    BY <1>1, <2>2, <2>3, <2>4, EmptyAscends DEF InOrder, Held
  <2> QED
    BY <1>3, <2>5, <2>6, OneKeepsOrder DEF ReplayNext
<1>4. CASE Subscribe(c)
  <2> DEFINE r == [conn[c] EXCEPT !.at = "live"]
  <2>1. r.at = "live" /\ r.got = conn[c].got /\ r.todo = <<>> /\ r.inbox = <<>>
        /\ conn[c].todo = <<>> /\ conn[c].inbox = <<>>
    BY <1>1, <1>4 DEF Subscribe, ConnType, InOrder
  <2>2. conn' = [conn EXCEPT ![c] = r]
    BY <1>4 DEF Subscribe, OrderInv, TypeOK
  <2> HIDE DEF r
  <2>3. InOrder(r) /\ \A x \in Held(r) : x <= Len(published)
    BY <1>1, <2>1, EmptyAscends DEF InOrder, Held
  <2> QED
    BY <1>4, <2>2, <2>3, OneKeepsOrder DEF Subscribe
<1>5. CASE DeliverLive(c)
  <2> DEFINE id == Head(conn[c].inbox)
             a == IF LastEvent(Kind(id)) THEN "closed" ELSE "live"
             r == [conn[c] EXCEPT !.inbox = Tail(@), !.got = Append(@, id), !.at = a]
  <2>1. /\ conn[c].inbox \in Seq(Ids) /\ conn[c].inbox # <<>> /\ conn[c].got \in Seq(Ids)
        /\ conn[c].todo = <<>>
    BY <1>1, <1>5 DEF DeliverLive, ConnType, InOrder
  <2>2. /\ id \in Ids /\ ToSet(conn[c].inbox) = {id} \cup ToSet(Tail(conn[c].inbox))
        /\ Ascends(Tail(conn[c].inbox)) /\ \A x \in ToSet(Tail(conn[c].inbox)) : id < x
    BY <1>1, <2>1, TailAscends DEF InOrder
  <2>3. /\ ToSet(Append(conn[c].got, id)) = ToSet(conn[c].got) \cup {id}
        /\ Ascends(Append(conn[c].got, id))
    BY <1>1, <2>1, <2>2, AppendAscends DEF InOrder
  <2>4. /\ r.at \in {"closed", "live"} /\ r.got = Append(conn[c].got, id)
        /\ r.todo = <<>> /\ r.inbox = Tail(conn[c].inbox)
    BY <1>1, <2>1 DEF ConnType
  <2>5. conn' = [conn EXCEPT ![c] = r]
    BY <1>5 DEF DeliverLive, OrderInv, TypeOK
  <2> HIDE DEF r, id
  <2>6. InOrder(r) /\ \A x \in Held(r) : x <= Len(published)
    BY <1>1, <2>2, <2>3, <2>4, EmptyAscends DEF InOrder, Held
  <2> QED
    BY <1>5, <2>5, <2>6, OneKeepsOrder DEF DeliverLive
<1> QED
  BY <1>2, <1>3, <1>4, <1>5 DEF ConnStep

LEMMA PageKeepsOrder ==
  ASSUME OrderInv, TypeOK', PageStep \/ FaultStep \/ StartRun \/ ArchiveRun PROVE OrderInv'
<1>1. UNCHANGED <<published, stream>> /\ sending' \in {sending, 0}
  BY DEF PageStep, FaultStep, StartRun, ArchiveRun, Approve, AskResume, Reload, LoadHistory,
         Reconnect, Crash, ConsumerFails
<1>2. \A c \in Slots : \/ conn'[c] = conn[c]
                       \/ \E a \in {"closed", "asking", "opening"} :
                            conn'[c] = [Closed EXCEPT !.at = a]
  <2>1. \/ conn' = conn
        \/ conn' = [c \in Slots |-> Closed]
        \/ \E c \in Slots, a \in {"closed", "asking", "opening"} :
             conn' = [conn EXCEPT ![c] = [Closed EXCEPT !.at = a]]
    BY FreshConns DEF PageStep, FaultStep, StartRun, ArchiveRun, Approve, AskResume, Reload,
         LoadHistory, Reconnect, Crash, ConsumerFails, Slots
  <2> QED
    BY <2>1, FreshConns DEF OrderInv, TypeOK
<1> QED
  BY <1>1, <1>2, FreshKeepsOrder

LEMMA OrderStep == OrderInv /\ [Next]_vars => OrderInv'
<1> SUFFICES ASSUME OrderInv, [Next]_vars PROVE OrderInv' OBVIOUS
<1>1. TypeOK'
  BY TypeStep DEF OrderInv
<1>2. CASE UNCHANGED vars
  BY <1>1, <1>2, FreshKeepsOrder DEF vars
<1> QED
  BY <1>1, <1>2, PublishKeepsOrder, XAddKeepsOrder, ConnKeepsOrder, PageKeepsOrder
     DEF Next, WorkerStep

\* A connection delivers in the order of the run and nothing twice, whatever
\* fails and however often the page is loaded again.
THEOREM DeliversInOrder == Spec => []InOrderOnce
<1>1. OrderInv => InOrderOnce
  <2> SUFFICES ASSUME OrderInv, NEW c \in Slots, NEW i \in DOMAIN conn[c].got,
                      NEW k \in DOMAIN conn[c].got, i < k
               PROVE  conn[c].got[i] < conn[c].got[k]
    BY DEF InOrderOnce
  <2>1. conn[c].got \in Seq(Ids) /\ Ascends(conn[c].got)
    BY DEF OrderInv, InOrder, TypeOK
  <2>2. DOMAIN conn[c].got = 1..Len(conn[c].got)
    BY <2>1
  <2> QED
    BY <2>1, <2>2 DEF Ascends
<1> QED
  BY OrderInit, OrderStep, <1>1, PTL DEF Spec

-----------------------------------------------------------------------------
(* What a connection loses.                                                *)

\* Without failures a connection has, or still holds, what the stream had when it
\* read it and, from its subscription on, everything that is published.
Heard(c) ==
  LET r == conn[c]
  IN  /\ r.at = "replaying" => base[c] \subseteq ToSet(r.got) \cup ToSet(r.todo)
      /\ r.at = "live" =>
           /\ base[c] \subseteq ToSet(r.got) \cup ToSet(r.inbox)
           /\ \A id \in Ids : since[c] < id /\ id <= Len(published) =>
                id \in ToSet(r.got) \cup ToSet(r.inbox)

HeardInv == ~failed => \A c \in Slots : Heard(c)

LEMMA HeardStep == OrderInv /\ HeardInv /\ [Next]_vars => HeardInv'
<1> SUFFICES ASSUME OrderInv, HeardInv, [Next]_vars, ~failed', NEW c \in Slots
             PROVE  Heard(c)'
  BY DEF HeardInv
<1>0. /\ TypeOK /\ conn[c] \in ConnType /\ InOrder(conn[c])
      /\ base \in [Slots -> SUBSET Ids] /\ since \in [Slots -> 0..MaxEvents]
  BY DEF OrderInv, TypeOK, ConnType
<1>1. ~failed
  BY <1>0 DEF Next, vars, WorkerStep, ConnStep, PageStep, FaultStep, StartRun, Publish, XAdd,
         ArchiveRun, Crash, ReadHistory, ReplayNext, Subscribe, DeliverLive, ConsumerFails,
         Approve, AskResume, Reload, LoadHistory, Reconnect, TypeOK
<1>2. Heard(c)
  BY <1>1 DEF HeardInv
<1>3. CASE /\ UNCHANGED <<published, base, since>>
           /\ conn'[c] = conn[c] \/ conn'[c].at \in {"closed", "asking", "opening"}
  BY <1>2, <1>3 DEF Heard
<1>4. ASSUME NEW k \in Kinds, Publish(k) PROVE Heard(c)'
  <2> DEFINE id == Len(published) + 1
  <2>1. /\ Len(published) \in Nat /\ published' = Append(published, k) /\ Len(published') = id
        /\ base' = base /\ since' = since
    BY <1>0, <1>4 DEF Publish, TypeOK, history
  <2>2. CASE conn[c].at # "live"
    <3>1. conn'[c] = conn[c]
      BY <1>4, <2>2 DEF Publish, Hears
    <3> QED
      BY <1>2, <2>1, <2>2, <3>1 DEF Heard
  <2>3. CASE conn[c].at = "live"
    <3> DEFINE n == Append(conn[c].inbox, id)
    <3>1. conn' = [d \in Slots |-> IF Hears(d) THEN [conn[d] EXCEPT !.inbox = Append(@, id)] ELSE conn[d]]
      BY <1>4, <1>1 DEF Publish
    <3>2. /\ conn'[c].at = "live" /\ conn'[c].got = conn[c].got /\ conn'[c].inbox = n
      BY <1>0, <2>3, <3>1 DEF Hears, ConnType
    <3>3. ToSet(n) = ToSet(conn[c].inbox) \cup {id}
      <4>1. conn[c].inbox \in Seq(Ids) /\ id \in Ids
        BY <1>0, <1>4, <2>1, StreamAssumption DEF ConnType, Publish, Ids
      <4> QED
        BY <4>1, AppendAscends
    <3>4. base[c] \subseteq ToSet(conn'[c].got) \cup ToSet(conn'[c].inbox)
      BY <1>2, <2>3, <3>2, <3>3 DEF Heard
    <3>5. ASSUME NEW e \in Ids, since[c] < e, e <= id
          PROVE  e \in ToSet(conn'[c].got) \cup ToSet(conn'[c].inbox)
      <4>1. e <= Len(published) \/ e = id
        BY <2>1, <3>5 DEF Ids
      <4> QED
        BY <1>2, <2>3, <3>2, <3>3, <3>5, <4>1 DEF Heard
    <3> QED
      BY <2>1, <3>2, <3>4, <3>5 DEF Heard
  <2> QED
    BY <2>2, <2>3
<1>5. CASE ReadHistory(c)
  <2>1. /\ stream \in Seq(Ids) /\ conn' = [conn EXCEPT ![c].at = "replaying", ![c].todo = Recent(stream)]
        /\ base' = [base EXCEPT ![c] = {stream[i] : i \in {i \in 1..Len(stream) : i > Len(stream) - MaxLen}}]
    BY <1>0, <1>1, <1>5 DEF ReadHistory, TypeOK
  <2>2. conn'[c].at = "replaying" /\ conn'[c].todo = Recent(stream)
    BY <1>0, <2>1 DEF ConnType, TypeOK
  <2>3. base'[c] = ToSet(Recent(stream))
    BY <1>0, <2>1, RecentAscends
  <2> QED
    BY <2>2, <2>3 DEF Heard
<1>6. CASE ReplayNext(c)
  <2> DEFINE id == Head(conn[c].todo)
  <2>1. /\ conn[c].todo \in Seq(Ids) /\ conn[c].todo # <<>> /\ conn[c].got \in Seq(Ids)
        /\ conn[c].at = "replaying" /\ base' = base
    BY <1>0, <1>6 DEF ReplayNext, ConnType, history
  <2>2. id \in Ids /\ ToSet(conn[c].todo) = {id} \cup ToSet(Tail(conn[c].todo))
    BY <2>1, TailAscends
  <2>3. ToSet(Append(conn[c].got, id)) = ToSet(conn[c].got) \cup {id}
    BY <2>1, <2>2, AppendAscends
  <2>4. /\ conn'[c].at = "replaying" /\ conn'[c].got = Append(conn[c].got, id)
        /\ conn'[c].todo = Tail(conn[c].todo)
    BY <1>0, <1>6, <2>1 DEF ReplayNext, ConnType, TypeOK
  <2> QED
    BY <1>2, <2>1, <2>2, <2>3, <2>4 DEF Heard
<1>7. CASE Subscribe(c)
  <2>1. /\ conn[c].at = "replaying" /\ conn[c].todo = <<>> /\ base' = base /\ published' = published
        /\ since'[c] = Len(published) /\ Len(published) \in Nat
    BY <1>0, <1>7 DEF Subscribe, TypeOK
  <2>2. conn'[c].at = "live" /\ conn'[c].got = conn[c].got
    BY <1>0, <1>7 DEF Subscribe, ConnType, TypeOK
  <2>3. ToSet(conn[c].todo) = {}
    BY <2>1, EmptyAscends
  <2> QED
    BY <1>2, <2>1, <2>2, <2>3 DEF Heard, Ids
<1>8. CASE DeliverLive(c)
  <2> DEFINE id == Head(conn[c].inbox)
  <2>1. /\ conn[c].inbox \in Seq(Ids) /\ conn[c].inbox # <<>> /\ conn[c].got \in Seq(Ids)
        /\ conn[c].at = "live" /\ base' = base /\ since' = since /\ published' = published
    BY <1>0, <1>8 DEF DeliverLive, ConnType, history
  <2>2. id \in Ids /\ ToSet(conn[c].inbox) = {id} \cup ToSet(Tail(conn[c].inbox))
    BY <2>1, TailAscends
  <2>3. ToSet(Append(conn[c].got, id)) = ToSet(conn[c].got) \cup {id}
    BY <2>1, <2>2, AppendAscends
  <2>4. /\ conn'[c].at \in {"closed", "live"} /\ conn'[c].got = Append(conn[c].got, id)
        /\ conn'[c].inbox = Tail(conn[c].inbox)
    BY <1>0, <1>8, <2>1 DEF DeliverLive, ConnType, TypeOK
  <2> QED
    BY <1>2, <2>1, <2>2, <2>3, <2>4 DEF Heard
<1>9. ASSUME NEW d \in Slots, d # c, ConnStep(d) PROVE Heard(c)'
  <2>1. conn'[c] = conn[c] /\ published' = published /\ base'[c] = base[c] /\ since'[c] = since[c]
    BY <1>0, <1>9 DEF ConnStep, ReadHistory, ReplayNext, Subscribe, DeliverLive, TypeOK, history
  <2> QED
    BY <1>2, <2>1 DEF Heard
<1>10. CASE StartRun \/ XAdd \/ ArchiveRun \/ PageStep \/ FaultStep \/ UNCHANGED vars
  <2>1. UNCHANGED <<published, base, since>>
    BY <1>10 DEF PageStep, FaultStep, StartRun, XAdd, ArchiveRun, Approve, AskResume, Reload,
                 LoadHistory, Reconnect, Crash, ConsumerFails, vars, history
  <2>2. \/ conn' = conn
        \/ conn' = [d \in Slots |-> Closed]
        \/ \E d \in Slots, a \in {"closed", "asking", "opening"} :
             conn' = [conn EXCEPT ![d] = [Closed EXCEPT !.at = a]]
    BY <1>10, FreshConns DEF PageStep, FaultStep, StartRun, XAdd, ArchiveRun, Approve, AskResume,
         Reload, LoadHistory, Reconnect, Crash, ConsumerFails, vars, Slots
  <2>3. conn'[c] = conn[c] \/ conn'[c].at \in {"closed", "asking", "opening"}
    BY <1>0, <2>2 DEF Closed, TypeOK
  <2> QED
    BY <1>3, <2>1, <2>3
<1> QED
  BY <1>4, <1>5, <1>6, <1>7, <1>8, <1>9, <1>10 DEF Next, WorkerStep, ConnStep

\* Without failures a live connection lacks only what went out between the read of
\* the stream and the subscription, or what the cap had cut before.
THEOREM LosesOnlyTheGap == Spec => []OnlyTheGapIsLost
<1>1. Init => HeardInv
  BY DEF Init, HeardInv, Heard, Closed, Opening
<1>2. OrderInv /\ HeardInv => OnlyTheGapIsLost
  <2> SUFFICES ASSUME OrderInv, HeardInv, NEW c \in Slots, conn[c].at = "live", ~failed,
                      NEW id \in DOMAIN published, id > since[c] \/ id \in base[c]
               PROVE  id \in ToSet(conn[c].got) \cup ToSet(conn[c].inbox)
    BY DEF OnlyTheGapIsLost, OrderInv, TypeOK
  <2>1. id \in Ids /\ id <= Len(published)
    BY StreamAssumption DEF OrderInv, TypeOK, Ids
  <2>2. Heard(c)
    BY DEF HeardInv
  <2> QED
    BY <2>1, <2>2 DEF Heard, OrderInv, TypeOK
<1> QED
  BY OrderInit, OrderStep, HeardStep, <1>1, <1>2, PTL DEF Spec

-----------------------------------------------------------------------------
(* What the page has shown when nothing more comes.                        *)

\* Row and run agree, and the last event says how the run ended.
RunEndInv ==
  /\ row = "suspended" <=> phase = "suspended"
  /\ phase \in {"ending", "over"} => published # <<>> /\ LastEvent(Kind(Len(published)))
  /\ phase \in {"breaking", "suspended"} => published # <<>> /\ Kind(Len(published)) = "breakpoint"

\* The page asks for the approval, or has been asked to pass it on, or shows an end.
Answered == page.dialog # 0 \/ conn["approval"].at = "asking" \/ page.done
Breaking == phase \in {"breaking", "suspended"}

\* What a connection has delivered is on the page, and one that has delivered
\* something ends itself only with the run.
Shown(c) ==
  /\ \A id \in ToSet(conn[c].got) : LastEvent(Kind(id)) => page.done
  /\ conn[c].at = "closed" /\ conn[c].got # <<>> => page.done
  /\ Breaking /\ Len(published) \in ToSet(conn[c].got) => Answered

ShownInv == RunEndInv /\ \A c \in Slots : Shown(c)

LEMMA RunEndStep == TypeOK /\ RunEndInv /\ [Next]_vars => RunEndInv'
<1> SUFFICES ASSUME TypeOK, RunEndInv, [Next]_vars PROVE RunEndInv'
  OBVIOUS
<1>1. ASSUME NEW k \in Kinds, Publish(k) PROVE RunEndInv'
  <2>1. /\ published \in Seq(Kinds) /\ published' = Append(published, k) /\ row' = row
        /\ phase = "running" /\ phase' = PhaseAfter(k)
    BY <1>1 DEF Publish, TypeOK
  <2>2. published' # <<>> /\ published'[Len(published')] = k
    BY <2>1
  <2>3. \/ k = "token" /\ phase' = "running"
        \/ k = "breakpoint" /\ phase' = "breaking"
        \/ k \in {"complete", "error"} /\ phase' = "ending"
    BY <2>1 DEF PhaseAfter, Kinds
  <2> QED
    BY <2>1, <2>2, <2>3 DEF RunEndInv, Kind, LastEvent
<1>2. CASE ArchiveRun
  BY <1>2 DEF ArchiveRun, RunEndInv, Kind
<1>3. CASE Crash \/ StartRun \/ AskResume
  BY <1>3 DEF Crash, StartRun, AskResume, RunEndInv, Kind
<1>4. CASE UNCHANGED <<row, phase, published>>
  BY <1>4 DEF RunEndInv, Kind
<1> QED
  BY <1>1, <1>2, <1>3, <1>4 DEF Next, WorkerStep, ConnStep, PageStep, FaultStep, XAdd,
     ReadHistory, ReplayNext, Subscribe, DeliverLive, ConsumerFails, Approve, Reload,
     LoadHistory, Reconnect, vars

LEMMA FreshShown ==
  ASSUME NEW c \in Slots, conn'[c].got = <<>> PROVE Shown(c)'
BY EmptyAscends DEF Shown

LEMMA KeptShown ==
  ASSUME NEW c \in Slots, Shown(c), conn'[c].got = conn[c].got,
         conn'[c].at = "closed" => conn[c].at = "closed", published' = published,
         page.done => page'.done, Breaking' => Breaking, Breaking' /\ Answered => Answered'
  PROVE  Shown(c)'
BY DEF Shown, Kind

LEMMA PublishShows ==
  ASSUME OrderInv, NEW c \in Slots, Shown(c), NEW k \in Kinds, Publish(k) PROVE Shown(c)'
<1>1. /\ TypeOK /\ published \in Seq(Kinds) /\ conn[c] \in ConnType
      /\ Known(Held(conn[c]))
  BY DEF OrderInv, TypeOK, ConnType
<1>2. /\ published' = Append(published, k) /\ page' = page /\ ~Breaking
      /\ Len(published') = Len(published) + 1
  BY <1>1 DEF Publish, Breaking
<1>3. conn'[c].got = conn[c].got /\ conn'[c].at = conn[c].at
  BY <1>1 DEF Publish, ConnType
<1>4. \A id \in ToSet(conn[c].got) : id \in Nat /\ 1 <= id /\ id <= Len(published)
  <2>1. ToSet(conn[c].got) \subseteq Ids
    BY <1>1 DEF ConnType, ToSet
  <2> QED
    BY <1>1, <2>1, StreamAssumption DEF Known, Held, Ids
<1>5. \A id \in ToSet(conn[c].got) : published'[id] = published[id] /\ id # Len(published')
  BY <1>1, <1>2, <1>4
<1> QED
  BY <1>2, <1>3, <1>5 DEF Shown, Kind

\* A connection delivers its next event to the page.
LEMMA DeliveryShows ==
  ASSUME OrderInv, ShownInv, NEW d \in Slots, NEW id \in Ids, NEW a,
         conn'[d].got = Append(conn[d].got, id), conn'[d].at = a,
         a = "closed" => LastEvent(Kind(id)),
         \A c \in Slots : c # d => conn'[c] = conn[c],
         conn[d].at \in {"replaying", "live"}, a # "asking",
         Receive(id), UNCHANGED <<phase, published>>, NEW c \in Slots
  PROVE  Shown(c)'
<1>1. conn[d].got \in Seq(Ids) /\ page \in [at : {"loading", "connecting", "open"},
                                           dialog : {0} \cup Ids, done : BOOLEAN]
  BY DEF OrderInv, TypeOK
<1>2. /\ page.done => page'.done
      /\ page'.dialog \in {page.dialog, id} /\ id # 0
      /\ Kind(id) = "breakpoint" => page'.dialog = id
      /\ LastEvent(Kind(id)) => page'.done
  <2>1. id # 0
    BY StreamAssumption DEF Ids
  <2>2. CASE Kind(id) = "token"
    BY <2>1, <2>2 DEF Receive, LastEvent
  <2>3. CASE Kind(id) = "breakpoint"
    BY <1>1, <2>1, <2>3 DEF Receive, LastEvent
  <2>4. CASE Kind(id) \notin {"token", "breakpoint"}
    BY <1>1, <2>1, <2>4 DEF Receive, LastEvent
  <2> QED
    BY <2>2, <2>3, <2>4
<1>3. conn'["approval"].at = "asking" <=> conn["approval"].at = "asking"
  BY DEF Slots
<1>4. Answered => Answered'
  BY <1>2, <1>3 DEF Answered
<1>5. Breaking' = Breaking
  BY DEF Breaking
<1>6. CASE c # d
  BY <1>2, <1>4, <1>5, <1>6, KeptShown DEF ShownInv
<1>7. CASE c = d
  <2>1. ToSet(conn'[c].got) = ToSet(conn[c].got) \cup {id}
    BY <1>1, <1>7, AppendAscends
  <2>2. Breaking /\ id = Len(published) => Answered'
    BY <1>2 DEF Answered, ShownInv, RunEndInv, Breaking
  <2> QED
    BY <1>2, <1>4, <1>5, <1>7, <2>1, <2>2 DEF ShownInv, Shown, Kind
<1> QED
  BY <1>6, <1>7

LEMMA ConnShows ==
  ASSUME OrderInv, ShownInv, NEW d \in Slots, ConnStep(d), NEW c \in Slots PROVE Shown(c)'
<1>1. /\ TypeOK /\ conn \in [Slots -> ConnType] /\ Shown(c)
  BY DEF OrderInv, TypeOK, ConnType, ShownInv
<1>2. CASE ReadHistory(d) \/ Subscribe(d)
  <2>1. /\ conn'[c].got = conn[c].got /\ (conn'[c].at = "closed" => conn[c].at = "closed")
        /\ (conn'["approval"].at = "asking" <=> conn["approval"].at = "asking")
        /\ UNCHANGED <<published, page, phase>>
    BY <1>1, <1>2 DEF ReadHistory, Subscribe, ConnType, Slots
  <2> QED
    BY <1>1, <2>1, KeptShown DEF Breaking, Answered
<1>3. CASE ReplayNext(d)
  <2> DEFINE id == Head(conn[d].todo)
  <2>1. /\ conn[d].at = "replaying" /\ id \in Ids /\ UNCHANGED <<phase, published>>
        /\ Receive(id)
    BY <1>1, <1>3 DEF ReplayNext, ConnType
  <2>2. /\ conn'[d].got = Append(conn[d].got, id) /\ conn'[d].at = "replaying"
        /\ \A e \in Slots : e # d => conn'[e] = conn[e]
    BY <1>1, <1>3 DEF ReplayNext, ConnType
  <2> HIDE DEF id
  <2> QED
    BY <2>1, <2>2, DeliveryShows
<1>4. CASE DeliverLive(d)
  <2> DEFINE id == Head(conn[d].inbox)
             a == IF LastEvent(Kind(id)) THEN "closed" ELSE "live"
  <2>1. /\ conn[d].at = "live" /\ id \in Ids /\ UNCHANGED <<phase, published>>
        /\ Receive(id)
    BY <1>1, <1>4 DEF DeliverLive, ConnType
  <2>2. /\ conn'[d].got = Append(conn[d].got, id) /\ conn'[d].at = a
        /\ \A e \in Slots : e # d => conn'[e] = conn[e]
    BY <1>1, <1>4 DEF DeliverLive, ConnType
  <2>3. a # "asking" /\ (a = "closed" => LastEvent(Kind(id)))
    OBVIOUS
  <2> HIDE DEF id, a
  <2> QED
    BY <2>1, <2>2, <2>3, DeliveryShows
<1> QED
  BY <1>2, <1>3, <1>4 DEF ConnStep

LEMMA PageShows ==
  ASSUME OrderInv, ShownInv, PageStep, NEW c \in Slots PROVE Shown(c)'
<1>1. /\ TypeOK /\ conn \in [Slots -> ConnType] /\ Shown(c) /\ RunEndInv
      /\ page \in [at : {"loading", "connecting", "open"},
                   dialog : {0} \cup Ids, done : BOOLEAN]
      /\ "approval" \in Slots /\ "chat" \in Slots
  BY DEF OrderInv, TypeOK, ConnType, ShownInv, Slots
<1>2. CASE Approve
  <2>1. /\ conn' = [conn EXCEPT !["approval"] = [Closed EXCEPT !.at = "asking"]]
        /\ page'.done = page.done /\ UNCHANGED <<phase, published>>
    BY <1>1, <1>2 DEF Approve
  <2>2. Answered'
    BY <1>1, <2>1 DEF Answered, Closed
  <2>3. CASE c = "approval"
    BY <1>1, <2>1, <2>3, FreshShown DEF Closed
  <2>4. CASE c # "approval"
    BY <1>1, <2>1, <2>2, <2>4, KeptShown DEF Breaking
  <2> QED
    BY <2>3, <2>4
<1>3. CASE AskResume
  <2>1. /\ \E r \in {Opening, Closed} : conn' = [conn EXCEPT !["approval"] = r]
        /\ published' = published /\ (page.done => page'.done)
        /\ Breaking' => Breaking /\ Answered'
    BY <1>1, <1>3 DEF AskResume, Breaking, Answered, RunEndInv
  <2>2. CASE c = "approval"
    BY <1>1, <2>1, <2>2, FreshShown DEF Closed, Opening
  <2>3. CASE c # "approval"
    BY <1>1, <2>1, <2>3, KeptShown
  <2> QED
    BY <2>2, <2>3
<1>4. CASE Reload
  BY <1>4, FreshShown DEF Reload, Closed
<1>5. CASE LoadHistory
  <2>1. UNCHANGED <<conn, phase, published>>
    BY <1>5 DEF LoadHistory
  <2>2. (page.done => page'.done) /\ (Answered => Answered')
    <3>1. CASE row = "running"
      BY <1>1, <1>5, <3>1, <2>1 DEF LoadHistory, Answered
    <3>2. CASE row = "suspended"
      <4>1. page' = [page EXCEPT !.at = "open", !.dialog = LastBreakpoint]
        BY <1>5, <3>2 DEF LoadHistory
      <4>2. LastBreakpoint # 0
        <5> DEFINE B == {i \in DOMAIN published : published[i] = "breakpoint"}
        <5>1. Len(published) \in B /\ \A k \in B : k <= Len(published)
          BY <1>1, <3>2 DEF RunEndInv, TypeOK, Kind
        <5>2. LastBreakpoint \in B
          BY <5>1 DEF LastBreakpoint
        <5> QED
          BY <1>1, <5>2 DEF TypeOK
      <4> QED
        BY <1>1, <2>1, <4>1, <4>2 DEF Answered
    <3>3. CASE row \notin {"running", "suspended"}
      BY <1>1, <1>5, <3>3, <2>1 DEF LoadHistory, Answered
    <3> QED
      BY <3>1, <3>2, <3>3
  <2> QED
    BY <1>1, <2>1, <2>2, KeptShown DEF Breaking
<1>6. CASE Reconnect
  <2>1. /\ UNCHANGED <<phase, published>> /\ (page.done => page'.done)
        /\ page'.dialog = page.dialog
        /\ conn' = conn \/ conn' = [conn EXCEPT !["chat"] = Opening]
    BY <1>1, <1>6 DEF Reconnect
  <2>2. conn'["approval"] = conn["approval"]
    BY <1>1, <2>1
  <2>3. CASE conn'[c] = conn[c]
    BY <1>1, <2>1, <2>2, <2>3, KeptShown DEF Breaking, Answered
  <2>4. CASE conn'[c] = Opening
    BY <2>4, FreshShown DEF Opening, Closed
  <2> QED
    BY <1>1, <2>1, <2>3, <2>4
<1> QED
  BY <1>2, <1>3, <1>4, <1>5, <1>6 DEF PageStep

LEMMA ShownStep == OrderInv /\ ShownInv /\ [Next]_vars => ShownInv'
<1> SUFFICES ASSUME OrderInv, ShownInv, [Next]_vars PROVE ShownInv'
  OBVIOUS
<1>1. RunEndInv'
  BY RunEndStep DEF OrderInv, ShownInv
<1> SUFFICES ASSUME NEW c \in Slots PROVE Shown(c)'
  BY <1>1 DEF ShownInv
<1>2. TypeOK /\ Shown(c)
  BY DEF OrderInv, ShownInv
<1>3. CASE StartRun \/ XAdd \/ ArchiveRun \/ Crash \/ UNCHANGED vars
  <2>1. UNCHANGED <<conn, page, published>> /\ (Breaking' => Breaking)
    BY <1>3 DEF StartRun, XAdd, ArchiveRun, Crash, Breaking, vars
  <2> QED
    BY <1>2, <2>1, KeptShown DEF Answered
<1>4. ASSUME NEW d \in Slots, ConsumerFails(d) PROVE Shown(c)'
  <2>1. /\ conn' = [conn EXCEPT ![d] = Closed] /\ UNCHANGED <<page, published, phase>>
        /\ conn[d].at # "asking" /\ DOMAIN conn = Slots /\ "approval" \in Slots
    BY <1>2, <1>4 DEF ConsumerFails, TypeOK, Slots
  <2>2. CASE c = d
    BY <2>1, <2>2, FreshShown DEF Closed
  <2>3. CASE c # d
    <3>1. Answered => Answered'
      BY <2>1 DEF Answered
    <3> QED
      BY <1>2, <2>1, <2>3, <3>1, KeptShown DEF Breaking
  <2> QED
    BY <2>2, <2>3
<1> QED
  BY <1>2, <1>3, <1>4, PublishShows, ConnShows, PageShows DEF Next, WorkerStep, FaultStep

\* A live connection that has delivered all it received.
Waits(c) == conn[c].at = "live" /\ conn[c].inbox = <<>>

NotLeftWaiting ==
  \A c \in Slots : Waits(c) /\ ~failed /\ ~EndIsInTheGap(c) =>
    /\ phase = "over" => page.done
    /\ phase = "suspended" => page.dialog # 0 \/ page.done \/ conn["approval"].at = "asking"

\* What is safety in OpenPageSeesTheEnd: a page whose connection waits for more of a
\* run that has ended shows the end, and one that waits for a run that has stopped
\* shows the approval it asks for, or the user has given it; unless the last event
\* fell into the gap between replay and subscription.
THEOREM NoneWaitsInVain == Spec => []NotLeftWaiting
<1>1. Init => ShownInv
  BY EmptyAscends DEF Init, ShownInv, RunEndInv, Shown, Closed, Opening, Breaking
<1>2. Init => HeardInv
  BY DEF Init, HeardInv, Heard, Closed, Opening
<1>3. OrderInv /\ HeardInv /\ ShownInv => NotLeftWaiting
  <2> SUFFICES ASSUME OrderInv, HeardInv, ShownInv, NEW c \in Slots, Waits(c), ~failed,
                      ~EndIsInTheGap(c), phase \in {"over", "suspended"}
               PROVE  /\ phase = "over" => page.done
                      /\ phase = "suspended" => Answered
    BY DEF NotLeftWaiting, Answered
  <2> DEFINE last == Len(published)
  <2>1. /\ published \in Seq(Kinds) /\ published # <<>> /\ last <= MaxEvents /\ Shown(c)
        /\ since \in [Slots -> 0..MaxEvents]
    BY DEF OrderInv, TypeOK, ShownInv, RunEndInv
  <2>2. last \in Ids /\ 0 < last
    BY <2>1, StreamAssumption DEF Ids
  <2>3. last \in base[c] \/ since[c] < last
    BY <2>1, <2>2 DEF EndIsInTheGap, Waits, Ids
  <2>4. last \in ToSet(conn[c].got) \cup ToSet(conn[c].inbox)
    BY <2>2, <2>3 DEF HeardInv, Heard, Waits
  <2>5. last \in ToSet(conn[c].got)
    BY <2>4, EmptyAscends DEF Waits
  <2> QED
    BY <2>1, <2>5 DEF Shown, ShownInv, RunEndInv, Breaking
<1> QED
  BY OrderInit, OrderStep, HeardStep, ShownStep, <1>1, <1>2, <1>3, PTL DEF Spec

-----------------------------------------------------------------------------
(* The processor of thinking tags: it does not matter where a text is cut. *)

Both == {Start, End}

\* What a state of the processor holds.
St == [open : BOOLEAN, carry : Seq(Symbols), shown : Seq(Symbols)]

\* A tag stands at position i of a text.
StandsAt(tag, text, i) ==
  /\ i \in 1..Len(text) /\ i + Len(tag) - 1 <= Len(text)
  /\ \A k \in 1..Len(tag) : text[i + k - 1] = tag[k]

LEMMA TagFacts ==
  ASSUME NEW tag \in Both
  PROVE  /\ tag \in Seq(Symbols) /\ Len(tag) \in {3, 4} /\ Len(tag) \in Nat /\ 2 < Len(tag)
         /\ tag[1] = "<"
         /\ \A k \in 2..Len(tag) : tag[k] # "<"
<1>1. CASE tag = Start
  <2>1. Start \in Seq(Symbols) /\ Len(Start) = 3
    BY DEF Start, Symbols
  <2>2. Start[1] = "<" /\ Start[2] # "<" /\ Start[3] # "<"
    BY DEF Start
  <2>3. \A k \in 2..3 : k = 2 \/ k = 3
    OBVIOUS
  <2> QED
    BY <1>1, <2>1, <2>2, <2>3
<1>2. CASE tag = End
  <2>1. End \in Seq(Symbols) /\ Len(End) = 4
    BY DEF End, Symbols
  <2>2. End[1] = "<" /\ End[2] # "<" /\ End[3] # "<" /\ End[4] # "<"
    BY DEF End
  <2>3. \A k \in 2..4 : k = 2 \/ k = 3 \/ k = 4
    OBVIOUS
  <2> QED
    BY <1>2, <2>1, <2>2, <2>3
<1> QED
  BY <1>1, <1>2 DEF Both

LEMMA TagsDiffer == Start # End /\ Start[2] # End[2]
BY DEF Start, End

\* A prefix, symbol by symbol.
LEMMA PrefixIs ==
  ASSUME NEW s \in Seq(Symbols), NEW t \in Seq(Symbols)
  PROVE  IsPrefix(s, t) <=> Len(s) <= Len(t) /\ \A k \in 1..Len(s) : s[k] = t[k]
<1>1. Len(s) \in Nat /\ Len(t) \in Nat /\ SubSeq(s, 1, Len(s)) = s
  BY SubSeqFull
<1>2. ASSUME Len(s) <= Len(t)
      PROVE  /\ SubSeq(t, 1, Len(s)) \in Seq(Symbols) /\ Len(SubSeq(t, 1, Len(s))) = Len(s)
             /\ \A k \in 1..Len(s) : SubSeq(t, 1, Len(s))[k] = t[k]
  <2>1. \A k \in 1..Len(s) : t[k] \in Symbols
    BY <1>1, <1>2
  <2> QED
    BY <1>1, <1>2, <2>1, SubSeqProperties
<1>3. ASSUME IsPrefix(s, t) PROVE Len(s) <= Len(t) /\ \A k \in 1..Len(s) : s[k] = t[k]
  BY <1>1, <1>2, <1>3 DEF IsPrefix
<1>4. ASSUME Len(s) <= Len(t), \A k \in 1..Len(s) : s[k] = t[k] PROVE IsPrefix(s, t)
  <2>1. s = SubSeq(t, 1, Len(s))
    BY <1>2, <1>4, SeqEqual
  <2> QED
    BY <1>1, <1>4, <2>1 DEF IsPrefix
<1> QED
  BY <1>3, <1>4

\* The end of a text from i on.
LEMMA EndOf ==
  ASSUME NEW text \in Seq(Symbols), NEW i \in 1..(Len(text) + 1)
  PROVE  /\ SubSeq(text, i, Len(text)) \in Seq(Symbols)
         /\ Len(SubSeq(text, i, Len(text))) = Len(text) - i + 1
         /\ \A k \in 1..(Len(text) - i + 1) : SubSeq(text, i, Len(text))[k] = text[i + k - 1]
<1>1. Len(text) \in Nat /\ \A k \in i..Len(text) : text[k] \in Symbols
  OBVIOUS
<1> QED
  BY <1>1, SubSeqProperties

LEMMA BeginningOf ==
  ASSUME NEW text \in Seq(Symbols), NEW n \in 0..Len(text)
  PROVE  /\ SubSeq(text, 1, n) \in Seq(Symbols) /\ Len(SubSeq(text, 1, n)) = n
         /\ \A k \in 1..n : SubSeq(text, 1, n)[k] = text[k]
<1>1. Len(text) \in Nat /\ \A k \in 1..n : text[k] \in Symbols
  OBVIOUS
<1> QED
  BY <1>1, SubSeqProperties

LEMMA OccurrencesAre ==
  ASSUME NEW text \in Seq(Symbols), NEW tag \in Both
  PROVE  Occurrences(tag, text) = {i \in 1..Len(text) : StandsAt(tag, text, i)}
<1> SUFFICES ASSUME NEW i \in 1..Len(text)
             PROVE  IsPrefix(tag, SubSeq(text, i, Len(text))) <=> StandsAt(tag, text, i)
  BY DEF Occurrences
<1> DEFINE end == SubSeq(text, i, Len(text))
<1>1. /\ end \in Seq(Symbols) /\ Len(end) = Len(text) - i + 1 /\ Len(text) \in Nat
      /\ \A k \in 1..(Len(text) - i + 1) : end[k] = text[i + k - 1]
  BY EndOf
<1>2. tag \in Seq(Symbols) /\ Len(tag) \in Nat
  BY TagFacts
<1> HIDE DEF end
<1>3. IsPrefix(tag, end) <=> Len(tag) <= Len(end) /\ \A k \in 1..Len(tag) : tag[k] = end[k]
  BY <1>1, <1>2, PrefixIs
<1>4. Len(tag) <= Len(end) <=> i + Len(tag) - 1 <= Len(text)
  BY <1>1, <1>2
<1>5. ASSUME Len(tag) <= Len(end), NEW k \in 1..Len(tag) PROVE end[k] = text[i + k - 1]
  BY <1>1, <1>2, <1>5
<1>6. IsPrefix(tag, end) <=> StandsAt(tag, text, i)
  BY <1>3, <1>4, <1>5 DEF StandsAt
<1> QED
  BY <1>6 DEF end

\* Induction over the natural numbers, with a set for the property.
Less == OpToRel(<, Nat)

LEMMA LeastNumber ==
  ASSUME NEW T \in SUBSET Nat, T # {}
  PROVE  \E x \in T : \A y \in T : x <= y
<1>1. Less = {p \in Nat \X Nat : p[1] < p[2]}
  BY Zenon DEF Less, OpToRel
<1>2. IsWellFoundedOn(Less, Nat)
  BY NatLessThanWellFounded, Zenon DEF Less
<1>3. \E x \in T : \A y \in T : <<y, x>> \notin Less
  BY <1>2, WFMin
<1>4. \A x \in T, y \in T : <<y, x>> \notin Less => x <= y
  BY <1>1
<1> QED
  BY <1>3, <1>4

LEMMA SetInduction ==
  ASSUME NEW T, 0 \in T, \A n \in Nat : n \in T => n + 1 \in T
  PROVE  \A n \in Nat : n \in T
<1> DEFINE Rest == Nat \ T
<1>1. SUFFICES ASSUME Rest # {} PROVE FALSE
  OBVIOUS
<1>2. PICK x \in Rest : \A y \in Rest : x <= y
  BY <1>1, LeastNumber
<1>3. x # 0 /\ x - 1 \in Nat
  BY <1>2
<1>4. x - 1 \in T
  BY <1>2, <1>3
<1> QED
  BY <1>2, <1>3, <1>4

LEMMA CandidatesAre ==
  ASSUME NEW o \in BOOLEAN
  PROVE  Candidates(o) \subseteq Both /\ End \in Candidates(o) /\ (Start \in Candidates(o) <=> ~o)
BY TagsDiffer DEF Candidates, Both

\* Two tags do not overlap.
LEMMA TagsApart ==
  ASSUME NEW text, NEW a \in Both, NEW b \in Both, NEW i \in Nat, NEW k \in Nat,
         StandsAt(a, text, i), StandsAt(b, text, k), i < k
  PROVE  i + Len(a) <= k
<1> SUFFICES ASSUME k < i + Len(a) PROVE FALSE
  BY TagFacts DEF StandsAt
<1>1. Len(a) \in Nat /\ Len(b) \in Nat /\ 1 <= Len(b)
  BY TagFacts
<1>2. k - i + 1 \in 2..Len(a) /\ 1 \in 1..Len(b)
  BY <1>1
<1>3. text[k] = a[k - i + 1]
  <2>1. k - i + 1 \in 1..Len(a) /\ i + (k - i + 1) - 1 = k
    BY <1>1, <1>2
  <2> QED
    BY <2>1 DEF StandsAt
<1>4. text[k] = b[1]
  <2>1. k + 1 - 1 = k
    BY <1>1
  <2> QED
    BY <1>2, <2>1 DEF StandsAt
<1> QED
  BY <1>2, <1>3, <1>4, TagFacts

\* At one place stands one tag.
LEMMA OneTag ==
  ASSUME NEW text, NEW a \in Both, NEW b \in Both, NEW i \in Nat,
         StandsAt(a, text, i), StandsAt(b, text, i)
  PROVE  a = b
<1>1. 2 \in 1..Len(a) /\ 2 \in 1..Len(b)
  BY TagFacts
<1>2. text[i + 2 - 1] = a[2] /\ text[i + 2 - 1] = b[2]
  BY <1>1 DEF StandsAt
<1>3. {a, b} # {Start, End}
  BY <1>2, TagsDiffer
<1> QED
  BY <1>3 DEF Both

HasTag(o, text) == \E tag \in Candidates(o), i \in Nat : StandsAt(tag, text, i)

\* The first tag of a text.
FirstTag(o, text, tag, i) ==
  /\ tag \in Candidates(o) /\ StandsAt(tag, text, i)
  /\ \A other \in Candidates(o) : \A k \in 1..(i - 1) : ~StandsAt(other, text, k)

LEMMA FirstExists ==
  ASSUME NEW o, NEW text, HasTag(o, text)
  PROVE  \E tag \in Candidates(o), i \in Nat : FirstTag(o, text, tag, i)
<1> DEFINE T == {i \in Nat : \E tag \in Candidates(o) : StandsAt(tag, text, i)}
<1>1. PICK i \in T : \A k \in T : i <= k
  <2>1. T # {} /\ T \in SUBSET Nat
    BY DEF HasTag
  <2> QED
    BY <2>1, LeastNumber
<1>2. PICK tag \in Candidates(o) : StandsAt(tag, text, i)
  BY <1>1
<1>3. \A other \in Candidates(o) : \A k \in 1..(i - 1) : ~StandsAt(other, text, k)
  BY <1>1
<1> QED
  BY <1>1, <1>2, <1>3 DEF FirstTag

\* What a round does up to a tag at i.
PassOn(st, tag, i) ==
  [open  |-> tag = Start,
   carry |-> SubSeq(st.carry, i + Len(tag), Len(st.carry)),
   shown |-> IF st.open THEN st.shown ELSE st.shown \o SubSeq(st.carry, 1, i - 1)]

LEMMA PassIs ==
  ASSUME NEW st \in St, NEW tag, NEW i \in Nat, FirstTag(st.open, st.carry, tag, i)
  PROVE  PassTag(st) = PassOn(st, tag, i)
<1> DEFINE starts == IF st.open THEN {} ELSE Occurrences(Start, st.carry)
           ends   == Occurrences(End, st.carry)
           first  == Least(starts \cup ends)
<1>1. st.carry \in Seq(Symbols) /\ st.open \in BOOLEAN /\ Start \in Both /\ End \in Both
  BY DEF St, Both
<1>2. ends = {k \in 1..Len(st.carry) : StandsAt(End, st.carry, k)}
  BY <1>1, OccurrencesAre
<1>3. starts = {k \in 1..Len(st.carry) : Start \in Candidates(st.open) /\ StandsAt(Start, st.carry, k)}
  BY <1>1, OccurrencesAre, CandidatesAre
<1>4. tag \in {Start, End} /\ tag \in Candidates(st.open) /\ StandsAt(tag, st.carry, i)
      /\ i \in 1..Len(st.carry) /\ End \in Candidates(st.open)
  BY <1>1, CandidatesAre DEF FirstTag, StandsAt, Both
<1> HIDE DEF starts, ends
<1>5. i \in starts \cup ends
  BY <1>2, <1>3, <1>4
<1>6. \A k \in starts \cup ends : k \in Int /\ i <= k
  <2> SUFFICES ASSUME NEW k \in starts \cup ends, k < i PROVE FALSE
    BY <1>2, <1>3, <1>4
  <2>1. k \in 1..(i - 1)
    BY <1>2, <1>3, <1>4
  <2>2. StandsAt(End, st.carry, k) \/ (Start \in Candidates(st.open) /\ StandsAt(Start, st.carry, k))
    BY <1>2, <1>3
  <2> QED
    BY <1>4, <2>1, <2>2 DEF FirstTag
<1>7. first \in starts \cup ends /\ \A k \in starts \cup ends : first <= k
  BY <1>5, <1>6 DEF Least
<1>8. first = i
  <2>1. first \in Int /\ i <= first
    BY <1>6, <1>7
  <2>2. first <= i
    BY <1>5, <1>7
  <2> QED
    BY <2>1, <2>2
<1> HIDE DEF first
<1>9. i \in starts <=> tag = Start
  <2>1. ASSUME tag = Start PROVE i \in starts
    BY <1>3, <1>4, <2>1
  <2>2. ASSUME i \in starts PROVE tag = Start
    BY <1>1, <1>3, <1>4, <2>2, OneTag
  <2> QED
    BY <2>1, <2>2
<1>10. tag = IF i \in starts THEN Start ELSE End
  BY <1>4, <1>9
<1>11. PassTag(st) =
         IF starts \cup ends = {} THEN st
         ELSE [open  |-> (IF first \in starts THEN Start ELSE End) = Start,
               carry |-> SubSeq(st.carry, first + Len(IF first \in starts THEN Start ELSE End), Len(st.carry)),
               shown |-> IF st.open THEN st.shown ELSE st.shown \o SubSeq(st.carry, 1, first - 1)]
  BY DEF PassTag, starts, ends, first
<1>12. starts \cup ends # {}
  BY <1>5
<1> QED
  BY <1>8, <1>10, <1>11, <1>12 DEF PassOn

LEMMA PassNone ==
  ASSUME NEW st \in St, ~HasTag(st.open, st.carry)
  PROVE  PassTag(st) = st
<1>1. st.carry \in Seq(Symbols) /\ st.open \in BOOLEAN /\ Start \in Both /\ End \in Both
  BY DEF St, Both
<1>2. Occurrences(End, st.carry) = {}
  BY <1>1, OccurrencesAre, CandidatesAre DEF HasTag
<1>3. ~st.open => Occurrences(Start, st.carry) = {}
  BY <1>1, OccurrencesAre, CandidatesAre DEF HasTag
<1> QED
  BY <1>2, <1>3 DEF PassTag

\* A round with a tag shortens the text.
LEMMA PassShortens ==
  ASSUME NEW st \in St, NEW tag, NEW i \in Nat, FirstTag(st.open, st.carry, tag, i)
  PROVE  /\ PassOn(st, tag, i) \in St
         /\ Len(PassOn(st, tag, i).carry) = Len(st.carry) - (i + Len(tag) - 1)
         /\ Len(PassOn(st, tag, i).carry) < Len(st.carry)
<1>1. /\ st.carry \in Seq(Symbols) /\ st.shown \in Seq(Symbols) /\ st.open \in BOOLEAN
      /\ Len(st.carry) \in Nat
  BY DEF St
<1>2. tag \in Both /\ Len(tag) \in Nat /\ 2 < Len(tag) /\ i \in 1..Len(st.carry)
      /\ i + Len(tag) - 1 <= Len(st.carry)
  BY <1>1, CandidatesAre, TagFacts DEF FirstTag, StandsAt
<1>3. /\ SubSeq(st.carry, i + Len(tag), Len(st.carry)) \in Seq(Symbols)
      /\ Len(SubSeq(st.carry, i + Len(tag), Len(st.carry))) = Len(st.carry) - (i + Len(tag)) + 1
  <2>1. i + Len(tag) \in 1..(Len(st.carry) + 1)
    BY <1>1, <1>2
  <2> QED
    BY <1>1, <2>1, EndOf
<1>4. SubSeq(st.carry, 1, i - 1) \in Seq(Symbols)
  <2>1. i - 1 \in 0..Len(st.carry)
    BY <1>1, <1>2
  <2> QED
    BY <1>1, <2>1, BeginningOf
<1>5. st.shown \o SubSeq(st.carry, 1, i - 1) \in Seq(Symbols)
  BY <1>1, <1>4, ConcatProperties
<1>6. PassOn(st, tag, i) \in St
  BY <1>1, <1>3, <1>5 DEF PassOn, St
<1>7. Len(PassOn(st, tag, i).carry) = Len(st.carry) - (i + Len(tag)) + 1
  BY <1>3 DEF PassOn
<1> QED
  BY <1>1, <1>2, <1>6, <1>7

\* A text and one symbol more.
LEMMA OneMore ==
  ASSUME NEW text \in Seq(Symbols), NEW x \in Symbols
  PROVE  /\ text \o <<x>> \in Seq(Symbols) /\ Len(text \o <<x>>) = Len(text) + 1 /\ Len(text) \in Nat
         /\ \A k \in 1..Len(text) : (text \o <<x>>)[k] = text[k]
         /\ (text \o <<x>>)[Len(text) + 1] = x
<1>1. <<x>> \in Seq(Symbols) /\ Len(<<x>>) = 1 /\ <<x>>[1] = x
  OBVIOUS
<1> QED
  BY <1>1, ConcatProperties

LEMMA EndGrows ==
  ASSUME NEW text \in Seq(Symbols), NEW x \in Symbols, NEW i \in 1..(Len(text) + 1)
  PROVE  SubSeq(text \o <<x>>, i, Len(text) + 1) = SubSeq(text, i, Len(text)) \o <<x>>
<1> DEFINE long == text \o <<x>>
           end  == SubSeq(text, i, Len(text))
<1>1. /\ long \in Seq(Symbols) /\ Len(long) = Len(text) + 1 /\ Len(text) \in Nat
      /\ \A k \in 1..Len(text) : long[k] = text[k]
      /\ long[Len(text) + 1] = x
  BY OneMore
<1>2. /\ end \in Seq(Symbols) /\ Len(end) = Len(text) - i + 1
      /\ \A k \in 1..(Len(text) - i + 1) : end[k] = text[i + k - 1]
  BY EndOf
<1>3. /\ end \o <<x>> \in Seq(Symbols) /\ Len(end \o <<x>>) = Len(end) + 1
      /\ \A k \in 1..Len(end) : (end \o <<x>>)[k] = end[k]
      /\ (end \o <<x>>)[Len(end) + 1] = x
  BY <1>2, OneMore
<1> HIDE DEF long, end
<1>4. /\ SubSeq(long, i, Len(text) + 1) \in Seq(Symbols)
      /\ Len(SubSeq(long, i, Len(text) + 1)) = Len(text) + 1 - i + 1
      /\ \A k \in 1..(Len(text) + 1 - i + 1) : SubSeq(long, i, Len(text) + 1)[k] = long[i + k - 1]
  <2>1. i \in 1..(Len(long) + 1)
    BY <1>1
  <2> QED
    BY <1>1, <2>1, EndOf
<1>5. ASSUME NEW k \in 1..(Len(end) + 1)
      PROVE  SubSeq(long, i, Len(text) + 1)[k] = (end \o <<x>>)[k]
  <2>1. CASE k = Len(end) + 1
    <3>1. i + k - 1 = Len(text) + 1
      BY <1>1, <1>2, <2>1
    <3> QED
      BY <1>1, <1>2, <1>3, <1>4, <2>1, <3>1
  <2>2. CASE k # Len(end) + 1
    <3>1. k \in 1..Len(end) /\ i + k - 1 \in 1..Len(text) /\ k \in 1..(Len(text) - i + 1)
      BY <1>1, <1>2, <2>2
    <3>4. SubSeq(long, i, Len(text) + 1)[k] = long[i + k - 1]
      <4>1. k \in 1..(Len(text) + 1 - i + 1)
        BY <1>1, <3>1
      <4> QED
        BY <1>4, <4>1
    <3>2. SubSeq(long, i, Len(text) + 1)[k] = long[i + k - 1] /\ long[i + k - 1] = text[i + k - 1]
      BY <1>1, <3>1, <3>4
    <3>3. (end \o <<x>>)[k] = end[k] /\ end[k] = text[i + k - 1]
      BY <1>2, <1>3, <3>1
    <3> QED
      BY <3>2, <3>3
  <2> QED
    BY <2>1, <2>2
<1>6. SubSeq(long, i, Len(text) + 1) = end \o <<x>>
  BY <1>1, <1>2, <1>3, <1>4, <1>5, SeqEqual
<1> QED
  BY <1>6 DEF long, end

LEMMA BeginningStays ==
  ASSUME NEW text \in Seq(Symbols), NEW x \in Symbols, NEW n \in 0..Len(text)
  PROVE  SubSeq(text \o <<x>>, 1, n) = SubSeq(text, 1, n)
<1> DEFINE long == text \o <<x>>
<1>1. /\ long \in Seq(Symbols) /\ Len(long) = Len(text) + 1 /\ Len(text) \in Nat
      /\ \A k \in 1..Len(text) : long[k] = text[k]
  BY OneMore
<1> HIDE DEF long
<1>2. /\ SubSeq(text, 1, n) \in Seq(Symbols) /\ Len(SubSeq(text, 1, n)) = n
      /\ \A k \in 1..n : SubSeq(text, 1, n)[k] = text[k]
  BY BeginningOf
<1>3. /\ SubSeq(long, 1, n) \in Seq(Symbols) /\ Len(SubSeq(long, 1, n)) = n
      /\ \A k \in 1..n : SubSeq(long, 1, n)[k] = long[k]
  <2>1. n \in 0..Len(long)
    BY <1>1
  <2> QED
    BY <1>1, <2>1, BeginningOf
<1>4. SubSeq(long, 1, n) = SubSeq(text, 1, n)
  BY <1>1, <1>2, <1>3, SeqEqual
<1> QED
  BY <1>4 DEF long

LEMMA StandsGrows ==
  ASSUME NEW text \in Seq(Symbols), NEW x \in Symbols, NEW tag \in Both, NEW i \in Nat
  PROVE  /\ StandsAt(tag, text, i) => StandsAt(tag, text \o <<x>>, i)
         /\ StandsAt(tag, text \o <<x>>, i) /\ i + Len(tag) - 1 <= Len(text) => StandsAt(tag, text, i)
<1> DEFINE long == text \o <<x>>
<1>1. /\ long \in Seq(Symbols) /\ Len(long) = Len(text) + 1 /\ Len(text) \in Nat
      /\ \A k \in 1..Len(text) : long[k] = text[k]
  BY OneMore
<1>2. Len(tag) \in Nat /\ 2 < Len(tag)
  BY TagFacts
<1> HIDE DEF long
<1>3. ASSUME i \in Int, 1 <= i, i + Len(tag) - 1 <= Len(text), NEW k \in 1..Len(tag)
      PROVE  long[i + k - 1] = text[i + k - 1]
  <2>1. i + k - 1 \in 1..Len(text)
    BY <1>1, <1>2, <1>3
  <2> QED
    BY <1>1, <2>1
<1>4. ASSUME StandsAt(tag, text, i) PROVE StandsAt(tag, long, i)
  <2>1. i \in Int /\ 1 <= i /\ i + Len(tag) - 1 <= Len(text)
    BY <1>4 DEF StandsAt
  <2> QED
    BY <1>1, <1>2, <1>3, <1>4, <2>1 DEF StandsAt
<1>5. ASSUME StandsAt(tag, long, i), i + Len(tag) - 1 <= Len(text) PROVE StandsAt(tag, text, i)
  <2>1. i \in Int /\ 1 <= i /\ i <= Len(text)
    BY <1>1, <1>2, <1>5 DEF StandsAt
  <2> QED
    BY <1>1, <1>2, <1>3, <1>5, <2>1 DEF StandsAt
<1> QED
  BY <1>4, <1>5 DEF long

\* The first tag stays the first.
LEMMA FirstGrows ==
  ASSUME NEW text \in Seq(Symbols), NEW x \in Symbols, NEW o \in BOOLEAN, NEW tag, NEW i \in Nat,
         FirstTag(o, text, tag, i)
  PROVE  FirstTag(o, text \o <<x>>, tag, i)
<1>1. tag \in Candidates(o) /\ tag \in Both /\ StandsAt(tag, text, i) /\ i \in 1..Len(text)
  BY CandidatesAre DEF FirstTag, StandsAt
<1>2. StandsAt(tag, text \o <<x>>, i)
  BY <1>1, StandsGrows
<1>3. ASSUME NEW other \in Candidates(o), NEW k \in 1..(i - 1), StandsAt(other, text \o <<x>>, k)
      PROVE  FALSE
  <2>1. other \in Both /\ Len(other) \in {3, 4} /\ k < i
    BY <1>1, CandidatesAre, TagFacts
  <2>2. k + Len(other) <= i
    BY <1>1, <1>2, <1>3, <2>1, TagsApart
  <2>3. k + Len(other) - 1 <= Len(text)
    BY <1>1, <2>1, <2>2
  <2>4. StandsAt(other, text, k)
    BY <1>3, <2>1, <2>3, StandsGrows
  <2> QED
    BY <2>4 DEF FirstTag
<1> QED
  BY <1>1, <1>2, <1>3 DEF FirstTag

Longer(st, text) == [st EXCEPT !.carry = @ \o text]

Holding(o, c, s) == [open |-> o, carry |-> c, shown |-> s]

LEMMA LongerOf ==
  ASSUME NEW o, NEW c, NEW s, NEW text
  PROVE  Longer(Holding(o, c, s), text) = Holding(o, c \o text, s)
<1> DEFINE r == [open |-> o, carry |-> c, shown |-> s]
<1>1. Longer(r, text) = [r EXCEPT !.carry = r.carry \o text]
  BY DEF Longer
<1>2. r.carry = c
  OBVIOUS
<1>3. \A new : [r EXCEPT !.carry = new] = [open |-> o, carry |-> new, shown |-> s]
  OBVIOUS
<1> QED
  BY <1>1, <1>2, <1>3 DEF Holding

LEMMA LongerIs ==
  ASSUME NEW st \in St, NEW x \in Symbols
  PROVE  /\ Longer(st, <<x>>) \in St
         /\ Longer(st, <<x>>).open = st.open /\ Longer(st, <<x>>).shown = st.shown
         /\ Longer(st, <<x>>).carry = st.carry \o <<x>>
         /\ Len(Longer(st, <<x>>).carry) = Len(st.carry) + 1 /\ Len(st.carry) \in Nat
<1>1. st.carry \in Seq(Symbols)
  BY DEF St
<1>2. /\ st.carry \o <<x>> \in Seq(Symbols)
      /\ Len(st.carry \o <<x>>) = Len(st.carry) + 1 /\ Len(st.carry) \in Nat
  BY <1>1, OneMore
<1> QED
  BY <1>2 DEF Longer, St

\* A round that finds a tag does not see what comes after it.
LEMMA PassGrows ==
  ASSUME NEW st \in St, NEW x \in Symbols, HasTag(st.open, st.carry)
  PROVE  PassTag(Longer(st, <<x>>)) = Longer(PassTag(st), <<x>>)
<1>1. PICK tag \in Candidates(st.open), i \in Nat : FirstTag(st.open, st.carry, tag, i)
  BY FirstExists
<1>2. /\ st.carry \in Seq(Symbols) /\ st.shown \in Seq(Symbols) /\ st.open \in BOOLEAN
      /\ Len(st.carry) \in Nat
  BY DEF St
<1>3. PassTag(st) = PassOn(st, tag, i)
  BY <1>1, PassIs
<1>4. PassTag(Longer(st, <<x>>)) = PassOn(Longer(st, <<x>>), tag, i)
  <2>1. FirstTag(st.open, st.carry \o <<x>>, tag, i)
    BY <1>1, <1>2, FirstGrows
  <2>2. Longer(st, <<x>>) \in St /\ Longer(st, <<x>>).open = st.open /\ Longer(st, <<x>>).carry = st.carry \o <<x>>
    BY LongerIs
  <2> QED
    BY <2>1, <2>2, PassIs
<1>5. i - 1 \in 0..Len(st.carry) /\ i + Len(tag) \in 1..(Len(st.carry) + 1)
  <2>1. tag \in Both /\ Len(tag) \in Nat /\ 2 < Len(tag) /\ i \in 1..Len(st.carry)
        /\ i + Len(tag) - 1 <= Len(st.carry)
    BY <1>1, <1>2, CandidatesAre, TagFacts DEF FirstTag, StandsAt
  <2> QED
    BY <1>2, <2>1
<1>6. /\ SubSeq(st.carry \o <<x>>, i + Len(tag), Len(st.carry) + 1)
           = SubSeq(st.carry, i + Len(tag), Len(st.carry)) \o <<x>>
      /\ SubSeq(st.carry \o <<x>>, 1, i - 1) = SubSeq(st.carry, 1, i - 1)
  BY <1>2, <1>5, EndGrows, BeginningStays
<1>7. PassOn(Longer(st, <<x>>), tag, i) = Longer(PassOn(st, tag, i), <<x>>)
  <2>1. /\ Longer(st, <<x>>).open = st.open /\ Longer(st, <<x>>).shown = st.shown
        /\ Longer(st, <<x>>).carry = st.carry \o <<x>>
        /\ Len(Longer(st, <<x>>).carry) = Len(st.carry) + 1
    BY LongerIs
  <2> DEFINE opened == tag = Start
             rest   == SubSeq(st.carry, i + Len(tag), Len(st.carry))
             front  == IF st.open THEN st.shown ELSE st.shown \o SubSeq(st.carry, 1, i - 1)
  <2>2. PassOn(Longer(st, <<x>>), tag, i) = Holding(opened, rest \o <<x>>, front)
    BY <1>6, <2>1 DEF PassOn, Holding
  <2>3. PassOn(st, tag, i) = Holding(opened, rest, front)
    BY DEF PassOn, Holding
  <2> HIDE DEF opened, rest, front
  <2>4. Longer(Holding(opened, rest, front), <<x>>) = Holding(opened, rest \o <<x>>, front)
    BY LongerOf
  <2> QED
    BY <2>2, <2>3, <2>4
<1> QED
  BY <1>3, <1>4, <1>7

\* A tag that one symbol completes ends with that symbol.
LEMMA LastTag ==
  ASSUME NEW text \in Seq(Symbols), NEW x \in Symbols, NEW o \in BOOLEAN, ~HasTag(o, text),
         NEW tag \in Candidates(o), NEW i \in Nat, StandsAt(tag, text \o <<x>>, i)
  PROVE  i + Len(tag) - 1 = Len(text) + 1 /\ i \in 1..Len(text)
<1>1. tag \in Both /\ Len(tag) \in Nat /\ 2 < Len(tag)
  BY CandidatesAre, TagFacts
<1>2. i \in 1..(Len(text) + 1) /\ i + Len(tag) - 1 <= Len(text) + 1 /\ Len(text) \in Nat
  BY OneMore DEF StandsAt
<1>3. ~StandsAt(tag, text, i)
  BY <1>2 DEF HasTag
<1>4. ~(i + Len(tag) - 1 <= Len(text))
  BY <1>1, <1>3, StandsGrows
<1> QED
  BY <1>1, <1>2, <1>4

LEMMA EmptyHasNone == \A o : ~HasTag(o, <<>>)
BY DEF HasTag, StandsAt

\* One round is enough for one symbol more.
LEMMA PassOnce ==
  ASSUME NEW st \in St, NEW x \in Symbols, ~HasTag(st.open, st.carry)
  PROVE  /\ PassTag(Longer(st, <<x>>)) \in St
         /\ PassTag(PassTag(Longer(st, <<x>>))) = PassTag(Longer(st, <<x>>))
<1> DEFINE long == Longer(st, <<x>>)
<1>1. /\ long \in St /\ long.open = st.open /\ long.carry = st.carry \o <<x>>
      /\ Len(long.carry) = Len(st.carry) + 1 /\ Len(st.carry) \in Nat
      /\ st.carry \in Seq(Symbols) /\ st.open \in BOOLEAN
  BY LongerIs DEF St
<1> HIDE DEF long
<1>2. CASE ~HasTag(long.open, long.carry)
  <2>1. PassTag(long) = long
    BY <1>1, <1>2, PassNone
  <2> QED
    BY <1>1, <2>1 DEF long
<1>3. CASE HasTag(long.open, long.carry)
  <2>1. PICK tag \in Candidates(st.open), i \in Nat : FirstTag(long.open, long.carry, tag, i)
    BY <1>1, <1>3, FirstExists
  <2>2. PassTag(long) = PassOn(long, tag, i)
    BY <1>1, <2>1, PassIs
  <2>3. i + Len(tag) - 1 = Len(st.carry) + 1
    <3>1. StandsAt(tag, st.carry \o <<x>>, i)
      BY <1>1, <2>1 DEF FirstTag
    <3> QED
      BY <1>1, <3>1, LastTag
  <2>4. PassTag(long) \in St /\ Len(PassTag(long).carry) = Len(long.carry) - (i + Len(tag) - 1)
    <3>1. FirstTag(long.open, long.carry, tag, i)
      BY <2>1
    <3>2. PassOn(long, tag, i) \in St /\ Len(PassOn(long, tag, i).carry) = Len(long.carry) - (i + Len(tag) - 1)
      BY <1>1, <3>1, PassShortens
    <3> QED
      BY <2>2, <3>2
  <2>5. PassTag(long).carry = <<>>
    <3>1. Len(PassTag(long).carry) = 0 /\ PassTag(long).carry \in Seq(Symbols)
      BY <1>1, <2>3, <2>4 DEF St
    <3> QED
      BY <3>1
  <2>6. PassTag(PassTag(long)) = PassTag(long)
    BY <2>4, <2>5, EmptyHasNone, PassNone
  <2> QED
    BY <2>4, <2>6 DEF long
<1> QED
  BY <1>2, <1>3

LEMMA PassTagIn ==
  ASSUME NEW st \in St
  PROVE  /\ PassTag(st) \in St
         /\ HasTag(st.open, st.carry) => Len(PassTag(st).carry) < Len(st.carry)
<1>1. CASE ~HasTag(st.open, st.carry)
  BY <1>1, PassNone
<1>2. CASE HasTag(st.open, st.carry)
  <2>1. PICK tag \in Candidates(st.open), i \in Nat : FirstTag(st.open, st.carry, tag, i)
    BY <1>2, FirstExists
  <2> QED
    BY <2>1, PassIs, PassShortens
<1> QED
  BY <1>1, <1>2

-----------------------------------------------------------------------------
(* The rounds of the loop, and one round more for one symbol more.         *)

\* The rounds of the loop over a buffer.
AreRounds(f, st, n) == f = [k \in 0..n |-> IF k = 0 THEN st ELSE PassTag(f[k - 1])]

LEMMA RoundsExist == ASSUME NEW st, NEW n \in Nat PROVE \E f : AreRounds(f, st, n)
<1> DEFINE T == {k \in Nat : \E f : AreRounds(f, st, k)}
<1>1. 0 \in T
  <2> DEFINE f == [k \in 0..0 |-> st]
  <2>1. AreRounds(f, st, 0)
    BY DEF AreRounds
  <2> QED
    BY <2>1
<1>2. ASSUME NEW k \in Nat, k \in T PROVE k + 1 \in T
  <2>1. PICK f : AreRounds(f, st, k)
    BY <1>2
  <2> DEFINE g == [i \in 0..(k + 1) |-> IF i = k + 1 THEN PassTag(f[k]) ELSE f[i]]
             h == [i \in 0..(k + 1) |-> IF i = 0 THEN st ELSE PassTag(g[i - 1])]
  <2>2. \A i \in 0..k : f[i] = IF i = 0 THEN st ELSE PassTag(f[i - 1])
    BY <2>1 DEF AreRounds
  <2>3. ASSUME NEW i \in 0..(k + 1) PROVE g[i] = h[i]
    <3>1. CASE i = k + 1
      <4>1. g[i] = PassTag(f[k]) /\ i # 0 /\ i - 1 = k /\ g[k] = f[k]
        BY <3>1
      <4> QED
        BY <3>1, <4>1
    <3>2. CASE i # k + 1 /\ i # 0
      <4>1. i \in 0..k /\ i - 1 \in 0..(k + 1) /\ i - 1 # k + 1
        BY <3>2
      <4>2. g[i] = f[i] /\ g[i - 1] = f[i - 1]
        BY <3>2, <4>1
      <4> QED
        BY <2>2, <3>2, <4>1, <4>2
    <3>3. CASE i # k + 1 /\ i = 0
      <4>1. g[i] = f[i] /\ i \in 0..k
        BY <3>3
      <4> QED
        BY <2>2, <3>3, <4>1
    <3> QED
      BY <3>1, <3>2, <3>3
  <2>4. g = h
    BY <2>3
  <2>5. AreRounds(g, st, k + 1)
    BY <2>4 DEF AreRounds
  <2> QED
    BY <2>5
<1>3. \A k \in Nat : k \in T
  BY <1>1, <1>2, SetInduction
<1> QED
  BY <1>3

\* Each round with a tag left shortens the buffer, so that none is left in the end.
LEMMA RoundsAre ==
  ASSUME NEW st \in St, NEW n \in Nat, NEW f, AreRounds(f, st, n)
  PROVE  /\ f[0] = st /\ \A k \in 0..(n - 1) : f[k + 1] = PassTag(f[k])
         /\ \A k \in 0..n : f[k] \in St
         /\ \A k \in 0..n : HasTag(f[k].open, f[k].carry) => Len(f[k].carry) + k <= Len(st.carry)
<1> DEFINE Left(k) == HasTag(f[k].open, f[k].carry)
           Good(k) == f[k] \in St /\ (Left(k) => Len(f[k].carry) + k <= Len(st.carry))
           T == {k \in Nat : k <= n => Good(k)}
<1>1. f[0] = st
  BY DEF AreRounds
<1>2. ASSUME NEW k \in 0..(n - 1) PROVE f[k + 1] = PassTag(f[k])
  <2>1. k + 1 \in 0..n /\ k + 1 # 0 /\ (k + 1) - 1 = k
    OBVIOUS
  <2> QED
    BY <2>1 DEF AreRounds
<1>3. 0 \in T
  <2>1. Len(st.carry) \in Nat
    BY DEF St
  <2> QED
    BY <1>1, <2>1
<1>4. ASSUME NEW k \in Nat, k \in T PROVE k + 1 \in T
  <2>1. ASSUME k + 1 <= n PROVE Good(k + 1)
    <3>1. f[k] \in St /\ f[k + 1] = PassTag(f[k]) /\ Good(k)
      BY <1>2, <1>4, <2>1
    <3>2. f[k + 1] \in St
      BY <3>1, PassTagIn
    <3> DEFINE now == Len(f[k].carry)
               next == Len(f[k + 1].carry)
               all == Len(st.carry)
    <3>3. now \in Nat /\ next \in Nat /\ all \in Nat
      BY <3>1, <3>2 DEF St
    <3>4. ASSUME Left(k + 1) PROVE next + (k + 1) <= all
      <4>1. Left(k)
        BY <3>1, <3>4, PassNone
      <4>2. next < now
        BY <3>1, <4>1, PassTagIn
      <4>3. now + k <= all
        BY <3>1, <4>1
      <4> HIDE DEF now, next, all
      <4> QED
        BY <3>3, <4>2, <4>3
    <3> QED
      BY <3>2, <3>4
  <2> HIDE DEF Good
  <2> QED
    BY <2>1
<1>5. \A k \in Nat : k \in T
  <2> HIDE DEF T
  <2> QED
    BY <1>3, <1>4, SetInduction
<1> QED
  BY <1>1, <1>2, <1>5

LEMMA PassTagsAre ==
  ASSUME NEW st \in St
  PROVE  \E f : AreRounds(f, st, Len(st.carry)) /\ PassTags(st) = f[Len(st.carry)]
<1> DEFINE f == CHOOSE g : AreRounds(g, st, Len(st.carry))
<1>1. Len(st.carry) \in Nat
  BY DEF St
<1>2. AreRounds(f, st, Len(st.carry))
  BY <1>1, RoundsExist
<1>3. PassTags(st) = f[Len(st.carry)]
  BY DEF PassTags, AreRounds
<1> QED
  BY <1>2, <1>3

LEMMA LastHasNone ==
  ASSUME NEW st \in St, NEW f, AreRounds(f, st, Len(st.carry))
  PROVE  f[Len(st.carry)] \in St /\ ~HasTag(f[Len(st.carry)].open, f[Len(st.carry)].carry)
<1> DEFINE last == f[Len(st.carry)]
<1>1. Len(st.carry) \in Nat
  BY DEF St
<1>2. last \in St /\ (HasTag(last.open, last.carry) => Len(last.carry) + Len(st.carry) <= Len(st.carry))
  <2>1. Len(st.carry) \in 0..Len(st.carry)
    BY <1>1
  <2> QED
    BY <1>1, <2>1, RoundsAre
<1>3. last.carry \in Seq(Symbols) /\ Len(last.carry) \in Nat
  BY <1>2 DEF St
<1> HIDE DEF last
<1>4. ASSUME HasTag(last.open, last.carry) PROVE FALSE
  <2>1. Len(last.carry) = 0
    <3> DEFINE left == Len(last.carry)
               all == Len(st.carry)
    <3>1. left + all <= all /\ left \in Nat /\ all \in Nat
      BY <1>1, <1>2, <1>3, <1>4
    <3> HIDE DEF left, all
    <3>2. left = 0
      BY <3>1
    <3> QED
      BY <3>2 DEF left
  <2>2. last.carry = <<>>
    BY <1>3, <2>1
  <2> QED
    BY <1>4, <2>2, EmptyHasNone
<1> QED
  BY <1>2, <1>4 DEF last

\* The loop leaves no tag, and a symbol more is one round more.
LEMMA PassTagsGrow ==
  ASSUME NEW st \in St, NEW x \in Symbols
  PROVE  /\ PassTags(st) \in St
         /\ ~HasTag(PassTags(st).open, PassTags(st).carry)
         /\ PassTags(Longer(st, <<x>>)) = PassTag(Longer(PassTags(st), <<x>>))
<1> DEFINE N == Len(st.carry)
           L(s) == Longer(s, <<x>>)
<1>1. N \in Nat /\ Longer(st, <<x>>) \in St /\ Len(Longer(st, <<x>>).carry) = N + 1
  BY LongerIs
<1>2. PICK f : AreRounds(f, st, N) /\ PassTags(st) = f[N]
  BY PassTagsAre
<1>3. PICK g : AreRounds(g, Longer(st, <<x>>), N + 1) /\ PassTags(Longer(st, <<x>>)) = g[N + 1]
  BY <1>1, PassTagsAre
<1>4. /\ f[0] = st /\ \A k \in 0..(N - 1) : f[k + 1] = PassTag(f[k])
      /\ \A k \in 0..N : f[k] \in St
  BY <1>1, <1>2, RoundsAre
<1>5. g[0] = Longer(st, <<x>>) /\ \A k \in 0..N : g[k + 1] = PassTag(g[k])
  <2>1. (N + 1) - 1 = N /\ N + 1 \in Nat
    BY <1>1
  <2> QED
    BY <1>1, <1>3, <2>1, RoundsAre
<1>6. f[N] \in St /\ ~HasTag(f[N].open, f[N].carry)
  BY <1>2, LastHasNone
<1> DEFINE Same(k) == \/ g[k] = Longer(f[k], <<x>>)
                      \/ ~HasTag(f[k].open, f[k].carry) /\ g[k] = PassTag(Longer(f[k], <<x>>))
           T == {k \in Nat : k <= N => Same(k)}
<1> HIDE DEF N
<1>7. 0 \in T
  BY <1>4, <1>5
<1>8. ASSUME NEW k \in Nat, k \in T PROVE k + 1 \in T
  <2> SUFFICES ASSUME k + 1 <= N PROVE Same(k + 1)
    OBVIOUS
  <2>1. /\ f[k] \in St /\ f[k + 1] = PassTag(f[k]) /\ g[k + 1] = PassTag(g[k]) /\ Same(k)
    BY <1>1, <1>4, <1>5, <1>8
  <2>2. CASE HasTag(f[k].open, f[k].carry)
    BY <2>1, <2>2, PassGrows
  <2>3. CASE ~HasTag(f[k].open, f[k].carry)
    <3>1. f[k + 1] = f[k]
      BY <2>1, <2>3, PassNone
    <3>2. PassTag(PassTag(Longer(f[k], <<x>>))) = PassTag(Longer(f[k], <<x>>))
      BY <2>1, <2>3, PassOnce
    <3> QED
      BY <2>1, <2>3, <3>1, <3>2
  <2> QED
    BY <2>2, <2>3
<1>9. N \in T
  <2> HIDE DEF T
  <2> QED
    BY <1>1, <1>7, <1>8, SetInduction
<1>10. g[N + 1] = PassTag(Longer(f[N], <<x>>))
  <2>1. Same(N) /\ g[N + 1] = PassTag(g[N])
    BY <1>1, <1>5, <1>9
  <2>2. PassTag(PassTag(Longer(f[N], <<x>>))) = PassTag(Longer(f[N], <<x>>))
    BY <1>6, PassOnce
  <2> QED
    BY <2>1, <2>2
<1> QED
  BY <1>2, <1>3, <1>6, <1>10

\* Without a tag the loop does nothing.
LEMMA PassTagsRest ==
  ASSUME NEW st \in St, ~HasTag(st.open, st.carry)
  PROVE  PassTags(st) = st
<1> DEFINE N == Len(st.carry)
<1>1. N \in Nat
  BY DEF St
<1>2. PICK f : AreRounds(f, st, N) /\ PassTags(st) = f[N]
  BY PassTagsAre
<1>3. f[0] = st /\ \A k \in 0..(N - 1) : f[k + 1] = PassTag(f[k])
  BY <1>1, <1>2, RoundsAre
<1> DEFINE T == {k \in Nat : k <= N => f[k] = st}
<1> HIDE DEF N
<1>4. 0 \in T
  BY <1>3
<1>5. ASSUME NEW k \in Nat, k \in T PROVE k + 1 \in T
  BY <1>1, <1>3, <1>5, PassNone
<1>6. N \in T
  <2> HIDE DEF T
  <2> QED
    BY <1>1, <1>4, <1>5, SetInduction
<1> QED
  BY <1>1, <1>2, <1>6

-----------------------------------------------------------------------------
(* What is held back.                                                      *)

\* The last n symbols of a text may be the beginning of a tag.
Match(o, text, n) ==
  /\ n \in 1..Len(text)
  /\ \E tag \in Candidates(o) : n <= Len(tag) /\ \A k \in 1..n : text[Len(text) - n + k] = tag[k]

LEMMA LastOnesAre ==
  ASSUME NEW text \in Seq(Symbols), NEW n \in 0..Len(text)
  PROVE  /\ LastOnes(text, n) \in Seq(Symbols) /\ Len(LastOnes(text, n)) = n /\ Len(text) \in Nat
         /\ \A k \in 1..n : LastOnes(text, n)[k] = text[Len(text) - n + k]
<1>1. Len(text) \in Nat /\ Len(text) - n + 1 \in 1..(Len(text) + 1)
  OBVIOUS
<1>2. /\ LastOnes(text, n) \in Seq(Symbols)
      /\ Len(LastOnes(text, n)) = Len(text) - (Len(text) - n + 1) + 1
      /\ \A k \in 1..(Len(text) - (Len(text) - n + 1) + 1) :
           LastOnes(text, n)[k] = text[(Len(text) - n + 1) + k - 1]
  BY <1>1, EndOf DEF LastOnes
<1>3. Len(text) - (Len(text) - n + 1) + 1 = n
  BY <1>1
<1>4. ASSUME NEW k \in 1..n PROVE (Len(text) - n + 1) + k - 1 = Len(text) - n + k
  BY <1>1
<1> QED
  BY <1>1, <1>2, <1>3, <1>4

LEMMA MatchIs ==
  ASSUME NEW text \in Seq(Symbols), NEW o \in BOOLEAN, NEW n \in 1..Len(text)
  PROVE  (\E tag \in Candidates(o) : IsPrefix(LastOnes(text, n), tag)) <=> Match(o, text, n)
<1> DEFINE end == LastOnes(text, n)
<1>1. /\ end \in Seq(Symbols) /\ Len(end) = n
      /\ \A k \in 1..n : end[k] = text[Len(text) - n + k]
  <2>1. n \in 0..Len(text)
    OBVIOUS
  <2> QED
    BY <2>1, LastOnesAre
<1> HIDE DEF end
<1>2. ASSUME NEW tag \in Candidates(o)
      PROVE  IsPrefix(end, tag) <=> n <= Len(tag) /\ \A k \in 1..n : text[Len(text) - n + k] = tag[k]
  <2>1. tag \in Seq(Symbols)
    BY CandidatesAre, TagFacts
  <2>2. IsPrefix(end, tag) <=> Len(end) <= Len(tag) /\ \A k \in 1..Len(end) : end[k] = tag[k]
    BY <1>1, <2>1, PrefixIs
  <2> QED
    BY <1>1, <2>2
<1> QED
  BY <1>2 DEF Match, end

\* A text ends with the beginning of a tag in one way at most.
LEMMA OneMatch ==
  ASSUME NEW text \in Seq(Symbols), NEW o \in BOOLEAN, NEW m \in Nat, NEW n \in Nat,
         Match(o, text, m), Match(o, text, n)
  PROVE  m = n
<1>1. ASSUME NEW a \in Nat, NEW b \in Nat, Match(o, text, a), Match(o, text, b), a < b PROVE FALSE
  <2>1. PICK s \in Candidates(o) : a <= Len(s) /\ \A k \in 1..a : text[Len(text) - a + k] = s[k]
    BY <1>1 DEF Match
  <2>2. PICK t \in Candidates(o) : b <= Len(t) /\ \A k \in 1..b : text[Len(text) - b + k] = t[k]
    BY <1>1 DEF Match
  <2>3. s \in Both /\ t \in Both /\ Len(text) \in Nat /\ Len(t) \in Nat
    BY CandidatesAre, TagFacts
  <2>4. 1 \in 1..a /\ b - a + 1 \in 1..b /\ b - a + 1 \in 2..Len(t)
    BY <1>1, <2>2, <2>3 DEF Match
  <2>5. Len(text) - a + 1 = Len(text) - b + (b - a + 1)
    BY <2>3
  <2>6. text[Len(text) - a + 1] = s[1]
    BY <2>1, <2>4
  <2>7. text[Len(text) - b + (b - a + 1)] = t[b - a + 1]
    BY <2>2, <2>4
  <2>8. s[1] = t[b - a + 1]
    BY <2>5, <2>6, <2>7
  <2> QED
    BY <2>3, <2>4, <2>8, TagFacts
<1> QED
  BY <1>1

HeldBack(o, text) == LongestSuffixPrefix(text, Candidates(o))

LEMMA HeldIs ==
  ASSUME NEW text \in Seq(Symbols), NEW o \in BOOLEAN
  PROVE  /\ HeldBack(o, text) \in 0..Len(text) /\ HeldBack(o, text) \in Nat /\ Len(text) \in Nat
         /\ HeldBack(o, text) # 0 => Match(o, text, HeldBack(o, text))
         /\ \A n \in Nat : Match(o, text, n) => n = HeldBack(o, text)
<1> DEFINE ends == {n \in 1..Len(text) : \E c \in Candidates(o) : IsPrefix(LastOnes(text, n), c)}
<1>1. ends = {n \in 1..Len(text) : Match(o, text, n)} /\ Len(text) \in Nat
  BY MatchIs
<1>2. HeldBack(o, text) = Greatest({0} \cup ends)
  BY DEF HeldBack, LongestSuffixPrefix
<1> HIDE DEF ends
<1>3. CASE ends = {}
  <2>1. HeldBack(o, text) = 0
    BY <1>2, <1>3 DEF Greatest
  <2>2. \A n \in Nat : ~Match(o, text, n)
    BY <1>1, <1>3 DEF Match
  <2> QED
    BY <1>1, <2>1, <2>2
<1>4. CASE ends # {}
  <2>1. PICK m \in ends : TRUE
    BY <1>4
  <2>2. m \in 1..Len(text) /\ Match(o, text, m)
    BY <1>1, <2>1
  <2>3. \A n \in Nat : Match(o, text, n) => n = m
    BY <2>2, OneMatch
  <2>4. ends = {m}
    BY <1>1, <2>1, <2>3
  <2>5. HeldBack(o, text) = m
    <3>1. m \in {0} \cup ends /\ \A n \in {0} \cup ends : n <= m
      BY <2>2, <2>4
    <3>2. Greatest({0} \cup ends) \in {0, m} /\ \A n \in {0, m} : n <= Greatest({0} \cup ends)
      BY <2>4, <3>1 DEF Greatest
    <3> QED
      BY <1>2, <2>2, <3>2
  <2> QED
    BY <1>1, <2>2, <2>3, <2>5
<1> QED
  BY <1>3, <1>4

LEMMA MatchOfEnd ==
  ASSUME NEW text \in Seq(Symbols), NEW o \in BOOLEAN, NEW g \in 0..Len(text), NEW n \in 1..g
  PROVE  Match(o, LastOnes(text, g), n) <=> Match(o, text, n)
<1> DEFINE end == LastOnes(text, g)
<1>1. /\ end \in Seq(Symbols) /\ Len(end) = g /\ Len(text) \in Nat
      /\ \A k \in 1..g : end[k] = text[Len(text) - g + k]
  BY LastOnesAre
<1> HIDE DEF end
<1>2. n \in 1..Len(end) /\ n \in 1..Len(text)
  BY <1>1
<1>3. ASSUME NEW k \in 1..n PROVE end[Len(end) - n + k] = text[Len(text) - n + k]
  <2>1. Len(end) - n + k \in 1..g /\ Len(text) - g + (Len(end) - n + k) = Len(text) - n + k
    BY <1>1
  <2> QED
    BY <1>1, <2>1
<1>4. Match(o, end, n) <=> Match(o, text, n)
  BY <1>2, <1>3 DEF Match
<1> QED
  BY <1>4 DEF end

\* What is held does not depend on what lies before it.
LEMMA HeldOfEnd ==
  ASSUME NEW text \in Seq(Symbols), NEW o \in BOOLEAN, NEW g \in 0..Len(text), HeldBack(o, text) <= g
  PROVE  HeldBack(o, LastOnes(text, g)) = HeldBack(o, text)
<1> DEFINE end == LastOnes(text, g)
           h == HeldBack(o, text)
           j == HeldBack(o, end)
<1>1. end \in Seq(Symbols) /\ Len(end) = g /\ Len(text) \in Nat
  BY LastOnesAre
<1>2. h \in Nat /\ (h # 0 => Match(o, text, h)) /\ \A n \in Nat : Match(o, text, n) => n = h
  BY HeldIs
<1>3. j \in Nat /\ j \in 0..g /\ (j # 0 => Match(o, end, j)) /\ \A n \in Nat : Match(o, end, n) => n = j
  BY <1>1, HeldIs
<1>4. ASSUME h # 0 PROVE j = h
  <2>1. h \in 1..g
    BY <1>2, <1>4
  <2>2. Match(o, end, h)
    BY <1>2, <1>4, <2>1, MatchOfEnd
  <2> QED
    BY <1>2, <1>3, <2>2
<1>5. ASSUME j # 0 PROVE j = h
  <2>1. j \in 1..g
    BY <1>3, <1>5
  <2>2. Match(o, text, j)
    BY <1>3, <1>5, <2>1, MatchOfEnd
  <2> QED
    BY <1>2, <1>3, <2>2
<1> QED
  BY <1>4, <1>5

\* One symbol more is one symbol more to hold, at most.
LEMMA HeldGrows ==
  ASSUME NEW text \in Seq(Symbols), NEW x \in Symbols, NEW o \in BOOLEAN
  PROVE  HeldBack(o, text \o <<x>>) <= HeldBack(o, text) + 1
<1> DEFINE long == text \o <<x>>
           h == HeldBack(o, text)
           j == HeldBack(o, long)
<1>1. /\ long \in Seq(Symbols) /\ Len(long) = Len(text) + 1 /\ Len(text) \in Nat
      /\ \A k \in 1..Len(text) : long[k] = text[k]
  BY OneMore
<1>2. h \in Nat /\ \A n \in Nat : Match(o, text, n) => n = h
  BY HeldIs
<1> HIDE DEF long
<1>3. j \in Nat /\ (j # 0 => Match(o, long, j))
  BY <1>1, HeldIs
<1> SUFFICES ASSUME h + 1 < j PROVE FALSE
  BY <1>2, <1>3 DEF long
<1>4. PICK tag \in Candidates(o) : j <= Len(tag) /\ \A k \in 1..j : long[Len(long) - j + k] = tag[k]
  BY <1>2, <1>3 DEF Match
<1> HIDE DEF h, j
<1>5. j - 1 \in 1..Len(text) /\ Len(tag) \in Nat
  <2>1. j \in 1..Len(long)
    BY <1>2, <1>3 DEF Match
  <2> QED
    BY <1>1, <1>2, <2>1, CandidatesAre, TagFacts
<1>6. ASSUME NEW k \in 1..(j - 1) PROVE text[Len(text) - (j - 1) + k] = tag[k]
  <2>1. /\ k \in 1..j /\ Len(long) - j + k = Len(text) - (j - 1) + k
        /\ Len(text) - (j - 1) + k \in 1..Len(text)
    BY <1>1, <1>3, <1>5
  <2> QED
    BY <1>1, <1>4, <2>1
<1>7. Match(o, text, j - 1)
  <2>1. j - 1 <= Len(tag)
    BY <1>3, <1>4, <1>5
  <2> QED
    BY <1>5, <1>6, <2>1 DEF Match
<1> QED
  BY <1>2, <1>3, <1>5, <1>7

\* The end of a text holds no tag that the text does not hold.
LEMMA NoTagInEnd ==
  ASSUME NEW text \in Seq(Symbols), NEW o \in BOOLEAN, NEW g \in 0..Len(text), HasTag(o, LastOnes(text, g))
  PROVE  HasTag(o, text)
<1> DEFINE end == LastOnes(text, g)
<1>1. /\ end \in Seq(Symbols) /\ Len(end) = g /\ Len(text) \in Nat
      /\ \A k \in 1..g : end[k] = text[Len(text) - g + k]
  BY LastOnesAre
<1> HIDE DEF end
<1>2. PICK tag \in Candidates(o), i \in Nat : StandsAt(tag, end, i)
  BY DEF HasTag, end
<1>3. Len(tag) \in Nat /\ i \in 1..g /\ i + Len(tag) - 1 <= g
  BY <1>1, <1>2, CandidatesAre, TagFacts DEF StandsAt
<1> DEFINE p == Len(text) - g + i
<1>4. p \in 1..Len(text) /\ p \in Nat /\ p + Len(tag) - 1 <= Len(text)
  BY <1>1, <1>3
<1>5. ASSUME NEW k \in 1..Len(tag) PROVE text[p + k - 1] = tag[k]
  <2>1. i + k - 1 \in 1..g /\ Len(text) - g + (i + k - 1) = p + k - 1
    BY <1>1, <1>3
  <2>2. end[i + k - 1] = tag[k]
    BY <1>2 DEF StandsAt
  <2> QED
    BY <1>1, <2>1, <2>2
<1>6. StandsAt(tag, text, p)
  BY <1>4, <1>5 DEF StandsAt
<1> QED
  BY <1>4, <1>6 DEF HasTag

\* All but the last g symbols of the buffer are shown, or dropped.
Shift(st, g) ==
  [open  |-> st.open,
   carry |-> LastOnes(st.carry, g),
   shown |-> IF st.open THEN st.shown ELSE st.shown \o SubSeq(st.carry, 1, Len(st.carry) - g)]

LEMMA KeepCutIs == \A st : KeepCut(st) = Shift(st, HeldBack(st.open, st.carry))
BY DEF KeepCut, Shift, HeldBack

LEMMA ShiftIs ==
  ASSUME NEW st \in St, NEW g \in 0..Len(st.carry)
  PROVE  /\ Shift(st, g) \in St /\ Shift(st, g).open = st.open
         /\ Shift(st, g).carry = LastOnes(st.carry, g) /\ Len(Shift(st, g).carry) = g
<1>1. /\ st.carry \in Seq(Symbols) /\ st.shown \in Seq(Symbols) /\ st.open \in BOOLEAN
      /\ Len(st.carry) \in Nat
  BY DEF St
<1>2. LastOnes(st.carry, g) \in Seq(Symbols) /\ Len(LastOnes(st.carry, g)) = g
  BY <1>1, LastOnesAre
<1>3. SubSeq(st.carry, 1, Len(st.carry) - g) \in Seq(Symbols)
  <2>1. Len(st.carry) - g \in 0..Len(st.carry)
    BY <1>1
  <2> QED
    BY <1>1, <2>1, BeginningOf
<1>4. st.shown \o SubSeq(st.carry, 1, Len(st.carry) - g) \in Seq(Symbols)
  BY <1>1, <1>3, ConcatProperties
<1> QED
  BY <1>1, <1>2, <1>4 DEF Shift, St

LEMMA EndOfEnd ==
  ASSUME NEW text \in Seq(Symbols), NEW g \in 0..Len(text), NEW f \in 0..g
  PROVE  LastOnes(LastOnes(text, g), f) = LastOnes(text, f)
<1> DEFINE end == LastOnes(text, g)
<1>1. /\ end \in Seq(Symbols) /\ Len(end) = g /\ Len(text) \in Nat
      /\ \A k \in 1..g : end[k] = text[Len(text) - g + k]
  BY LastOnesAre
<1> HIDE DEF end
<1>2. /\ LastOnes(end, f) \in Seq(Symbols) /\ Len(LastOnes(end, f)) = f
      /\ \A k \in 1..f : LastOnes(end, f)[k] = end[Len(end) - f + k]
  <2>1. f \in 0..Len(end)
    BY <1>1
  <2> QED
    BY <1>1, <2>1, LastOnesAre
<1>3. /\ LastOnes(text, f) \in Seq(Symbols) /\ Len(LastOnes(text, f)) = f
      /\ \A k \in 1..f : LastOnes(text, f)[k] = text[Len(text) - f + k]
  <2>1. f \in 0..Len(text)
    BY <1>1
  <2> QED
    BY <1>1, <2>1, LastOnesAre
<1>4. ASSUME NEW k \in 1..f PROVE LastOnes(end, f)[k] = LastOnes(text, f)[k]
  <2>1. Len(end) - f + k \in 1..g /\ Len(text) - g + (Len(end) - f + k) = Len(text) - f + k
    BY <1>1
  <2>2. end[Len(end) - f + k] = text[Len(text) - f + k]
    BY <1>1, <2>1
  <2> QED
    BY <1>2, <1>3, <2>2
<1>5. LastOnes(end, f) = LastOnes(text, f)
  BY <1>2, <1>3, <1>4, SeqEqual
<1> QED
  BY <1>5 DEF end

LEMMA BeginningOfBeginning ==
  ASSUME NEW text \in Seq(Symbols), NEW g \in 0..Len(text), NEW f \in 0..g
  PROVE  SubSeq(text, 1, Len(text) - g) \o SubSeq(LastOnes(text, g), 1, g - f) = SubSeq(text, 1, Len(text) - f)
<1> DEFINE N     == Len(text)
           end   == LastOnes(text, g)
           front == SubSeq(text, 1, N - g)
           mid   == SubSeq(end, 1, g - f)
           all   == SubSeq(text, 1, N - f)
<1>1. N \in Nat /\ N - g \in 0..N /\ N - f \in 0..N /\ g - f \in 0..g
  OBVIOUS
<1>2. end \in Seq(Symbols) /\ Len(end) = g /\ \A k \in 1..g : end[k] = text[N - g + k]
  BY LastOnesAre
<1>3. front \in Seq(Symbols) /\ Len(front) = N - g /\ \A k \in 1..(N - g) : front[k] = text[k]
  BY <1>1, BeginningOf
<1>4. mid \in Seq(Symbols) /\ Len(mid) = g - f /\ \A k \in 1..(g - f) : mid[k] = end[k]
  <2>1. g - f \in 0..Len(end)
    BY <1>1, <1>2
  <2> HIDE DEF end
  <2> QED
    BY <1>2, <2>1, BeginningOf
<1>5. all \in Seq(Symbols) /\ Len(all) = N - f /\ \A k \in 1..(N - f) : all[k] = text[k]
  BY <1>1, BeginningOf
<1> HIDE DEF N, end, front, mid, all
<1>6. /\ front \o mid \in Seq(Symbols) /\ Len(front \o mid) = N - f
      /\ \A k \in 1..(N - f) : (front \o mid)[k] = IF k <= N - g THEN front[k] ELSE mid[k - (N - g)]
  <2>1. /\ front \o mid \in Seq(Symbols) /\ Len(front \o mid) = Len(front) + Len(mid)
        /\ \A k \in 1..(Len(front) + Len(mid)) :
             (front \o mid)[k] = IF k <= Len(front) THEN front[k] ELSE mid[k - Len(front)]
    BY <1>3, <1>4, ConcatProperties
  <2>2. Len(front) + Len(mid) = N - f
    BY <1>1, <1>3, <1>4
  <2> QED
    BY <1>3, <2>1, <2>2
<1>7. ASSUME NEW k \in 1..(N - f) PROVE (front \o mid)[k] = all[k]
  <2>1. CASE k <= N - g
    <3>1. k \in 1..(N - g)
      BY <1>1, <2>1
    <3> QED
      BY <1>3, <1>5, <1>6, <2>1, <3>1
  <2>2. CASE ~(k <= N - g)
    <3>1. k - (N - g) \in 1..(g - f) /\ k - (N - g) \in 1..g /\ N - g + (k - (N - g)) = k
      BY <1>1, <2>2
    <3>2. mid[k - (N - g)] = text[k]
      BY <1>2, <1>4, <3>1
    <3> QED
      BY <1>5, <1>6, <2>2, <3>2
  <2> QED
    BY <2>1, <2>2
<1>8. front \o mid = all
  BY <1>5, <1>6, <1>7, SeqEqual
<1> QED
  BY <1>8 DEF N, end, front, mid, all

LEMMA TextsAssociate ==
  ASSUME NEW a \in Seq(Symbols), NEW b \in Seq(Symbols), NEW c \in Seq(Symbols)
  PROVE  (a \o b) \o c = a \o (b \o c)
BY ConcatAssociative

LEMMA ShiftTwice ==
  ASSUME NEW st \in St, NEW g \in 0..Len(st.carry), NEW f \in 0..g
  PROVE  Shift(Shift(st, g), f) = Shift(st, f)
<1> DEFINE front == SubSeq(st.carry, 1, Len(st.carry) - g)
           mid   == SubSeq(LastOnes(st.carry, g), 1, g - f)
<1>1. /\ st.carry \in Seq(Symbols) /\ st.shown \in Seq(Symbols) /\ st.open \in BOOLEAN
      /\ Len(st.carry) \in Nat
  BY DEF St
<1>2. LastOnes(LastOnes(st.carry, g), f) = LastOnes(st.carry, f)
  BY <1>1, EndOfEnd
<1>3. front \o mid = SubSeq(st.carry, 1, Len(st.carry) - f)
  BY <1>1, BeginningOfBeginning
<1>4. front \in Seq(Symbols) /\ mid \in Seq(Symbols)
  <2>1. Len(st.carry) - g \in 0..Len(st.carry) /\ g - f \in 0..g
    BY <1>1
  <2>2. LastOnes(st.carry, g) \in Seq(Symbols) /\ Len(LastOnes(st.carry, g)) = g
    BY <1>1, LastOnesAre
  <2>3. g - f \in 0..Len(LastOnes(st.carry, g))
    BY <2>1, <2>2
  <2> QED
    BY <1>1, <2>1, <2>2, <2>3, BeginningOf
<1>5. (st.shown \o front) \o mid = st.shown \o SubSeq(st.carry, 1, Len(st.carry) - f)
  <2>1. (st.shown \o front) \o mid = st.shown \o (front \o mid)
    BY <1>1, <1>4, TextsAssociate
  <2> QED
    BY <1>3, <2>1
<1>6. /\ Shift(st, g).open = st.open /\ Shift(st, g).carry = LastOnes(st.carry, g)
      /\ Shift(st, g).shown = IF st.open THEN st.shown ELSE st.shown \o front
      /\ Len(Shift(st, g).carry) = g
  BY <1>1, LastOnesAre DEF Shift
<1>7. SubSeq(Shift(st, g).carry, 1, Len(Shift(st, g).carry) - f) = mid
  BY <1>6
<1> HIDE DEF front, mid
<1>8. Shift(Shift(st, g), f) =
        [open |-> st.open, carry |-> LastOnes(st.carry, f),
         shown |-> IF st.open THEN st.shown ELSE (st.shown \o front) \o mid]
  BY <1>2, <1>6, <1>7 DEF Shift
<1> QED
  BY <1>5, <1>8 DEF Shift

LEMMA ShiftGrows ==
  ASSUME NEW st \in St, NEW x \in Symbols, NEW g \in 0..Len(st.carry)
  PROVE  Longer(Shift(st, g), <<x>>) = Shift(Longer(st, <<x>>), g + 1)
<1> DEFINE N     == Len(st.carry)
           front == IF st.open THEN st.shown ELSE st.shown \o SubSeq(st.carry, 1, N - g)
<1>1. st.carry \in Seq(Symbols) /\ N \in Nat
  BY DEF St
<1>2. LastOnes(st.carry \o <<x>>, g + 1) = LastOnes(st.carry, g) \o <<x>>
  <2>1. N - g + 1 \in 1..(N + 1) /\ (N + 1) - (g + 1) + 1 = N - g + 1
    BY <1>1
  <2>2. Len(st.carry \o <<x>>) = N + 1
    BY <1>1, OneMore
  <2> QED
    BY <1>1, <2>1, <2>2, EndGrows DEF LastOnes
<1>3. SubSeq(st.carry \o <<x>>, 1, (N + 1) - (g + 1)) = SubSeq(st.carry, 1, N - g)
  <2>1. N - g \in 0..N /\ (N + 1) - (g + 1) = N - g
    BY <1>1
  <2> QED
    BY <1>1, <2>1, BeginningStays
<1>4. /\ Longer(st, <<x>>).open = st.open /\ Longer(st, <<x>>).shown = st.shown
      /\ Longer(st, <<x>>).carry = st.carry \o <<x>> /\ Len(Longer(st, <<x>>).carry) = N + 1
  BY LongerIs
<1> DEFINE o    == st.open
           last == LastOnes(st.carry, g)
<1>5. Shift(Longer(st, <<x>>), g + 1) = Holding(o, last \o <<x>>, front)
  BY <1>2, <1>3, <1>4 DEF Shift, Holding
<1>6. Shift(st, g) = Holding(o, last, front)
  BY DEF Shift, Holding
<1> HIDE DEF front, o, last
<1> QED
  BY <1>5, <1>6, LongerOf

LEMMA KeepCutRests ==
  ASSUME NEW st \in St, ~HasTag(st.open, st.carry)
  PROVE  /\ KeepCut(st) \in St
         /\ ~HasTag(KeepCut(st).open, KeepCut(st).carry)
<1> DEFINE h == HeldBack(st.open, st.carry)
<1>1. st.carry \in Seq(Symbols) /\ st.open \in BOOLEAN /\ h \in 0..Len(st.carry)
  BY HeldIs DEF St
<1> HIDE DEF h
<1>2. KeepCut(st) = Shift(st, h)
  BY KeepCutIs DEF h
<1> QED
  BY <1>1, <1>2, ShiftIs, NoTagInEnd

\* After the cut end alone a symbol completes the same tag as after the whole text.
LEMMA CutTagCompletes ==
  ASSUME NEW st \in St, NEW x \in Symbols, ~HasTag(st.open, st.carry),
         HasTag(st.open, st.carry \o <<x>>)
  PROVE  PassTag(Longer(KeepCut(st), <<x>>)) = PassTag(Longer(st, <<x>>))
<1> DEFINE long == Longer(st, <<x>>)
           N    == Len(st.carry)
<1>1. /\ st.carry \in Seq(Symbols) /\ st.open \in BOOLEAN /\ N \in Nat
      /\ long \in St /\ long.open = st.open /\ long.carry = st.carry \o <<x>> /\ Len(long.carry) = N + 1
      /\ long.carry \in Seq(Symbols) /\ \A k \in 1..N : long.carry[k] = st.carry[k]
  <2>1. st.carry \in Seq(Symbols) /\ st.open \in BOOLEAN
    BY DEF St
  <2>2. long \in St /\ long.open = st.open /\ long.carry = st.carry \o <<x>> /\ Len(long.carry) = N + 1 /\ N \in Nat
    BY LongerIs
  <2>3. \A k \in 1..N : (st.carry \o <<x>>)[k] = st.carry[k]
    BY <2>1, OneMore
  <2>4. st.carry \o <<x>> \in Seq(Symbols)
    BY <2>1, OneMore
  <2> QED
    BY <2>1, <2>2, <2>3, <2>4
<1>2. PICK tag \in Candidates(st.open), i \in Nat : FirstTag(st.open, long.carry, tag, i)
  BY <1>1, FirstExists
<1>3. /\ StandsAt(tag, long.carry, i) /\ tag \in Both /\ Len(tag) \in Nat /\ 2 < Len(tag)
  BY <1>1, <1>2, CandidatesAre, TagFacts DEF FirstTag
<1>4. i + Len(tag) - 1 = N + 1 /\ i \in 1..N
  <2>1. StandsAt(tag, st.carry \o <<x>>, i)
    BY <1>1, <1>3
  <2> QED
    BY <1>1, <1>2, <2>1, LastTag
<1> HIDE DEF long, N
<1> DEFINE m == Len(tag) - 1
<1>5. m \in 1..N /\ m \in Nat /\ m + 1 = Len(tag) /\ N - m = i - 1 /\ (N + 1) - Len(tag) = i - 1
  BY <1>1, <1>3, <1>4
<1> HIDE DEF m
<1>6. HeldBack(st.open, st.carry) = m
  <2>1. ASSUME NEW k \in 1..m PROVE st.carry[N - m + k] = tag[k]
    <3>1. N - m + k = i + k - 1 /\ i + k - 1 \in 1..N /\ k \in 1..Len(tag)
      BY <1>1, <1>4, <1>5
    <3>2. long.carry[i + k - 1] = tag[k]
      BY <1>3, <3>1 DEF StandsAt
    <3> QED
      BY <1>1, <3>1, <3>2
  <2>2. m <= Len(tag)
    BY <1>5
  <2>3. Match(st.open, st.carry, m)
    BY <1>2, <1>5, <2>1, <2>2 DEF Match, N
  <2> QED
    BY <1>1, <1>5, <2>3, HeldIs
<1>7. Longer(KeepCut(st), <<x>>) = Shift(long, Len(tag))
  <2>1. m \in 0..Len(st.carry)
    BY <1>5 DEF N
  <2>2. KeepCut(st) = Shift(st, m)
    BY <1>6, KeepCutIs
  <2> QED
    BY <1>5, <2>1, <2>2, ShiftGrows DEF long
<1> DEFINE short == Shift(long, Len(tag))
<1>8. Len(tag) \in 0..Len(long.carry) /\ Len(tag) \in 0..(N + 1)
  BY <1>1, <1>3, <1>4
<1>9. /\ short \in St /\ short.open = st.open /\ short.carry = LastOnes(long.carry, Len(tag))
      /\ Len(short.carry) = Len(tag)
      /\ short.shown = IF st.open THEN long.shown ELSE long.shown \o SubSeq(long.carry, 1, i - 1)
  BY <1>1, <1>5, <1>8, ShiftIs DEF Shift
<1>10. short.carry \in Seq(Symbols) /\ \A k \in 1..Len(tag) : short.carry[k] = tag[k]
  <2>1. ASSUME NEW k \in 1..Len(tag) PROVE LastOnes(long.carry, Len(tag))[k] = tag[k]
    <3>1. LastOnes(long.carry, Len(tag))[k] = long.carry[Len(long.carry) - Len(tag) + k]
      BY <1>1, <1>8, LastOnesAre
    <3>2. Len(long.carry) - Len(tag) + k = i + k - 1
      <4>1. Len(long.carry) - Len(tag) = i - 1 /\ i \in Nat
        BY <1>1, <1>5
      <4> QED
        BY <4>1
    <3>3. long.carry[i + k - 1] = tag[k]
      BY <1>3 DEF StandsAt
    <3> QED
      BY <3>1, <3>2, <3>3
  <2> QED
    BY <1>9, <2>1 DEF St
<1> HIDE DEF short
<1>11. FirstTag(short.open, short.carry, tag, 1)
  <2>1. 1 \in 1..Len(short.carry) /\ 1 + Len(tag) - 1 <= Len(short.carry)
    BY <1>3, <1>9
  <2>2. \A k \in 1..Len(tag) : 1 + k - 1 = k
    OBVIOUS
  <2>3. StandsAt(tag, short.carry, 1)
    BY <1>10, <2>1, <2>2 DEF StandsAt
  <2>4. \A other \in Candidates(short.open) : \A k \in 1..(1 - 1) : ~StandsAt(other, short.carry, k)
    OBVIOUS
  <2> QED
    BY <1>2, <1>9, <2>3, <2>4 DEF FirstTag
<1>12. PassTag(short) = PassOn(short, tag, 1)
  BY <1>9, <1>11, PassIs
<1>13. PassTag(long) = PassOn(long, tag, i)
  BY <1>1, <1>2, PassIs
<1>14. SubSeq(short.carry, 1 + Len(tag), Len(short.carry)) = <<>>
  BY <1>3, <1>9, SubSeqEmpty
<1>15. SubSeq(long.carry, i + Len(tag), Len(long.carry)) = <<>>
  <2>1. Len(long.carry) < i + Len(tag) /\ i + Len(tag) \in Int /\ Len(long.carry) \in Int
    BY <1>1, <1>3, <1>4
  <2> QED
    BY <2>1, SubSeqEmpty
<1>16. short.shown \o SubSeq(short.carry, 1, 1 - 1) = short.shown
  <2>1. SubSeq(short.carry, 1, 1 - 1) = <<>>
    BY SubSeqEmpty
  <2>2. short.shown \in Seq(Symbols)
    BY <1>9 DEF St
  <2> QED
    BY <2>1, <2>2, ConcatEmptySeq
<1>17. PassOn(short, tag, 1) = [open |-> tag = Start, carry |-> <<>>, shown |-> short.shown]
  BY <1>14, <1>16 DEF PassOn
<1>18. PassOn(long, tag, i) = [open |-> tag = Start, carry |-> <<>>, shown |-> short.shown]
  BY <1>1, <1>9, <1>15 DEF PassOn
<1> QED
  BY <1>7, <1>12, <1>13, <1>17, <1>18 DEF short, long

\* What is carried over is all that the next symbol needs.
LEMMA KeepCutGrows ==
  ASSUME NEW st \in St, NEW x \in Symbols, ~HasTag(st.open, st.carry)
  PROVE  KeepCut(PassTag(Longer(KeepCut(st), <<x>>))) = KeepCut(PassTag(Longer(st, <<x>>)))
<1>1. CASE HasTag(st.open, st.carry \o <<x>>)
  BY <1>1, CutTagCompletes
<1>2. CASE ~HasTag(st.open, st.carry \o <<x>>)
  <2> DEFINE long == Longer(st, <<x>>)
             h    == HeldBack(st.open, st.carry)
             j    == HeldBack(st.open, long.carry)
             N    == Len(st.carry)
  <2>1. /\ st.carry \in Seq(Symbols) /\ st.open \in BOOLEAN /\ N \in Nat
        /\ long \in St /\ long.open = st.open /\ long.carry = st.carry \o <<x>> /\ Len(long.carry) = N + 1
        /\ long.carry \in Seq(Symbols)
    BY LongerIs DEF St
  <2>2. h \in 0..N /\ h \in Nat /\ j \in 0..(N + 1) /\ j \in Nat
    BY <2>1, HeldIs
  <2>3. j <= h + 1
    BY <2>1, HeldGrows
  <2> HIDE DEF long, h, j, N
  <2>4. h + 1 \in 0..Len(long.carry) /\ j \in 0..(h + 1)
    BY <2>1, <2>2, <2>3
  <2>5. Longer(KeepCut(st), <<x>>) = Shift(long, h + 1)
    <3>1. KeepCut(st) = Shift(st, h)
      BY KeepCutIs DEF h
    <3> QED
      BY <2>2, <3>1, ShiftGrows DEF long, N
  <2>6. /\ Shift(long, h + 1) \in St /\ Shift(long, h + 1).open = st.open
        /\ Shift(long, h + 1).carry = LastOnes(long.carry, h + 1)
    BY <2>1, <2>4, ShiftIs
  <2>7. ~HasTag(st.open, LastOnes(long.carry, h + 1))
    BY <1>2, <2>1, <2>4, NoTagInEnd
  <2>8. PassTag(Shift(long, h + 1)) = Shift(long, h + 1) /\ PassTag(long) = long
    BY <1>2, <2>1, <2>6, <2>7, PassNone
  <2>9. HeldBack(st.open, LastOnes(long.carry, h + 1)) = j
    BY <2>1, <2>3, <2>4, HeldOfEnd DEF j
  <2>10. KeepCut(Shift(long, h + 1)) = Shift(Shift(long, h + 1), j)
    BY <2>6, <2>9, KeepCutIs
  <2>11. Shift(Shift(long, h + 1), j) = Shift(long, j)
    BY <2>1, <2>4, ShiftTwice
  <2>12. KeepCut(long) = Shift(long, j)
    BY <2>1, KeepCutIs DEF j
  <2> QED
    BY <2>5, <2>8, <2>10, <2>11, <2>12 DEF long
<1> QED
  BY <1>1, <1>2

LEMMA KeepCutTwice ==
  ASSUME NEW st \in St
  PROVE  KeepCut(KeepCut(st)) = KeepCut(st)
<1> DEFINE h == HeldBack(st.open, st.carry)
<1>1. st.carry \in Seq(Symbols) /\ st.open \in BOOLEAN /\ h \in 0..Len(st.carry) /\ h \in Nat
  BY HeldIs DEF St
<1>2. HeldBack(st.open, LastOnes(st.carry, h)) = h
  BY <1>1, HeldOfEnd
<1> HIDE DEF h
<1>3. h \in 0..h /\ Shift(st, h) \in St /\ Shift(st, h).open = st.open
      /\ Shift(st, h).carry = LastOnes(st.carry, h)
  BY <1>1, ShiftIs
<1>4. KeepCut(Shift(st, h)) = Shift(Shift(st, h), h)
  BY <1>2, <1>3, KeepCutIs
<1>5. Shift(Shift(st, h), h) = Shift(st, h)
  BY <1>1, <1>3, ShiftTwice
<1>6. KeepCut(st) = Shift(st, h)
  BY KeepCutIs DEF h
<1> QED
  BY <1>4, <1>5, <1>6

LEMMA LongerIn ==
  ASSUME NEW st \in St, NEW text \in Seq(Symbols)
  PROVE  /\ Longer(st, text) \in St /\ Longer(st, <<>>) = st
         /\ \A x \in Symbols : Longer(Longer(st, text), <<x>>) = Longer(st, text \o <<x>>)
<1> DEFINE o == st.open
           c == st.carry
           s == st.shown
<1>1. o \in BOOLEAN /\ c \in Seq(Symbols) /\ s \in Seq(Symbols) /\ c \o text \in Seq(Symbols) /\ c \o <<>> = c
  BY ConcatProperties, ConcatEmptySeq DEF St
<1>2. st = Holding(o, c, s)
  BY DEF St, Holding
<1> HIDE DEF o, c, s
<1>3. \A new : Longer(st, new) = Holding(o, c \o new, s)
  BY <1>2, LongerOf
<1>4. ASSUME NEW x \in Symbols PROVE Longer(Longer(st, text), <<x>>) = Longer(st, text \o <<x>>)
  <2>1. Longer(Longer(st, text), <<x>>) = Holding(o, (c \o text) \o <<x>>, s)
    BY <1>3, LongerOf
  <2>2. (c \o text) \o <<x>> = c \o (text \o <<x>>)
    <3>1. <<x>> \in Seq(Symbols)
      OBVIOUS
    <3> QED
      BY <1>1, <3>1, TextsAssociate
  <2> QED
    BY <1>3, <2>1, <2>2
<1>5. Longer(st, text) \in St
  <2>1. Holding(o, c \o text, s) \in St
    BY <1>1 DEF St, Holding
  <2> QED
    BY <1>3, <2>1
<1> QED
  BY <1>1, <1>2, <1>3, <1>4, <1>5

LEMMA ProcessIs == \A st, text : Process(st, text) = KeepCut(PassTags(Longer(st, text)))
BY DEF Process, Longer

LEMMA ProcessIn ==
  ASSUME NEW st \in St, NEW text \in Seq(Symbols)
  PROVE  /\ Process(st, text) \in St
         /\ Process(Process(st, text), <<>>) = Process(st, text)
<1> DEFINE s == PassTags(Longer(st, text))
           p == KeepCut(s)
<1>1. "<" \in Symbols /\ Longer(st, text) \in St
  BY LongerIn DEF Symbols
<1>2. s \in St /\ ~HasTag(s.open, s.carry)
  BY <1>1, PassTagsGrow
<1> HIDE DEF s
<1>3. p \in St /\ ~HasTag(p.open, p.carry) /\ KeepCut(p) = p
  BY <1>2, KeepCutRests, KeepCutTwice
<1> HIDE DEF p
<1>4. <<>> \in Seq(Symbols)
  OBVIOUS
<1>5. Longer(p, <<>>) = p
  BY <1>3, <1>4, LongerIn
<1>6. PassTags(p) = p
  BY <1>3, PassTagsRest
<1>7. Process(st, text) = p /\ Process(p, <<>>) = p
  BY <1>3, <1>5, <1>6, ProcessIs DEF s, p
<1> QED
  BY <1>3, <1>7

\* A symbol may come as a piece of its own.
LEMMA ProcessGrows ==
  ASSUME NEW st \in St, NEW text \in Seq(Symbols), NEW x \in Symbols
  PROVE  Process(Process(st, text), <<x>>) = Process(st, text \o <<x>>)
<1> DEFINE long == Longer(st, text)
           s    == PassTags(long)
           p    == KeepCut(s)
<1>1. long \in St /\ Longer(st, text \o <<x>>) = Longer(long, <<x>>)
  BY LongerIn
<1>2. s \in St /\ ~HasTag(s.open, s.carry) /\ PassTags(Longer(long, <<x>>)) = PassTag(Longer(s, <<x>>))
  BY <1>1, PassTagsGrow
<1>3. p \in St /\ ~HasTag(p.open, p.carry)
  BY <1>2, KeepCutRests
<1>4. PassTags(Longer(p, <<x>>)) = PassTag(Longer(PassTags(p), <<x>>)) /\ PassTags(p) = p
  BY <1>3, PassTagsGrow, PassTagsRest
<1>5. KeepCut(PassTag(Longer(p, <<x>>))) = KeepCut(PassTag(Longer(s, <<x>>)))
  BY <1>2, KeepCutGrows
<1>6. Process(st, text) = p
  BY ProcessIs
<1> HIDE DEF long, s, p
<1>7. Process(p, <<x>>) = KeepCut(PassTag(Longer(p, <<x>>)))
  BY <1>4, ProcessIs
<1>8. Process(st, text \o <<x>>) = KeepCut(PassTag(Longer(s, <<x>>)))
  BY <1>1, <1>2, ProcessIs
<1> QED
  BY <1>5, <1>6, <1>7, <1>8

\* It does not matter where the network cuts a text: a piece and then the rest leave
\* the processor where the whole leaves it, for every text and whatever was carried.
THEOREM CutsNeverMatter ==
  \A st \in St, a \in Seq(Symbols), b \in Seq(Symbols) :
    Process(Process(st, a), b) = Process(st, a \o b)
<1> SUFFICES ASSUME NEW st \in St, NEW a \in Seq(Symbols)
             PROVE  \A b \in Seq(Symbols) : Process(Process(st, a), b) = Process(st, a \o b)
  OBVIOUS
<1> DEFINE Same(b) == Process(Process(st, a), b) = Process(st, a \o b)
           T == {n \in Nat : \A b \in Seq(Symbols) : Len(b) = n => Same(b)}
<1>1. 0 \in T
  <2>1. Same(<<>>)
    <3>1. a \o <<>> = a
      BY ConcatEmptySeq
    <3> QED
      BY <3>1, ProcessIn
  <2>2. \A b \in Seq(Symbols) : Len(b) = 0 => b = <<>>
    OBVIOUS
  <2> HIDE DEF Same
  <2> QED
    BY <2>1, <2>2
<1>2. ASSUME NEW n \in Nat, n \in T PROVE n + 1 \in T
  <2>1. ASSUME NEW b \in Seq(Symbols), Len(b) = n + 1 PROVE Same(b)
    <3>1. b # <<>>
      BY <2>1
    <3>2. PICK c \in Seq(Symbols), x \in Symbols : b = Append(c, x)
      BY <3>1, SequenceEmptyOrAppend
    <3>3. b = c \o <<x>> /\ Len(c) = n
      <4>1. Append(c, x) = c \o <<x>> /\ Len(Append(c, x)) = Len(c) + 1 /\ Len(c) \in Nat
        BY AppendIsConcat, AppendProperties
      <4> QED
        BY <2>1, <3>2, <4>1
    <3>4. Same(c)
      BY <1>2, <3>3
    <3>5. Process(Process(st, a), c \o <<x>>) = Process(Process(Process(st, a), c), <<x>>)
      <4>1. Process(st, a) \in St
        BY ProcessIn
      <4> QED
        BY <4>1, ProcessGrows
    <3>6. Process(Process(st, a \o c), <<x>>) = Process(st, (a \o c) \o <<x>>)
      <4>1. a \o c \in Seq(Symbols)
        BY ConcatProperties
      <4> QED
        BY <4>1, ProcessGrows
    <3>7. (a \o c) \o <<x>> = a \o (c \o <<x>>)
      <4>1. <<x>> \in Seq(Symbols)
        OBVIOUS
      <4> QED
        BY <4>1, TextsAssociate
    <3> QED
      BY <3>3, <3>4, <3>5, <3>6, <3>7
  <2> HIDE DEF Same
  <2> QED
    BY <2>1
<1>3. \A n \in Nat : n \in T
  <2> HIDE DEF T
  <2> QED
    BY <1>1, <1>2, SetInduction
<1>4. ASSUME NEW b \in Seq(Symbols) PROVE Same(b)
  <2>1. Len(b) \in Nat
    OBVIOUS
  <2>2. Len(b) \in T
    BY <1>3, <2>1
  <2> HIDE DEF Same
  <2> QED
    BY <2>2
<1> QED
  BY <1>4

=============================================================================
