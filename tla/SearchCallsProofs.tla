------------------------- MODULE SearchCallsProofs -------------------------
(***************************************************************************)
(* Theorems about the searches of an agent: types, that the answers with   *)
(* tools are bounded, that booked waits are spaced and short, that what    *)
(* one engine found is not lost by the failure of another, and that an     *)
(* agent has only so much to do, for any calls, queries, engines, delays   *)
(* and limits.                                                             *)
(***************************************************************************)
EXTENDS SearchCalls, FiniteSetTheorems, TLAPS

LEMMA Limits ==
  /\ MaxRounds \in Nat \ {0} /\ Delay \in Nat \ {0} /\ MaxRuns \in Nat \ {0}
  /\ MaxSteps = MaxRounds + 2 /\ Past = -1 /\ MaxTries = 3
BY SearchAssumption DEF MaxSteps, Past, MaxTries

-----------------------------------------------------------------------------
(* Types.                                                                  *)

LEMMA NoCallType == NoCall \in CallType
<1>1. (CHOOSE q \in Queries : TRUE) \in Queries
  BY SearchAssumption
<1> QED
  BY <1>1, Limits DEF NoCall, CallType, Places

\* The calls of a new answer stand at the first look or the booking.
LEMMA FreshCalls ==
  ASSUME AsksForTools \/ Answers, NEW c \in Calls
  PROVE  call'[c].pc \in {"free", "book", "check"} /\ call'[c].found = {}
<1>1. NoCall.pc = "free" /\ NoCall.found = {}
  BY DEF NoCall
<1>2. \A q : /\ [NoCall EXCEPT !.pc = First(mode), !.query = q].pc \in {"book", "check"}
            /\ [NoCall EXCEPT !.pc = First(mode), !.query = q].found = {}
  BY DEF NoCall, First
<1>3. \/ call'[c] = NoCall
      \/ \E q : call'[c] = [NoCall EXCEPT !.pc = First(mode), !.query = q]
  BY DEF AsksForTools, Answers
<1> QED
  BY <1>1, <1>2, <1>3

LEMMA TypeInit == Init => TypeOK
BY NoCallType, Limits DEF Init, TypeOK

\* A step of one call gives it a record of the type.
LEMMA SetCall ==
  ASSUME TypeOK, NEW c \in Calls, NEW r \in CallType, call' = [call EXCEPT ![c] = r]
  PROVE  call' \in [Calls -> CallType]
BY DEF TypeOK

LEMMA StepTypes == ASSUME TypeOK, NEW c \in Calls, Step(c) PROVE TypeOK'
<1>1. call[c] \in CallType /\ call \in [Calls -> CallType]
  BY DEF TypeOK
<1>2. \A p \in Places : [call[c] EXCEPT !.pc = p] \in CallType
  BY <1>1 DEF CallType
<1>3. ASSUME NEW p \in {"sleep", "wait", "keys"}, NEW n \in Int, n >= -1,
             call' = [call EXCEPT ![c] = [call[c] EXCEPT !.pc = p, !.rest = n]]
      PROVE  call' \in [Calls -> CallType]
  <2>1. [call[c] EXCEPT !.pc = p, !.rest = n] \in CallType
    BY <1>1, <1>3, Limits DEF CallType, Places
  <2> QED
    BY <1>3, <2>1, SetCall
<1>4. CASE Check(c)
  <2>1. \E p \in Places : call' = [call EXCEPT ![c] = [call[c] EXCEPT !.pc = p]]
    BY <1>1, <1>4 DEF Check, Goes, Places
  <2> QED
    BY <1>2, <1>4, <2>1, SetCall DEF Check, TypeOK
<1>5. CASE Book(c)
  <2>1. Booked \in Int /\ Booked >= -1
    BY Limits DEF TypeOK, Booked
  <2>2. call' = [call EXCEPT ![c] = [call[c] EXCEPT !.pc = "sleep", !.rest = Booked]]
    BY <1>1, <1>5 DEF Book
  <2>3. call' \in [Calls -> CallType]
    BY <1>3, <2>1, <2>2
  <2> QED
    BY <1>5, <2>1, <2>3, Limits DEF Book, TypeOK
<1>6. CASE BookFails(c)
  <2>1. call' = [call EXCEPT ![c] = [call[c] EXCEPT !.pc = "sleep", !.rest = -1]]
    BY <1>1, <1>6, Limits DEF BookFails
  <2>2. call' \in [Calls -> CallType]
    <3>1. -1 \in {n \in Int : n >= Past}
      BY Limits
    <3>2. [call[c] EXCEPT !.pc = "sleep", !.rest = -1] \in CallType
      BY <1>1, <3>1 DEF CallType, Places
    <3> QED
      BY <2>1, <3>2, SetCall
  <2> QED
    BY <1>6, <2>2 DEF BookFails, TypeOK
<1>7. CASE Wake(c)
  <2>1. Delay - sinceEnd \in Int /\ Delay - sinceEnd >= -1
    BY Limits DEF TypeOK
  <2>2. call' = [call EXCEPT ![c] = [call[c] EXCEPT !.pc = "wait", !.rest = Delay - sinceEnd]]
    BY <1>1, <1>7 DEF Wake
  <2>3. call' \in [Calls -> CallType]
    BY <1>3, <2>1, <2>2
  <2> QED
    BY <1>7, <2>3 DEF Wake, TypeOK
<1>8. CASE Leave(c)
  <2>1. call' = [call EXCEPT ![c] = [call[c] EXCEPT !.pc = "keys", !.rest = 0]]
    BY <1>1, <1>8 DEF Leave
  <2>2. call' \in [Calls -> CallType]
    <3>1. 0 \in {n \in Int : n >= Past}
      BY Limits
    <3>2. [call[c] EXCEPT !.pc = "keys", !.rest = 0] \in CallType
      BY <1>1, <3>1 DEF CallType, Places
    <3> QED
      BY <2>1, <3>2, SetCall
  <2> QED
    BY <1>8, <2>2 DEF Leave, TypeOK
<1>9. ASSUME NEW keyed \in SUBSET Engines, Keys(c, keyed) PROVE TypeOK'
  <2> DEFINE o == [e \in Engines |-> IF e \notin keyed THEN 0
                                     ELSE IF e \in Retried THEN MaxTries ELSE 1]
  <2>1. o \in [Engines -> 0..MaxTries]
    BY Limits
  <2>2. \E p \in {"over", "engines"} :
          call' = [call EXCEPT ![c] = [call[c] EXCEPT !.pc = p, !.open = o]]
    BY <1>1, <1>9 DEF Keys
  <2> HIDE DEF o
  <2>3. \A p \in {"over", "engines"} : [call[c] EXCEPT !.pc = p, !.open = o] \in CallType
    BY <1>1, <2>1 DEF CallType, Places
  <2>4. call' \in [Calls -> CallType]
    BY <2>2, <2>3, SetCall
  <2> QED
    BY <1>9, <2>4 DEF Keys, TypeOK
<1>10. ASSUME NEW e \in Engines, EngineAnswers(c, e) \/ EngineFails(c, e) PROVE TypeOK'
  <2>1. call[c].open \in [Engines -> 0..MaxTries] /\ call[c].open[e] \in 0..MaxTries
    BY <1>1 DEF CallType
  <2>2. \E n \in 0..MaxTries, f \in SUBSET Engines :
          call' = [call EXCEPT ![c] = [call[c] EXCEPT !.open = [call[c].open EXCEPT ![e] = n],
                                                      !.found = f]]
    <3>1. CASE EngineAnswers(c, e)
      <4>1. call[c].found \cup {e} \in SUBSET Engines /\ 0 \in 0..MaxTries
        BY <1>1, Limits DEF CallType
      <4>2. call' = [call EXCEPT ![c] = [call[c] EXCEPT !.open = [call[c].open EXCEPT ![e] = 0],
                                                        !.found = call[c].found \cup {e}]]
        BY <1>1, <3>1 DEF EngineAnswers, CallType
      <4> QED
        BY <4>1, <4>2
    <3>2. CASE EngineFails(c, e)
      <4>1. call[c].open[e] - 1 \in 0..MaxTries /\ call[c].found \in SUBSET Engines
        BY <1>1, <2>1, <3>2, Limits DEF EngineFails, CallType
      <4>2. call' = [call EXCEPT ![c] = [call[c] EXCEPT
                                  !.open = [call[c].open EXCEPT ![e] = call[c].open[e] - 1],
                                  !.found = call[c].found]]
        BY <1>1, <3>2 DEF EngineFails, CallType
      <4> QED
        BY <4>1, <4>2
    <3> QED
      BY <1>10, <3>1, <3>2
  <2>3. \A n \in 0..MaxTries, f \in SUBSET Engines :
          [call[c] EXCEPT !.open = [call[c].open EXCEPT ![e] = n], !.found = f] \in CallType
    BY <1>1, <2>1 DEF CallType
  <2>4. call' \in [Calls -> CallType]
    BY <2>2, <2>3, SetCall
  <2> QED
    BY <1>10, <2>4 DEF EngineAnswers, EngineFails, TypeOK
<1>11. CASE Gather(c)
  <2>1. Result(c) \in SUBSET Urls
    BY <1>1, SearchAssumption DEF Result, Pages, CallType
  <2>2. \E p \in {"over", "save"} :
          call' = [call EXCEPT ![c] = [call[c] EXCEPT !.pc = p, !.told = Result(c)]]
    BY <1>1, <1>11 DEF Gather
  <2>3. \A p \in {"over", "save"} : [call[c] EXCEPT !.pc = p, !.told = Result(c)] \in CallType
    BY <1>1, <2>1 DEF CallType, Places
  <2>4. call' \in [Calls -> CallType]
    BY <2>2, <2>3, SetCall
  <2> QED
    BY <1>11, <2>4, Limits DEF Gather, TypeOK
<1>12. CASE Save(c)
  <2>1. call' \in [Calls -> CallType]
    BY <1>1, <1>2, <1>12, SetCall DEF Save, Goes, Places
  <2>2. stored' \in [Queries -> SUBSET Urls]
    BY <1>1, <1>12 DEF Save, TypeOK, CallType
  <2> QED
    BY <1>12, <2>1, <2>2 DEF Save, TypeOK
<1> QED
  BY <1>4, <1>5, <1>6, <1>7, <1>8, <1>9, <1>10, <1>11, <1>12 DEF Step

LEMMA TypeStep == TypeOK /\ [Next]_vars => TypeOK'
<1> SUFFICES ASSUME TypeOK, [Next]_vars PROVE TypeOK' OBVIOUS
<1>1. CASE Start
  BY <1>1, Limits DEF Start, TypeOK
<1>2. CASE AsksForTools
  <2>1. call' \in [Calls -> CallType]
    <3>1. \A q \in Queries, p \in {"book", "check"} : [NoCall EXCEPT !.pc = p, !.query = q] \in CallType
      BY NoCallType DEF CallType, Places
    <3>2. First(mode) \in {"book", "check"}
      BY DEF First
    <3>3. PICK used \in SUBSET Calls : \E q \in [used -> Queries] :
            call' = [c \in Calls |->
              IF c \in used THEN [NoCall EXCEPT !.pc = First(mode), !.query = q[c]] ELSE NoCall]
      BY <1>2 DEF AsksForTools
    <3>4. PICK q \in [used -> Queries] :
            call' = [c \in Calls |->
              IF c \in used THEN [NoCall EXCEPT !.pc = First(mode), !.query = q[c]] ELSE NoCall]
      BY <3>3
    <3>5. \A c \in used : [NoCall EXCEPT !.pc = First(mode), !.query = q[c]] \in CallType
      BY <3>1, <3>2
    <3> QED
      BY <3>4, <3>5, NoCallType
  <2>2. count' \in 0..MaxSteps - 1 /\ rounds' \in 0..MaxRounds + 2
    <3>1. /\ count \in Nat /\ count < MaxSteps - 1 /\ count' = count + 1
          /\ rounds \in 0..MaxRounds + 2
          /\ rounds' = IF rounds > MaxRounds + 1 THEN rounds ELSE rounds + 1
      <4>1. count \in 0..MaxSteps - 1 /\ ~(count >= MaxSteps - 1) /\ count' = count + 1
        BY <1>2 DEF AsksForTools, Counted, LastStep, TypeOK
      <4>2. /\ rounds \in 0..MaxRounds + 2
            /\ rounds' = IF rounds > MaxRounds + 1 THEN rounds ELSE rounds + 1
        BY <1>2 DEF AsksForTools, TypeOK
      <4> QED
        BY <4>1, <4>2, Limits
    <3> QED
      BY <3>1, Limits
  <2> QED
    BY <1>2, <2>1, <2>2 DEF AsksForTools, TypeOK
<1>3. CASE Answers
  BY <1>3, NoCallType, Limits DEF Answers, TypeOK
<1>4. CASE Tick
  <2>1. slot' \in Int /\ slot' >= Past /\ sinceEnd' \in 0..Delay
    BY <1>4, Limits DEF Tick, Less, More, TypeOK
  <2>2. ASSUME NEW c \in Calls PROVE call'[c] \in CallType
    <3>1. call[c] \in CallType
      BY DEF TypeOK
    <3>2. \E n \in {n \in Int : n >= Past} : call'[c] = [call[c] EXCEPT !.rest = n]
      <4>1. call[c].rest \in {n \in Int : n >= Past} /\ Less(call[c].rest, Past) \in {n \in Int : n >= Past}
        BY <3>1, Limits DEF CallType, Less
      <4> QED
        BY <1>4, <4>1 DEF Tick
    <3> QED
      BY <3>1, <3>2 DEF CallType
  <2>3. call' \in [Calls -> CallType]
    BY <1>4, <2>2 DEF Tick
  <2> QED
    BY <1>4, <2>1, <2>3 DEF Tick, TypeOK
<1>5. CASE UNCHANGED vars
  BY <1>5 DEF vars, TypeOK
<1> QED
  BY <1>1, <1>2, <1>3, <1>4, <1>5, StepTypes DEF Next

\* Calls, bookings and the store keep their types.
THEOREM TypeCorrect == Spec => []TypeOK
BY TypeInit, TypeStep, PTL DEF Spec

-----------------------------------------------------------------------------
(* The loop of the agent.                                                  *)

\* Whatever the model asks for, an agent has at most max_rounds + 1 answers with
\* tools: the middleware counts them and takes the tools away for the last call.
THEOREM RoundsBounded == Spec => []RoundsAreBounded
<1> DEFINE Counts == TypeOK /\ rounds <= count
<1>1. Init => Counts
  BY TypeInit DEF Init
<1>2. Counts /\ [Next]_vars => Counts'
  <2> SUFFICES ASSUME Counts, [Next]_vars PROVE Counts' OBVIOUS
  <2>1. TypeOK'
    BY TypeStep
  <2>2. CASE AsksForTools
    <3>1. count' = count + 1 /\ rounds' \in {rounds, rounds + 1}
      BY <2>2 DEF AsksForTools, Counted
    <3>2. count \in Int /\ rounds \in Int
      BY Limits DEF TypeOK
    <3> QED
      BY <2>1, <3>1, <3>2
  <2>3. CASE UNCHANGED <<count, rounds>>
    BY <2>1, <2>3
  <2>4. CASE count' = 0 /\ rounds' = 0
    BY <2>1, <2>4
  <2> QED
    BY <2>2, <2>3, <2>4 DEF Next, vars, Start, Answers, Tick, Step, Check, Book, BookFails, Wake,
       Leave, Keys, EngineAnswers, EngineFails, Gather, Save
<1>3. Counts => RoundsAreBounded
  BY Limits DEF TypeOK, RoundsAreBounded
<1> QED
  BY <1>1, <1>2, <1>3, PTL DEF Spec

-----------------------------------------------------------------------------
(* Engines.                                                                *)

\* Results are taken from the engines that answered, all of them at once.
Gathered(r) ==
  /\ r.pc \notin {"engines", "save", "over"} => r.found = {}
  /\ r.pc \in {"save", "over"} => \A e \in r.found : Finds[e][r.query] \subseteq r.told

\* One engine that fails, is slow or has no key costs nothing another one found.
THEOREM FailuresAreContained == Spec => []FailureIsContained
<1> DEFINE Inv == TypeOK /\ \A c \in Calls : Gathered(call[c])
<1>1. Init => Inv
  BY TypeInit DEF Init, Gathered, NoCall
<1>2. Inv /\ [Next]_vars => Inv'
  <2> SUFFICES ASSUME Inv, [Next]_vars PROVE Inv' OBVIOUS
  <2>1. TypeOK'
    BY TypeStep
  <2>2. \A d \in Calls : call[d] \in CallType /\ Gathered(call[d])
    BY DEF TypeOK
  <2>3. ASSUME NEW c \in Calls, Step(c) PROVE \A d \in Calls : Gathered(call'[d])
    <3> SUFFICES ASSUME NEW d \in Calls PROVE Gathered(call'[d])
      OBVIOUS
    <3>1. CASE d # c
      <4>1. call'[d] = call[d]
        BY <2>3, <3>1 DEF TypeOK, Step, Check, Goes, Book, BookFails, Wake, Leave, Keys,
           EngineAnswers, EngineFails, Gather, Save
      <4> QED
        BY <2>2, <4>1
    <3>2. CASE d = c
      <4>1. CASE Check(c) \/ Book(c) \/ BookFails(c) \/ Wake(c) \/ Leave(c)
        <5>1. call[c].found = {} /\ call'[c].found = {}
          BY <2>2, <4>1 DEF Check, Goes, Book, BookFails, Wake, Leave, Gathered, TypeOK, CallType
        <5> QED
          BY <3>2, <5>1 DEF Gathered
      <4>2. ASSUME NEW keyed \in SUBSET Engines, Keys(c, keyed) PROVE Gathered(call'[c])
        <5>1. call[c].found = {} /\ call'[c].found = {}
          BY <2>2, <4>2 DEF Keys, Gathered, TypeOK, CallType
        <5> QED
          BY <5>1 DEF Gathered
      <4>3. ASSUME NEW e \in Engines, EngineAnswers(c, e) \/ EngineFails(c, e)
            PROVE  Gathered(call'[c])
        <5>1. call'[c].pc = "engines"
          BY <2>2, <4>3 DEF EngineAnswers, EngineFails, TypeOK, CallType
        <5> QED
          BY <5>1 DEF Gathered
      <4>4. CASE Gather(c)
        <5>1. /\ call'[c].pc \in {"save", "over"} /\ call'[c].told = Result(c)
              /\ call'[c].found = call[c].found /\ call'[c].query = call[c].query
          BY <2>2, <4>4 DEF Gather, TypeOK, CallType
        <5>2. \A e \in call[c].found : Finds[e][call[c].query] \subseteq Result(c)
          BY DEF Result, Pages
        <5> QED
          BY <3>2, <5>1, <5>2 DEF Gathered
      <4>5. CASE Save(c)
        <5>1. /\ call[c].pc = "save" /\ call'[c].pc = "over" /\ call'[c].told = call[c].told
              /\ call'[c].found = call[c].found /\ call'[c].query = call[c].query
          BY <2>2, <4>5 DEF Save, Goes, TypeOK, CallType
        <5> QED
          BY <2>2, <3>2, <5>1 DEF Gathered
      <4> QED
        BY <2>3, <3>2, <4>1, <4>2, <4>3, <4>4, <4>5 DEF Step
    <3> QED
      BY <3>1, <3>2
  <2>4. CASE AsksForTools \/ Answers
    <3>1. \A d \in Calls : call'[d].found = {}
      BY <2>4, FreshCalls
    <3> QED
      BY <2>1, <3>1 DEF Gathered
  <2>5. CASE Tick
    <3>1. \A d \in Calls : /\ call'[d].pc = call[d].pc /\ call'[d].found = call[d].found
                           /\ call'[d].told = call[d].told /\ call'[d].query = call[d].query
      BY <2>2, <2>5 DEF Tick, CallType
    <3> QED
      BY <2>1, <2>2, <3>1 DEF Gathered
  <2>6. CASE call' = call
    BY <2>1, <2>2, <2>6
  <2> QED
    BY <2>1, <2>3, <2>4, <2>5, <2>6 DEF Next, vars, Start
<1>3. Inv => FailureIsContained
  BY DEF Gathered, FailureIsContained
<1> QED
  BY <1>1, <1>2, <1>3, PTL DEF Spec

-----------------------------------------------------------------------------
(* Booked times.                                                           *)

\* No call waits for a time beyond the booked one; two wait a delay apart.
Spaced ==
  /\ \A c \in Calls : Waits(c) => call[c].rest <= slot
  /\ WaitersAreSpaced

\* Calls that wait for a booked time wait for times a delay apart, also when
\* bookings fail and however late the callers wake up.
THEOREM WaitsAreSpaced == Spec => []WaitersAreSpaced
<1> DEFINE Inv == TypeOK /\ Spaced
<1>1. Init => Inv
  BY TypeInit DEF Init, Spaced, Waits, WaitersAreSpaced, NoCall
<1>2. Inv /\ [Next]_vars => Inv'
  <2> SUFFICES ASSUME Inv, [Next]_vars PROVE Spaced'
    BY TypeStep
  <2>0. /\ \A d \in Calls : call[d] \in CallType /\ call[d].rest \in Int /\ call[d].rest >= -1
        /\ slot \in Int /\ slot >= -1
    BY Limits DEF TypeOK, CallType
  <2>1. ASSUME slot' = slot,
               \A d \in Calls : \/ call'[d].pc = call[d].pc /\ call'[d].rest = call[d].rest
                                \/ call'[d].pc # "sleep" \/ ~(call'[d].rest >= 0)
        PROVE  Spaced'
    <3>1. \A d \in Calls : Waits(d)' => Waits(d) /\ call'[d].rest = call[d].rest
      BY <2>0, <2>1 DEF Waits
    <3> QED
      BY <2>1, <3>1 DEF Spaced, WaitersAreSpaced
  <2>2. ASSUME NEW c \in Calls, Book(c) PROVE Spaced'
    <3>1. /\ slot' = Booked /\ call'[c].rest = Booked /\ call'[c].pc = "sleep"
          /\ \A d \in Calls : d # c => call'[d] = call[d]
          /\ ~Waits(c)
      BY <2>0, <2>2 DEF Book, TypeOK, CallType, Waits
    <3>2. Booked \in Int /\ \A d \in Calls : Waits(d) => Booked >= call[d].rest + Delay
      BY <2>0, Limits DEF Booked, Spaced, Waits
    <3>3. \A d \in Calls : d # c => (Waits(d)' <=> Waits(d)) /\ call'[d].rest = call[d].rest
      BY <3>1 DEF Waits
    <3>4. \A d \in Calls : Waits(d)' => call'[d].rest <= slot'
      BY <2>0, <3>1, <3>2, <3>3, Limits
    <3>5. ASSUME NEW a \in Calls, NEW b \in Calls, a # b, Waits(a)', Waits(b)',
                 call'[b].rest >= call'[a].rest
          PROVE  call'[b].rest >= call'[a].rest + Delay
      <4>1. CASE b = c
        BY <2>0, <3>1, <3>2, <3>3, <3>5, <4>1
      <4>2. CASE a = c
        BY <2>0, <3>1, <3>2, <3>3, <3>5, <4>2, Limits
      <4>3. CASE a # c /\ b # c
        BY <3>3, <3>5, <4>3 DEF Spaced, WaitersAreSpaced
      <4> QED
        BY <4>1, <4>2, <4>3
    <3> QED
      BY <3>4, <3>5 DEF Spaced, WaitersAreSpaced
  <2>3. CASE Tick
    <3>1. slot' = IF slot > -1 THEN slot - 1 ELSE slot
      BY <2>3, Limits DEF Tick, Less
    <3>2. \A d \in Calls : Waits(d)' => Waits(d) /\ call'[d].rest = call[d].rest - 1
      <4> SUFFICES ASSUME NEW d \in Calls, Waits(d)'
                   PROVE  Waits(d) /\ call'[d].rest = call[d].rest - 1
        OBVIOUS
      <4>1. call'[d].pc = call[d].pc /\ call[d].pc = "sleep"
        BY <2>0, <2>3 DEF Tick, CallType, Waits
      <4>2. call'[d].rest = IF call[d].rest > -1 THEN call[d].rest - 1 ELSE call[d].rest
        BY <2>0, <2>3, <4>1, Limits DEF Tick, CallType, Less
      <4> QED
        BY <2>0, <4>1, <4>2 DEF Waits
    <3>3. \A d \in Calls : Waits(d)' => call'[d].rest <= slot'
      BY <2>0, <3>1, <3>2 DEF Spaced, Waits
    <3>4. WaitersAreSpaced'
      <4> SUFFICES ASSUME NEW a \in Calls, NEW b \in Calls, a # b, Waits(a)', Waits(b)',
                          call'[b].rest >= call'[a].rest
                   PROVE  call'[b].rest >= call'[a].rest + Delay
        BY DEF WaitersAreSpaced
      <4>1. call[b].rest >= call[a].rest
        BY <2>0, <3>2
      <4>2. call[b].rest >= call[a].rest + Delay
        BY <3>2, <4>1 DEF Spaced, WaitersAreSpaced
      <4> QED
        BY <2>0, <3>2, <4>2, Limits
    <3> QED
      BY <3>3, <3>4 DEF Spaced
  <2>4. ASSUME NEW c \in Calls, Step(c), ~Book(c) PROVE Spaced'
    <3>1. slot' = slot
      BY <2>4 DEF Step, Check, BookFails, Wake, Leave, Keys, EngineAnswers, EngineFails, Gather, Save
    <3>2. \A d \in Calls : d # c => call'[d] = call[d]
      BY <2>4 DEF TypeOK, Step, Check, Goes, BookFails, Wake, Leave, Keys, EngineAnswers,
         EngineFails, Gather, Save
    <3>3. call'[c].pc # "sleep" \/ ~(call'[c].rest >= 0)
      <4>1. CASE BookFails(c)
        BY <2>0, <4>1, Limits DEF BookFails, TypeOK, CallType
      <4>2. CASE ~BookFails(c)
        <5>1. call'[c].pc # "sleep"
          <6>1. CASE Check(c) \/ Wake(c) \/ Leave(c) \/ Gather(c) \/ Save(c)
            BY <2>0, <6>1 DEF TypeOK, CallType, Check, Goes, Wake, Leave, Gather, Save
          <6>2. CASE \E keyed \in SUBSET Engines : Keys(c, keyed)
            BY <2>0, <6>2 DEF TypeOK, CallType, Keys
          <6>3. CASE \E e \in Engines : EngineAnswers(c, e) \/ EngineFails(c, e)
            <7>1. call'[c].pc = call[c].pc /\ call[c].pc = "engines"
              BY <2>0, <6>3 DEF TypeOK, CallType, EngineAnswers, EngineFails
            <7> QED
              BY <7>1
          <6> QED
            BY <2>4, <4>2, <6>1, <6>2, <6>3 DEF Step
        <5> QED
          BY <5>1
      <4> QED
        BY <4>1, <4>2
    <3> QED
      BY <2>1, <3>1, <3>2, <3>3
  <2>5. CASE AsksForTools \/ Answers
    <3>1. slot' = slot
      BY <2>5 DEF AsksForTools, Answers
    <3>2. \A d \in Calls : call'[d].pc # "sleep"
      BY <2>5, FreshCalls
    <3> QED
      BY <2>1, <3>1, <3>2
  <2>6. CASE Start \/ UNCHANGED vars
    BY <2>1, <2>6 DEF Start, vars
  <2> QED
    BY <2>2, <2>3, <2>4, <2>5, <2>6 DEF Next
<1>3. Inv => WaitersAreSpaced
  BY DEF Spaced
<1> QED
  BY <1>1, <1>2, <1>3, PTL DEF Spec
-----------------------------------------------------------------------------
(* How long a call waits.                                                  *)

\* A step of a call that books nothing leaves the booked time and the other
\* calls alone, and is not one of a call whose booked time is ahead.
LEMMA OtherSteps ==
  ASSUME TypeOK, NEW c \in Calls, Step(c), ~Book(c)
  PROVE  /\ slot' = slot /\ \A d \in Calls : d # c => call'[d] = call[d]
         /\ ~(call[c].pc = "sleep" /\ call[c].rest > 0)
         /\ \/ call'[c].rest = call[c].rest /\ call[c].pc # "sleep" /\ call'[c].pc # "sleep"
            \/ call'[c].rest = -1
            \/ call'[c].rest \in 0..Delay /\ call'[c].pc # "sleep"
<1>0. call[c] \in CallType /\ call \in [Calls -> CallType] /\ call[c].rest \in Int
      /\ sinceEnd \in 0..Delay
  BY DEF TypeOK, CallType
<1>1. slot' = slot
  BY DEF Step, Check, BookFails, Wake, Leave, Keys, EngineAnswers, EngineFails, Gather, Save
<1>2. \A d \in Calls : d # c => call'[d] = call[d]
  BY <1>0 DEF Step, Check, Goes, BookFails, Wake, Leave, Keys, EngineAnswers,
     EngineFails, Gather, Save
<1>3. ~(call[c].pc = "sleep" /\ call[c].rest > 0)
  <2>1. CASE call[c].pc # "sleep"
    BY <2>1
  <2>2. CASE Wake(c)
    BY <1>0, <2>2 DEF Wake
  <2> QED
    BY <2>1, <2>2 DEF Step, Check, BookFails, Leave, Keys, EngineAnswers, EngineFails,
       Gather, Save
<1> DEFINE Kept == call'[c].rest = call[c].rest /\ call[c].pc # "sleep" /\ call'[c].pc # "sleep"
<1>4. CASE BookFails(c)
  <2>1. call'[c].rest = -1
    BY <1>0, <1>4, Limits DEF BookFails, CallType
  <2> QED
    BY <1>1, <1>2, <1>3, <2>1
<1>5. CASE Wake(c) \/ Leave(c)
  <2>1. call'[c].rest \in 0..Delay /\ call'[c].pc # "sleep"
    BY <1>0, <1>5, Limits DEF Wake, Leave, CallType
  <2> QED
    BY <1>1, <1>2, <1>3, <2>1
<1>6. CASE Check(c) \/ Gather(c) \/ Save(c)
  <2>1. Kept
    BY <1>0, <1>6 DEF Check, Goes, Gather, Save, CallType
  <2> QED
    BY <1>1, <1>2, <1>3, <2>1
<1>7. ASSUME NEW keyed \in SUBSET Engines, Keys(c, keyed) PROVE Kept
  BY <1>0, <1>7 DEF Keys, CallType
<1>8. ASSUME NEW e \in Engines, EngineAnswers(c, e) \/ EngineFails(c, e) PROVE Kept
  BY <1>0, <1>8 DEF EngineAnswers, EngineFails, CallType
<1> QED
  BY <1>1, <1>2, <1>3, <1>4, <1>5, <1>6, <1>7, <1>8 DEF Step

Sleeps(c) == call[c].pc = "sleep"

\* The booked times ahead follow each other without a gap: behind every one of
\* them there is a call of this answer that sleeps until then.
Chained ==
  \A n \in Nat : slot - n * Delay > 0 =>
    \E c \in Calls : Sleeps(c) /\ call[c].rest = slot - n * Delay

\* A call waits for nothing beyond the booked time, or for one delay.
Bounded == \A c \in Calls : call[c].rest <= IF Sleeps(c) THEN slot ELSE Delay

LEMMA ChainedStep ==
  ASSUME TypeOK, Chained, [Next]_vars PROVE Chained'
<1>0. /\ \A d \in Calls : call[d] \in CallType /\ call[d].rest \in Int
      /\ call \in [Calls -> CallType] /\ slot \in Int
      /\ Delay \in Nat \ {0} /\ \A n \in Nat : n * Delay \in Nat
  BY Limits DEF TypeOK, CallType
<1>1. ASSUME slot' = slot,
             \A d \in Calls : Sleeps(d) /\ call[d].rest > 0 =>
                                Sleeps(d)' /\ call'[d].rest = call[d].rest
      PROVE  Chained'
  BY <1>0, <1>1 DEF Chained
<1>2. ASSUME NEW c \in Calls, Book(c) PROVE Chained'
  <2>1. /\ slot' = (IF slot = -1 THEN 0 ELSE slot + Delay)
        /\ Sleeps(c)' /\ call'[c].rest = slot' /\ ~Sleeps(c)
        /\ \A d \in Calls : d # c => call'[d] = call[d]
    BY <1>0, <1>2, Limits DEF Book, Booked, CallType, Sleeps
  <2> SUFFICES ASSUME NEW n \in Nat, slot' - n * Delay > 0
               PROVE  \E d \in Calls : Sleeps(d)' /\ call'[d].rest = slot' - n * Delay
    BY DEF Chained
  <2>2. CASE n = 0
    BY <1>0, <2>1, <2>2
  <2>3. CASE n # 0
    <3>1. n - 1 \in Nat /\ (n - 1) * Delay = n * Delay - Delay
      BY <1>0, <2>3
    <3>2. slot' = slot + Delay /\ slot - (n - 1) * Delay = slot' - n * Delay
      BY <1>0, <2>1, <3>1
    <3>3. PICK d \in Calls : Sleeps(d) /\ call[d].rest = slot - (n - 1) * Delay
      BY <3>1, <3>2 DEF Chained
    <3>4. d # c /\ call'[d] = call[d]
      BY <2>1, <3>3
    <3> QED
      BY <3>2, <3>3, <3>4 DEF Sleeps
  <2> QED
    BY <2>2, <2>3
<1>3. CASE Tick
  <2>1. slot' = IF slot > -1 THEN slot - 1 ELSE slot
    BY <1>3, Limits DEF Tick, Less
  <2>2. \A d \in Calls : Sleeps(d) /\ call[d].rest > 0 =>
                           Sleeps(d)' /\ call'[d].rest = call[d].rest - 1
    BY <1>0, <1>3, Limits DEF Tick, Less, CallType, Sleeps
  <2> SUFFICES ASSUME NEW n \in Nat, slot' - n * Delay > 0
               PROVE  \E d \in Calls : Sleeps(d)' /\ call'[d].rest = slot' - n * Delay
    BY DEF Chained
  <2>3. slot' = slot - 1 /\ slot - n * Delay > 0
    BY <1>0, <2>1
  <2>4. PICK d \in Calls : Sleeps(d) /\ call[d].rest = slot - n * Delay
    BY <2>3 DEF Chained
  <2>5. Sleeps(d)' /\ call'[d].rest = slot' - n * Delay
    BY <1>0, <2>2, <2>3, <2>4
  <2> QED
    BY <2>5
<1>4. ASSUME NEW c \in Calls, Step(c), ~Book(c) PROVE Chained'
  BY <1>0, <1>1, <1>4, OtherSteps DEF Sleeps
<1>5. CASE AsksForTools \/ Answers
  BY <1>1, <1>5 DEF AsksForTools, Answers, Quiet, Sleeps
<1>6. CASE Start \/ UNCHANGED vars
  BY <1>1, <1>6 DEF Start, vars, Sleeps
<1> QED
  BY <1>2, <1>3, <1>4, <1>5, <1>6 DEF Next

LEMMA BoundedStep ==
  ASSUME TypeOK, Bounded, [Next]_vars PROVE Bounded'
<1>0. /\ \A d \in Calls : call[d] \in CallType /\ call[d].rest \in Int
      /\ call \in [Calls -> CallType] /\ slot \in Int /\ slot >= -1 /\ Delay \in Nat \ {0}
  BY Limits DEF TypeOK, CallType
<1>1. ASSUME NEW c \in Calls, Book(c) PROVE Bounded'
  <2>1. /\ slot' = (IF slot = -1 THEN 0 ELSE slot + Delay)
        /\ Sleeps(c)' /\ call'[c].rest = slot'
        /\ \A d \in Calls : d # c => call'[d] = call[d]
    BY <1>0, <1>1, Limits DEF Book, Booked, CallType, Sleeps
  <2>2. slot' \in Int /\ slot <= slot'
    BY <1>0, <2>1
  <2> QED
    BY <1>0, <2>1, <2>2 DEF Bounded, Sleeps
<1>2. CASE Tick
  <2>1. slot' = IF slot > -1 THEN slot - 1 ELSE slot
    BY <1>2, Limits DEF Tick, Less
  <2>2. \A d \in Calls :
          /\ call'[d].pc = call[d].pc
          /\ call'[d].rest = IF call[d].pc \in {"sleep", "wait"} /\ call[d].rest > -1
                             THEN call[d].rest - 1 ELSE call[d].rest
    BY <1>0, <1>2, Limits DEF Tick, Less, CallType
  <2> QED
    BY <1>0, <2>1, <2>2, Limits DEF Bounded, Sleeps, TypeOK, CallType
<1>3. ASSUME NEW c \in Calls, Step(c), ~Book(c) PROVE Bounded'
  <2>1. slot' = slot /\ \A d \in Calls : d # c => call'[d] = call[d]
    BY <1>3, OtherSteps
  <2>2. call'[c].rest <= IF Sleeps(c)' THEN slot ELSE Delay
    <3>1. CASE call'[c].rest = call[c].rest /\ ~Sleeps(c) /\ ~Sleeps(c)'
      BY <3>1 DEF Bounded
    <3>2. CASE call'[c].rest = -1
      BY <1>0, <3>2
    <3>3. CASE call'[c].rest \in 0..Delay /\ ~Sleeps(c)'
      BY <1>0, <3>3
    <3> QED
      BY <1>3, <3>1, <3>2, <3>3, OtherSteps DEF Sleeps
  <2> QED
    BY <2>1, <2>2 DEF Bounded, Sleeps
<1>4. CASE AsksForTools \/ Answers
  <2>1. NoCall.rest = 0 /\ \A q : [NoCall EXCEPT !.pc = First(mode), !.query = q].rest = 0
    BY DEF NoCall
  <2>2. \A d \in Calls : call'[d].rest = 0 /\ ~Sleeps(d)'
    <3>1. \A d \in Calls : \/ call'[d] = NoCall
                           \/ \E q : call'[d] = [NoCall EXCEPT !.pc = First(mode), !.query = q]
      BY <1>4 DEF AsksForTools, Answers
    <3> QED
      BY <1>4, <2>1, <3>1, FreshCalls DEF Sleeps
  <2> QED
    BY <1>0, <2>2 DEF Bounded
<1>5. CASE Start \/ UNCHANGED vars
  BY <1>5 DEF Start, vars, Bounded, Sleeps
<1> QED
  BY <1>1, <1>2, <1>3, <1>4, <1>5 DEF Next

\* Of the booked times ahead there are not more than calls in an answer: with
\* one more, two of them would be those of the same call.
LEMMA SlotIsNear ==
  ASSUME TypeOK, Chained PROVE slot <= Delay * Cardinality(Calls)
<1> DEFINE K == Cardinality(Calls)
<1>0. /\ IsFiniteSet(Calls) /\ K \in Nat /\ Delay \in Nat \ {0} /\ slot \in Int
      /\ \A n \in Nat : n * Delay \in Nat
  <2>1. IsFiniteSet(Calls) /\ K \in Nat
    BY SearchAssumption, FS_CardinalityType
  <2>2. Delay \in Nat \ {0} /\ slot \in Int
    BY Limits DEF TypeOK
  <2>3. \A n \in Nat : n * Delay \in Nat
    BY <2>2
  <2> QED
    BY <2>1, <2>2, <2>3
<1> HIDE DEF K
<1> SUFFICES ASSUME slot > Delay * K PROVE FALSE
  BY <1>0 DEF K
<1>1. \A n \in 0..K : slot - n * Delay > 0
  <2> SUFFICES ASSUME NEW n \in 0..K PROVE slot - n * Delay > 0
    OBVIOUS
  <2>1. n * Delay <= K * Delay
    BY <1>0
  <2> QED
    BY <1>0, <2>1
<1> DEFINE Owner == [n \in 0..K |->
                       CHOOSE c \in Calls : Sleeps(c) /\ call[c].rest = slot - n * Delay]
<1>2. \A n \in 0..K : Owner[n] \in Calls /\ call[Owner[n]].rest = slot - n * Delay
  <2> SUFFICES ASSUME NEW n \in 0..K
               PROVE  Owner[n] \in Calls /\ call[Owner[n]].rest = slot - n * Delay
    OBVIOUS
  <2>1. \E c \in Calls : Sleeps(c) /\ call[c].rest = slot - n * Delay
    BY <1>0, <1>1 DEF Chained
  <2> QED
    BY <2>1
<1>3. Owner \in [0..K -> Calls]
  BY <1>2
<1> HIDE DEF Owner
<1>4. IsFiniteSet(0..K) /\ Cardinality(0..K) = K + 1
  BY <1>0, FS_Interval
<1>5. PICK n \in 0..K, m \in 0..K : n # m /\ Owner[n] = Owner[m]
  <2>1. Cardinality(Calls) < Cardinality(0..K)
    BY <1>0, <1>4 DEF K
  <2> QED
    BY <1>0, <1>3, <1>4, <2>1, FS_PigeonHole
<1>6. slot - n * Delay = slot - m * Delay
  BY <1>2, <1>5
<1>7. n * Delay = m * Delay
  BY <1>0, <1>6
<1>8. n = m
  BY <1>0, <1>7
<1> QED
  BY <1>5, <1>8

\* No call is told to wait longer than a delay for every call of an answer.
WaitIsShort == \A c \in Calls : call[c].rest <= Delay * Cardinality(Calls)

\* However many answers ask for tools, however late the callers wake up and
\* also when bookings fail, the cooldown of the limiter never grows into a
\* backlog: a call waits at most a delay for each call of its own answer.
THEOREM WaitsAreShort == Spec => []WaitIsShort
<1> DEFINE Inv == TypeOK /\ Chained /\ Bounded
<1>1. Init => Inv
  <2> SUFFICES ASSUME Init PROVE Chained /\ Bounded
    BY TypeInit
  <2>1. slot = -1 /\ \A n \in Nat : n * Delay \in Nat
    BY Limits DEF Init
  <2>2. \A c \in Calls : call[c].rest = 0 /\ ~Sleeps(c)
    BY DEF Init, NoCall, Sleeps
  <2> QED
    BY <2>1, <2>2, Limits DEF Chained, Bounded
<1>2. Inv /\ [Next]_vars => Inv'
  BY TypeStep, ChainedStep, BoundedStep
<1>3. Inv => WaitIsShort
  <2> SUFFICES ASSUME Inv, NEW c \in Calls PROVE call[c].rest <= Delay * Cardinality(Calls)
    BY DEF WaitIsShort
  <2> DEFINE K == Cardinality(Calls)
  <2>1. K \in Nat /\ K # 0
    BY SearchAssumption, FS_CardinalityType, FS_EmptySet
  <2>2. slot <= Delay * K /\ slot \in Int /\ call[c].rest \in Int
    BY SlotIsNear DEF TypeOK, CallType
  <2>3. call[c].rest <= slot \/ call[c].rest <= Delay
    BY DEF Bounded
  <2> HIDE DEF K
  <2>4. Delay \in Nat /\ Delay <= Delay * K /\ Delay * K \in Nat
    BY <2>1, Limits
  <2>5. call[c].rest <= Delay * K
    BY <2>2, <2>3, <2>4
  <2> QED
    BY <2>5 DEF K
<1> QED
  BY <1>1, <1>2, <1>3, PTL DEF Spec
-----------------------------------------------------------------------------
(* How long an agent works.                                                *)

\* How far a call is from its end.
Rank(pc) ==
  CASE pc = "check" -> 7 [] pc = "book" -> 6 [] pc = "sleep" -> 5 [] pc = "wait" -> 4
    [] pc = "keys" -> 3 [] pc = "engines" -> 2 [] pc = "save" -> 1 [] OTHER -> 0

\* The places the calls have still to leave, and the requests to engines that may
\* still be made: all of them before the engines, then those not used up.
PlacesLeft == {p \in Calls \X (1..7) : p[2] <= Rank(call[p[1]].pc)}

MayTry(r, e, n) == Rank(r.pc) > 2 \/ (Rank(r.pc) = 2 /\ n <= r.open[e])

TriesLeft == {t \in Calls \X (Engines \X (1..MaxTries)) : MayTry(call[t[1]], t[2][1], t[2][2])}

LEMMA FinitelyManyLeft == IsFiniteSet(PlacesLeft) /\ IsFiniteSet(TriesLeft)
<1>1. IsFiniteSet(1..7) /\ IsFiniteSet(1..MaxTries)
  <2>1. \A b \in Int : IsFiniteSet(1..b)
    BY FS_Interval
  <2>2. 7 \in Int /\ MaxTries \in Int
    BY Limits
  <2> QED
    BY <2>1, <2>2
<1>2. IsFiniteSet(Calls \X (1..7)) /\ IsFiniteSet(Engines \X (1..MaxTries))
  BY <1>1, SearchAssumption, FS_Product
<1>3. IsFiniteSet(Calls \X (Engines \X (1..MaxTries)))
  BY <1>2, SearchAssumption, FS_Product
<1>4. /\ PlacesLeft \in SUBSET (Calls \X (1..7))
      /\ TriesLeft \in SUBSET (Calls \X (Engines \X (1..MaxTries)))
  BY DEF PlacesLeft, TriesLeft
<1> QED
  BY <1>2, <1>3, <1>4, FS_Subset

LEMMA Ranks ==
  /\ \A pc \in Places : Rank(pc) \in 0..7
  /\ Rank("check") = 7 /\ Rank("book") = 6 /\ Rank("sleep") = 5 /\ Rank("wait") = 4
  /\ Rank("keys") = 3 /\ Rank("engines") = 2 /\ Rank("save") = 1
  /\ Rank("over") = 0 /\ Rank("free") = 0
BY DEF Rank, Places

\* Something of both is gone, and nothing has come.
LeavesLess ==
  /\ PlacesLeft' \subseteq PlacesLeft /\ TriesLeft' \subseteq TriesLeft
  /\ PlacesLeft' # PlacesLeft \/ TriesLeft' # TriesLeft

\* A call that moves on moves towards its end.
LEMMA MovesOn ==
  ASSUME TypeOK, TypeOK', NEW c \in Calls, \A d \in Calls : d # c => call'[d] = call[d],
         Rank(call'[c].pc) < Rank(call[c].pc), Rank(call[c].pc) > 2 \/ Rank(call'[c].pc) < 2
  PROVE  LeavesLess
<1>1. \A d \in Calls : Rank(call[d].pc) \in 0..7 /\ Rank(call'[d].pc) \in 0..7
  BY Ranks DEF TypeOK, CallType
<1>2. \A d \in Calls : Rank(call'[d].pc) <= Rank(call[d].pc)
  BY <1>1
<1>3. PlacesLeft' \subseteq PlacesLeft
  BY <1>1, <1>2 DEF PlacesLeft
<1>4. TriesLeft' \subseteq TriesLeft
  <2> SUFFICES ASSUME NEW d \in Calls, NEW e \in Engines, NEW n \in 1..MaxTries,
                      MayTry(call'[d], e, n)
               PROVE  MayTry(call[d], e, n)
    BY DEF TriesLeft
  <2>1. CASE d # c
    BY <2>1
  <2>2. CASE d = c
    BY <1>1, <1>2, <2>2 DEF MayTry
  <2> QED
    BY <2>1, <2>2
<1>5. PlacesLeft' # PlacesLeft
  <2>1. Rank(call[c].pc) \in 1..7 /\ ~(Rank(call[c].pc) <= Rank(call'[c].pc))
    BY <1>1
  <2>2. <<c, Rank(call[c].pc)>> \in PlacesLeft
    BY <2>1 DEF PlacesLeft
  <2>3. <<c, Rank(call[c].pc)>> \notin PlacesLeft'
    BY <2>1 DEF PlacesLeft
  <2> QED
    BY <2>2, <2>3
<1> QED
  BY <1>3, <1>4, <1>5 DEF LeavesLess

\* An engine that has answered or failed has at least one request less before it.
LEMMA TriesOnce ==
  ASSUME TypeOK, NEW c \in Calls, NEW e \in Engines,
         \A d \in Calls : d # c => call'[d] = call[d],
         call[c].pc = "engines", call'[c].pc = "engines",
         call[c].open[e] \in 1..MaxTries, call'[c].open[e] \in 0..(call[c].open[e] - 1),
         \A f \in Engines : f # e => call'[c].open[f] = call[c].open[f]
  PROVE  LeavesLess
<1>1. \A d \in Calls : call'[d].pc = call[d].pc
  OBVIOUS
<1>2. PlacesLeft' = PlacesLeft
  BY <1>1 DEF PlacesLeft
<1>3. \A n : /\ MayTry(call[c], e, n) <=> n <= call[c].open[e]
             /\ MayTry(call'[c], e, n) <=> n <= call'[c].open[e]
  BY Ranks DEF MayTry
<1>4. call[c].open[e] \in 1..3 /\ call'[c].open[e] \in Int
      /\ call'[c].open[e] < call[c].open[e]
  BY Limits
<1>5. TriesLeft' \subseteq TriesLeft
  <2> SUFFICES ASSUME NEW d \in Calls, NEW f \in Engines, NEW n \in 1..MaxTries,
                      MayTry(call'[d], f, n)
               PROVE  MayTry(call[d], f, n)
    BY DEF TriesLeft
  <2>1. CASE d # c
    BY <2>1
  <2>2. CASE d = c /\ f # e
    BY <2>2 DEF MayTry
  <2>3. CASE d = c /\ f = e
    <3>1. n \in Int /\ n <= call'[c].open[e]
      BY <1>3, <2>3, Limits
    <3> QED
      BY <1>3, <1>4, <2>3, <3>1
  <2> QED
    BY <2>1, <2>2, <2>3
<1>6. TriesLeft' # TriesLeft
  <2> DEFINE t == <<c, <<e, call[c].open[e]>>>>
  <2>1. MayTry(call[c], e, call[c].open[e]) /\ ~MayTry(call'[c], e, call[c].open[e])
    BY <1>3, <1>4
  <2>2. t \in TriesLeft
    BY <2>1 DEF TriesLeft
  <2>3. t \notin TriesLeft'
    BY <2>1 DEF TriesLeft
  <2> QED
    BY <2>2, <2>3
<1> QED
  BY <1>2, <1>5, <1>6 DEF LeavesLess

LEMMA StepLeavesLess == ASSUME TypeOK, TypeOK', NEW c \in Calls, Step(c) PROVE LeavesLess
<1>0. /\ call[c] \in CallType /\ call \in [Calls -> CallType]
      /\ \A e \in Engines : call[c].open[e] \in 0..3
  BY Limits DEF TypeOK, CallType
<1>1. \A d \in Calls : d # c => call'[d] = call[d]
  BY <1>0 DEF Step, Check, Goes, Book, BookFails, Wake, Leave, Keys, EngineAnswers,
     EngineFails, Gather, Save
<1>2. CASE Check(c)
  <2>1. call[c].pc = "check" /\ call'[c].pc \in {"over", "keys"}
    BY <1>0, <1>2 DEF Check, Goes, CallType
  <2> QED
    BY <1>1, <2>1, MovesOn, Ranks
<1>3. CASE Book(c) \/ BookFails(c)
  <2>1. call[c].pc = "book" /\ call'[c].pc = "sleep"
    BY <1>0, <1>3 DEF Book, BookFails, CallType
  <2> QED
    BY <1>1, <2>1, MovesOn, Ranks
<1>4. CASE Wake(c)
  <2>1. call[c].pc = "sleep" /\ call'[c].pc = "wait"
    BY <1>0, <1>4 DEF Wake, CallType
  <2> QED
    BY <1>1, <2>1, MovesOn, Ranks
<1>5. CASE Leave(c)
  <2>1. call[c].pc = "wait" /\ call'[c].pc = "keys"
    BY <1>0, <1>5 DEF Leave, CallType
  <2> QED
    BY <1>1, <2>1, MovesOn, Ranks
<1>6. ASSUME NEW keyed \in SUBSET Engines, Keys(c, keyed) PROVE LeavesLess
  <2>1. call[c].pc = "keys" /\ call'[c].pc \in {"over", "engines"}
    BY <1>0, <1>6 DEF Keys, CallType
  <2> QED
    BY <1>1, <2>1, MovesOn, Ranks
<1>7. ASSUME NEW e \in Engines, EngineAnswers(c, e) \/ EngineFails(c, e) PROVE LeavesLess
  <2>1. /\ call[c].pc = "engines" /\ call'[c].pc = "engines" /\ call[c].open[e] \in 1..3
        /\ \A f \in Engines : f # e => call'[c].open[f] = call[c].open[f]
    BY <1>0, <1>7 DEF EngineAnswers, EngineFails, CallType
  <2>2. call'[c].open[e] = 0 \/ call'[c].open[e] = call[c].open[e] - 1
    BY <1>0, <1>7 DEF EngineAnswers, EngineFails, CallType
  <2>3. call[c].open[e] \in 1..MaxTries /\ call'[c].open[e] \in 0..(call[c].open[e] - 1)
    BY <2>1, <2>2, Limits
  <2> QED
    BY <1>1, <2>1, <2>3, TriesOnce
<1>8. CASE Gather(c)
  <2>1. call[c].pc = "engines" /\ call'[c].pc \in {"over", "save"}
    BY <1>0, <1>8 DEF Gather, CallType
  <2> QED
    BY <1>1, <2>1, MovesOn, Ranks
<1>9. CASE Save(c)
  <2>1. call[c].pc = "save" /\ call'[c].pc = "over"
    BY <1>0, <1>9 DEF Save, Goes, CallType
  <2> QED
    BY <1>1, <2>1, MovesOn, Ranks
<1> QED
  BY <1>2, <1>3, <1>4, <1>5, <1>6, <1>7, <1>8, <1>9 DEF Step

\* What a step of an agent's run may be: its end, one more of the answers the
\* limit allows, one of the things a call has left, or the clock.
AgentGoesOn ==
  mode # "none" =>
    \/ mode' = "none"
    \/ count' = count + 1 /\ count' <= MaxRounds + 1
    \/ count' = count /\ LeavesLess
    \/ UNCHANGED <<mode, count, PlacesLeft, TriesLeft>> /\ slot' <= slot

\* No agent works for ever, whatever the model asks for and whichever engines and
\* bookings fail: the answers are counted up to the limit, and between two of them
\* each step but the clock's leaves strictly less of two finite sets.
THEOREM AgentIsShort ==
  Spec => /\ [](IsFiniteSet(PlacesLeft) /\ IsFiniteSet(TriesLeft))
          /\ [][AgentGoesOn]_vars
<1>1. TypeOK /\ TypeOK' /\ [Next]_vars => [AgentGoesOn]_vars
  <2> SUFFICES ASSUME TypeOK, TypeOK', Next PROVE AgentGoesOn
    OBVIOUS
  <2>1. ASSUME NEW c \in Calls, Step(c) PROVE count' = count
    BY <2>1 DEF Step, Check, Book, BookFails, Wake, Leave, Keys, EngineAnswers, EngineFails,
       Gather, Save
  <2>2. CASE Tick
    <3>1. \A d \in Calls : call'[d].pc = call[d].pc /\ call'[d].open = call[d].open
      BY <2>2 DEF Tick, TypeOK, CallType
    <3>2. PlacesLeft' = PlacesLeft
      BY <3>1 DEF PlacesLeft
    <3>3. TriesLeft' = TriesLeft
      BY <3>1 DEF TriesLeft, MayTry
    <3>4. slot' <= slot
      BY <2>2 DEF Tick, Less, TypeOK
    <3> QED
      BY <2>2, <3>2, <3>3, <3>4 DEF Tick, AgentGoesOn
  <2>3. CASE AsksForTools
    <3>1. count' = count + 1 /\ count' \in 0..MaxSteps - 1
      BY <2>3 DEF AsksForTools, Counted, TypeOK
    <3> QED
      BY <3>1, Limits DEF AgentGoesOn
  <2> QED
    BY <2>1, <2>2, <2>3, StepLeavesLess DEF Next, Start, Answers, AgentGoesOn
<1> QED
  BY <1>1, TypeInit, TypeStep, FinitelyManyLeft, PTL DEF Spec

=============================================================================
