----------------------------- MODULE SearchCalls -----------------------------
(***************************************************************************)
(* A search agent and the searches it asks for: the loop of model calls    *)
(* that its middleware limits, the tool calls of one answer running side   *)
(* by side, the booking of a time slot in Redis, the second look at the    *)
(* clock in the process, the engines asked with retries, and the store.    *)
(* Two agents share the code: the one of the fast modes ("agent") books    *)
(* slots, the one of the pipeline ("search_react") looks into the store    *)
(* first.  One agent of a session runs at a time.                          *)
(* Code: backend/pipeline/subgraphs/agent, .../search_react,               *)
(* backend/search, backend/utils/limiter.py and retry.py.                  *)
(*                                                                         *)
(* Time is kept as distances from now, so that no clock has to be bounded. *)
(***************************************************************************)
EXTENDS Integers, FiniteSets

CONSTANTS
  Calls,      \* places for tool calls of one answer
  Queries, Engines, Urls,
  Finds,      \* what an engine returns for a query
  Covers,     \* the queries a page's title and summary contain
  Retried,    \* engines whose search is retried (bocha, tavily)
  MaxRounds,  \* max_rounds
  MaxRuns,    \* bound: agents run one after the other in the session
  Delay,      \* rate_limit_delay of the "agent" mode, in ticks
  StorePage,  \* the items one asearch returns
  RedisFails  \* whether bookings may fail

ASSUME SearchAssumption ==
  /\ Finds \in [Engines -> [Queries -> SUBSET Urls]]
  /\ Covers \in [Urls -> SUBSET Queries]
  /\ Retried \subseteq Engines
  /\ {MaxRounds, MaxRuns, Delay, StorePage} \subseteq Nat \ {0}
  /\ Queries # {} /\ IsFiniteSet(Calls) /\ IsFiniteSet(Engines)

VARIABLES
  mode,       \* "agent", "search_react", or "none" between two runs
  runs,       \* agents started
  count,      \* _call_count of the middleware
  rounds,     \* history: answers of this agent that asked for tools, up to MaxRounds + 2
  call,       \* the tool calls of the last answer
  slot,       \* the booked time in Redis minus now; Past when it is over
  sinceEnd,   \* time since _last_call_time, up to Delay
  stored      \* the pages saved under a query

vars == <<mode, runs, count, rounds, call, slot, sinceEnd, stored>>

Past == -1
MaxSteps == MaxRounds + 2
MaxTries == 3

NoCall == [pc |-> "free", query |-> CHOOSE q \in Queries : TRUE, rest |-> 0,
           open |-> [e \in Engines |-> 0], found |-> {}, told |-> {}]

Places == {"free", "check", "book", "sleep", "wait", "keys", "engines", "save", "over"}
CallType ==
  [pc : Places, query : Queries, rest : {n \in Int : n >= Past},
   open : [Engines -> 0..MaxTries], found : SUBSET Engines, told : SUBSET Urls]

Quiet == \A c \in Calls : call[c].pc \in {"free", "over"}

-----------------------------------------------------------------------------
(* The agent.                                                              *)

Start ==
  /\ mode = "none" /\ runs < MaxRuns
  /\ mode' \in {"agent", "search_react"}
  /\ runs' = runs + 1
  /\ count' = 0 /\ rounds' = 0
  /\ UNCHANGED <<call, slot, sinceEnd, stored>>

\* Mutant: one more answer with tools.
LastStepLater(n) == n >= MaxSteps

\* The middleware takes the tools away for the last call of the model.
LastStep(n) == n >= MaxSteps - 1

\* Mutant: the call counter stands still.
CountedNever(n) == n

Counted(n) == n + 1

First(m) == IF m = "agent" THEN "book" ELSE "check"

\* The model answers with tool calls; the agent's answer_directly is one that
\* searches nothing.
AsksForTools ==
  /\ mode # "none" /\ Quiet /\ ~LastStep(count)
  /\ \E used \in SUBSET Calls : \E q \in [used -> Queries] :
       /\ used # {} \/ mode = "agent"
       /\ call' = [c \in Calls |->
            IF c \in used THEN [NoCall EXCEPT !.pc = First(mode), !.query = q[c]] ELSE NoCall]
  /\ count' = Counted(count)
  /\ rounds' = IF rounds > MaxRounds + 1 THEN rounds ELSE rounds + 1
  /\ UNCHANGED <<mode, runs, slot, sinceEnd, stored>>

\* It answers without: the agent is finished.
Answers ==
  /\ mode # "none" /\ Quiet
  /\ mode' = "none"
  /\ call' = [c \in Calls |-> NoCall]
  /\ count' = 0 /\ rounds' = 0
  /\ UNCHANGED <<runs, slot, sinceEnd, stored>>

Goes(c, pc) == call' = [call EXCEPT ![c].pc = pc]

-----------------------------------------------------------------------------
(* The pipeline's tool looks for the query in what the session has found;  *)
(* a failing look is ignored.  (The budget behind it counts a field no     *)
(* stored page has, so it never refuses.)                                  *)

Saved == {q \in Queries : stored[q] # {}}

Loaded == {qs \in SUBSET Saved :
             IF Cardinality(Saved) <= StorePage THEN qs = Saved
             ELSE Cardinality(qs) = StorePage}

CoveredBy(q, qs) == \E k \in qs : \E u \in stored[k] : q \in Covers[u]

Check(c) ==
  /\ call[c].pc = "check"
  /\ \/ \E qs \in Loaded : Goes(c, IF CoveredBy(call[c].query, qs) THEN "over" ELSE "keys")
     \/ Goes(c, "keys")
  /\ UNCHANGED <<mode, runs, count, rounds, slot, sinceEnd, stored>>

-----------------------------------------------------------------------------
(* The two brakes of the agent's searches.                                 *)

\* Mutant: a booked time ahead is given out once more.
BookedNothing == IF slot = Past THEN 0 ELSE slot

\* LUA_COOLDOWN_BOOKING: a booked time that is over lets the call go at once.
Booked == IF slot = Past THEN 0 ELSE slot + Delay

Book(c) ==
  /\ call[c].pc = "book"
  /\ slot' = Booked
  /\ call' = [call EXCEPT ![c].pc = "sleep", ![c].rest = Booked]
  /\ UNCHANGED <<mode, runs, count, rounds, sinceEnd, stored>>

\* Redis fails: no delay.
BookFails(c) ==
  /\ RedisFails
  /\ call[c].pc = "book"
  /\ call' = [call EXCEPT ![c].pc = "sleep", ![c].rest = Past]
  /\ UNCHANGED <<mode, runs, count, rounds, slot, sinceEnd, stored>>

\* Behind the booked time the process looks when its last search ended.
Wake(c) ==
  /\ call[c].pc = "sleep" /\ call[c].rest <= 0
  /\ call' = [call EXCEPT ![c].pc = "wait", ![c].rest = Delay - sinceEnd]
  /\ UNCHANGED <<mode, runs, count, rounds, slot, sinceEnd, stored>>

Leave(c) ==
  /\ call[c].pc = "wait" /\ call[c].rest <= 0
  /\ call' = [call EXCEPT ![c].pc = "keys", ![c].rest = 0]
  /\ UNCHANGED <<mode, runs, count, rounds, slot, sinceEnd, stored>>

Less(n, low) == IF n > low THEN n - 1 ELSE n
More(n) == IF n < Delay THEN n + 1 ELSE n

Tick ==
  /\ slot' = Less(slot, Past)
  /\ sinceEnd' = More(sinceEnd)
  /\ call' = [c \in Calls |-> [call[c] EXCEPT
                !.rest = IF call[c].pc \in {"sleep", "wait"} THEN Less(@, Past) ELSE @]]
  /\ UNCHANGED <<mode, runs, count, rounds, stored>>

-----------------------------------------------------------------------------
(* The engines.                                                            *)

\* Engines without a key are left out; with none left there is no result, and
\* the end of the search is not noted.
Keys(c, keyed) ==
  /\ call[c].pc = "keys"
  /\ call' = [call EXCEPT ![c].pc = IF keyed = {} THEN "over" ELSE "engines",
                          ![c].open = [e \in Engines |-> IF e \notin keyed THEN 0
                                                         ELSE IF e \in Retried THEN MaxTries ELSE 1]]
  /\ UNCHANGED <<mode, runs, count, rounds, slot, sinceEnd, stored>>

EngineAnswers(c, e) ==
  /\ call[c].pc = "engines" /\ call[c].open[e] > 0
  /\ call' = [call EXCEPT ![c].open[e] = 0, ![c].found = @ \cup {e}]
  /\ UNCHANGED <<mode, runs, count, rounds, slot, sinceEnd, stored>>

\* The last failure is an exception among the results, or an empty list.
EngineFails(c, e) ==
  /\ call[c].pc = "engines" /\ call[c].open[e] > 0
  /\ call' = [call EXCEPT ![c].open[e] = @ - 1]
  /\ UNCHANGED <<mode, runs, count, rounds, slot, sinceEnd, stored>>

Pages(c) == UNION {Finds[e][call[c].query] : e \in call[c].found}

\* Mutant: one exception spoils the whole gathering.
ResultAllOrNone(c) == IF call[c].found = Engines THEN Pages(c) ELSE {}

\* The lists that came, without double addresses.
Result(c) == Pages(c)

Gather(c) ==
  /\ call[c].pc = "engines" /\ \A e \in Engines : call[c].open[e] = 0
  /\ call' = [call EXCEPT ![c].pc = IF Result(c) = {} THEN "over" ELSE "save",
                          ![c].told = Result(c)]
  /\ sinceEnd' = 0
  /\ UNCHANGED <<mode, runs, count, rounds, slot, stored>>

\* Saved under the query, over what was there; a failure is only logged.
Save(c) ==
  /\ call[c].pc = "save"
  /\ Goes(c, "over")
  /\ stored' \in {stored, [stored EXCEPT ![call[c].query] = call[c].told]}
  /\ UNCHANGED <<mode, runs, count, rounds, slot, sinceEnd>>

-----------------------------------------------------------------------------
Init ==
  /\ mode = "none" /\ runs = 0 /\ count = 0 /\ rounds = 0
  /\ call = [c \in Calls |-> NoCall]
  /\ slot = Past /\ sinceEnd = Delay
  /\ stored = [q \in Queries |-> {}]

Step(c) ==
  \/ Check(c) \/ Book(c) \/ BookFails(c) \/ Wake(c) \/ Leave(c)
  \/ \E keyed \in SUBSET Engines : Keys(c, keyed)
  \/ \E e \in Engines : EngineAnswers(c, e) \/ EngineFails(c, e)
  \/ Gather(c) \/ Save(c)

Next == Start \/ AsksForTools \/ Answers \/ Tick \/ \E c \in Calls : Step(c)

Spec == Init /\ [][Next]_vars

\* The model answers, tools and timers go on.
FairSpec ==
  /\ Spec
  /\ WF_vars(AsksForTools \/ Answers) /\ WF_vars(Tick)
  /\ \A c \in Calls : WF_vars(Step(c))

-----------------------------------------------------------------------------
(* Properties.                                                             *)

TypeOK ==
  /\ mode \in {"none", "agent", "search_react"}
  /\ runs \in 0..MaxRuns /\ count \in 0..MaxSteps - 1 /\ rounds \in 0..MaxRounds + 2
  /\ call \in [Calls -> CallType]
  /\ slot \in Int /\ slot >= Past
  /\ sinceEnd \in 0..Delay
  /\ stored \in [Queries -> SUBSET Urls]

\* An agent asks for tools in at most max_rounds + 1 answers.
RoundsAreBounded == rounds <= MaxRounds + 1

Waits(c) == call[c].pc = "sleep" /\ call[c].rest >= 0

\* Two calls that wait for a booked time wait for times a delay apart.
WaitersAreSpaced ==
  \A c, d \in Calls :
    c # d /\ Waits(c) /\ Waits(d) /\ call[d].rest >= call[c].rest =>
      call[d].rest >= call[c].rest + Delay

\* What one engine found reaches the model although another one failed.
FailureIsContained ==
  \A c \in Calls : call[c].pc \in {"save", "over"} /\ call[c].found # {} =>
    \A e \in call[c].found : Finds[e][call[c].query] \subseteq call[c].told

\* Every agent comes to its answer, whatever the model asks for, however long
\* its searches have to wait and whichever engines fail.
AgentEnds == mode # "none" ~> mode = "none"
=============================================================================
