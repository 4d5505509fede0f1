--------------------------- MODULE FilterBatches ---------------------------
(***************************************************************************)
(* The relevance filter of a task, round after round: pages that pass the  *)
(* coarse filter are split by the verdicts cached so far, the others are   *)
(* judged in concurrent batches, each of which writes its verdicts back    *)
(* into the one cached list, and the pages kept are deduplicated, pruned   *)
(* and saved.                                                              *)
(* Code: backend/services/filter_service.py, pipeline/nodes/filter.py,     *)
(* pipeline/nodes/filter_utils.py, utils/retry.py.                         *)
(***************************************************************************)
EXTENDS Integers, Sequences, FiniteSets

CONSTANTS
  Pages,        \* bound: web pages a task may find
  BatchMin,     \* FILTER_BATCH_MIN
  BatchMax,     \* FILTER_BATCH_MAX
  Concurrency,  \* batch_concurrency
  Retries,      \* of one model call
  MaxRounds,    \* bound: rounds looked at
  Score,        \* relevance_score of a page
  Similar       \* pages whose vectors are closer than the threshold

Urls == 1..Pages       \* a page is its place in the list of results
Batches == 1..Pages    \* no round has more batches than pages

ASSUME FilterAssumption ==
  /\ Pages \in Nat
  /\ BatchMin \in Nat \ {0} /\ BatchMax \in Nat
  /\ Concurrency \in Nat \ {0}
  /\ Retries \in Nat
  /\ MaxRounds \in Nat
  /\ Score \in [Urls -> Nat]
  /\ Similar \in [Urls -> SUBSET Urls]
  /\ \A u, v \in Urls : u \in Similar[v] => v \in Similar[u]

VARIABLES
  phase,      \* of the round: idle, split, judging, passed, aborted
  level,      \* verification_level
  round,
  need,       \* _filter_candidates: pages to be judged
  hits,       \* _filter_cached: pages a cached verdict lets pass
  cache,      \* store "filter_cache": none, keep or drop
  final,      \* store "filtered"/"final"
  pc,         \* of a batch
  tries,      \* calls of the model a batch has left
  verdict,    \* what the answer of a batch says of a page
  mine,       \* the cache as a batch read it under the write lock
  before      \* history: the cache when the round began

round_ == <<phase, level, round, need, hits, final>>
vars == <<phase, level, round, need, hits, cache, final, pc, tries, verdict, mine,
          before>>

Marks == {"none", "keep", "drop"}
Unjudged == [u \in Urls |-> "none"]
Over == {"absent", "done", "failed"}
Working == {"asking", "judged", "writing"}

TypeOK ==
  /\ phase \in {"idle", "split", "judging", "passed", "aborted"}
  /\ level \in {"skip", "standard"}
  /\ round \in 0..MaxRounds
  /\ need \subseteq Urls /\ hits \subseteq Urls /\ final \subseteq Urls
  /\ cache \in [Urls -> Marks] /\ before \in [Urls -> Marks]
  /\ pc \in [Batches -> Over \cup Working \cup {"waiting"}]
  /\ tries \in [Batches -> 0..Retries]
  /\ verdict \in [Batches -> [Urls -> Marks]]
  /\ mine \in [Batches -> [Urls -> Marks]]

Init ==
  /\ phase = "idle"
  /\ level \in {"skip", "standard"}
  /\ round = 0
  /\ need = {} /\ hits = {} /\ final = {}
  /\ cache = Unjudged /\ before = Unjudged
  /\ pc = [b \in Batches |-> "absent"]
  /\ tries = [b \in Batches |-> 0]
  /\ verdict = [b \in Batches |-> Unjudged]
  /\ mine = [b \in Batches |-> Unjudged]

-----------------------------------------------------------------------------
(* The coarse filter and the split by the cache.                           *)

BeginRound ==
  /\ phase \in {"idle", "passed"} /\ round < MaxRounds
  /\ phase' = "split"
  /\ round' = round + 1
  /\ pc' = [b \in Batches |-> "absent"]
  /\ verdict' = [b \in Batches |-> Unjudged]
  /\ before' = cache
  /\ UNCHANGED <<level, cache, tries, mine>>

ToJudge(cands) == {u \in cands : cache[u] = "none"}
Cached(cands) == {u \in cands : cache[u] = "keep"}

CoarseFilter(cands) ==
  /\ BeginRound
  /\ need' = ToJudge(cands)
  /\ hits' = Cached(cands)
  /\ UNCHANGED final

\* The node returns early: the lists of the round before stay in the state.
NothingPassed ==
  /\ BeginRound
  /\ final' = {}
  /\ UNCHANGED <<need, hits>>

-----------------------------------------------------------------------------
(* The batches.                                                            *)

\* The list is sliced; how many pages a slice has depends on their length.
\* Nothing is judged when verification is skipped.
InBatch(u, b, size) ==
  level # "skip" /\ u \in need /\ Cardinality({v \in need : v < u}) \div size = b - 1

Cut(size) ==
  /\ phase = "split" /\ phase' = "judging"
  /\ pc' = [b \in Batches |->
              IF \E u \in Urls : InBatch(u, b, size) THEN "waiting" ELSE "absent"]
  /\ UNCHANGED <<level, round, need, hits, cache, final, tries, verdict, mine, before>>

\* The semaphore is held until the verdicts are written.
SlotFree == Cardinality({b \in Batches : pc[b] \in Working}) < Concurrency

Ask(b) ==
  /\ phase = "judging" /\ pc[b] = "waiting" /\ SlotFree
  /\ pc' = [pc EXCEPT ![b] = "asking"]
  /\ tries' = [tries EXCEPT ![b] = Retries]
  /\ UNCHANGED <<round_, cache, verdict, mine, before>>

\* Items carry their place in the whole list, so an answer may speak of any
\* page to be judged, not only of those of its batch, and need not speak of all.
Answers == {v \in [Urls -> Marks] : \A u \in Urls : u \notin need => v[u] = "none"}

Answer(b) ==
  /\ phase = "judging" /\ pc[b] = "asking"
  /\ \E v \in Answers :
       /\ verdict' = [verdict EXCEPT ![b] = v]
       /\ pc' = [pc EXCEPT ![b] = IF v = Unjudged THEN "done" ELSE "judged"]
  /\ tries' = [tries EXCEPT ![b] = 0]
  /\ UNCHANGED <<round_, cache, mine, before>>

\* The call or the parsing raises: one more try, then the batch is given up.
CallFails(b) ==
  /\ phase = "judging" /\ pc[b] = "asking"
  /\ IF tries[b] > 0
     THEN tries' = [tries EXCEPT ![b] = @ - 1] /\ pc' = pc
     ELSE pc' = [pc EXCEPT ![b] = "failed"] /\ tries' = tries
  /\ UNCHANGED <<round_, cache, verdict, mine, before>>

\* Fault: the cached list is read without the lock.
LockFreeForAll(b) == TRUE

LockFree(b) == \A c \in Batches : pc[c] # "writing"

\* Under the lock the cached list is read and written as a whole.
ReadCache(b) ==
  /\ phase = "judging" /\ pc[b] = "judged" /\ LockFree(b)
  /\ pc' = [pc EXCEPT ![b] = "writing"]
  /\ mine' = [mine EXCEPT ![b] = cache]
  /\ UNCHANGED <<round_, cache, tries, verdict, before>>

\* Fault: the first verdict on a page stays.
MergedOldFirst(old, new) == [u \in Urls |-> IF old[u] = "none" THEN new[u] ELSE old[u]]

Merged(old, new) == [u \in Urls |-> IF new[u] = "none" THEN old[u] ELSE new[u]]

WriteCache(b) ==
  /\ phase = "judging" /\ pc[b] = "writing"
  /\ cache' = Merged(mine[b], verdict[b])
  /\ pc' = [pc EXCEPT ![b] = "done"]
  /\ mine' = [mine EXCEPT ![b] = Unjudged]
  /\ UNCHANGED <<round_, tries, verdict, before>>

\* The store raises, with or without having written.
WriteFails(b) ==
  /\ phase = "judging" /\ pc[b] = "writing"
  /\ pc' = [pc EXCEPT ![b] = "failed"]
  /\ \/ cache' = Merged(mine[b], verdict[b]) /\ UNCHANGED verdict
     \/ verdict' = [verdict EXCEPT ![b] = Unjudged] /\ UNCHANGED cache
  /\ mine' = [mine EXCEPT ![b] = Unjudged]
  /\ UNCHANGED <<round_, tries, before>>

ReadFails(b) ==
  /\ phase = "judging" /\ pc[b] = "judged" /\ LockFree(b)
  /\ pc' = [pc EXCEPT ![b] = "failed"]
  /\ verdict' = [verdict EXCEPT ![b] = Unjudged]
  /\ UNCHANGED <<round_, cache, tries, mine, before>>

-----------------------------------------------------------------------------
(* The end of a round: merge, deduplicate, prune, save.                    *)

\* Batches that raised are not lists and are passed over.
Passed == {u \in need : \E b \in Batches : pc[b] = "done" /\ verdict[b][u] = "keep"}

Kept == hits \cup (IF level = "skip" THEN need ELSE Passed)

Orders(S) ==
  {s \in [1..Cardinality(S) -> S] : {s[i] : i \in DOMAIN s} = S}

\* Fault: a page that is like one before it replaces it, whatever it scores.
AbsorbAlways(list, u) ==
  LET twins == {i \in DOMAIN list : u \in Similar[list[i]]}
      first == CHOOSE i \in twins : \A j \in twins : i <= j
  IN IF twins = {} THEN Append(list, u) ELSE [list EXCEPT ![first] = u]

\* A page goes where the first page like it stands, if it scores more.
Absorb(list, u) ==
  LET twins == {i \in DOMAIN list : u \in Similar[list[i]]}
      first == CHOOSE i \in twins : \A j \in twins : i <= j
  IN IF twins = {} THEN Append(list, u)
     ELSE IF Score[u] > Score[list[first]] THEN [list EXCEPT ![first] = u] ELSE list

Deduplicated(s) ==
  LET upTo[i \in 0..Len(s)] == IF i = 0 THEN <<>> ELSE Absorb(upTo[i - 1], s[i])
      list == upTo[Len(s)]
  IN {list[i] : i \in DOMAIN list}

\* Pages are taken by score until the budget of characters is used up; the first always is.
Pruned(S) ==
  {P \in SUBSET S : P # {} /\ \A u \in P, v \in S \ P : Score[u] >= Score[v]}

AllOver == phase = "judging" /\ \A b \in Batches : pc[b] \in Over

EndRound ==
  /\ AllOver
  /\ \E s \in Orders(Kept), best \in SUBSET Kept :
       /\ best \in Pruned(IF level = "skip" THEN Kept ELSE Deduplicated(s))
       /\ final' = best
  /\ phase' = "passed"
  /\ UNCHANGED <<level, round, need, hits, cache, pc, tries, verdict, mine, before>>

\* Nothing was kept, or the embedding or the store raises: the run is aborted.
FilterFails ==
  /\ AllOver
  /\ phase' = "aborted"
  /\ UNCHANGED <<level, round, need, hits, final, cache, pc, tries, verdict,
                 mine, before>>

-----------------------------------------------------------------------------

BatchStep(b) ==
  \/ Ask(b)
  \/ Answer(b)
  \/ CallFails(b)
  \/ ReadCache(b)
  \/ ReadFails(b)
  \/ WriteCache(b)
  \/ WriteFails(b)

RoundStep ==
  \/ \E size \in BatchMin..BatchMax : Cut(size)
  \/ \E b \in Batches : BatchStep(b)
  \/ EndRound
  \/ FilterFails

Next ==
  \/ \E cands \in (SUBSET Urls) \ {{}} : CoarseFilter(cands)
  \/ NothingPassed
  \/ RoundStep

Spec == Init /\ [][Next]_vars

-----------------------------------------------------------------------------
(* Properties                                                              *)

\* The batches of a round, with their interleaved reads and writes of the one
\* cached list, act like one step that judges all pages at once: no verdict that
\* lets a page pass is lost to another batch's write or made up.
Round == INSTANCE FilterRound WITH
  phase <- CASE phase \in {"idle", "passed"} -> "between"
             [] phase \in {"split", "judging"} -> "split"
             [] OTHER -> "aborted",
  cache <- IF phase = "judging" THEN before ELSE cache
ActsAsOneStep == Round!Spec

Disputed(u) ==
  \E b, c \in Batches : {verdict[b][u], verdict[c][u]} = {"keep", "drop"}

\* On the pages the batches agree on, the cache decides as the round did: what was
\* kept passes again, and what it lets pass from now on was kept, unless a batch
\* failed after it had written.
CacheReplaysTheRound ==
  phase = "passed" /\ level # "skip" /\ (\A b \in Batches : pc[b] # "failed") =>
    \A u \in need \cup hits : ~Disputed(u) =>
      /\ u \in Kept => cache[u] = "keep"
      /\ cache[u] = "keep" /\ before[u] = "none" => u \in Kept

\* Deduplication and pruning, whatever the order of the pages, leave one that
\* scores as much as any page that was kept.
BestPageSurvives ==
  phase = "passed" => \E f \in final : \A u \in Kept : Score[u] <= Score[f]
=============================================================================
