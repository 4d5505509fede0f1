------------------------ MODULE FilterBatchesProofs ------------------------
(***************************************************************************)
(* Theorems about the batches of the relevance filter: types, that a round *)
(* acts like one step, and that its cache decides as it did.               *)
(***************************************************************************)
EXTENDS FilterBatches, FiniteSetTheorems, WellFoundedInduction, TLAPS

-----------------------------------------------------------------------------
(* The inductive invariant.                                                *)

\* A batch has verdicts from its answer on, about pages to be judged.
AnswersAreAboutNeed ==
  \A b \in Batches, u \in Urls :
    verdict[b][u] # "none" =>
      u \in need /\ pc[b] \in {"judged", "writing", "done", "failed"}

\* The write lock: one writer, who has read the cache as it is.
OneWriter ==
  /\ \A b, c \in Batches : pc[b] = "writing" /\ pc[c] = "writing" => b = c
  /\ \A b \in Batches : pc[b] = "writing" => mine[b] = cache

\* The batches that are over have said something about the page.
Settled(u) == \E b \in Batches : pc[b] \in Over /\ verdict[b][u] # "none"

\* The cache is what it was before, but for the pages of which a batch that is
\* over has spoken: of those it has what one of these batches said.
CacheFollowsVerdicts ==
  \A u \in Urls :
    IF Settled(u) THEN \E b \in Batches : pc[b] \in Over /\ verdict[b][u] = cache[u]
                                          /\ cache[u] # "none"
    ELSE cache[u] = before[u]

\* Pages that pass by the cache are in it, and are not judged again.
HitsAreCached == \A u \in hits : u \notin need /\ cache[u] = "keep"

BatchInv ==
  /\ TypeOK
  /\ AnswersAreAboutNeed
  /\ OneWriter
  /\ CacheFollowsVerdicts
  /\ HitsAreCached
  /\ phase \in {"idle", "split"} => cache = before /\ \A b \in Batches : pc[b] = "absent"

-----------------------------------------------------------------------------

LEMMA BatchInit == Init => BatchInv
BY FilterAssumption
   DEF Init, BatchInv, TypeOK, AnswersAreAboutNeed, OneWriter, CacheFollowsVerdicts,
       Settled, HitsAreCached, Unjudged, Marks, Over, Working

\* A batch that asks, or gives up before it has an answer, changes no verdict.
LEMMA AskKeeps ==
  ASSUME BatchInv, NEW b \in Batches, Ask(b) \/ CallFails(b) PROVE BatchInv'
<1>1. /\ UNCHANGED <<round_, cache, verdict, mine, before>>
      /\ \E p \in {"asking", "failed"} : pc' = [pc EXCEPT ![b] = p]
      /\ pc[b] \in {"waiting", "asking"}
      /\ tries' \in [Batches -> 0..Retries]
  BY FilterAssumption DEF BatchInv, TypeOK, Ask, CallFails, Over, Working
<1>2. TypeOK'
  BY <1>1 DEF BatchInv, TypeOK, round_, Over, Working
<1>3. AnswersAreAboutNeed'
  BY <1>1 DEF BatchInv, AnswersAreAboutNeed, TypeOK, round_
<1>4. OneWriter'
  BY <1>1 DEF BatchInv, OneWriter, TypeOK
<1>5. \A u \in Urls : verdict[b][u] = "none"
  BY <1>1 DEF BatchInv, AnswersAreAboutNeed
<1>6. CacheFollowsVerdicts'
  BY <1>1, <1>5 DEF BatchInv, CacheFollowsVerdicts, Settled, TypeOK, Over
<1> QED
  BY <1>1, <1>2, <1>3, <1>4, <1>6 DEF BatchInv, HitsAreCached, round_

LEMMA AnswerKeeps == ASSUME BatchInv, NEW b \in Batches, Answer(b) PROVE BatchInv'
<1>1. PICK v \in Answers :
        /\ verdict' = [verdict EXCEPT ![b] = v]
        /\ pc' = [pc EXCEPT ![b] = IF v = Unjudged THEN "done" ELSE "judged"]
  BY DEF Answer
<1>2. /\ UNCHANGED <<round_, cache, mine, before>>
      /\ pc[b] = "asking"
      /\ tries' \in [Batches -> 0..Retries]
  BY FilterAssumption DEF BatchInv, TypeOK, Answer
<1>3. v \in [Urls -> Marks] /\ \A u \in Urls : v[u] # "none" => u \in need
  BY DEF Answers
<1>4. TypeOK'
  BY <1>1, <1>2, <1>3 DEF BatchInv, TypeOK, round_, Over, Working
<1>5. AnswersAreAboutNeed'
  BY <1>1, <1>2, <1>3 DEF BatchInv, AnswersAreAboutNeed, TypeOK, round_, Unjudged
<1>6. OneWriter'
  BY <1>1, <1>2 DEF BatchInv, OneWriter, TypeOK
<1>7. \A u \in Urls : v = Unjudged => v[u] = "none"
  BY DEF Unjudged
<1>8. \A c \in Batches, u \in Urls :
        pc'[c] \in Over /\ verdict'[c][u] # "none" <=>
          pc[c] \in Over /\ verdict[c][u] # "none"
  BY <1>1, <1>2, <1>7 DEF BatchInv, TypeOK, Over
<1>9. \A c \in Batches : pc[c] \in Over => pc'[c] \in Over /\ verdict'[c] = verdict[c]
  BY <1>1, <1>2 DEF BatchInv, TypeOK, Over
<1>10. CacheFollowsVerdicts'
  BY <1>2, <1>8, <1>9 DEF BatchInv, CacheFollowsVerdicts, Settled
<1> QED
  BY <1>2, <1>4, <1>5, <1>6, <1>10 DEF BatchInv, HitsAreCached, round_

LEMMA ReadKeeps == ASSUME BatchInv, NEW b \in Batches, ReadCache(b) PROVE BatchInv'
<1>1. /\ UNCHANGED <<round_, cache, tries, verdict, before>>
      /\ pc[b] = "judged" /\ pc' = [pc EXCEPT ![b] = "writing"]
      /\ mine' = [mine EXCEPT ![b] = cache]
      /\ \A c \in Batches : pc[c] # "writing"
  BY DEF ReadCache, LockFree
<1>2. TypeOK'
  BY <1>1 DEF BatchInv, TypeOK, round_, Over, Working
<1>3. AnswersAreAboutNeed'
  BY <1>1 DEF BatchInv, AnswersAreAboutNeed, TypeOK, round_
<1>4. OneWriter'
  BY <1>1 DEF BatchInv, OneWriter, TypeOK
<1>5. CacheFollowsVerdicts'
  BY <1>1 DEF BatchInv, CacheFollowsVerdicts, Settled, TypeOK, Over
<1> QED
  BY <1>1, <1>2, <1>3, <1>4, <1>5 DEF BatchInv, HitsAreCached, round_

\* A write that has taken effect, whether or not the store then raised.
LEMMA WrittenKeeps ==
  ASSUME BatchInv, NEW b \in Batches, phase = "judging", pc[b] = "writing",
         NEW end \in {"done", "failed"}, pc' = [pc EXCEPT ![b] = end],
         cache' = Merged(mine[b], verdict[b]), mine' = [mine EXCEPT ![b] = Unjudged],
         UNCHANGED <<round_, tries, verdict, before>>
  PROVE  BatchInv'
<1>1. mine[b] = cache
  BY DEF BatchInv, OneWriter
<1>2. \A u \in Urls : cache'[u] = IF verdict[b][u] = "none" THEN cache[u] ELSE verdict[b][u]
  BY <1>1 DEF Merged
<1>3. TypeOK'
  <2>1. cache' \in [Urls -> Marks]
    BY <1>1 DEF Merged, BatchInv, TypeOK
  <2>2. mine' \in [Batches -> [Urls -> Marks]]
    BY DEF BatchInv, TypeOK, Unjudged, Marks
  <2> QED
    BY <2>1, <2>2 DEF BatchInv, TypeOK, round_, Over
<1>4. AnswersAreAboutNeed'
  BY DEF BatchInv, AnswersAreAboutNeed, TypeOK, round_
<1>5. OneWriter'
  BY DEF BatchInv, OneWriter, TypeOK
<1>6. CacheFollowsVerdicts'
  <2> SUFFICES ASSUME NEW u \in Urls
               PROVE  IF Settled(u)'
                      THEN \E c \in Batches : pc'[c] \in Over /\ verdict'[c][u] = cache'[u]
                                              /\ cache'[u] # "none"
                      ELSE cache'[u] = before'[u]
    BY DEF CacheFollowsVerdicts
  <2>1. CASE verdict[b][u] # "none"
    BY <1>2, <2>1 DEF BatchInv, TypeOK, Over, Settled
  <2>2. CASE verdict[b][u] = "none"
    <3>1. \A c \in Batches : pc[c] \in Over => pc'[c] \in Over
      BY DEF BatchInv, TypeOK, Over
    <3>2. \A c \in Batches : pc'[c] \in Over => c = b \/ pc[c] \in Over
      BY DEF BatchInv, TypeOK
    <3>3. cache'[u] = cache[u]
      BY <1>2, <2>2
    <3> QED
      BY <2>2, <3>1, <3>2, <3>3 DEF BatchInv, CacheFollowsVerdicts, Settled
  <2> QED
    BY <2>1, <2>2
<1>7. HitsAreCached'
  BY <1>2 DEF BatchInv, HitsAreCached, AnswersAreAboutNeed, TypeOK, round_
<1> QED
  BY <1>3, <1>4, <1>5, <1>6, <1>7 DEF BatchInv, round_

\* A batch that ends without a write leaves no trace.
LEMMA UnwrittenKeeps ==
  ASSUME BatchInv, NEW b \in Batches, phase = "judging", pc[b] \in {"judged", "writing"},
         pc' = [pc EXCEPT ![b] = "failed"],
         verdict' = [verdict EXCEPT ![b] = Unjudged],
         mine' = mine \/ mine' = [mine EXCEPT ![b] = Unjudged],
         UNCHANGED <<round_, cache, tries, before>>
  PROVE  BatchInv'
<1>1. TypeOK'
  BY DEF BatchInv, TypeOK, round_, Over, Working, Unjudged, Marks
<1>2. \A u \in Urls : verdict'[b][u] = "none"
  BY DEF BatchInv, TypeOK, Unjudged
<1>3. \A c \in Batches : c # b => verdict'[c] = verdict[c] /\ pc'[c] = pc[c] /\ mine'[c] = mine[c]
  BY DEF BatchInv, TypeOK
<1>4. AnswersAreAboutNeed'
  BY <1>2, <1>3 DEF BatchInv, AnswersAreAboutNeed, round_
<1>5. OneWriter'
  BY <1>3 DEF BatchInv, OneWriter, TypeOK
<1>6. CacheFollowsVerdicts'
  <2>1. \A u \in Urls, c \in Batches :
          pc'[c] \in Over /\ verdict'[c][u] # "none" <=> pc[c] \in Over /\ verdict[c][u] # "none"
    BY <1>2, <1>3 DEF Over
  <2>2. \A c \in Batches : pc[c] \in Over => c # b
    BY DEF Over
  <2> QED
    BY <1>3, <2>1, <2>2 DEF BatchInv, CacheFollowsVerdicts, Settled
<1> QED
  BY <1>1, <1>4, <1>5, <1>6 DEF BatchInv, HitsAreCached, round_

LEMMA BeginKeeps ==
  ASSUME BatchInv, (\E cands \in (SUBSET Urls) \ {{}} : CoarseFilter(cands)) \/ NothingPassed
  PROVE  BatchInv'
<1>1. /\ round < MaxRounds /\ round' = round + 1 /\ phase' = "split"
      /\ pc' = [b \in Batches |-> "absent"]
      /\ verdict' = [b \in Batches |-> Unjudged]
      /\ before' = cache
      /\ UNCHANGED <<level, cache, tries, mine>>
      /\ final' \subseteq Urls /\ need' \subseteq Urls /\ hits' \subseteq Urls
  BY DEF CoarseFilter, NothingPassed, BeginRound, ToJudge, Cached, BatchInv, TypeOK
<1>2. TypeOK'
  BY <1>1, FilterAssumption DEF BatchInv, TypeOK, Over, Unjudged, Marks
<1>3. HitsAreCached'
  BY <1>1 DEF CoarseFilter, NothingPassed, ToJudge, Cached, BatchInv, HitsAreCached
<1>4. AnswersAreAboutNeed' /\ OneWriter' /\ CacheFollowsVerdicts'
  BY <1>1 DEF AnswersAreAboutNeed, OneWriter, CacheFollowsVerdicts, Settled, Unjudged
<1> QED
  BY <1>1, <1>2, <1>3, <1>4 DEF BatchInv

LEMMA CutKeeps ==
  ASSUME BatchInv, NEW size \in BatchMin..BatchMax, Cut(size) PROVE BatchInv'
<1>1. /\ phase' = "judging" /\ cache = before
      /\ \A b \in Batches : pc[b] = "absent" /\ pc'[b] \in {"waiting", "absent"}
      /\ pc' \in [Batches -> {"waiting", "absent"}]
      /\ UNCHANGED <<level, round, need, hits, cache, final, tries, verdict, mine, before>>
  BY DEF Cut, BatchInv
<1>2. TypeOK'
  BY <1>1 DEF BatchInv, TypeOK, Over, Working
<1>3. \A b \in Batches, u \in Urls : verdict[b][u] = "none"
  BY <1>1 DEF BatchInv, AnswersAreAboutNeed
<1>4. AnswersAreAboutNeed' /\ OneWriter' /\ CacheFollowsVerdicts'
  BY <1>1, <1>3 DEF AnswersAreAboutNeed, OneWriter, CacheFollowsVerdicts, Settled
<1> QED
  BY <1>1, <1>2, <1>4 DEF BatchInv, HitsAreCached

LEMMA EndKeeps == ASSUME BatchInv, EndRound \/ FilterFails PROVE BatchInv'
<1>1. /\ phase' \in {"passed", "aborted"} /\ final' \subseteq Urls
      /\ UNCHANGED <<level, round, need, hits, cache, pc, tries, verdict, mine, before>>
  BY DEF EndRound, FilterFails, Kept, Passed, BatchInv, TypeOK
<1>2. TypeOK'
  BY <1>1 DEF BatchInv, TypeOK
<1> QED
  BY <1>1, <1>2
     DEF BatchInv, AnswersAreAboutNeed, OneWriter, CacheFollowsVerdicts, Settled, HitsAreCached

LEMMA BatchInvStep == BatchInv /\ [Next]_vars => BatchInv'
<1> SUFFICES ASSUME BatchInv, [Next]_vars PROVE BatchInv'
  OBVIOUS
<1>1. CASE (\E cands \in (SUBSET Urls) \ {{}} : CoarseFilter(cands)) \/ NothingPassed
  BY <1>1, BeginKeeps
<1>2. CASE \E size \in BatchMin..BatchMax : Cut(size)
  BY <1>2, CutKeeps
<1>3. CASE EndRound \/ FilterFails
  BY <1>3, EndKeeps
<1>4. ASSUME NEW b \in Batches, BatchStep(b) PROVE BatchInv'
  <2>1. CASE Ask(b) \/ CallFails(b)
    BY <2>1, AskKeeps
  <2>2. CASE Answer(b)
    BY <2>2, AnswerKeeps
  <2>3. CASE ReadCache(b)
    BY <2>3, ReadKeeps
  <2>4. CASE WriteCache(b)
    BY <2>4, WrittenKeeps DEF WriteCache
  <2>5. CASE ReadFails(b)
    BY <2>5, UnwrittenKeeps DEF ReadFails
  <2>6. CASE WriteFails(b)
    BY <2>6, WrittenKeeps, UnwrittenKeeps DEF WriteFails
  <2> QED
    BY <1>4, <2>1, <2>2, <2>3, <2>4, <2>5, <2>6 DEF BatchStep
<1>5. CASE UNCHANGED vars
  BY <1>5 DEF vars, BatchInv, TypeOK, AnswersAreAboutNeed, OneWriter, CacheFollowsVerdicts,
             Settled, HitsAreCached
<1> QED
  BY <1>1, <1>2, <1>3, <1>4, <1>5 DEF Next, RoundStep

LEMMA BatchAlways == Spec => []BatchInv
BY BatchInit, BatchInvStep, PTL DEF Spec

-----------------------------------------------------------------------------
(* Theorems.                                                               *)

\* Type correctness of the filter, for any number of pages, batch sizes, slots,
\* retries and rounds.
THEOREM TypeCorrect == Spec => []TypeOK
<1>1. BatchInv => TypeOK
  BY DEF BatchInv
<1> QED
  BY <1>1, BatchAlways, PTL

\* The cached list decides the next time as the batches of a round did, where
\* they agree: process_llm_eval keeps and caches the same verdicts.
THEOREM CacheReplays == Spec => []CacheReplaysTheRound
<1>1. ASSUME BatchInv PROVE CacheReplaysTheRound
  <2> SUFFICES ASSUME phase = "passed", level # "skip",
                      \A b \in Batches : pc[b] # "failed",
                      NEW u \in need \cup hits, ~Disputed(u)
               PROVE  /\ u \in Kept => cache[u] = "keep"
                      /\ cache[u] = "keep" /\ before[u] = "none" => u \in Kept
    BY DEF CacheReplaysTheRound
  <2>1. u \in Urls /\ cache[u] \in Marks /\ \A b \in Batches : verdict[b][u] \in Marks
    BY <1>1 DEF BatchInv, TypeOK
  <2>2. ASSUME u \in Kept PROVE cache[u] = "keep"
    <3>1. CASE u \in hits
      BY <1>1, <3>1 DEF BatchInv, HitsAreCached
    <3>2. CASE u \in Passed
      <4>1. PICK b \in Batches : pc[b] = "done" /\ verdict[b][u] = "keep"
        BY <3>2 DEF Passed
      <4>2. PICK c \in Batches : verdict[c][u] = cache[u] /\ cache[u] # "none"
        BY <1>1, <2>1, <4>1 DEF BatchInv, CacheFollowsVerdicts, Settled, Over
      <4> QED
        BY <2>1, <4>1, <4>2 DEF Disputed, Marks
    <3> QED
      BY <2>2, <3>1, <3>2 DEF Kept
  <2>3. ASSUME cache[u] = "keep", before[u] = "none" PROVE u \in Kept
    <3>1. PICK b \in Batches : pc[b] \in Over /\ verdict[b][u] = "keep"
      BY <1>1, <2>1, <2>3 DEF BatchInv, CacheFollowsVerdicts
    <3>2. u \in need /\ pc[b] = "done"
      BY <1>1, <2>1, <3>1 DEF BatchInv, AnswersAreAboutNeed, Over
    <3> QED
      BY <3>1, <3>2 DEF Kept, Passed
  <2> QED
    BY <2>2, <2>3
<1> QED
  BY <1>1, BatchAlways, PTL

\* All opinions the batches leave on a page.
Opinions == [u \in Urls |-> {verdict[b][u] : b \in Batches} \ {"none"}]

LEMMA EndIsJudge == ASSUME BatchInv, EndRound \/ FilterFails PROVE Round!Judge
<1>1. /\ phase = "judging" /\ phase' \in {"passed", "aborted"}
      /\ \A b \in Batches : pc[b] \in Over
      /\ UNCHANGED <<level, need, hits, cache, pc, verdict, before>>
  BY DEF EndRound, FilterFails, AllOver
<1>2. Opinions \in [Urls -> SUBSET {"keep", "drop"}]
  BY DEF Opinions, BatchInv, TypeOK, Marks
<1>3. \A u \in Urls : u \notin need => Opinions[u] = {}
  BY DEF Opinions, BatchInv, AnswersAreAboutNeed
<1>4. \A u \in Urls : IF Opinions[u] = {} THEN cache[u] = before[u] ELSE cache[u] \in Opinions[u]
  <2> SUFFICES ASSUME NEW u \in Urls
               PROVE  IF Opinions[u] = {} THEN cache[u] = before[u] ELSE cache[u] \in Opinions[u]
    OBVIOUS
  <2>1. Opinions[u] = {} <=> ~Settled(u)
    BY <1>1 DEF Opinions, Settled
  <2> QED
    BY <2>1 DEF Opinions, BatchInv, CacheFollowsVerdicts
<1>5. Round!Settles(Opinions)
  BY <1>1, <1>3, <1>4 DEF Round!Settles
<1>6. CASE EndRound
  <2>1. phase' = "passed" /\ final' \subseteq Kept /\ final' # {}
    BY <1>6 DEF EndRound, Pruned
  <2>2. \A u \in Passed : u \in need /\ "keep" \in Opinions[u]
    BY DEF Passed, Opinions, BatchInv, TypeOK
  <2>3. Round!Passes(Opinions)
    BY <2>1, <2>2 DEF Round!Passes, Kept
  <2> QED
    BY <1>1, <1>2, <1>5, <2>3 DEF Round!Judge
<1>7. CASE FilterFails
  <2>1. Round!Aborts
    BY <1>7 DEF FilterFails, Round!Aborts
  <2> QED
    BY <1>1, <1>2, <1>5, <2>1 DEF Round!Judge
<1> QED
  BY <1>6, <1>7

LEMMA StepMaps == ASSUME BatchInv, [Next]_vars PROVE [Round!Next]_(Round!vars)
<1>1. ASSUME NEW cands \in (SUBSET Urls) \ {{}}, CoarseFilter(cands) PROVE Round!Next
  <2>1. Round!Split(cands)
    BY <1>1 DEF CoarseFilter, BeginRound, ToJudge, Cached, Round!Split
  <2> QED
    BY <2>1 DEF Round!Next
<1>2. CASE NothingPassed
  BY <1>2 DEF NothingPassed, BeginRound, Round!NothingPassed, Round!Next
<1>3. ASSUME NEW size \in BatchMin..BatchMax, Cut(size) PROVE UNCHANGED Round!vars
  BY <1>3 DEF Cut, BatchInv, Round!vars
<1>4. CASE EndRound \/ FilterFails
  BY <1>4, EndIsJudge DEF Round!Next
<1>5. ASSUME NEW b \in Batches, BatchStep(b) PROVE UNCHANGED Round!vars
  BY <1>5 DEF BatchStep, Ask, Answer, CallFails, ReadCache, ReadFails, WriteCache, WriteFails,
              round_, Round!vars
<1>6. CASE UNCHANGED vars
  BY <1>6 DEF vars, Round!vars
<1> QED
  BY <1>1, <1>2, <1>3, <1>4, <1>5, <1>6 DEF Next, RoundStep

\* The interleaved batches implement the filter that judges in one step: no
\* verdict is lost between the read and the write of the cached list, and no page
\* passes that neither the cache nor a batch let pass.
THEOREM BatchesActAsOneStep == Spec => ActsAsOneStep
<1>1. Init => Round!Init
  BY DEF Init, Round!Init, Unjudged
<1>2. BatchInv /\ [Next]_vars => [Round!Next]_(Round!vars)
  BY StepMaps
<1> QED
  BY <1>1, <1>2, BatchAlways, PTL DEF Spec, ActsAsOneStep, Round!Spec

-----------------------------------------------------------------------------
(* Induction over the natural numbers, with a set for the property: from   *)
(* the library's minimal elements of well-founded relations.               *)

Less == OpToRel(<, Nat)

LEMMA LeastNumber ==
  ASSUME NEW T \in SUBSET Nat, T # {}
  PROVE  \E x \in T : \A y \in T : x <= y
<1>1. Less = {p \in Nat \X Nat : p[1] < p[2]}
  BY Zenon DEF Less, OpToRel
<1>2. IsWellFoundedOn(Less, Nat)
  BY NatLessThanWellFounded, Zenon DEF Less
<1>3. \E x \in T : \A y \in T : <<y, x>> \notin Less
  BY <1>2, WFMin
<1>4. \A x \in T, y \in T : <<y, x>> \notin Less => x <= y
  BY <1>1
<1> QED
  BY <1>3, <1>4

LEMMA SetInduction ==
  ASSUME NEW T, 0 \in T, \A n \in Nat : n \in T => n + 1 \in T
  PROVE  \A n \in Nat : n \in T
<1> DEFINE Rest == Nat \ T
<1>1. SUFFICES ASSUME Rest # {} PROVE FALSE
  OBVIOUS
<1>2. PICK x \in Rest : \A y \in Rest : x <= y
  BY <1>1, LeastNumber
<1>3. x # 0 /\ x - 1 \in Nat
  BY <1>2
<1>4. x - 1 \in T
  BY <1>2, <1>3
<1> QED
  BY <1>2, <1>3, <1>4

-----------------------------------------------------------------------------
(* Deduplication, page by page.                                            *)

\* Among some pages there is one that scores as much as any.
LEMMA BestOf ==
  ASSUME NEW S \in SUBSET Urls, S # {}
  PROVE  \E m \in S : \A u \in S : Score[u] <= Score[m]
<1> DEFINE T == {n \in Nat : \A R \in SUBSET (Urls \cap 1..n) :
                               R # {} => \E m \in R : \A u \in R : Score[u] <= Score[m]}
<1>1. 0 \in T
  <2>1. Urls \cap 1..0 = {}
    OBVIOUS
  <2> QED
    BY <2>1
<1>2. ASSUME NEW n \in Nat, n \in T PROVE n + 1 \in T
  <2> SUFFICES ASSUME NEW R \in SUBSET (Urls \cap 1..(n + 1)), R # {}
               PROVE  \E m \in R : \A u \in R : Score[u] <= Score[m]
    OBVIOUS
  <2> DEFINE Q == R \cap 1..n
  <2>1. \A u \in R : Score[u] \in Nat /\ (u \in Q \/ u = n + 1)
    BY FilterAssumption DEF Urls
  <2>2. CASE Q = {}
    BY <2>1, <2>2
  <2>3. CASE Q # {}
    <3>1. Q \in SUBSET (Urls \cap 1..n)
      OBVIOUS
    <3>2. PICK m \in Q : \A u \in Q : Score[u] <= Score[m]
      BY <1>2, <2>3, <3>1
    <3>3. CASE n + 1 \in R /\ Score[n + 1] > Score[m]
      <4>1. \A u \in R : Score[u] <= Score[n + 1]
        BY <2>1, <3>2, <3>3
      <4> QED
        BY <3>3, <4>1
    <3>4. CASE ~(n + 1 \in R /\ Score[n + 1] > Score[m])
      <4>1. \A u \in R : Score[u] <= Score[m]
        BY <2>1, <3>2, <3>4
      <4> QED
        BY <4>1
    <3> QED
      BY <3>3, <3>4
  <2> QED
    BY <2>2, <2>3
<1> HIDE DEF T
<1>3. \A n \in Nat : n \in T
  BY <1>1, <1>2, SetInduction
<1>4. Pages \in T /\ S \in SUBSET (Urls \cap 1..Pages)
  BY <1>3, FilterAssumption DEF Urls
<1> QED
  BY <1>4 DEF T

\* A list covers a page when one of its pages scores as much.
Covers(list, u) == \E k \in DOMAIN list : Score[u] <= Score[list[k]]

LEMMA AbsorbCovers ==
  ASSUME NEW list \in Seq(Urls), NEW u \in Urls
  PROVE  /\ Absorb(list, u) \in Seq(Urls)
         /\ Covers(Absorb(list, u), u)
         /\ \A v \in Urls : Covers(list, v) => Covers(Absorb(list, u), v)
<1> DEFINE twins == {i \in DOMAIN list : u \in Similar[list[i]]}
           first == CHOOSE i \in twins : \A j \in twins : i <= j
<1>1. \A v \in Urls : Score[v] \in Nat
  BY FilterAssumption
<1>2. CASE twins = {}
  <2>1. Absorb(list, u) = Append(list, u)
    BY <1>2 DEF Absorb
  <2>2. /\ Append(list, u) \in Seq(Urls) /\ DOMAIN Append(list, u) = 1..(Len(list) + 1)
        /\ DOMAIN list = 1..Len(list) /\ Len(list) \in Nat
        /\ Append(list, u)[Len(list) + 1] = u
        /\ \A k \in 1..Len(list) : Append(list, u)[k] = list[k]
    OBVIOUS
  <2> QED
    BY <1>1, <2>1, <2>2 DEF Covers
<1>3. CASE twins # {}
  <2>1. twins \in SUBSET Nat /\ twins \subseteq DOMAIN list
    OBVIOUS
  <2>2. \E i \in twins : \A j \in twins : i <= j
    BY <1>3, <2>1, LeastNumber
  <2>3. first \in twins
    BY <2>2
  <2>4. Absorb(list, u) = IF Score[u] > Score[list[first]] THEN [list EXCEPT ![first] = u] ELSE list
    BY <1>3 DEF Absorb
  <2> HIDE DEF first
  <2>5. first \in DOMAIN list
    BY <2>1, <2>3
  <2>6. list[first] \in Urls /\ \A k \in DOMAIN list : list[k] \in Urls
    BY <2>5
  <2>7. CASE Score[u] > Score[list[first]]
    <3> DEFINE new == [list EXCEPT ![first] = u]
    <3>1. /\ new \in Seq(Urls) /\ DOMAIN new = DOMAIN list /\ new[first] = u
          /\ \A k \in DOMAIN list : k # first => new[k] = list[k]
      BY <2>5
    <3> HIDE DEF new
    <3>2. Covers(new, u)
      BY <1>1, <2>5, <3>1 DEF Covers
    <3>3. ASSUME NEW v \in Urls, NEW k \in DOMAIN list, Score[v] <= Score[list[k]]
          PROVE  Covers(new, v)
      <4>1. CASE k = first
        <5>1. Score[v] <= Score[u]
          BY <1>1, <2>6, <2>7, <3>3, <4>1
        <5> QED
          BY <2>5, <3>1, <5>1 DEF Covers
      <4>2. CASE k # first
        BY <3>1, <3>3, <4>2 DEF Covers
      <4> QED
        BY <4>1, <4>2
    <3>4. Absorb(list, u) = new
      BY <2>4, <2>7 DEF new
    <3> QED
      BY <3>1, <3>2, <3>3, <3>4 DEF Covers
  <2>8. CASE ~(Score[u] > Score[list[first]])
    <3>1. Absorb(list, u) = list
      BY <2>4, <2>8
    <3>2. Score[u] <= Score[list[first]]
      BY <1>1, <2>6, <2>8
    <3> QED
      BY <2>5, <3>1, <3>2 DEF Covers
  <2> QED
    BY <2>7, <2>8
<1> QED
  BY <1>2, <1>3

\* The lists of deduplication: the pages of s one by one.
IsUpTo(f, s, n) ==
  f = [i \in 0..n |-> IF i = 0 THEN <<>> ELSE Absorb(f[i - 1], s[i])]

LEMMA UpToExists == ASSUME NEW s, NEW n \in Nat PROVE \E f : IsUpTo(f, s, n)
<1> DEFINE T == {k \in Nat : \E f : IsUpTo(f, s, k)}
<1>1. 0 \in T
  <2> DEFINE f == [i \in 0..0 |-> <<>>]
  <2>1. IsUpTo(f, s, 0)
    BY DEF IsUpTo
  <2> QED
    BY <2>1
<1>2. ASSUME NEW k \in Nat, k \in T PROVE k + 1 \in T
  <2>1. PICK f : IsUpTo(f, s, k)
    BY <1>2
  <2> DEFINE g == [i \in 0..(k + 1) |-> IF i = k + 1 THEN Absorb(f[k], s[k + 1]) ELSE f[i]]
             h == [i \in 0..(k + 1) |-> IF i = 0 THEN <<>> ELSE Absorb(g[i - 1], s[i])]
  <2>2. \A i \in 0..k : f[i] = IF i = 0 THEN <<>> ELSE Absorb(f[i - 1], s[i])
    BY <2>1 DEF IsUpTo
  <2>3. ASSUME NEW i \in 0..(k + 1) PROVE g[i] = h[i]
    <3>1. CASE i = k + 1
      <4>1. g[i] = Absorb(f[k], s[k + 1]) /\ i # 0 /\ i - 1 = k /\ g[k] = f[k]
        BY <3>1
      <4> QED
        BY <3>1, <4>1
    <3>2. CASE i # k + 1 /\ i # 0
      <4>1. i \in 0..k /\ i - 1 \in 0..(k + 1) /\ i - 1 # k + 1
        BY <3>2
      <4>2. g[i] = f[i] /\ g[i - 1] = f[i - 1]
        BY <3>2, <4>1
      <4> QED
        BY <2>2, <3>2, <4>1, <4>2
    <3>3. CASE i # k + 1 /\ i = 0
      <4>1. g[i] = f[i] /\ i \in 0..k
        BY <3>3
      <4> QED
        BY <2>2, <3>3, <4>1
    <3> QED
      BY <3>1, <3>2, <3>3
  <2>4. g = h
    BY <2>3
  <2>5. IsUpTo(g, s, k + 1)
    BY <2>4 DEF IsUpTo
  <2> QED
    BY <2>5
<1> HIDE DEF T
<1>3. \A k \in Nat : k \in T
  BY <1>1, <1>2, SetInduction
<1> QED
  BY <1>3 DEF T

\* Each page of s is covered by what deduplication leaves.
LEMMA DeduplicatedCovers ==
  ASSUME NEW s \in Seq(Urls)
  PROVE  /\ Deduplicated(s) \subseteq Urls
         /\ \A i \in 1..Len(s) : \E d \in Deduplicated(s) : Score[s[i]] <= Score[d]
<1> DEFINE f == CHOOSE g : IsUpTo(g, s, Len(s))
<1>1. Len(s) \in Nat /\ \A i \in 1..Len(s) : s[i] \in Urls
  OBVIOUS
<1>2. IsUpTo(f, s, Len(s))
  BY <1>1, UpToExists
<1>3. Deduplicated(s) = {f[Len(s)][i] : i \in DOMAIN f[Len(s)]}
  BY DEF Deduplicated, IsUpTo
<1> HIDE DEF f
<1>4. \A i \in 0..Len(s) : f[i] = IF i = 0 THEN <<>> ELSE Absorb(f[i - 1], s[i])
  BY <1>2 DEF IsUpTo
<1> DEFINE T == {k \in Nat : k <= Len(s) => /\ f[k] \in Seq(Urls)
                                            /\ \A i \in 1..k : Covers(f[k], s[i])}
<1>5. 0 \in T
  <2>1. f[0] = <<>> /\ 1..0 = {}
    BY <1>1, <1>4
  <2>2. f[0] \in Seq(Urls) /\ \A i \in 1..0 : Covers(f[0], s[i])
    BY <2>1
  <2> QED
    BY <2>2
<1>6. ASSUME NEW k \in Nat, k \in T PROVE k + 1 \in T
  <2> SUFFICES ASSUME k + 1 <= Len(s)
               PROVE  /\ f[k + 1] \in Seq(Urls)
                      /\ \A i \in 1..(k + 1) : Covers(f[k + 1], s[i])
    OBVIOUS
  <2>1. k <= Len(s) /\ k + 1 \in 0..Len(s) /\ k + 1 # 0 /\ (k + 1) - 1 = k /\ k + 1 \in 1..Len(s)
    BY <1>1
  <2>2. f[k + 1] = Absorb(f[k], s[k + 1]) /\ s[k + 1] \in Urls
    BY <1>1, <1>4, <2>1
  <2>3. f[k] \in Seq(Urls) /\ \A i \in 1..k : Covers(f[k], s[i])
    BY <1>6, <2>1
  <2>4. /\ f[k + 1] \in Seq(Urls)
        /\ Covers(f[k + 1], s[k + 1])
        /\ \A v \in Urls : Covers(f[k], v) => Covers(f[k + 1], v)
    <3>1. /\ Absorb(f[k], s[k + 1]) \in Seq(Urls)
          /\ Covers(Absorb(f[k], s[k + 1]), s[k + 1])
          /\ \A v \in Urls : Covers(f[k], v) => Covers(Absorb(f[k], s[k + 1]), v)
      <4> HIDE DEF T
      <4> QED
        BY <2>2, <2>3, AbsorbCovers
    <3> QED
      BY <2>2, <3>1
  <2>5. \A i \in 1..(k + 1) : i = k + 1 \/ i \in 1..k
    OBVIOUS
  <2>6. \A i \in 1..k : s[i] \in Urls
    BY <1>1, <2>1
  <2> QED
    BY <2>3, <2>4, <2>5, <2>6
<1> HIDE DEF T
<1>7. Len(s) \in T
  BY <1>1, <1>5, <1>6, SetInduction
<1>8. f[Len(s)] \in Seq(Urls) /\ \A i \in 1..Len(s) : Covers(f[Len(s)], s[i])
  BY <1>1, <1>7 DEF T
<1>9. \A j \in DOMAIN f[Len(s)] : f[Len(s)][j] \in Urls
  BY <1>8
<1> QED
  BY <1>3, <1>8, <1>9 DEF Covers

\* An order of the pages kept is a list of them all.
LEMMA OrderIsList ==
  ASSUME NEW S \in SUBSET Urls, NEW s \in Orders(S)
  PROVE  s \in Seq(Urls) /\ \A u \in S : \E i \in 1..Len(s) : s[i] = u
<1>1. Cardinality(S) \in Nat
  <2>1. IsFiniteSet(Urls)
    BY FS_Interval, FilterAssumption DEF Urls
  <2>2. IsFiniteSet(S)
    BY <2>1, FS_Subset
  <2> QED
    BY <2>2, FS_CardinalityType
<1>2. s \in [1..Cardinality(S) -> S] /\ {s[i] : i \in DOMAIN s} = S
  BY DEF Orders
<1>3. s \in Seq(Urls) /\ DOMAIN s = 1..Len(s)
  BY <1>1, <1>2
<1> QED
  BY <1>2, <1>3

\* The end of a round leaves one of the best pages, whatever the order.
LEMMA EndLeavesBest ==
  ASSUME BatchInv, EndRound
  PROVE  \E f \in final' : \A u \in Kept : Score[u] <= Score[f]
<1>1. PICK s \in Orders(Kept), best \in SUBSET Kept :
        /\ best \in Pruned(IF level = "skip" THEN Kept ELSE Deduplicated(s))
        /\ final' = best
  BY DEF EndRound
<1> DEFINE D == IF level = "skip" THEN Kept ELSE Deduplicated(s)
<1>2. Kept \in SUBSET Urls
  BY DEF BatchInv, TypeOK, Kept, Passed
<1>3. s \in Seq(Urls) /\ \A u \in Kept : \E i \in 1..Len(s) : s[i] = u
  BY <1>2, OrderIsList
<1>4. \A u \in Urls : Score[u] \in Nat
  BY FilterAssumption
<1>5. D \subseteq Urls /\ \A u \in Kept : \E d \in D : Score[u] <= Score[d]
  <2>1. CASE level = "skip"
    BY <1>2, <1>4, <2>1
  <2>2. CASE level # "skip"
    <3>1. /\ Deduplicated(s) \subseteq Urls
          /\ \A i \in 1..Len(s) : \E d \in Deduplicated(s) : Score[s[i]] <= Score[d]
      BY <1>3, DeduplicatedCovers
    <3> QED
      BY <1>3, <2>2, <3>1
  <2> QED
    BY <2>1, <2>2
<1> HIDE DEF D
<1>6. /\ best \subseteq D /\ best # {}
      /\ \A u \in best, v \in D \ best : Score[u] >= Score[v]
  BY <1>1 DEF Pruned, D
<1>7. PICK m \in Kept : \A u \in Kept : Score[u] <= Score[m]
  BY <1>1, <1>2, <1>6, BestOf
<1>8. PICK d \in D : Score[m] <= Score[d]
  BY <1>5
<1>9. PICK f \in best : Score[d] <= Score[f]
  <2>1. CASE d \in best
    BY <1>4, <1>5, <2>1
  <2>2. CASE d \notin best
    <3>1. PICK f \in best : TRUE
      BY <1>6
    <3>2. Score[f] >= Score[d]
      BY <1>6, <2>2, <3>1
    <3>3. Score[f] \in Nat /\ Score[d] \in Nat
      BY <1>4, <1>5, <1>6, <3>1
    <3> QED
      BY <3>2, <3>3
  <2> QED
    BY <2>1, <2>2
<1>10. ASSUME NEW u \in Kept PROVE Score[u] <= Score[f]
  <2>1. Score[u] <= Score[m]
    BY <1>7
  <2>2. Score[u] \in Nat /\ Score[m] \in Nat /\ Score[d] \in Nat /\ Score[f] \in Nat
    BY <1>2, <1>4, <1>5, <1>6
  <2> QED
    BY <1>8, <1>9, <2>1, <2>2
<1> QED
  BY <1>1, <1>9, <1>10

\* Merging duplicates and pruning by score never lose the best: of the pages a
\* round keeps, one that scores as much as any is among those saved, for every
\* number of pages, scores, likeness of pages and order of the batches.
THEOREM BestSurvives == Spec => []BestPageSurvives
<1>1. Init => BestPageSurvives
  BY DEF Init, BestPageSurvives
<1>2. ASSUME BatchInv, BestPageSurvives, [Next]_vars PROVE BestPageSurvives'
  <2>1. CASE EndRound
    <3>1. Kept' = Kept
      BY <2>1 DEF EndRound, Kept, Passed
    <3> QED
      BY <1>2, <2>1, <3>1, EndLeavesBest DEF BestPageSurvives
  <2>2. CASE UNCHANGED vars
    <3>1. Kept' = Kept
      BY <2>2 DEF vars, Kept, Passed
    <3> QED
      BY <1>2, <2>2, <3>1 DEF vars, BestPageSurvives
  <2>3. CASE phase' # "passed"
    BY <2>3 DEF BestPageSurvives
  <2>4. [Next]_vars /\ ~EndRound => phase' # "passed" \/ UNCHANGED vars
    BY DEF Next, RoundStep, CoarseFilter, NothingPassed, BeginRound, Cut, BatchStep, Ask, Answer,
           CallFails, ReadCache, ReadFails, WriteCache, WriteFails, FilterFails, round_
  <2> QED
    BY <1>2, <2>1, <2>2, <2>3, <2>4
<1> QED
  BY <1>1, <1>2, BatchAlways, PTL DEF Spec

-----------------------------------------------------------------------------
(* A round comes to its end: nobody waits for a slot or for the lock that  *)
(* nobody gives back, and there is only so much to do.                     *)

\* What the next step of a round may be: the guards of its actions.
SomeBatchGoes ==
  \E b \in Batches :
    \/ pc[b] = "waiting" /\ SlotFree
    \/ pc[b] \in {"asking", "writing"}
    \/ pc[b] = "judged" /\ LockFree(b)

LEMMA FiniteBatches == IsFiniteSet(Batches)
BY FS_Interval, FilterAssumption DEF Batches

\* The slot a batch waits for is held by one that goes on, and so is the lock:
\* the two are never waited for in a circle, although a batch keeps its slot while
\* it waits for the lock.
THEOREM NoneIsStuck == Spec => [](phase = "judging" => AllOver \/ SomeBatchGoes)
<1>1. ASSUME BatchInv, phase = "judging", ~AllOver PROVE SomeBatchGoes
  <2>1. PICK b \in Batches : pc[b] \notin Over
    BY <1>1 DEF AllOver
  <2>2. ASSUME NEW c \in Batches, pc[c] \in Working PROVE SomeBatchGoes
    <3>1. CASE pc[c] = "judged"
      BY <3>1 DEF SomeBatchGoes, LockFree
    <3> QED
      BY <2>2, <3>1 DEF SomeBatchGoes, Working
  <2>3. CASE pc[b] = "waiting"
    <3>1. CASE SlotFree
      BY <2>3, <3>1 DEF SomeBatchGoes
    <3>2. CASE ~SlotFree
      <4> DEFINE W == {c \in Batches : pc[c] \in Working}
      <4>1. W # {}
        <5>1. SUFFICES ASSUME W = {} PROVE FALSE
          OBVIOUS
        <5>2. Cardinality(W) = 0
          BY <5>1, FS_EmptySet
        <5> QED
          BY <3>2, <5>2, FilterAssumption DEF SlotFree
      <4> QED
        BY <2>2, <4>1
    <3> QED
      BY <3>1, <3>2
  <2>4. pc[b] = "waiting" \/ pc[b] \in Working
    BY <1>1, <2>1 DEF BatchInv, TypeOK
  <2> QED
    BY <2>2, <2>3, <2>4
<1> QED
  BY <1>1, BatchAlways, PTL

\* The steps a batch may still take; a batch not cut yet may take them all.
Ahead(b) ==
  IF phase = "split" \/ pc[b] = "waiting" THEN Retries + 4
  ELSE IF pc[b] = "asking" THEN tries[b] + 3
  ELSE IF pc[b] = "judged" THEN 2
  ELSE IF pc[b] = "writing" THEN 1 ELSE 0

\* All that is to be done in a round: the cut, the steps of the batches, the end.
ToDo ==
  IF phase \notin {"split", "judging"} THEN {}
  ELSE {p \in Batches \X (1..(Retries + 4)) : p[2] <= Ahead(p[1])}
         \cup {<<0, 0>>} \cup (IF phase = "split" THEN {<<0, 1>>} ELSE {})

LEMMA BatchTakesOne ==
  ASSUME phase = "judging", phase' = "judging", NEW b \in Batches,
         \A c \in Batches : Ahead(c)' <= Ahead(c) /\ Ahead(c) \in 0..(Retries + 4)
                                                 /\ Ahead(c)' \in 0..(Retries + 4),
         Ahead(b)' < Ahead(b)
  PROVE  ToDo' \subseteq ToDo /\ ToDo' # ToDo
<1>1. <<b, Ahead(b)>> \in ToDo
  BY FilterAssumption DEF ToDo
<1>2. <<b, Ahead(b)>> \notin ToDo'
  <2>1. b # 0
    BY DEF Batches
  <2> QED
    BY <2>1, FilterAssumption DEF ToDo
<1>3. ToDo' \subseteq ToDo
  BY FilterAssumption DEF ToDo
<1> QED
  BY <1>1, <1>2, <1>3

LEMMA AheadType ==
  ASSUME BatchInv
  PROVE  \A b \in Batches : Ahead(b) \in 0..(Retries + 4)
BY FilterAssumption DEF BatchInv, TypeOK, Ahead

LEMMA RoundTakesOne ==
  ASSUME BatchInv, BatchInv', Next, phase \in {"split", "judging"}
  PROVE  ToDo' \subseteq ToDo /\ ToDo' # ToDo
<1>1. CASE \E size \in BatchMin..BatchMax : Cut(size)
  <2>1. phase = "split" /\ phase' = "judging"
    BY <1>1 DEF Cut
  <2>2. \A b \in Batches : Ahead(b)' <= Ahead(b)
    BY <2>1, AheadType, FilterAssumption DEF Ahead, BatchInv, TypeOK
  <2>3. <<0, 1>> \in ToDo /\ <<0, 1>> \notin ToDo'
    BY <2>1 DEF ToDo, Batches
  <2>4. \A b \in Batches : Ahead(b) = Retries + 4
    BY <2>1 DEF Ahead
  <2>5. ToDo' \subseteq ToDo
    BY <2>1, <2>4 DEF ToDo
  <2> QED
    BY <2>3, <2>5
<1>2. CASE EndRound \/ FilterFails
  BY <1>2 DEF EndRound, FilterFails, AllOver, ToDo
<1>3. ASSUME NEW b \in Batches, BatchStep(b) PROVE ToDo' \subseteq ToDo /\ ToDo' # ToDo
  <2>1. phase = "judging" /\ phase' = "judging"
    BY <1>3 DEF BatchStep, Ask, Answer, CallFails, ReadCache, ReadFails, WriteCache, WriteFails, round_
  <2>2. \A c \in Batches : c # b => pc'[c] = pc[c] /\ tries'[c] = tries[c]
    BY <1>3 DEF BatchInv, TypeOK, BatchStep, Ask, Answer, CallFails, ReadCache, ReadFails,
                WriteCache, WriteFails, round_
  <2>3. \A c \in Batches : c # b => Ahead(c)' = Ahead(c)
    BY <2>1, <2>2 DEF Ahead
  <2>4. tries[b] \in 0..Retries
    BY DEF BatchInv, TypeOK
  <2>5. Ahead(b)' < Ahead(b)
    <3>1. CASE Ask(b)
      <4>1. pc[b] = "waiting" /\ pc'[b] = "asking" /\ tries'[b] = Retries
        BY <3>1 DEF Ask, BatchInv, TypeOK
      <4> QED
        BY <2>1, <4>1, FilterAssumption DEF Ahead
    <3>2. CASE Answer(b)
      <4>1. pc[b] = "asking" /\ pc'[b] \in {"done", "judged"}
        BY <3>2 DEF Answer, BatchInv, TypeOK
      <4> QED
        BY <2>1, <2>4, <4>1, FilterAssumption DEF Ahead
    <3>3. CASE CallFails(b)
      <4>1. /\ pc[b] = "asking"
            /\ \/ pc'[b] = "asking" /\ tries'[b] = tries[b] - 1
               \/ pc'[b] = "failed"
        BY <3>3 DEF CallFails, BatchInv, TypeOK
      <4> QED
        BY <2>1, <2>4, <4>1, FilterAssumption DEF Ahead
    <3>4. CASE ReadCache(b) \/ ReadFails(b)
      <4>1. pc[b] = "judged" /\ pc'[b] \in {"writing", "failed"}
        BY <3>4 DEF ReadCache, ReadFails, BatchInv, TypeOK
      <4> QED
        BY <2>1, <4>1 DEF Ahead
    <3>5. CASE WriteCache(b) \/ WriteFails(b)
      <4>1. pc[b] = "writing" /\ pc'[b] \in {"done", "failed"}
        BY <3>5 DEF WriteCache, WriteFails, BatchInv, TypeOK
      <4> QED
        BY <2>1, <4>1 DEF Ahead
    <3> QED
      BY <1>3, <3>1, <3>2, <3>3, <3>4, <3>5 DEF BatchStep
  <2>6. \A c \in Batches : Ahead(c) \in 0..(Retries + 4)
    BY AheadType
  <2>7. \A c \in Batches : Ahead(c)' \in 0..(Retries + 4)
    BY FilterAssumption DEF BatchInv, TypeOK, Ahead
  <2>8. \A c \in Batches : Ahead(c)' <= Ahead(c)
    BY <2>3, <2>5, <2>6, <2>7
  <2> QED
    BY <2>1, <2>5, <2>6, <2>7, <2>8, BatchTakesOne
<1>4. ~((\E cands \in (SUBSET Urls) \ {{}} : CoarseFilter(cands)) \/ NothingPassed)
  BY DEF CoarseFilter, NothingPassed, BeginRound
<1> QED
  BY <1>1, <1>2, <1>3, <1>4 DEF Next, RoundStep

LEMMA ToDoIsFinite == IsFiniteSet(ToDo)
<1>1. IsFiniteSet(1..(Retries + 4))
  BY FS_Interval, FilterAssumption
<1>2. IsFiniteSet(Batches \X (1..(Retries + 4)))
  BY <1>1, FiniteBatches, FS_Product
<1> DEFINE B == {p \in Batches \X (1..(Retries + 4)) : p[2] <= Ahead(p[1])}
<1>3. IsFiniteSet(B)
  BY <1>2, FS_Subset
<1>4. IsFiniteSet(B \cup {<<0, 0>>})
  BY <1>3, FS_AddElement
<1>5. IsFiniteSet((B \cup {<<0, 0>>}) \cup {<<0, 1>>})
  BY <1>4, FS_AddElement
<1>6. ToDo \in SUBSET ((B \cup {<<0, 0>>}) \cup {<<0, 1>>})
  BY DEF ToDo
<1> QED
  BY <1>5, <1>6, FS_Subset

\* A step within a round leaves strictly less to do.
LeavesLess == phase \in {"split", "judging"} => ToDo' \subseteq ToDo /\ ToDo' # ToDo

\* A round takes a bounded number of steps, however the calls and the store fail:
\* each one strictly shrinks a finite set, to nothing at its end.
THEOREM RoundIsShort ==
  Spec => /\ []IsFiniteSet(ToDo)
          /\ [][LeavesLess]_vars
<1>1. BatchInv /\ BatchInv' /\ [Next]_vars => [LeavesLess]_vars
  BY RoundTakesOne DEF LeavesLess
<1> QED
  BY <1>1, ToDoIsFinite, BatchAlways, PTL DEF Spec

=============================================================================
