---------------------------- MODULE FilterRound ----------------------------
(***************************************************************************)
(* What a round of the relevance filter promises to the pipeline: the      *)
(* pages that pass the coarse filter are split by the cached verdicts, the *)
(* others are judged at once, and every judgement that lets a page pass is *)
(* in the cache afterwards, where the next round finds it.                 *)
(***************************************************************************)
CONSTANT Urls          \* the web pages a task may find

VARIABLES
  phase,   \* where the round is: not planned yet, between rounds, split, aborted
  level,   \* verification level of the task
  need,    \* pages to be judged
  hits,    \* pages the cache lets pass
  cache,   \* filter_cache
  final    \* the pages that passed the last round

vars == <<phase, level, need, hits, cache, final>>

Init ==
  /\ phase \in {"unplanned", "between"}
  /\ level \in {"skip", "standard"}
  /\ need = {} /\ hits = {} /\ final = {}
  /\ cache = [u \in Urls |-> "none"]

\* The planner fixes the level, before any round.
Plan ==
  /\ phase = "unplanned" /\ phase' = "between"
  /\ level' \in {"skip", "standard"}
  /\ UNCHANGED <<need, hits, cache, final>>

Split(cands) ==
  /\ phase = "between" /\ phase' = "split"
  /\ need' = {u \in cands : cache[u] = "none"}
  /\ hits' = {u \in cands : cache[u] = "keep"}
  /\ UNCHANGED <<level, cache, final>>

\* A round without candidates leaves the lists of the round before.
NothingPassed ==
  /\ phase = "between" /\ phase' = "split"
  /\ final' = {}
  /\ UNCHANGED <<level, need, hits, cache>>

\* All that is said of a page is known; the cache takes one of the opinions.
Settles(says) ==
  /\ \A u \in Urls : u \notin need => says[u] = {}
  /\ \A u \in Urls :
       IF says[u] = {} THEN cache'[u] = cache[u] ELSE cache'[u] \in says[u]

\* The round ends with pages that pass by the cache or by an opinion on them.
Passes(says) ==
  /\ phase' = "between"
  /\ final' # {}
  /\ IF level = "skip" THEN final' \subseteq hits \cup need
     ELSE final' \subseteq hits \cup {u \in need : "keep" \in says[u]}

Aborts == phase' = "aborted" /\ UNCHANGED final

Judge ==
  /\ phase = "split" /\ phase' # "split"
  /\ \E says \in [Urls -> SUBSET {"keep", "drop"}] :
       Settles(says) /\ (Passes(says) \/ Aborts)
  /\ UNCHANGED <<level, need, hits>>

\* A run may be given up anywhere, and keeps what it has.
GiveUp == phase # "aborted" /\ phase' = "aborted" /\ UNCHANGED <<level, need, hits, cache, final>>

Next ==
  \/ Plan
  \/ \E cands \in SUBSET Urls : Split(cands)
  \/ NothingPassed
  \/ Judge
  \/ GiveUp

Spec == Init /\ [][Next]_vars
=============================================================================
