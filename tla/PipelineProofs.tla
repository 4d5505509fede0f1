--------------------------- MODULE PipelineProofs ---------------------------
(***************************************************************************)
(* What holds of every run of the pipeline, for any dimensions, pages and  *)
(* requests: rounds, approvals, judgements of pages, the evidence of a     *)
(* report with its conflicts and gaps, types.                              *)
(***************************************************************************)
EXTENDS Pipeline, TLAPS

-----------------------------------------------------------------------------
(* Rounds and approvals.                                                   *)

\* The search counts from zero, a search is started below the limit only, and
\* with approval switched on only after one more approval than searches.
RoundInv ==
  /\ request \in Requests
  /\ round \in Nat /\ approvals \in Nat
  /\ limits.rounds \in Nat
  /\ round <= MaxRounds
  /\ pc \in {"strategy_planner", "intent_analyze"} => round = 0
  /\ pc \in {"search_react", "suspended"} => round < MaxRounds
  /\ request.hitl => round <= approvals
  /\ request.hitl /\ pc = "search_react" => round < approvals

LEMMA ProfileRounds ==
  ASSUME NEW m
  PROVE  SpeedProfile(m).rounds \in Nat \ {0}
BY DEF SpeedProfile

LEMMA LimitIsPositive ==
  ASSUME limits.rounds \in Nat
  PROVE  MaxRounds \in Nat \ {0}
BY ProfileRounds DEF MaxRounds

LEMMA RoundInit == Init => RoundInv
<1> SUFFICES ASSUME Init PROVE RoundInv
  OBVIOUS
<1>1. MaxRounds \in Nat \ {0}
  BY LimitIsPositive DEF Init
<1> QED
  BY <1>1 DEF Init, RoundInv

LEMMA RoundStep == RoundInv /\ [Next]_vars => RoundInv'
<1> SUFFICES ASSUME RoundInv, [Next]_vars PROVE RoundInv'
  OBVIOUS
<1>0. request \in RequestType /\ MaxRounds \in Nat \ {0}
  BY PipelineAssumption, LimitIsPositive DEF RoundInv
<1>1. CASE StrategyPlanner
  <2>1. PICK m \in Choices : limits' = PresetProfile(m)
    BY <1>1 DEF StrategyPlanner
  <2>2. limits'.rounds \in Nat
    <3>1. request.rounds \in Nat
      BY <1>0 DEF RequestType
    <3> QED
      BY <2>1, <3>1, ProfileRounds DEF PresetProfile
  <2>3. MaxRounds' \in Nat \ {0}
    BY <2>2, ProfileRounds, <1>1 DEF MaxRounds, StrategyPlanner
  <2>4. pc' \in {"agent_node", "intent_analyze"}
    BY <1>1 DEF StrategyPlanner, RouteAfterStrategy
  <2> QED
    BY <1>1, <2>2, <2>3, <2>4 DEF StrategyPlanner, RoundInv, outcome, approval
<1>2. ASSUME limits' = limits, request' = request PROVE MaxRounds' = MaxRounds
  BY <1>2 DEF MaxRounds
<1>3. CASE IntentAnalyze
  BY <1>0, <1>2, <1>3 DEF IntentAnalyze, BeforeSearch, RoundInv, RequestType
<1>4. CASE Approve
  BY <1>0, <1>2, <1>4 DEF Approve, plan, RoundInv
<1>5. CASE SearchReact
  BY <1>0, <1>2, <1>5 DEF SearchReact, plan, approval, RoundInv
<1>6. ASSUME NEW open, LeaveVerify(open) PROVE RoundInv'
  BY <1>0, <1>2, <1>6
     DEF LeaveVerify, SearchMore, BeforeSearch, plan, RoundInv, RequestType
<1>7. CASE Arbitrate \/ ArbitrateLapses
  BY <1>6, <1>7 DEF Arbitrate, ArbitrateLapses
<1>8. ASSUME UNCHANGED <<request, limits, round, approvals>>,
             pc' \notin {"strategy_planner", "intent_analyze", "search_react", "suspended"}
      PROVE  RoundInv'
  BY <1>0, <1>2, <1>8 DEF RoundInv
<1>9. CASE UNCHANGED vars
  BY <1>0, <1>2, <1>9 DEF vars, plan, approval, RoundInv
<1>10. CASE AgentNode \/ CoarseFilter \/ LlmFilter \/ GenerateReport \/ Summary \/ NodeFails
  BY <1>8, <1>10
     DEF AgentNode, CoarseFilter, LlmFilter, GenerateReport, Summary, NodeFails, plan, approval
<1>11. CASE CrossVerify \/ Atomize \/ Profile \/ Tripartite
  BY <1>8, <1>11 DEF CrossVerify, Atomize, Profile, AfterProfile, Tripartite, plan, approval
<1>12. CASE AtomizeLapses \/ ProfileLapses \/ TripartiteLapses
  BY <1>8, <1>12
     DEF AtomizeLapses, ProfileLapses, TripartiteLapses, Lapse, AfterProfile, plan, approval
<1> QED
  BY <1>1, <1>3, <1>4, <1>5, <1>7, <1>9, <1>10, <1>11, <1>12
     DEF Next, GraphStep, VerifyStep, Stopped

LEMMA RoundAlways == Spec => []RoundInv
BY RoundInit, RoundStep, PTL DEF Spec

\* A run never searches more often than its limit: whatever the planner chooses
\* as the limit, it does so before the first search.
THEOREM Bounded == Spec => []RoundsAreBounded
<1>1. RoundInv => RoundsAreBounded
  BY DEF RoundInv, RoundsAreBounded
<1> QED
  BY <1>1, RoundAlways, PTL

\* With approval switched on, each search is approved, the first and the further
\* ones alike: every way into search_react passes the interrupt.
THEOREM Approved == Spec => []SearchNeedsApproval
<1>1. RoundInv => SearchNeedsApproval
  BY DEF RoundInv, SearchNeedsApproval
<1> QED
  BY <1>1, RoundAlways, PTL

-----------------------------------------------------------------------------
(* Judged pages.                                                           *)

\* Pages taken from the cache were judged worth keeping and are never judged
\* again in the same step; a page up for judgement is not in the stored result.
KeptInv ==
  /\ pc = "strategy_planner" => final = <<>> /\ cached = {} /\ candidates = {}
  /\ FilterLevel # "skip" =>
       /\ \A u \in DOMAIN final \cup cached : u \in DOMAIN judged /\ judged[u]
       /\ cached \cap candidates = {}
       /\ pc = "llm_filter" => DOMAIN final \cap candidates = {}

LEMMA NothingStored == DOMAIN <<>> = {}
OBVIOUS

LEMMA TagsKeepPages ==
  ASSUME NEW kept, NEW f \in Tags(kept)
  PROVE  DOMAIN f = kept
BY DEF Tags

LEMMA KeptInit == Init => KeptInv
BY NothingStored DEF Init, KeptInv

LEMMA KeptStep == KeptInv /\ [Next]_vars => KeptInv'
<1> SUFFICES ASSUME KeptInv, [Next]_vars PROVE KeptInv'
  OBVIOUS
<1>1. CASE StrategyPlanner
  <2>1. pc' # "strategy_planner" /\ pc' # "llm_filter"
    BY <1>1 DEF StrategyPlanner, RouteAfterStrategy
  <2>2. final' = <<>> /\ cached' = {} /\ candidates' = {}
    BY <1>1 DEF StrategyPlanner, KeptInv, pages
  <2> QED
    BY <2>1, <2>2, NothingStored DEF KeptInv
<1>2. ASSUME limits' = limits, request' = request PROVE FilterLevel' = FilterLevel
  BY <1>2 DEF FilterLevel, DefaultLevel
<1>3. CASE CoarseFilter
  <2>1. FilterLevel' = FilterLevel /\ judged' = judged /\ pc' = "llm_filter"
    BY <1>2, <1>3 DEF CoarseFilter, plan
  <2>2. CASE final' = <<>> /\ UNCHANGED <<candidates, cached>>
    BY <2>1, <2>2, NothingStored DEF KeptInv
  <2>3. CASE final' # <<>> \/ ~UNCHANGED <<candidates, cached>>
    <3>1. PICK passed :
            /\ candidates' = passed \ DOMAIN judged
            /\ cached' = {u \in passed \cap DOMAIN judged : judged[u]}
            /\ final' = final
      BY <1>3, <2>3 DEF CoarseFilter
    <3> QED
      BY <2>1, <3>1 DEF KeptInv
  <2> QED
    BY <2>2, <2>3
<1>4. CASE LlmFilter
  <2>1. /\ FilterLevel' = FilterLevel /\ UNCHANGED <<candidates, cached>>
        /\ pc = "llm_filter" /\ pc' \in {"failed", "cross_verify"}
    BY <1>2, <1>4 DEF LlmFilter, plan
  <2>2. CASE FilterLevel = "skip"
    BY <2>1, <2>2 DEF KeptInv
  <2>3. CASE FilterLevel # "skip"
    <3>1. PICK looked, good :
            /\ looked \subseteq candidates /\ good \subseteq looked
            /\ judged' = [u \in DOMAIN judged \cup looked |->
                            IF u \in looked THEN u \in good ELSE judged[u]]
            /\ \/ final' = final
               \/ \E saved \in Survivors(cached \cup good) : final' \in Tags(saved)
      BY <1>4, <2>3 DEF LlmFilter
    <3>2. DOMAIN final' \subseteq DOMAIN final \/ DOMAIN final' \subseteq cached \cup good
      BY <3>1, TagsKeepPages DEF Survivors
    <3>3. \A u \in DOMAIN final \cup cached : u \in DOMAIN judged' /\ judged'[u]
      BY <2>1, <2>3, <3>1 DEF KeptInv
    <3>4. \A u \in good : u \in DOMAIN judged' /\ judged'[u]
      BY <3>1
    <3> QED
      BY <2>1, <2>3, <3>2, <3>3, <3>4 DEF KeptInv
  <2> QED
    BY <2>2, <2>3
<1>5. ASSUME UNCHANGED <<request, limits, candidates, cached, judged, final>>,
             pc' \notin {"strategy_planner", "llm_filter"}
      PROVE  KeptInv'
  BY <1>2, <1>5 DEF KeptInv
<1>6. CASE AgentNode \/ IntentAnalyze \/ Approve \/ SearchReact
  BY <1>5, <1>6 DEF AgentNode, IntentAnalyze, BeforeSearch, Approve, SearchReact, plan, pages
<1>7. CASE CrossVerify \/ Atomize \/ Profile \/ Tripartite
  BY <1>5, <1>7 DEF CrossVerify, Atomize, Profile, AfterProfile, Tripartite, plan, pages
<1>8. CASE AtomizeLapses \/ ProfileLapses \/ TripartiteLapses
  BY <1>5, <1>8
     DEF AtomizeLapses, ProfileLapses, TripartiteLapses, Lapse, AfterProfile, plan, pages
<1>9. CASE Arbitrate \/ ArbitrateLapses
  BY <1>5, <1>9 DEF Arbitrate, ArbitrateLapses, LeaveVerify, BeforeSearch, plan, pages
<1>10. CASE GenerateReport \/ Summary \/ NodeFails
  BY <1>5, <1>10 DEF GenerateReport, Summary, NodeFails, plan, pages
<1>11. CASE UNCHANGED vars
  BY <1>2, <1>11 DEF vars, plan, pages, KeptInv
<1> QED
  BY <1>1, <1>3, <1>4, <1>6, <1>7, <1>8, <1>9, <1>10, <1>11
     DEF Next, GraphStep, VerifyStep, Stopped

\* Unless filtering is skipped, every page in the stored result was judged worth
\* keeping: the cache hands on judgements, never pages that were turned down.
THEOREM Judged == Spec => []KeptSourcesWereJudged
<1>1. KeptInv => KeptSourcesWereJudged
  BY DEF KeptInv, KeptSourcesWereJudged
<1> QED
  BY <1>1, KeptInit, KeptStep, PTL DEF Spec

-----------------------------------------------------------------------------
(* The evidence of a report.                                               *)

AnyDim == Dims \cup {General, Untagged}
RawClaim == [dim : AnyDim, verdict : Verdicts \cup {"none"}]

\* The statements c come from the pages of the stored result.
RestsOn(c) ==
  \A f \in DOMAIN c : /\ f \in Facts
                      /\ c[f] \in RawClaim
                      /\ FactUrl[f] \in DOMAIN final
                      /\ c[f].dim = final[FactUrl[f]]

InVerify == {"profile", "tripartite", "arbitrate"}

\* The statements of the running verification come from the pages it was
\* started on; those in the store do once the verification has written them.
EvidenceInv ==
  /\ dims \subseteq Dims /\ card \subseteq Dims
  /\ found \subseteq Urls /\ cached \subseteq Urls /\ candidates \subseteq Urls
  /\ \A u \in DOMAIN final : final[u] \in AnyDim
  /\ pc \in {"cross_verify", "atomize", "generate_report_prompt"} \cup InVerify => final # <<>>
  /\ pc \in InVerify => RestsOn(claims)
  /\ pc = "atomize" => claims = <<>>
  /\ pc = "generate_report_prompt" => "arbitrate" \in lapsed \/ RestsOn(stored)
  /\ report = "pipeline" =>
       /\ pc \in {"summary_node", "end"}
       /\ final # <<>>
       /\ "arbitrate" \in lapsed \/ RestsOn(stored)

LEMMA EvidenceInit == Init => EvidenceInv
BY NothingStored DEF Init, EvidenceInv, InVerify

LEMMA TagsKeepDims ==
  ASSUME NEW kept \in SUBSET Urls, dims \subseteq Dims, NEW f \in Tags(kept)
  PROVE  \A u \in DOMAIN f : f[u] \in AnyDim
BY PipelineAssumption DEF Tags, AnyDim

\* A verdict changes nothing but the verdict.
LEMMA JudgeRests ==
  ASSUME RestsOn(claims), NEW J, J \subseteq DOMAIN claims, NEW v \in [J -> Verdicts],
         NEW S, S \subseteq DOMAIN claims
  PROVE  RestsOn(Judge(J, v)) /\ RestsOn(Restrict(Judge(J, v), S))
<1>1. ASSUME NEW f \in DOMAIN claims
      PROVE  /\ Judge(J, v)[f] \in RawClaim
             /\ Judge(J, v)[f].dim = claims[f].dim
  <2>1. claims[f] \in RawClaim
    BY DEF RestsOn
  <2>2. CASE f \in J
    <3>1. Judge(J, v)[f] = [claims[f] EXCEPT !.verdict = v[f]] /\ v[f] \in Verdicts
      BY <1>1, <2>2 DEF Judge
    <3> QED
      BY <2>1, <3>1 DEF RawClaim
  <2>3. CASE f \notin J
    BY <1>1, <2>1, <2>3 DEF Judge
  <2> QED
    BY <2>2, <2>3
<1>2. DOMAIN Judge(J, v) = DOMAIN claims /\ DOMAIN Restrict(Judge(J, v), S) = S
  BY DEF Judge, Restrict
<1>3. \A f \in S : Restrict(Judge(J, v), S)[f] = Judge(J, v)[f]
  BY DEF Restrict
<1> QED
  BY <1>1, <1>2, <1>3 DEF RestsOn

LEMMA EvidenceStep == EvidenceInv /\ [Next]_vars => EvidenceInv'
<1> SUFFICES ASSUME EvidenceInv, [Next]_vars PROVE EvidenceInv'
  OBVIOUS
<1> USE DEF EvidenceInv, InVerify
<1>1. CASE StrategyPlanner \/ AgentNode \/ Summary \/ NodeFails
  <2>1. /\ UNCHANGED <<dims, card, pages, claims, lapsed, stored>>
        /\ pc' \in {"agent_node", "intent_analyze", "summary_node", "end", "failed"}
        /\ report' \in {report, "agent", "none"}
        /\ report' = "pipeline" => pc = "summary_node" /\ pc' = "end"
    BY <1>1 DEF StrategyPlanner, RouteAfterStrategy, AgentNode, Summary, NodeFails,
                Breakable, approval, verification, outcome
  <2> QED
    BY <2>1 DEF RestsOn, pages
<1>2. CASE IntentAnalyze
  BY <1>2 DEF IntentAnalyze, BeforeSearch, pages, verification, outcome
<1>3. CASE Approve
  <2>1. dims' \subseteq Dims
    BY <1>3 DEF Approve
  <2> QED
    BY <1>3, <2>1 DEF Approve, pages, verification, outcome
<1>4. CASE SearchReact
  BY <1>4 DEF SearchReact, approval, verification, outcome
<1>5. CASE CoarseFilter
  <2>1. /\ candidates' \subseteq Urls /\ cached' \subseteq Urls
        /\ final' = <<>> \/ final' = final
    BY <1>5 DEF CoarseFilter, Loads, Extracted
  <2>2. \A u \in DOMAIN final' : final'[u] \in AnyDim
    BY <2>1, NothingStored
  <2> QED
    BY <1>5, <2>1, <2>2 DEF CoarseFilter, approval, verification, outcome
<1>6. CASE LlmFilter
  <2>1. /\ UNCHANGED <<dims, card, found, candidates, cached, report>>
        /\ report # "pipeline" /\ pc' \in {"failed", "cross_verify"}
    BY <1>6 DEF LlmFilter, approval
  <2>2. CASE final' = final /\ pc' = "failed"
    BY <2>1, <2>2
  <2>3. CASE ~(final' = final /\ pc' = "failed")
    <3>1. PICK kept, saved :
            kept \subseteq Urls /\ saved \in Survivors(kept) /\ final' \in Tags(saved)
      BY <1>6, <2>3 DEF LlmFilter
    <3>2. saved \in SUBSET Urls /\ saved # {}
      BY <3>1 DEF Survivors
    <3>3. DOMAIN final' = saved /\ \A u \in DOMAIN final' : final'[u] \in AnyDim
      BY <3>1, <3>2, TagsKeepPages, TagsKeepDims
    <3>4. final' # <<>>
      BY <3>2, <3>3, NothingStored
    <3> QED
      BY <2>1, <3>3, <3>4
  <2> QED
    BY <2>2, <2>3
<1>7. CASE CrossVerify
  BY <1>7, NothingStored DEF CrossVerify, RestsOn, approval, pages, outcome
<1>8. CASE Atomize
  <2>1. PICK sources, S :
          /\ sources \in {final, <<>>}
          /\ S \subseteq {f \in Facts : FactUrl[f] \in DOMAIN sources}
          /\ claims' = Unjudged(S, sources)
    BY <1>8 DEF Atomize
  <2>2. \A f \in S : f \in Facts /\ FactUrl[f] \in DOMAIN final /\ sources = final
    BY <2>1, NothingStored
  <2>3. RestsOn(claims')
    BY <2>1, <2>2 DEF RestsOn, Unjudged, RawClaim
  <2>4. UNCHANGED <<dims, card, found, candidates, cached, final, report>>
        /\ pc = "atomize" /\ pc' = "profile"
    BY <1>8 DEF Atomize, approval, pages
  <2> QED
    BY <2>3, <2>4 DEF RestsOn
<1>9. ASSUME UNCHANGED <<dims, card, found, candidates, cached, final, report>>,
             pc \in {"atomize"} \cup InVerify, pc' \in InVerify, RestsOn(claims')
      PROVE  EvidenceInv'
  BY <1>9 DEF RestsOn
<1>10. CASE Profile \/ ProfileLapses
  BY <1>9, <1>10 DEF Profile, ProfileLapses, Lapse, AfterProfile, approval, pages, verification
<1>11. CASE AtomizeLapses
  BY <1>9, <1>11, NothingStored DEF AtomizeLapses, Lapse, approval, pages, RestsOn
<1>12. CASE Tripartite \/ TripartiteLapses
  <2>1. RestsOn(claims) /\ Direct \subseteq DOMAIN claims
    BY <1>12 DEF Tripartite, TripartiteLapses, Lapse, Direct
  <2>2. RestsOn(claims')
    <3>1. CASE Tripartite
      BY <2>1, <3>1, JudgeRests DEF Tripartite
    <3>2. CASE TripartiteLapses
      BY <2>1, <3>2, JudgeRests DEF TripartiteLapses
    <3> QED
      BY <1>12, <3>1, <3>2
  <2> QED
    BY <1>9, <1>12, <2>2 DEF Tripartite, TripartiteLapses, Lapse, approval, pages
<1>13. CASE Arbitrate \/ ArbitrateLapses
  <2>1. /\ UNCHANGED <<dims, found, candidates, cached, final, report>>
        /\ pc = "arbitrate" /\ card' \subseteq Dims
        /\ pc' \in {"suspended", "search_react", "generate_report_prompt"}
        /\ "arbitrate" \in lapsed' \/ stored' = claims
    BY <1>13 DEF Arbitrate, ArbitrateLapses, LeaveVerify, BeforeSearch, pages
  <2> QED
    BY <2>1 DEF RestsOn
<1>14. CASE GenerateReport
  BY <1>14 DEF GenerateReport, approval, pages, verification, outcome, RestsOn
<1>15. CASE UNCHANGED vars
  BY <1>15 DEF vars, approval, pages, verification, outcome, RestsOn
<1> QED
  BY <1>1, <1>2, <1>3, <1>4, <1>5, <1>6, <1>7, <1>8, <1>10, <1>11, <1>12, <1>13, <1>14, <1>15
     DEF Next, GraphStep, VerifyStep, Stopped

\* A research report has a page to rest on, and states only what was drawn from
\* the pages it lists: no statement of an earlier round, unless saving the new
\* ones failed.
THEOREM Evidence == Spec => []ReportRestsOnCurrentSources
<1>1. EvidenceInv => ReportRestsOnCurrentSources
  BY DEF EvidenceInv, RestsOn, ReportRestsOnCurrentSources
<1> QED
  BY <1>1, EvidenceInit, EvidenceStep, PTL DEF Spec

-----------------------------------------------------------------------------
(* Conflicts and gaps of a report.                                         *)

ReportAhead == pc = "generate_report_prompt" \/ report = "pipeline"

ContradictedIn(c) == {c[f].dim : f \in {g \in DOMAIN c : c[g].verdict = "contradictory"}}

\* The verification hands on a conflict only when no round is left.
ConflictInv ==
  ReportAhead =>
    /\ conflicts # {} => round = MaxRounds
    /\ "arbitrate" \notin lapsed => conflicts = ContradictedIn(stored)

LEMMA ConflictInit == Init => ConflictInv
BY DEF Init, ConflictInv, ReportAhead

LEMMA ConflictStep == RoundInv /\ EvidenceInv /\ ConflictInv /\ [Next]_vars => ConflictInv'
<1> SUFFICES ASSUME RoundInv, EvidenceInv, ConflictInv, [Next]_vars PROVE ConflictInv'
  OBVIOUS
<1>1. ASSUME UNCHANGED <<request, limits, round, lapsed, conflicts, stored>>,
             ReportAhead' => ReportAhead
      PROVE  ConflictInv'
  BY <1>1 DEF ConflictInv, MaxRounds, ContradictedIn
<1>2. ASSUME NEW open, LeaveVerify(open), report # "pipeline",
             "arbitrate" \in lapsed' \/ open = ContradictedIn(stored')
      PROVE  ConflictInv'
  <2>1. conflicts' = open /\ round' = round /\ MaxRounds' = MaxRounds
    BY <1>2 DEF LeaveVerify, plan, MaxRounds
  <2>2. round \in Nat /\ MaxRounds \in Nat /\ round <= MaxRounds
    BY LimitIsPositive DEF RoundInv
  <2>3. CASE SearchMore(open)
    BY <1>2, <2>3 DEF LeaveVerify, BeforeSearch, ConflictInv, ReportAhead
  <2>4. CASE ~SearchMore(open)
    BY <1>2, <2>1, <2>2, <2>4 DEF SearchMore, ConflictInv
  <2> QED
    BY <2>3, <2>4
<1>3. CASE Arbitrate
  <2>1. LeaveVerify(Contradicted) /\ stored' = claims /\ report # "pipeline"
    BY <1>3 DEF Arbitrate, EvidenceInv
  <2>2. Contradicted = ContradictedIn(stored')
    BY <2>1 DEF Contradicted, ContradictedIn
  <2> QED
    BY <1>2, <2>1, <2>2
<1>4. CASE ArbitrateLapses
  BY <1>2, <1>4 DEF ArbitrateLapses, EvidenceInv
<1>5. ASSUME pc \notin {"generate_report_prompt", "summary_node", "end"},
             pc' # "generate_report_prompt", report' \in {report, "agent", "none"}
      PROVE  ConflictInv'
  BY <1>5 DEF ConflictInv, ReportAhead, EvidenceInv
<1>6. CASE StrategyPlanner \/ AgentNode \/ IntentAnalyze \/ Approve
  BY <1>5, <1>6 DEF StrategyPlanner, RouteAfterStrategy, AgentNode, IntentAnalyze,
                    BeforeSearch, Approve
<1>7. CASE SearchReact \/ CoarseFilter \/ LlmFilter
  BY <1>5, <1>7 DEF SearchReact, CoarseFilter, LlmFilter
<1>8. CASE CrossVerify \/ Atomize \/ Profile \/ Tripartite
  BY <1>5, <1>8 DEF CrossVerify, Atomize, Profile, AfterProfile, Tripartite
<1>9. CASE AtomizeLapses \/ ProfileLapses \/ TripartiteLapses
  BY <1>5, <1>9 DEF AtomizeLapses, ProfileLapses, TripartiteLapses, Lapse, AfterProfile
<1>10. CASE GenerateReport \/ Summary \/ NodeFails
  BY <1>1, <1>10 DEF GenerateReport, Summary, NodeFails, Breakable, ReportAhead,
                     plan, verification, outcome
<1>11. CASE UNCHANGED vars
  BY <1>1, <1>11 DEF vars, plan, verification, outcome, ReportAhead
<1> QED
  BY <1>3, <1>4, <1>6, <1>7, <1>8, <1>9, <1>10, <1>11
     DEF Next, GraphStep, VerifyStep, Stopped

\* A report that shows a conflict was written because the rounds were used up,
\* and shows the conflicts of the statements it is written from: a conflict is
\* never dropped on the way from the arbitration to the report.
THEOREM Conflicts == Spec => []ConflictsAreSettledOrShown
<1>1. ConflictInv => ConflictsAreSettledOrShown
  BY DEF ConflictInv, ReportAhead, ContradictedIn, ConflictsAreSettledOrShown
<1> QED
  BY <1>1, RoundAlways, EvidenceInit, EvidenceStep, ConflictInit, ConflictStep, PTL DEF Spec

\* No statement belongs to a dimension without a page, and a planned dimension
\* has a page or is known to have none, unless a node of the subgraph failed.
GapInv ==
  /\ pc \in InVerify => \A f \in DOMAIN claims : claims[f].dim \notin missing
  /\ pc \in InVerify /\ lapsed = {} /\ VerificationLevel # "skip" =>
       dims \subseteq Range(final) \cup missing
  /\ ReportAhead /\ lapsed = {} /\ VerificationLevel # "skip" =>
       /\ dims \subseteq Range(final) \cup insufficient
       /\ conflicts \cap insufficient = {}

LEMMA GapInit == Init => GapInv
BY DEF Init, GapInv, ReportAhead, InVerify

LEMMA GapStep == EvidenceInv /\ GapInv /\ [Next]_vars => GapInv'
<1> SUFFICES ASSUME EvidenceInv, GapInv, [Next]_vars PROVE GapInv'
  OBVIOUS
<1>0. ASSUME UNCHANGED <<request, limits, dedup>>
      PROVE  VerificationLevel' = VerificationLevel
  BY <1>0 DEF VerificationLevel, DefaultLevel
<1>1. ASSUME pc \notin {"generate_report_prompt", "summary_node", "end"},
             pc' \notin InVerify \cup {"generate_report_prompt"},
             report' \in {report, "agent", "none"}
      PROVE  GapInv'
  BY <1>1 DEF GapInv, ReportAhead, EvidenceInv
<1>2. CASE StrategyPlanner \/ AgentNode \/ IntentAnalyze \/ Approve
  BY <1>1, <1>2 DEF StrategyPlanner, RouteAfterStrategy, AgentNode, IntentAnalyze,
                    BeforeSearch, Approve, InVerify
<1>3. CASE SearchReact \/ CoarseFilter \/ LlmFilter
  BY <1>1, <1>3 DEF SearchReact, CoarseFilter, LlmFilter, InVerify
<1>4. CASE CrossVerify
  <2>1. /\ claims' = <<>> /\ report' = report /\ report # "pipeline"
        /\ VerificationLevel' = VerificationLevel
        /\ pc' = IF VerificationLevel = "skip" THEN "profile" ELSE "atomize"
    BY <1>0, <1>4 DEF CrossVerify, plan, EvidenceInv
  <2> QED
    BY <2>1, NothingStored DEF GapInv, ReportAhead, InVerify
<1>5. CASE Atomize
  <2>1. PICK sources, S :
          /\ sources \in {final, <<>>}
          /\ S \subseteq {f \in Facts : FactUrl[f] \in DOMAIN sources}
          /\ claims' = Unjudged(S, sources)
          /\ missing' = dims \ Range(sources)
    BY <1>5 DEF Atomize
  <2>2. \A f \in S : sources[FactUrl[f]] \in Range(sources)
    BY <2>1 DEF Range
  <2>3. \A f \in DOMAIN claims' : claims'[f].dim \notin missing'
    BY <2>1, <2>2 DEF Unjudged
  <2>4. Range(sources) \subseteq Range(final)
    BY <2>1, NothingStored DEF Range
  <2>5. dims' = dims /\ final' = final /\ pc' = "profile" /\ report' # "pipeline"
    BY <1>5 DEF Atomize, pages, EvidenceInv
  <2> QED
    BY <2>1, <2>3, <2>4, <2>5 DEF GapInv, ReportAhead
<1>6. ASSUME UNCHANGED <<request, limits, dedup, dims, final, missing, report>>,
             pc \in InVerify, pc' \in InVerify,
             lapsed' = {} => lapsed = {},
             DOMAIN claims' \subseteq DOMAIN claims,
             \A f \in DOMAIN claims' : claims'[f].dim = claims[f].dim
      PROVE  GapInv'
  BY <1>0, <1>6 DEF GapInv, ReportAhead, EvidenceInv, InVerify
<1>7. CASE Profile \/ ProfileLapses
  BY <1>6, <1>7 DEF Profile, ProfileLapses, Lapse, AfterProfile, plan, pages, verification,
                    InVerify
<1>8. CASE AtomizeLapses
  <2>1. claims' = <<>> /\ lapsed' # {} /\ pc' = "profile" /\ report' # "pipeline"
    BY <1>8 DEF AtomizeLapses, Lapse, EvidenceInv
  <2> QED
    BY <2>1, NothingStored DEF GapInv, ReportAhead
<1>9. CASE Tripartite \/ TripartiteLapses
  <2>1. RestsOn(claims) /\ Direct \subseteq DOMAIN claims
    BY <1>9 DEF Tripartite, TripartiteLapses, Lapse, Direct, EvidenceInv, InVerify
  <2>2. RestsOn(claims') /\ DOMAIN claims' \subseteq DOMAIN claims
    <3>1. \A J, v : DOMAIN Judge(J, v) = DOMAIN claims
      BY DEF Judge
    <3>2. CASE Tripartite
      BY <2>1, <3>1, <3>2, JudgeRests DEF Tripartite, Restrict
    <3>3. CASE TripartiteLapses
      BY <2>1, <3>1, <3>3, JudgeRests DEF TripartiteLapses
    <3> QED
      BY <1>9, <3>2, <3>3
  <2>3. \A f \in DOMAIN claims' : claims'[f].dim = claims[f].dim
    BY <2>1, <2>2 DEF RestsOn
  <2>4. /\ UNCHANGED <<request, limits, dedup, dims, final, missing, report>>
        /\ pc = "tripartite" /\ pc' = "arbitrate"
        /\ lapsed' = {} => lapsed = {}
    BY <1>9 DEF Tripartite, TripartiteLapses, Lapse, plan, pages
  <2> QED
    BY <1>6, <2>2, <2>3, <2>4 DEF InVerify
<1>10. CASE Arbitrate
  <2>1. /\ conflicts' = Contradicted /\ insufficient' = missing \cup Unsupported
        /\ UNCHANGED <<request, limits, dedup, dims, final, lapsed>>
        /\ pc = "arbitrate" /\ pc' \notin InVerify
    BY <1>10 DEF Arbitrate, LeaveVerify, BeforeSearch, plan, pages, InVerify
  <2>2. Contradicted \cap Unsupported = {}
    BY DEF Contradicted, Unsupported
  <2>3. Contradicted \cap missing = {}
    BY <2>1 DEF Contradicted, GapInv, InVerify
  <2> QED
    BY <1>0, <2>1, <2>2, <2>3 DEF GapInv, InVerify
<1>11. CASE ArbitrateLapses
  BY <1>11 DEF ArbitrateLapses, LeaveVerify, BeforeSearch, GapInv, InVerify
<1>12. ASSUME UNCHANGED <<request, limits, dedup, dims, final, lapsed, conflicts, insufficient>>,
              UNCHANGED pc \/ pc' \notin InVerify,
              UNCHANGED <<claims, missing>>,
              ReportAhead' => ReportAhead
       PROVE  GapInv'
  BY <1>0, <1>12 DEF GapInv
<1>13. CASE GenerateReport \/ Summary \/ NodeFails
  BY <1>12, <1>13 DEF GenerateReport, Summary, NodeFails, Breakable, ReportAhead, InVerify,
                      plan, pages, verification, outcome
<1>14. CASE UNCHANGED vars
  BY <1>12, <1>14 DEF vars, plan, pages, verification, outcome, ReportAhead
<1> QED
  BY <1>2, <1>3, <1>4, <1>5, <1>7, <1>8, <1>9, <1>10, <1>11, <1>13, <1>14
     DEF Next, GraphStep, VerifyStep, Stopped

\* A report whose verification went through says "not enough information" of
\* each planned dimension without a page and of none it shows a conflict for.
THEOREM Gaps == Spec => []DimensionsAreAccountedFor
<1>1. GapInv => DimensionsAreAccountedFor
  BY DEF GapInv, ReportAhead, DimensionsAreAccountedFor
<1> QED
  BY <1>1, EvidenceInit, EvidenceStep, GapInit, GapStep, PTL DEF Spec

-----------------------------------------------------------------------------
(* Types.                                                                  *)

LEMMA MapsIntoIntro ==
  ASSUME NEW S, NEW T, NEW D, D \subseteq S, NEW f \in [D -> T]
  PROVE  f \in MapsInto(S, T)
BY DEF MapsInto

LEMMA MapsIntoElim ==
  ASSUME NEW S, NEW T, NEW f \in MapsInto(S, T)
  PROVE  DOMAIN f \subseteq S /\ f \in [DOMAIN f -> T]
BY DEF MapsInto

LEMMA NothingMaps ==
  ASSUME NEW S, NEW T
  PROVE  <<>> \in MapsInto(S, T)
<1>1. <<>> \in [{} -> T]
  OBVIOUS
<1> QED
  BY <1>1, MapsIntoIntro

LEMMA TagsType ==
  ASSUME NEW kept \in SUBSET Urls, dims \subseteq Dims, NEW f \in Tags(kept)
  PROVE  f \in MapsInto(Urls, Dims \cup {General})
<1>1. f \in [kept -> Dims \cup {General}]
  BY PipelineAssumption DEF Tags
<1> QED
  BY <1>1, MapsIntoIntro

\* Verdicts for some of the statements leave claims.
LEMMA JudgeType ==
  ASSUME claims \in MapsInto(Facts, Claim),
         NEW J, J \subseteq DOMAIN claims, NEW v \in [J -> Verdicts],
         NEW S, S \subseteq DOMAIN claims
  PROVE  /\ Judge(J, v) \in MapsInto(Facts, Claim)
         /\ Restrict(Judge(J, v), S) \in MapsInto(Facts, Claim)
<1>1. DOMAIN claims \subseteq Facts /\ claims \in [DOMAIN claims -> Claim]
  BY MapsIntoElim
<1>2. ASSUME NEW f \in DOMAIN claims PROVE Judge(J, v)[f] \in Claim
  <2>1. claims[f] \in Claim
    BY <1>1
  <2>2. CASE f \in J
    BY <2>1, <2>2 DEF Judge, Claim
  <2>3. CASE f \notin J
    BY <2>1, <2>3 DEF Judge
  <2> QED
    BY <2>2, <2>3
<1>3. Judge(J, v) \in [DOMAIN claims -> Claim]
  BY <1>2 DEF Judge
<1>4. Restrict(Judge(J, v), S) \in [S -> Claim]
  BY <1>2 DEF Restrict
<1> QED
  BY <1>1, <1>3, <1>4, MapsIntoIntro

LEMMA ClaimDims ==
  ASSUME claims \in MapsInto(Facts, Claim)
  PROVE  \A f \in DOMAIN claims : f \in Facts /\ claims[f].dim \in Dims \cup {General}
<1>1. DOMAIN claims \subseteq Facts /\ claims \in [DOMAIN claims -> Claim]
  BY MapsIntoElim
<1>2. ASSUME NEW f \in DOMAIN claims PROVE f \in Facts /\ claims[f] \in Claim
  BY <1>1
<1> QED
  BY <1>2 DEF Claim

LEMMA TypeInit == Init => TypeOK
BY NothingMaps DEF Init, TypeOK, Nodes, RequestType, Levels, Modes

LEMMA TypeStep == TypeOK /\ [Next]_vars => TypeOK'
<1> SUFFICES ASSUME TypeOK, [Next]_vars PROVE TypeOK'
  OBVIOUS
<1>0. request \in RequestType
  BY PipelineAssumption DEF TypeOK
<1>. /\ dims \subseteq Dims /\ card \subseteq Dims
     /\ approvals \in Nat /\ round \in Nat
     /\ found \subseteq Urls /\ valuable \subseteq Urls
     /\ candidates \subseteq Urls /\ cached \subseteq Urls
  BY DEF TypeOK
<1>. /\ judged \in MapsInto(Urls, BOOLEAN)
     /\ final \in MapsInto(Urls, Dims \cup {General})
     /\ claims \in MapsInto(Facts, Claim) /\ stored \in MapsInto(Facts, Claim)
     /\ missing \subseteq Dims
     /\ lapsed \subseteq Nodes
     /\ proven \subseteq Facts
  BY DEF TypeOK
<1>1. CASE StrategyPlanner
  <2>1. PICK m \in Choices : mode' = m /\ limits' = PresetProfile(m)
    BY <1>1 DEF StrategyPlanner
  <2>2. m \in Modes \cup {"auto"}
    <3>1. CASE request.social
      BY <2>1, <3>1 DEF Choices, Modes, AgentModes
    <3>2. CASE ~request.social /\ ~request.auto
      <4>1. m = request.speed
        BY <2>1, <3>2 DEF Choices
      <4> QED
        BY <1>0, <4>1 DEF RequestType
    <3>3. CASE ~request.social /\ request.auto
      BY <2>1, <3>3 DEF Choices, Modes
    <3> QED
      BY <3>1, <3>2, <3>3
  <2>3. SpeedProfile(m) \in [rounds : Nat, level : Levels]
    BY DEF SpeedProfile, Levels
  <2>4. limits' \in [rounds : Nat, level : Levels \cup {"unset"}]
    BY <1>0, <2>1, <2>2, <2>3 DEF PresetProfile, RequestType
  <2>5. pc' \in Nodes
    BY <1>1 DEF StrategyPlanner, RouteAfterStrategy, Nodes
  <2> QED
    BY <1>1, <2>1, <2>2, <2>4, <2>5 DEF TypeOK, StrategyPlanner, approval, pages, verification, outcome
<1>2. CASE AgentNode
  BY <1>2 DEF TypeOK, AgentNode, Nodes, plan, approval, pages, verification, outcome
<1>3. CASE IntentAnalyze
  BY <1>3 DEF TypeOK, IntentAnalyze, BeforeSearch, Nodes, pages, verification, outcome
<1>4. CASE Approve
  <2>1. dims' \subseteq Dims /\ approvals' \in Nat
    BY <1>4 DEF Approve
  <2> QED
    BY <1>4, <2>1 DEF TypeOK, Approve, Nodes, plan, pages, verification, outcome
<1>5. CASE SearchReact
  <2>1. found' \subseteq Urls /\ valuable' \subseteq Urls /\ round' \in Nat
    BY <1>5 DEF SearchReact
  <2> QED
    BY <1>5, <2>1 DEF TypeOK, SearchReact, Nodes, plan, approval, verification, outcome
<1>6. CASE CoarseFilter
  <2>1. /\ candidates' \subseteq Urls /\ cached' \subseteq Urls
        /\ final' = <<>> \/ final' = final
    BY <1>6 DEF CoarseFilter, Loads, Extracted
  <2>2. final' \in MapsInto(Urls, Dims \cup {General})
    BY <2>1, NothingMaps
  <2> QED
    BY <1>6, <2>1, <2>2 DEF TypeOK, CoarseFilter, Nodes, plan, approval, verification, outcome
<1>7. CASE LlmFilter
  <2>1. PICK looked, good :
          /\ looked \subseteq candidates /\ good \subseteq looked
          /\ judged' = [u \in DOMAIN judged \cup looked |->
                          IF u \in looked THEN u \in good ELSE judged[u]]
          /\ \/ final' = final
             \/ \E saved \in Survivors(cached \cup
                    (IF FilterLevel = "skip" THEN candidates ELSE good)) :
                  final' \in Tags(saved)
          /\ pc' \in {"failed", "cross_verify"}
    BY <1>7 DEF LlmFilter
  <2>2. DOMAIN judged \subseteq Urls /\ judged \in [DOMAIN judged -> BOOLEAN]
    BY MapsIntoElim
  <2>3. judged' \in [DOMAIN judged \cup looked -> BOOLEAN]
    <3>1. ASSUME NEW u \in DOMAIN judged \cup looked
          PROVE  (IF u \in looked THEN u \in good ELSE judged[u]) \in BOOLEAN
      <4>1. CASE u \in looked
        <5>1. (u \in good) \in BOOLEAN
          OBVIOUS
        <5> QED
          BY <4>1, <5>1, Zenon
      <4>2. CASE u \notin looked
        <5>1. judged[u] \in BOOLEAN
          BY <2>2, <3>1, <4>2
        <5> QED
          BY <4>2, <5>1, Zenon
      <4> QED
        BY <4>1, <4>2
    <3> QED
      BY <2>1, <3>1, Zenon
  <2>4. judged' \in MapsInto(Urls, BOOLEAN)
    BY <2>1, <2>2, <2>3, MapsIntoIntro
  <2>5. final' \in MapsInto(Urls, Dims \cup {General})
    BY <2>1, TagsType DEF Survivors
  <2> QED
    BY <1>7, <2>1, <2>4, <2>5 DEF TypeOK, LlmFilter, Nodes, plan, approval, verification, outcome
<1>8. CASE CrossVerify
  BY <1>8, NothingMaps DEF TypeOK, CrossVerify, Nodes, plan, approval, pages, outcome
<1>9. CASE Atomize
  <2>1. PICK sources, S :
          /\ sources \in {final, <<>>}
          /\ S \subseteq {f \in Facts : FactUrl[f] \in DOMAIN sources}
          /\ claims' = Unjudged(S, sources)
          /\ missing' = dims \ Range(sources)
    BY <1>9 DEF Atomize
  <2>2. sources \in MapsInto(Urls, Dims \cup {General})
    BY <2>1, NothingMaps
  <2>3. \A f \in S : sources[FactUrl[f]] \in Dims \cup {General}
    BY <2>1, <2>2, MapsIntoElim
  <2>4. claims' \in [S -> Claim]
    BY <2>1, <2>3 DEF Unjudged, Claim
  <2>5. claims' \in MapsInto(Facts, Claim)
    BY <2>1, <2>4, MapsIntoIntro
  <2> QED
    BY <1>9, <2>1, <2>5 DEF TypeOK, Atomize, Nodes, plan, approval, pages, outcome
<1>10. CASE Profile
  BY <1>10 DEF TypeOK, Profile, AfterProfile, Nodes, plan, approval, pages, verification, outcome
<1>11. CASE AtomizeLapses \/ ProfileLapses
  BY <1>11 DEF TypeOK, AtomizeLapses, ProfileLapses, Lapse, AfterProfile, Nodes,
               plan, approval, pages, outcome
<1>12. CASE Tripartite \/ TripartiteLapses
  <2>1. Direct \subseteq DOMAIN claims
    BY DEF Direct
  <2>2. claims' \in MapsInto(Facts, Claim)
    <3>1. CASE Tripartite
      BY <2>1, <3>1, JudgeType DEF Tripartite
    <3>2. CASE TripartiteLapses
      BY <2>1, <3>2, JudgeType DEF TripartiteLapses
    <3> QED
      BY <1>12, <3>1, <3>2
  <2> QED
    BY <1>12, <2>2 DEF TypeOK, Tripartite, TripartiteLapses, Lapse, Nodes, plan, approval, pages, outcome
<1>13. CASE Arbitrate \/ ArbitrateLapses
  <2>1. /\ UNCHANGED <<request, plan, dims, approvals, round, pages, claims, missing, report>>
        /\ pc' \in {"suspended", "search_react", "generate_report_prompt"}
        /\ card' \subseteq Dims
    BY <1>13 DEF Arbitrate, ArbitrateLapses, LeaveVerify, BeforeSearch
  <2>2. conflicts' \subseteq Dims \cup {General} /\ insufficient' \subseteq Dims \cup {General}
    BY <1>13, ClaimDims
       DEF Arbitrate, ArbitrateLapses, LeaveVerify, Contradicted, Unsupported
  <2>3. stored' \in MapsInto(Facts, Claim) /\ proven' \subseteq Facts /\ lapsed' \subseteq Nodes
    BY <1>13, ClaimDims DEF Arbitrate, ArbitrateLapses, Agreed, Nodes
  <2> QED
    BY <2>1, <2>2, <2>3 DEF TypeOK, Nodes, plan, pages
<1>14. CASE GenerateReport \/ Summary \/ NodeFails
  BY <1>14 DEF TypeOK, GenerateReport, Summary, NodeFails, Nodes, plan, approval, pages,
               verification, outcome
<1>15. CASE UNCHANGED vars
  BY <1>15 DEF TypeOK, vars, plan, approval, pages, verification, outcome
<1> QED
  BY <1>1, <1>2, <1>3, <1>4, <1>5, <1>6, <1>7, <1>8, <1>9, <1>10, <1>11, <1>12, <1>13, <1>14,
     <1>15
     DEF Next, GraphStep, VerifyStep, Stopped

\* The state of the graph, the stored lists and the verification keep their
\* types: no node reads a statement or a page that another one stored otherwise.
THEOREM TypeCorrect == Spec => []TypeOK
<1> QED
  BY TypeInit, TypeStep, PTL DEF Spec

-----------------------------------------------------------------------------
(* Rounds of the relevance filter, as FilterRound describes them.          *)

\* A step that neither enters nor leaves the filter, the planner or a failure.
Elsewhere == {"strategy_planner", "llm_filter", "failed"}

LEMMA LevelFixed == UNCHANGED <<request, limits>> => FilterLevel' = FilterLevel
BY DEF FilterLevel, DefaultLevel

LEMMA OutsideTheFilter ==
  ASSUME pc \notin Elsewhere, pc' \notin Elsewhere, UNCHANGED <<request, limits, pages>>
  PROVE  UNCHANGED Filter!vars
<1>1. FilterLevel' = FilterLevel
  BY LevelFixed
<1> QED
  BY <1>1 DEF Elsewhere, pages, Filter!vars

LEMMA RunGivenUp ==
  ASSUME pc # "failed", pc' = "failed", UNCHANGED <<request, limits, pages>>
  PROVE  Filter!GiveUp
<1>1. FilterLevel' = FilterLevel
  BY LevelFixed
<1> QED
  BY <1>1 DEF pages, Filter!GiveUp

LEMMA CoarseFilterSplits ==
  ASSUME TypeOK, CoarseFilter
  PROVE  (\E cands \in SUBSET Urls : Filter!Split(cands)) \/ Filter!NothingPassed
<1>1. FilterLevel' = FilterLevel
  BY LevelFixed DEF CoarseFilter, plan
<1>2. pc = "coarse_filter" /\ pc' = "llm_filter" /\ judged' = judged
  BY DEF CoarseFilter
<1>3. PICK loaded \in Loads :
        LET passed == Extracted(loaded) \cap Relevant
        IN  IF passed = {}
              THEN final' = <<>> /\ UNCHANGED <<candidates, cached>>
              ELSE /\ candidates' = passed \ DOMAIN judged
                   /\ cached' = {u \in passed \cap DOMAIN judged : judged[u]}
                   /\ UNCHANGED final
  BY DEF CoarseFilter
<1> DEFINE passed == Extracted(loaded) \cap Relevant
<1>4. passed \in SUBSET Urls
  BY PipelineAssumption
<1>5. CASE passed = {}
  <2>1. DOMAIN final' = {} /\ UNCHANGED <<candidates, cached>>
    BY <1>3, <1>5
  <2>2. Filter!NothingPassed
    BY <1>1, <1>2, <2>1 DEF Filter!NothingPassed
  <2> QED
    BY <2>2
<1>6. CASE passed # {}
  <2>1. /\ candidates' = passed \ DOMAIN judged
        /\ cached' = {u \in passed \cap DOMAIN judged : judged[u]}
        /\ UNCHANGED final
    BY <1>3, <1>6
  <2> HIDE DEF passed
  <2> DEFINE marks == [u \in Urls |-> IF u \notin DOMAIN judged THEN "none"
                                     ELSE IF judged[u] THEN "keep" ELSE "drop"]
  <2>2. candidates' = {u \in passed : marks[u] = "none"}
    BY <1>4, <2>1
  <2>3. cached' = {u \in passed : marks[u] = "keep"}
    BY <1>4, <2>1
  <2>4. Filter!Split(passed)
    BY <1>1, <1>2, <2>1, <2>2, <2>3 DEF Filter!Split
  <2> QED
    BY <1>4, <2>4
<1> QED
  BY <1>5, <1>6

LEMMA LlmFilterJudges ==
  ASSUME TypeOK, LlmFilter
  PROVE  Filter!Judge
<1>1. FilterLevel' = FilterLevel
  BY LevelFixed DEF LlmFilter, plan
<1>2. /\ pc = "llm_filter" /\ pc' \in {"failed", "cross_verify"}
      /\ UNCHANGED <<candidates, cached>> /\ candidates \subseteq Urls
  BY DEF LlmFilter, TypeOK
<1>3. PICK looked \in IF FilterLevel = "skip" THEN {{}} ELSE SUBSET candidates :
        \E good \in SUBSET looked :
          LET kept == cached \cup IF FilterLevel = "skip" THEN candidates ELSE good
          IN  /\ judged' = [u \in DOMAIN judged \cup looked |->
                              IF u \in looked THEN u \in good ELSE judged[u]]
              /\ \/ kept = {} /\ pc' = "failed" /\ UNCHANGED final
                 \/ /\ \E saved \in Survivors(kept) : final' \in Tags(saved)
                    /\ pc' = "cross_verify"
  BY DEF LlmFilter
<1>4. PICK good \in SUBSET looked :
        LET kept == cached \cup IF FilterLevel = "skip" THEN candidates ELSE good
        IN  /\ judged' = [u \in DOMAIN judged \cup looked |->
                            IF u \in looked THEN u \in good ELSE judged[u]]
            /\ \/ kept = {} /\ pc' = "failed" /\ UNCHANGED final
               \/ /\ \E saved \in Survivors(kept) : final' \in Tags(saved)
                  /\ pc' = "cross_verify"
  BY <1>3
<1> DEFINE kept == cached \cup IF FilterLevel = "skip" THEN candidates ELSE good
           says == [u \in Urls |-> IF u \in good THEN {"keep"}
                                   ELSE IF u \in looked THEN {"drop"} ELSE {}]
           marks == [u \in Urls |-> IF u \notin DOMAIN judged THEN "none"
                                    ELSE IF judged[u] THEN "keep" ELSE "drop"]
<1>5. looked \subseteq candidates /\ good \subseteq looked
  BY <1>4
<1>6. says \in [Urls -> SUBSET {"keep", "drop"}]
  OBVIOUS
<1>7. \A u \in Urls : IF says[u] = {} THEN marks'[u] = marks[u] ELSE marks'[u] \in says[u]
  <2>1. DOMAIN judged' = DOMAIN judged \cup looked
    BY <1>4
  <2>2. \A u \in looked : judged'[u] = (u \in good)
    BY <1>4
  <2>3. \A u \in DOMAIN judged \ looked : judged'[u] = judged[u]
    BY <1>4
  <2> QED
    BY <1>5, <2>1, <2>2, <2>3
<1>8. Filter!Settles(says)
  BY <1>5, <1>7 DEF Filter!Settles
<1>9. CASE pc' = "failed"
  <2>1. UNCHANGED final
    BY <1>4, <1>9
  <2>2. Filter!Aborts
    BY <1>9, <2>1 DEF Filter!Aborts
  <2> QED
    BY <1>1, <1>2, <1>6, <1>8, <1>9, <2>2 DEF Filter!Judge
<1>10. CASE pc' = "cross_verify"
  <2>1. PICK saved \in Survivors(kept) : final' \in Tags(saved)
    BY <1>4, <1>10
  <2>2. DOMAIN final' # {} /\ DOMAIN final' \subseteq kept
    BY <2>1, TagsKeepPages DEF Survivors
  <2>3. FilterLevel # "skip" => good \subseteq {u \in candidates : "keep" \in says[u]}
    BY <1>2, <1>5
  <2>4. Filter!Passes(says)
    BY <1>10, <2>2, <2>3 DEF Filter!Passes
  <2> QED
    BY <1>1, <1>2, <1>6, <1>8, <1>10, <2>4 DEF Filter!Judge
<1> QED
  BY <1>2, <1>9, <1>10

LEMMA FilterStep == TypeOK /\ [Next]_vars => [Filter!Next]_(Filter!vars)
<1> SUFFICES ASSUME TypeOK, [Next]_vars PROVE [Filter!Next]_(Filter!vars)
  OBVIOUS
<1>1. CASE StrategyPlanner
  <2>1. Filter!Plan
    BY <1>1 DEF StrategyPlanner, RouteAfterStrategy, pages, Filter!Plan
  <2> QED
    BY <2>1 DEF Filter!Next
<1>2. CASE CoarseFilter
  BY <1>2, CoarseFilterSplits DEF Filter!Next
<1>3. CASE LlmFilter
  BY <1>3, LlmFilterJudges DEF Filter!Next
<1>4. CASE NodeFails
  <2>1. pc # "failed"
    BY <1>4 DEF NodeFails, Breakable
  <2> QED
    BY <1>4, <2>1, RunGivenUp DEF NodeFails, plan, Filter!Next
<1>5. CASE GenerateReport
  <2>1. CASE pc' = "failed"
    BY <1>5, <2>1, RunGivenUp DEF GenerateReport, plan, Filter!Next
  <2>2. CASE pc' # "failed"
    BY <1>5, <2>2, OutsideTheFilter DEF GenerateReport, plan, Elsewhere
  <2> QED
    BY <2>1, <2>2
<1>6. CASE SearchReact
  <2>1. FilterLevel' = FilterLevel
    BY <1>6, LevelFixed DEF SearchReact, plan
  <2> QED
    BY <1>6, <2>1 DEF SearchReact, Filter!vars
<1>7. CASE AgentNode \/ IntentAnalyze \/ Approve \/ Summary
  BY <1>7, OutsideTheFilter
     DEF AgentNode, IntentAnalyze, BeforeSearch, Approve, Summary, plan, Elsewhere
<1>8. CASE CrossVerify \/ Atomize \/ Profile \/ Tripartite
  BY <1>8, OutsideTheFilter
     DEF CrossVerify, Atomize, Profile, AfterProfile, Tripartite, plan, Elsewhere
<1>9. CASE AtomizeLapses \/ ProfileLapses \/ TripartiteLapses
  BY <1>9, OutsideTheFilter
     DEF AtomizeLapses, ProfileLapses, TripartiteLapses, Lapse, AfterProfile, plan, Elsewhere
<1>10. ASSUME NEW open, pc = "arbitrate", LeaveVerify(open) PROVE UNCHANGED Filter!vars
  BY <1>10, OutsideTheFilter DEF LeaveVerify, BeforeSearch, plan, Elsewhere
<1>11. CASE Arbitrate \/ ArbitrateLapses
  BY <1>10, <1>11 DEF Arbitrate, ArbitrateLapses
<1>12. CASE UNCHANGED vars
  <2>1. FilterLevel' = FilterLevel
    BY <1>12, LevelFixed DEF vars, plan
  <2> QED
    BY <1>12, <2>1 DEF vars, pages, Filter!vars
<1> QED
  BY <1>1, <1>2, <1>3, <1>4, <1>5, <1>6, <1>7, <1>8, <1>9, <1>11, <1>12
     DEF Next, GraphStep, VerifyStep, Stopped

\* The two filter nodes of the graph implement the round that FilterBatches
\* implements with its batches: what a page of a report went through is said once.
THEOREM FilterImplements == Spec => FiltersByRounds
<1>1. Init => Filter!Init
  BY NothingStored DEF Init, Filter!Init
<1> QED
  BY <1>1, TypeInit, TypeStep, FilterStep, PTL DEF Spec, FiltersByRounds, Filter!Spec

-----------------------------------------------------------------------------
(* No run goes on for ever.                                                *)

\* Where a run is within a round: each node leads to one of lower rank, but for
\* the search, which takes a round.
Rank(p) ==
  CASE p = "coarse_filter" -> 11 [] p = "llm_filter" -> 10 [] p = "cross_verify" -> 9
    [] p = "atomize" -> 8 [] p = "profile" -> 7 [] p = "tripartite" -> 6
    [] p \in {"arbitrate", "intent_analyze"} -> 5
    [] p = "suspended" -> 4 [] p = "search_react" -> 3
    [] p \in {"generate_report_prompt", "agent_node"} -> 2
    [] p = "summary_node" -> 1 [] p \in {"failed", "end"} -> 0

\* The planner still fixes the limit: the request's own or that of a profile.
StepsLeft ==
  IF pc = "strategy_planner" THEN 9 * (request.rounds + 3) + 6
  ELSE IF pc \in {"failed", "end"} THEN 0
  ELSE 9 * (MaxRounds - round) + Rank(pc)

LEMMA ProfilesAreShort ==
  ASSUME NEW m
  PROVE  SpeedProfile(m).rounds \in 1..3
BY DEF SpeedProfile

LEMMA PlannedLimit ==
  ASSUME RoundInv, StrategyPlanner
  PROVE  MaxRounds' \in 1..(request.rounds + 3)
<1>1. PICK m \in Choices : limits' = PresetProfile(m)
  BY DEF StrategyPlanner
<1>2. request' = request /\ request.rounds \in Nat
  BY PipelineAssumption DEF StrategyPlanner, RoundInv, RequestType
<1>3. limits'.rounds \in 0..(request.rounds + 3)
  BY <1>1, <1>2, ProfilesAreShort DEF PresetProfile
<1>4. MaxRounds' = IF limits'.rounds # 0 THEN limits'.rounds ELSE SpeedProfile(request'.speed).rounds
  BY DEF MaxRounds
<1>5. SpeedProfile(request'.speed).rounds \in 1..3
  BY ProfilesAreShort
<1> QED
  BY <1>2, <1>3, <1>4, <1>5

LEMMA Ranks ==
  /\ Rank("coarse_filter") = 11 /\ Rank("llm_filter") = 10 /\ Rank("cross_verify") = 9
  /\ Rank("atomize") = 8 /\ Rank("profile") = 7 /\ Rank("tripartite") = 6
  /\ Rank("arbitrate") = 5 /\ Rank("intent_analyze") = 5
  /\ Rank("suspended") = 4 /\ Rank("search_react") = 3
  /\ Rank("generate_report_prompt") = 2 /\ Rank("agent_node") = 2
  /\ Rank("summary_node") = 1 /\ Rank("failed") = 0 /\ Rank("end") = 0
BY DEF Rank

LEMMA StepTakesOne ==
  ASSUME TypeOK, RoundInv, RoundInv', Next, vars' # vars
  PROVE  StepsLeft \in Nat /\ StepsLeft' \in Nat /\ StepsLeft' < StepsLeft
<1>0. /\ MaxRounds \in Nat \ {0} /\ round \in Nat /\ round <= MaxRounds
      /\ MaxRounds' \in Nat \ {0} /\ round' \in Nat /\ round' <= MaxRounds'
      /\ request.rounds \in Nat
  <2>1. request.rounds \in Nat
    BY PipelineAssumption DEF RoundInv, RequestType
  <2>2. MaxRounds \in Nat \ {0}
    BY LimitIsPositive DEF RoundInv
  <2>3. MaxRounds' \in Nat \ {0}
    BY ProfileRounds DEF RoundInv, MaxRounds
  <2> QED
    BY <2>1, <2>2, <2>3 DEF RoundInv
<1>1. Rank("failed") = 0 /\ Rank("end") = 0
  BY Ranks
<1>2. UNCHANGED <<request, limits>> => MaxRounds' = MaxRounds
  BY DEF MaxRounds
<1>3. CASE StrategyPlanner
  <2>1. pc = "strategy_planner" /\ round' = round /\ round = 0
    BY <1>3 DEF StrategyPlanner, RoundInv
  <2>2. pc' \in {"agent_node", "intent_analyze"}
    BY <1>3 DEF StrategyPlanner, RouteAfterStrategy
  <2>3. Rank(pc') \in {2, 5}
    BY <2>2, Ranks
  <2>4. MaxRounds' <= request.rounds + 3
    BY <1>0, <1>3, PlannedLimit
  <2> QED
    BY <1>0, <2>1, <2>2, <2>3, <2>4 DEF StepsLeft
<1>4. CASE SearchReact
  <2>1. /\ pc = "search_react" /\ pc' = "coarse_filter" /\ round' = round + 1
        /\ MaxRounds' = MaxRounds
    BY <1>2, <1>4 DEF SearchReact, plan
  <2>2. Rank(pc) = 3 /\ Rank(pc') = 11
    BY <2>1, Ranks
  <2> QED
    BY <1>0, <2>1, <2>2 DEF StepsLeft
<1>5. ASSUME UNCHANGED <<request, limits, round>>,
             pc # "strategy_planner", pc' # "strategy_planner",
             Rank(pc) \in Nat, Rank(pc') \in Nat, Rank(pc') < Rank(pc)
      PROVE  StepsLeft \in Nat /\ StepsLeft' \in Nat /\ StepsLeft' < StepsLeft
  BY <1>0, <1>1, <1>2, <1>5 DEF StepsLeft
<1>6. CASE AgentNode \/ IntentAnalyze \/ Approve \/ CoarseFilter \/ LlmFilter \/ GenerateReport
           \/ Summary
  <2>1. UNCHANGED <<request, limits, round>> /\ pc # "strategy_planner" /\ pc' # "strategy_planner"
    BY <1>6 DEF AgentNode, IntentAnalyze, BeforeSearch, Approve, CoarseFilter, LlmFilter,
                GenerateReport, Summary, plan
  <2>2. Rank(pc) \in Nat /\ Rank(pc') \in Nat /\ Rank(pc') < Rank(pc)
    <3>1. CASE AgentNode \/ Summary
      BY <3>1, Ranks DEF AgentNode, Summary
    <3>2. CASE IntentAnalyze \/ Approve
      BY <3>2, Ranks DEF IntentAnalyze, BeforeSearch, Approve
    <3>3. CASE CoarseFilter
      BY <3>3, Ranks DEF CoarseFilter
    <3>4. CASE LlmFilter
      <4>1. pc = "llm_filter" /\ pc' \in {"failed", "cross_verify"}
        BY <3>4 DEF LlmFilter
      <4> QED
        BY <4>1, Ranks
    <3>5. CASE GenerateReport
      <4>1. pc = "generate_report_prompt" /\ pc' \in {"summary_node", "failed"}
        BY <3>5 DEF GenerateReport
      <4> QED
        BY <4>1, Ranks
    <3> QED
      BY <1>6, <3>1, <3>2, <3>3, <3>4, <3>5
  <2> QED
    BY <1>5, <2>1, <2>2
<1>7. CASE CrossVerify \/ Atomize \/ Profile \/ Tripartite
  <2>1. UNCHANGED <<request, limits, round>> /\ pc # "strategy_planner" /\ pc' # "strategy_planner"
    BY <1>7 DEF CrossVerify, Atomize, Profile, AfterProfile, Tripartite, plan
  <2>2. Rank(pc) \in Nat /\ Rank(pc') \in Nat /\ Rank(pc') < Rank(pc)
    BY <1>7, Ranks DEF CrossVerify, Atomize, Profile, AfterProfile, Tripartite
  <2> QED
    BY <1>5, <2>1, <2>2
<1>8. CASE AtomizeLapses \/ ProfileLapses \/ TripartiteLapses
  <2>1. UNCHANGED <<request, limits, round>> /\ pc # "strategy_planner" /\ pc' # "strategy_planner"
    BY <1>8 DEF AtomizeLapses, ProfileLapses, TripartiteLapses, Lapse, AfterProfile, plan
  <2>2. Rank(pc) \in Nat /\ Rank(pc') \in Nat /\ Rank(pc') < Rank(pc)
    BY <1>8, Ranks DEF AtomizeLapses, ProfileLapses, TripartiteLapses, Lapse, AfterProfile
  <2> QED
    BY <1>5, <2>1, <2>2
<1>9. ASSUME NEW open, pc = "arbitrate", LeaveVerify(open)
      PROVE  StepsLeft \in Nat /\ StepsLeft' \in Nat /\ StepsLeft' < StepsLeft
  <2>1. UNCHANGED <<request, limits, round>>
    BY <1>9 DEF LeaveVerify, plan
  <2>2. pc' \in {"suspended", "search_react", "generate_report_prompt"}
    BY <1>9 DEF LeaveVerify, BeforeSearch
  <2>3. Rank(pc) = 5 /\ Rank(pc') \in {4, 3, 2}
    BY <1>9, <2>2, Ranks
  <2> QED
    BY <1>5, <1>9, <2>1, <2>2, <2>3
<1>10. CASE Arbitrate \/ ArbitrateLapses
  BY <1>9, <1>10 DEF Arbitrate, ArbitrateLapses
<1>11. CASE NodeFails
  <2>1. UNCHANGED <<request, limits, round>> /\ pc' = "failed"
    BY <1>11 DEF NodeFails, plan
  <2>2. Rank(pc') = 0
    BY <2>1, Ranks
  <2>3. CASE pc = "strategy_planner"
    BY <1>0, <2>1, <2>3 DEF StepsLeft
  <2>4. CASE pc # "strategy_planner"
    <3>1. pc \in {"agent_node", "intent_analyze", "search_react", "coarse_filter", "llm_filter",
                  "generate_report_prompt"}
      BY <1>11, <2>4 DEF NodeFails, Breakable
    <3>2. Rank(pc) \in Nat /\ Rank(pc) > 0
      BY <3>1, Ranks
    <3> QED
      BY <1>5, <2>1, <2>2, <2>4, <3>2
  <2> QED
    BY <2>3, <2>4
<1> QED
  BY <1>3, <1>4, <1>6, <1>7, <1>8, <1>10, <1>11 DEF Next, GraphStep, VerifyStep, Stopped

\* No run goes on for ever, with or without fairness: each step, an approval too,
\* takes one from a number that the rounds of the request bound from the start.
\* (With the fairness of the graph, whose part TLC checks, RunSettles follows.)
THEOREM StepsAreBounded == Spec => [][StepsLeft' \in Nat /\ StepsLeft' < StepsLeft]_vars
<1>1. TypeOK /\ RoundInv /\ RoundInv' /\ [Next]_vars
        => [StepsLeft' \in Nat /\ StepsLeft' < StepsLeft]_vars
  BY StepTakesOne
<1> QED
  BY <1>1, TypeInit, TypeStep, RoundAlways, PTL DEF Spec

=============================================================================
