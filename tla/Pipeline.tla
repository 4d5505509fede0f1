------------------------------ MODULE Pipeline ------------------------------
(***************************************************************************)
(* One task on its way through the research graph: the planner, the agent  *)
(* shortcut, the search rounds with their two filters, the verification    *)
(* subgraph, the report.  A node is a step; its state is what the graph    *)
(* checkpoints and what the research store keeps between the nodes.  The   *)
(* language models and the search engines answer anything.                 *)
(* Code: backend/pipeline/graph.py, nodes/*.py, subgraphs/verify/*.py,     *)
(* services/filter_service.py; for the approval services/sse/manager.py,   *)
(* worker.py and frontend/src/features/chat/BreakpointHandler.tsx.         *)
(***************************************************************************)
EXTENDS Integers, Functions

CONSTANTS
  Dims,      \* research dimensions a plan may consist of
  Urls,      \* web pages the searches may find
  Facts,     \* statements the pages may contain
  UrlDim,    \* the dimension a page was found for, Untagged if none was given
  FactUrl,   \* the page a statement is drawn from
  Weight,    \* importance of a statement
  Relevant,  \* pages whose score passes the coarse filter
  Paged,     \* reading the search results returns one page of them only
  Requests   \* the requests to be looked at

Untagged == "untagged"
General == "general"     \* where statements of untagged pages are grouped
AgentModes == {"fast_react", "expert_search"}
Modes == AgentModes \cup {"research_pipeline"}
Levels == {"skip", "standard", "strict"}

\* What a request fixes: the mode chosen on the page, what its text and its
\* session are like, whether plans are to be approved, and the preset's own
\* limits (0 and "unset": left to the profile of the mode).
RequestType ==
  [speed : Modes \cup {"auto"}, auto : BOOLEAN, social : BOOLEAN,
   followUp : BOOLEAN, answered : BOOLEAN, hitl : BOOLEAN,
   rounds : Nat, level : Levels \cup {"unset"}]

ASSUME PipelineAssumption ==
  /\ UrlDim \in [Urls -> Dims \cup {Untagged}]
  /\ FactUrl \in [Facts -> Urls]
  /\ Weight \in [Facts -> {"direct", "indirect", "other"}]
  /\ Relevant \subseteq Urls
  /\ Paged \in BOOLEAN
  /\ Requests \subseteq RequestType
  /\ {Untagged, General} \cap Dims = {}
  /\ Dims # {}

VARIABLES
  request,
  pc,            \* the next node, or how the run stopped
  mode,          \* control.execution_mode
  limits,        \* strategy_overrides: rounds and verification level
  dedup,         \* dedup_intensity
  dims,          \* dimensions
  card,          \* payload of the breakpoint event, shown on the approval card
  approvals,     \* history: approvals so far
  round,         \* search_round
  found,         \* pages saved by the searches of the session
  valuable,      \* valuable_urls
  candidates,    \* _filter_candidates
  cached,        \* _filter_cached
  judged,        \* store "filter_cache": keep or drop, per page judged
  final,         \* store "filtered"/"final": the kept pages with their dimension
  claims,        \* verification subgraph: statements with dimension and verdict
  missing,       \* verification subgraph: insufficient_dimensions after atomize
  lapsed,        \* verification subgraph: its nodes that logged an error
  conflicts,     \* conflict_dimensions
  insufficient,  \* insufficient_dimensions
  stored,        \* store "claims"/"final"
  proven,        \* proven_facts
  report         \* where the answer came from

plan == <<mode, limits, dedup>>
pages == <<found, valuable, candidates, cached, judged, final>>
verification == <<claims, missing, lapsed>>
outcome == <<conflicts, insufficient, stored, proven>>
approval == <<card, approvals>>
vars == <<request, pc, plan, dims, approval, round, pages, verification, outcome,
          report>>

\* "consistent" also stands for mostly_consistent, which is treated alike.
Verdicts == {"consistent", "contradictory", "single_source", "unverifiable"}
Claim == [dim : Dims \cup {General}, verdict : Verdicts \cup {"none"}]
MapsInto(S, T) == UNION {[D -> T] : D \in SUBSET S}

Nodes ==
  {"strategy_planner", "agent_node", "intent_analyze", "search_react",
   "coarse_filter", "llm_filter", "cross_verify", "atomize", "profile", "tripartite",
   "arbitrate", "generate_report_prompt", "summary_node"}

TypeOK ==
  /\ request \in Requests
  /\ pc \in Nodes \cup {"suspended", "failed", "end"}
  /\ mode \in Modes \cup {"auto", "preset"}
  /\ limits \in [rounds : Nat, level : Levels \cup {"unset"}]
  /\ dedup \in {"relaxed", "standard", "strict"}
  /\ dims \subseteq Dims /\ card \subseteq Dims
  /\ approvals \in Nat /\ round \in Nat
  /\ found \subseteq Urls /\ valuable \subseteq Urls
  /\ candidates \subseteq Urls /\ cached \subseteq Urls
  /\ judged \in MapsInto(Urls, BOOLEAN)
  /\ final \in MapsInto(Urls, Dims \cup {General})
  /\ claims \in MapsInto(Facts, Claim) /\ stored \in MapsInto(Facts, Claim)
  /\ missing \subseteq Dims
  /\ lapsed \subseteq Nodes
  /\ conflicts \subseteq Dims \cup {General}
  /\ insufficient \subseteq Dims \cup {General}
  /\ proven \subseteq Facts
  /\ report \in {"none", "agent", "earlier answer", "pipeline"}

\* create_initial_state; a follow-up finds the pages of the session's tasks.
Init ==
  /\ request \in Requests
  /\ pc = "strategy_planner"
  /\ mode = IF request.auto THEN "auto" ELSE "preset"
  /\ limits = [rounds |-> 0, level |-> "unset"]
  /\ dedup = "standard"
  /\ dims = {} /\ card = {}
  /\ approvals = 0 /\ round = 0
  /\ found \in IF request.followUp THEN SUBSET Urls ELSE {{}}
  /\ valuable = {} /\ candidates = {} /\ cached = {}
  /\ judged = <<>> /\ final = <<>>
  /\ claims = <<>> /\ missing = {} /\ lapsed = {}
  /\ conflicts = {} /\ insufficient = {} /\ stored = <<>> /\ proven = {}
  /\ report = "none"

-----------------------------------------------------------------------------
(* Limits: SPEED_PROFILES and what the planner makes of them.              *)

SpeedProfile(m) ==
  IF m = "fast_react" THEN [rounds |-> 1, level |-> "skip"]
  ELSE IF m = "expert_search" THEN [rounds |-> 2, level |-> "standard"]
  ELSE [rounds |-> 3, level |-> "strict"]

\* _build_preset_profile: the preset's own value, else the profile of the mode;
\* a mode without a profile leaves the field out.
PresetProfile(m) ==
  LET profile == IF m \in Modes THEN SpeedProfile(m) ELSE [rounds |-> 0, level |-> "unset"]
  IN  [rounds |-> IF request.rounds # 0 THEN request.rounds ELSE profile.rounds,
       level  |-> IF request.level # "unset" THEN request.level ELSE profile.level]

MaxRounds ==
  IF limits.rounds # 0 THEN limits.rounds ELSE SpeedProfile(request.speed).rounds

DefaultLevel == SpeedProfile(request.speed).level

\* _resolve_verification_level, for the verification subgraph.
VerificationLevel ==
  CASE limits.level # "unset" -> limits.level
    [] limits.level = "unset" /\ dedup = "strict"   -> "skip"
    [] limits.level = "unset" /\ dedup = "relaxed"  ->
         IF DefaultLevel = "skip" THEN "skip" ELSE "strict"
    [] OTHER -> DefaultLevel

\* The filter looks at the limits and the profile only.
FilterLevel == IF limits.level # "unset" THEN limits.level ELSE DefaultLevel

-----------------------------------------------------------------------------
(* Planning.                                                               *)

\* _route_after_strategy.
RouteAfterStrategy ==
  IF request.speed \in AgentModes THEN "agent_node" ELSE "intent_analyze"

\* strategy_planner_node: small talk is answered at once, a mode chosen on the
\* page is taken as it is, "auto" asks the model, and a follow-up gets at most
\* the expert mode.
Choices ==
  CASE request.social -> {"fast_react"}
    [] ~request.social /\ ~request.auto -> {request.speed}
    [] OTHER -> IF request.followUp THEN AgentModes ELSE Modes

StrategyPlanner ==
  /\ pc = "strategy_planner"
  /\ \E m \in Choices :
       /\ mode' = m
       /\ limits' = PresetProfile(m)
  /\ pc' = RouteAfterStrategy
  /\ UNCHANGED <<request, dedup, dims, approval, round, pages, verification, outcome,
                 report>>

\* agent_wrapper_node; an agent that ends without a text leaves no report.
AgentNode ==
  /\ pc = "agent_node"
  /\ report' \in {"agent", "none"}
  /\ pc' = "summary_node"
  /\ UNCHANGED <<request, plan, dims, approval, round, pages, verification, outcome>>

\* Mutant: only the first search is interrupted.
BeforeSearchOnce ==
  /\ pc' = IF request.hitl /\ approvals = 0 THEN "suspended" ELSE "search_react"
  /\ card' = IF request.hitl THEN {} ELSE card

\* interrupt_before search_react.  The breakpoint event takes "dimensions" from
\* the top of the state, where there is no such field, so its payload is empty.
BeforeSearch ==
  /\ pc' = IF request.hitl THEN "suspended" ELSE "search_react"
  /\ card' = IF request.hitl THEN {} ELSE card

\* intent_node: never an empty plan.
IntentAnalyze ==
  /\ pc = "intent_analyze"
  /\ dims' \in (SUBSET Dims) \ {{}}
  /\ dedup' \in {"relaxed", "standard", "strict"}
  /\ BeforeSearch
  /\ UNCHANGED <<request, mode, limits, approvals, round, pages, verification, outcome,
                 report>>

\* The user takes dimensions off the card and adds others; the resumed run
\* writes what the card holds into the state and goes on.
Approve ==
  /\ pc = "suspended"
  /\ \E removed \in SUBSET card, added \in SUBSET Dims :
       dims' = (card \ removed) \cup added
  /\ approvals' = approvals + 1
  /\ pc' = "search_react"
  /\ UNCHANGED <<request, plan, card, round, pages, verification, outcome, report>>

-----------------------------------------------------------------------------
(* A search round.                                                         *)

\* Mutant: the round is not counted when the search found nothing new.
SearchReactUncounted ==
  /\ pc = "search_react"
  /\ \E new \in SUBSET Urls :
       /\ found' = found \cup new
       /\ round' = IF new \subseteq found THEN round ELSE round + 1
  /\ valuable' \in SUBSET found'
  /\ pc' = "coarse_filter"
  /\ UNCHANGED <<request, plan, dims, approval, candidates, cached, judged, final,
                 verification, outcome, report>>

\* search_react_wrapper_node: an agent searches, then names valuable pages.
SearchReact ==
  /\ pc = "search_react"
  /\ \E new \in SUBSET Urls : found' = found \cup new
  /\ valuable' \in SUBSET found'
  /\ round' = round + 1
  /\ pc' = "coarse_filter"
  /\ UNCHANGED <<request, plan, dims, approval, candidates, cached, judged, final,
                 verification, outcome, report>>

Loads == IF Paged THEN SUBSET found ELSE {found}

\* _extract_valuable_results: the valuable pages, or all if there are none.
Extracted(loaded) == IF valuable \cap loaded # {} THEN valuable \cap loaded ELSE loaded

\* Mutant: a page in the cache counts as kept, whatever the verdict was.
CoarseFilterTrusting ==
  /\ pc = "coarse_filter"
  /\ \E loaded \in Loads :
       LET passed == Extracted(loaded) \cap Relevant
       IN  IF passed = {}
             THEN final' = <<>> /\ UNCHANGED <<candidates, cached>>
             ELSE /\ candidates' = passed \ DOMAIN judged
                  /\ cached' = passed \cap DOMAIN judged
                  /\ UNCHANGED final
  /\ pc' = "llm_filter"
  /\ UNCHANGED <<request, plan, dims, approval, round, found, valuable, judged,
                 verification, outcome, report>>

\* coarse_filter_node.  Without a candidate it empties the stored result and
\* leaves the candidates of the earlier round in the state.
CoarseFilter ==
  /\ pc = "coarse_filter"
  /\ \E loaded \in Loads :
       LET passed == Extracted(loaded) \cap Relevant
       IN  IF passed = {}
             THEN final' = <<>> /\ UNCHANGED <<candidates, cached>>
             ELSE /\ candidates' = passed \ DOMAIN judged
                  /\ cached' = {u \in passed \cap DOMAIN judged : judged[u]}
                  /\ UNCHANGED final
  /\ pc' = "llm_filter"
  /\ UNCHANGED <<request, plan, dims, approval, round, found, valuable, judged,
                 verification, outcome, report>>

\* Pages without a dimension get the first one of the plan, whose order is open.
Tags(kept) ==
  {[u \in kept |-> IF UrlDim[u] # Untagged THEN UrlDim[u] ELSE first] :
     first \in IF dims = {} THEN {General} ELSE dims}

\* What survives deduplication and the token budget: something, of something.
Survivors(kept) == (SUBSET kept) \ {{}}

\* llm_filter_node.  Batches whose call fails judge nothing; without a page left
\* the run is aborted.
LlmFilter ==
  /\ pc = "llm_filter"
  /\ \E looked \in IF FilterLevel = "skip" THEN {{}} ELSE SUBSET candidates :
     \E good \in SUBSET looked :
       LET kept == cached \cup IF FilterLevel = "skip" THEN candidates ELSE good
       IN  /\ judged' = [u \in DOMAIN judged \cup looked |->
                           IF u \in looked THEN u \in good ELSE judged[u]]
           /\ \/ /\ kept = {}
                 /\ pc' = "failed"
                 /\ UNCHANGED final
              \/ /\ \E saved \in Survivors(kept) : final' \in Tags(saved)
                 /\ pc' = "cross_verify"
  /\ UNCHANGED <<request, plan, dims, approval, round, found, valuable, candidates, cached,
                 verification, outcome, report>>

-----------------------------------------------------------------------------
(* The verification subgraph.                                              *)

\* Mutant: the subgraph goes on from the claims of the round before.
CrossVerifyKeepsClaims ==
  /\ pc = "cross_verify"
  /\ lapsed' = {}
  /\ pc' = IF VerificationLevel = "skip" THEN "profile" ELSE "atomize"
  /\ UNCHANGED <<request, plan, dims, approval, round, pages, claims, missing, outcome,
                 report>>

\* cross_verify_wrapper_node starts the subgraph with a state of its own.
CrossVerify ==
  /\ pc = "cross_verify"
  /\ claims' = <<>> /\ missing' = {} /\ lapsed' = {}
  /\ pc' = IF VerificationLevel = "skip" THEN "profile" ELSE "atomize"
  /\ UNCHANGED <<request, plan, dims, approval, round, pages, outcome, report>>

Unjudged(S, sources) == [f \in S |-> [dim |-> sources[FactUrl[f]], verdict |-> "none"]]

\* Mutant: without a source nothing is reported missing.
AtomizeForgets ==
  /\ pc = "atomize"
  /\ \E sources \in {final, <<>>} :
       /\ \E S \in SUBSET {f \in Facts : FactUrl[f] \in DOMAIN sources} :
            claims' = Unjudged(S, sources)
       /\ missing' = IF sources = <<>> THEN missing ELSE dims \ Range(sources)
  /\ pc' = "profile"
  /\ UNCHANGED <<request, plan, dims, approval, round, pages, lapsed, outcome, report>>

\* atomize_node; sources that cannot be loaded count as none.
Atomize ==
  /\ pc = "atomize"
  /\ \E sources \in {final, <<>>} :
       /\ \E S \in SUBSET {f \in Facts : FactUrl[f] \in DOMAIN sources} :
            claims' = Unjudged(S, sources)
       /\ missing' = dims \ Range(sources)
  /\ pc' = "profile"
  /\ UNCHANGED <<request, plan, dims, approval, round, pages, lapsed, outcome, report>>

\* profile_node: its scores enter the confidence only.
AfterProfile == IF VerificationLevel = "skip" THEN "arbitrate" ELSE "tripartite"

Profile ==
  /\ pc = "profile"
  /\ pc' = AfterProfile
  /\ UNCHANGED <<request, plan, dims, approval, round, pages, verification, outcome, report>>

Direct == {f \in DOMAIN claims : Weight[f] = "direct"}

\* Verdicts v for the statements J, written into the claims.
Judge(J, v) ==
  [f \in DOMAIN claims |-> IF f \in J THEN [claims[f] EXCEPT !.verdict = v[f]] ELSE claims[f]]

\* tripartite_node: direct statements get a verdict, indirect ones are handed
\* on without, statements of any other weight are dropped.
Tripartite ==
  /\ pc = "tripartite"
  /\ \E v \in [Direct -> Verdicts] :
       claims' = IF Direct = {} THEN claims
                 ELSE Restrict(Judge(Direct, v), {f \in DOMAIN claims : Weight[f] # "other"})
  /\ pc' = "arbitrate"
  /\ UNCHANGED <<request, plan, dims, approval, round, pages, missing, lapsed, outcome, report>>

\* A subgraph node catches its exception, logs it and hands on what it has; the
\* judge may have written some verdicts before.
Lapse(node, next) ==
  /\ pc = node
  /\ lapsed' = lapsed \cup {node}
  /\ pc' = next
  /\ UNCHANGED <<request, plan, dims, approval, round, pages, missing, outcome, report>>

AtomizeLapses == Lapse("atomize", "profile") /\ UNCHANGED claims

ProfileLapses == Lapse("profile", AfterProfile) /\ UNCHANGED claims

TripartiteLapses ==
  /\ Lapse("tripartite", "arbitrate")
  /\ \E J \in SUBSET Direct : \E v \in [J -> Verdicts] : claims' = Judge(J, v)

\* Mutant: one round more than allowed.
RouteAfterVerifyLate(open) == open # {} /\ round <= MaxRounds

\* Mutant: one round fewer than allowed.
RouteAfterVerifyEarly(open) == open # {} /\ round + 1 < MaxRounds

\* _route_after_verify: search again.
SearchMore(open) == open # {} /\ round < MaxRounds

\* cross_verify_wrapper_node returns what the subgraph found.
LeaveVerify(open) ==
  /\ conflicts' = open
  /\ IF SearchMore(open) THEN BeforeSearch
       ELSE pc' = "generate_report_prompt" /\ UNCHANGED card
  /\ UNCHANGED <<request, plan, dims, approvals, round, pages, claims, missing, report>>

Contradicted == {claims[f].dim : f \in {g \in DOMAIN claims : claims[g].verdict = "contradictory"}}

\* Dimensions whose statements were all found unverifiable or not judged.
Unsupported ==
  {d \in {claims[f].dim : f \in DOMAIN claims} :
     \A f \in DOMAIN claims :
       claims[f].dim = d => claims[f].verdict \in {"unverifiable", "none"}}

Agreed == {f \in DOMAIN claims : claims[f].verdict = "consistent"}

\* arbitrate_node.
Arbitrate ==
  /\ pc = "arbitrate"
  /\ stored' = claims
  /\ proven' = proven \cup Agreed
  /\ insufficient' = missing \cup Unsupported
  /\ UNCHANGED lapsed
  /\ LeaveVerify(Contradicted)

\* Its except branch, before or after the claims were saved: no conflicts, and
\* of the insufficient dimensions those of atomize.
ArbitrateLapses ==
  /\ pc = "arbitrate"
  /\ stored' \in {stored, claims}
  /\ insufficient' = missing
  /\ lapsed' = lapsed \cup {"arbitrate"}
  /\ UNCHANGED proven
  /\ LeaveVerify({})

-----------------------------------------------------------------------------
(* The report.                                                             *)

\* report_node: in an agent mode the draft of the agent, which did not run, or
\* else the last answer of the session; otherwise a report from the claims.
GenerateReport ==
  /\ pc = "generate_report_prompt"
  /\ \/ /\ mode \in AgentModes /\ request.answered
        /\ report' = "earlier answer" /\ pc' = "summary_node"
     \/ /\ mode \in AgentModes /\ ~request.answered
        /\ report' = report /\ pc' = "failed"
     \/ /\ mode \notin AgentModes
        /\ report' = "pipeline" /\ pc' = "summary_node"
  /\ UNCHANGED <<request, plan, dims, approval, round, pages, verification, outcome>>

\* summary_node catches its own failure.
Summary ==
  /\ pc = "summary_node"
  /\ pc' = "end"
  /\ UNCHANGED <<request, plan, dims, approval, round, pages, verification, outcome, report>>

\* Nodes whose exceptions end the run; the planner calls a model for "auto" only.
Breakable ==
  {"agent_node", "intent_analyze", "search_react", "coarse_filter", "llm_filter",
   "generate_report_prompt"}
    \cup IF request.auto /\ ~request.social THEN {"strategy_planner"} ELSE {}

NodeFails ==
  /\ pc \in Breakable
  /\ pc' = "failed"
  /\ UNCHANGED <<request, plan, dims, approval, round, pages, verification, outcome, report>>

Stopped == pc \in {"failed", "end"} /\ UNCHANGED vars

-----------------------------------------------------------------------------

VerifyStep ==
  \/ CrossVerify \/ Atomize \/ AtomizeLapses \/ Profile \/ ProfileLapses
  \/ Tripartite \/ TripartiteLapses \/ Arbitrate \/ ArbitrateLapses

GraphStep ==
  \/ StrategyPlanner \/ AgentNode \/ IntentAnalyze
  \/ SearchReact \/ CoarseFilter \/ LlmFilter
  \/ VerifyStep
  \/ GenerateReport \/ Summary \/ NodeFails

Next == GraphStep \/ Approve \/ Stopped

Spec == Init /\ [][Next]_vars

\* The graph runs until it ends or is interrupted: every model call has a
\* timeout or fails, and the task stays on its worker.  Users owe nothing.
FairSpec == Spec /\ WF_vars(GraphStep)

-----------------------------------------------------------------------------
(* Properties.                                                             *)

\* No request searches more rounds than its limit, wherever the limit comes from
\* (_route_after_verify against the count kept by search_react_wrapper_node).
RoundsAreBounded == round <= MaxRounds

\* With approval switched on, every search had an approval of its own, also the
\* further searches the verification asks for (interrupt_before).
SearchNeedsApproval ==
  request.hitl =>
    /\ round <= approvals
    /\ pc = "search_react" => round < approvals

\* Unless filtering is skipped, a page in the stored result was judged worth
\* keeping, in this round or in the one its cached judgement comes from.
KeptSourcesWereJudged ==
  FilterLevel # "skip" =>
    \A u \in DOMAIN final : u \in DOMAIN judged /\ judged[u]

\* A research report rests on at least one page, and on statements of the pages
\* that are in the result now, under the dimension they have there: nothing of
\* an earlier round is left (save_claims, save_filtered_results).  An arbitration
\* that failed may have left the statements of the round before.
ReportRestsOnCurrentSources ==
  report = "pipeline" =>
    /\ final # <<>>
    /\ "arbitrate" \notin lapsed =>
         \A f \in DOMAIN stored :
           FactUrl[f] \in DOMAIN final /\ stored[f].dim = final[FactUrl[f]]

\* A report that shows a conflict was written because the rounds were used up,
\* and the conflicts it shows are those of the statements it is written from.
ConflictsAreSettledOrShown ==
  report = "pipeline" =>
    /\ conflicts # {} => round = MaxRounds
    /\ "arbitrate" \notin lapsed =>
         conflicts = {stored[f].dim : f \in {g \in DOMAIN stored : stored[g].verdict = "contradictory"}}

\* A verified report says "not enough information" of every planned dimension
\* for which no page is left, and never of one it shows a conflict for.
DimensionsAreAccountedFor ==
  report = "pipeline" /\ lapsed = {} /\ VerificationLevel # "skip" =>
    /\ dims \subseteq Range(final) \cup insufficient
    /\ conflicts \cap insufficient = {}

\* The nodes coarse_filter and llm_filter keep the promise of FilterRound, which the
\* batches of FilterBatches keep: a cached verdict decides again as it did, a page
\* that passes was let pass, and nothing between two rounds touches the verdicts,
\* the lists of the round or the pages kept.
Filter == INSTANCE FilterRound WITH
  phase <- CASE pc = "strategy_planner" -> "unplanned"
             [] pc = "llm_filter" -> "split"
             [] pc = "failed" -> "aborted"
             [] OTHER -> "between",
  level <- IF FilterLevel = "skip" THEN "skip" ELSE "standard",
  need  <- candidates,
  hits  <- cached,
  cache <- [u \in Urls |-> IF u \notin DOMAIN judged THEN "none"
                           ELSE IF judged[u] THEN "keep" ELSE "drop"],
  final <- DOMAIN final
FiltersByRounds == Filter!Spec

\* Every run comes to an end or to the user, from wherever it was resumed:
\* conflicts do not keep it searching.
RunSettles == []<>(pc \in {"suspended", "failed", "end"})
=============================================================================
