----------------------------- MODULE MCPipeline -----------------------------
(***************************************************************************)
(* Small instances of Pipeline for TLC.                                    *)
(***************************************************************************)
EXTENDS Pipeline, TLC

CONSTANTS d1, d2, u1, u2, u3, f1, f2

\* One page is found for a dimension and one for none; each yields a statement,
\* and only one of the two is compared across sources.  A third page never
\* passes the coarse filter.
MCUrlDim == u1 :> d1 @@ u2 :> Untagged @@ u3 :> d2
MCFactUrl == f1 :> u1 @@ f2 :> u2
MCWeight == f1 :> "direct" @@ f2 :> "indirect"

\* A request for a research report with two rounds, verified.
Research ==
  [speed |-> "research_pipeline", auto |-> FALSE, social |-> FALSE,
   followUp |-> FALSE, answered |-> FALSE, hitl |-> FALSE,
   rounds |-> 2, level |-> "standard"]

\* The cases of the limits, of the approval and of the routes.
MCRequests ==
  {[Research EXCEPT !.hitl = TRUE],
   [Research EXCEPT !.rounds = 1, !.level = "skip"],
   [Research EXCEPT !.speed = "expert_search"],
   [Research EXCEPT !.auto = TRUE, !.rounds = 1],
   [Research EXCEPT !.speed = "auto", !.rounds = 0, !.level = "unset"],
   [Research EXCEPT !.auto = TRUE, !.followUp = TRUE, !.answered = TRUE,
                    !.rounds = 1, !.level = "unset"],
   [Research EXCEPT !.social = TRUE, !.rounds = 0, !.level = "unset"]}

=============================================================================
