---------------------------- MODULE VerifyJudges ----------------------------
(***************************************************************************)
(* The judging of statements across sources, inside the verification       *)
(* subgraph: the statements of a dimension are judged alone or in batches, *)
(* dimensions and batches run side by side behind two levels of            *)
(* semaphores, a batch that fails is judged one by one, and statements     *)
(* with a single source get a check of their own.                          *)
(* Code: backend/pipeline/subgraphs/verify/tripartite.py.                  *)
(***************************************************************************)
EXTENDS Integers, FiniteSets

CONSTANTS
  NumClaims,    \* bound: statements atomize may give
  Dims,
  DimOf,        \* the dimension of a statement
  Importance,   \* primary, secondary, indirect or a word the model made up
  Items,        \* the filtered pages
  ItemDim,
  MinEvidence,  \* min_evidence_per_claim
  MaxEvidence,  \* TRIPARTITE_MAX_EVIDENCE
  DimMax,       \* TRIPARTITE_MAX_CONCURRENCY
  BatchMax,     \* _MAX_CLAIMS_PER_BATCH
  ChunkMax,     \* batch_sem
  Inputs        \* the sets of statements to be looked at

Claims == 1..NumClaims   \* in the order of the list
General == "general"

ASSUME JudgesAssumption ==
  /\ NumClaims \in Nat
  /\ DimOf \in [Claims -> Dims \cup {General}]
  /\ Importance \in [Claims -> {"primary", "secondary", "indirect", "other"}]
  /\ IsFiniteSet(Items) /\ ItemDim \in [Items -> Dims \cup {General}]
  /\ {MinEvidence, MaxEvidence} \subseteq Nat
  /\ {DimMax, BatchMax, ChunkMax} \subseteq Nat \ {0}
  /\ Inputs \subseteq SUBSET Claims

VARIABLES
  claims,    \* the statements given
  pc,        \* of the node: start, judging, done, failed
  dim,       \* of a dimension's coroutine
  chunk,     \* of a batch's coroutine
  left,      \* statements of failed batches still to be judged one by one
  extra,     \* statements a dimension has still to look through for the check
  verdict,
  basis      \* what the score of a statement rests on

progress == <<dim, chunk, left, extra>>
judgement == <<verdict, basis>>
vars == <<claims, pc, progress, judgement>>

\* "judged" stands for every verdict but single_source.
Verdicts == {"judged", "single_source"}
Bases == {"judge", "credibility", "factuality"}

\* to_verify and its grouping by dimension
Counts(c) == Importance[c] \in {"primary", "secondary"}
Direct == {c \in claims : Counts(c)}
Group(d) == {c \in Direct : DimOf[c] = d}
Groups == {DimOf[c] : c \in Direct}

\* The list of a dimension is cut into slices; for each list, the slice of each statement.
Cut ==
  [list \in Inputs |->
     [c \in list |->
        Cardinality({e \in list : Counts(e) /\ DimOf[e] = DimOf[c] /\ e < c}) \div BatchMax]]
Chunks(d) == {<<d, Cut[claims][c]>> : c \in Group(d)}
Slice(k) == {c \in Group(k[1]) : Cut[claims][c] = k[2]}
Keys == {<<DimOf[c], Cut[claims][c]>> : c \in Direct}

TypeOK ==
  /\ claims \in Inputs
  /\ pc \in {"start", "judging", "done", "failed"}
  /\ dim \in [Dims \cup {General} -> {"absent", "waiting", "single", "chunks", "extra", "done"}]
  /\ chunk \in [Keys -> {"absent", "waiting", "batch", "each", "done"}]
  /\ left \subseteq Direct /\ extra \subseteq Direct
  /\ verdict \in [Claims -> Verdicts \cup {"none"}]
  /\ basis \in [Claims -> Bases \cup {"none"}]

Init ==
  /\ claims \in Inputs
  /\ pc = "start"
  /\ dim = [d \in Dims \cup {General} |-> "absent"]
  /\ chunk = [k \in Keys |-> "absent"]
  /\ left = {} /\ extra = {}
  /\ verdict = [c \in Claims |-> "none"]
  /\ basis = [c \in Claims |-> "none"]

-----------------------------------------------------------------------------
(* Evidence.                                                               *)

\* Pages of the statement's dimension and untagged ones; all pages if too few.
Pool(c) ==
  LET near == {i \in Items : ItemDim[i] \in {DimOf[c], General}}
  IN IF Cardinality(near) < MinEvidence /\ Cardinality(Items) >= MinEvidence
     THEN Items ELSE near

Cap == IF MaxEvidence < MinEvidence THEN MinEvidence ELSE MaxEvidence
Evidence(c) == IF Cardinality(Pool(c)) < Cap THEN Cardinality(Pool(c)) ELSE Cap
Lone(c) == Evidence(c) < 2

\* The check of a statement without a second source, from the model's own
\* knowledge; if it fails the credibility of the page counts.
Checked == {"factuality", "credibility"}

\* How a statement may come out that is judged by itself.
Alone(c, v, b) ==
  \/ Lone(c) /\ Importance[c] = "primary" /\ v = "single_source" /\ b \in Checked
  \/ Lone(c) /\ Importance[c] # "primary" /\ v = "single_source" /\ b = "credibility"
  \/ ~Lone(c) /\ v \in Verdicts /\ b = "judge"

JudgeAlone(c) ==
  \E v \in Verdicts, b \in Bases :
    /\ Alone(c, v, b)
    /\ verdict' = [verdict EXCEPT ![c] = v]
    /\ basis' = [basis EXCEPT ![c] = b]

-----------------------------------------------------------------------------
(* The node.                                                               *)

Start ==
  /\ pc = "start"
  /\ pc' = IF Direct = {} THEN "done" ELSE "judging"
  /\ dim' = [d \in DOMAIN dim |-> IF d \in Groups THEN "waiting" ELSE "absent"]
  /\ UNCHANGED <<claims, chunk, left, extra, judgement>>

\* No model for the stage, or no vectors: the statements stay as they are.
NodeFails ==
  /\ pc = "start" /\ Direct # {}
  /\ pc' = "failed"
  /\ UNCHANGED <<claims, progress, judgement>>

Busy == {"single", "chunks", "extra"}
DimSlotFree == Cardinality({d \in DOMAIN dim : dim[d] \in Busy}) < DimMax

StartDim(d) ==
  /\ pc = "judging" /\ dim[d] = "waiting" /\ DimSlotFree
  /\ IF Cardinality(Group(d)) = 1
     THEN dim' = [dim EXCEPT ![d] = "single"] /\ UNCHANGED chunk
     ELSE /\ dim' = [dim EXCEPT ![d] = "chunks"]
          /\ chunk' = [k \in Keys |-> IF k \in Chunks(d) THEN "waiting" ELSE chunk[k]]
  /\ UNCHANGED <<claims, pc, left, extra, judgement>>

JudgeSingle(d) ==
  /\ dim[d] = "single"
  /\ \E c \in Group(d) : JudgeAlone(c)
  /\ dim' = [dim EXCEPT ![d] = "done"]
  /\ UNCHANGED <<claims, pc, chunk, left, extra>>

\* Only a dimension cut into several batches has a semaphore for them.
ActiveChunks(d) == {k \in Chunks(d) : chunk[k] \in {"batch", "each"}}
ChunkSlotFree(d) == Cardinality(ActiveChunks(d)) < ChunkMax

AskBatch(k) ==
  /\ dim[k[1]] = "chunks" /\ chunk[k] = "waiting" /\ ChunkSlotFree(k[1])
  /\ chunk' = [chunk EXCEPT ![k] = "batch"]
  /\ UNCHANGED <<claims, pc, dim, left, extra, judgement>>

\* Statements the answer leaves out are unverifiable.
BatchAnswers(k) ==
  /\ chunk[k] = "batch"
  /\ \E v \in [Slice(k) -> Verdicts] :
       verdict' = [c \in Claims |-> IF c \in DOMAIN v THEN v[c] ELSE verdict[c]]
  /\ basis' = [c \in Claims |-> IF c \in Slice(k) THEN "judge" ELSE basis[c]]
  /\ chunk' = [chunk EXCEPT ![k] = "done"]
  /\ UNCHANGED <<claims, pc, dim, left, extra>>

\* Fault: a batch that failed returns nothing.
BatchFailsEmpty(k) ==
  /\ chunk[k] = "batch"
  /\ chunk' = [chunk EXCEPT ![k] = "done"]
  /\ UNCHANGED <<claims, pc, dim, left, extra, judgement>>

\* Timeout, or no list: one by one.
BatchFails(k) ==
  /\ chunk[k] = "batch"
  /\ chunk' = [chunk EXCEPT ![k] = "each"]
  /\ left' = left \cup Slice(k)
  /\ UNCHANGED <<claims, pc, dim, extra, judgement>>

First(c, S) == c \in S /\ \A e \in S : c <= e

\* Fault: a statement is judged until the answer is liked.
JudgeNextAgain(k) ==
  /\ chunk[k] = "each"
  /\ \E c \in left : First(c, left \cap Slice(k)) /\ JudgeAlone(c)
  /\ UNCHANGED <<claims, pc, dim, chunk, left, extra>>

JudgeNext(k) ==
  /\ chunk[k] = "each"
  /\ \E c \in left :
       /\ First(c, left \cap Slice(k))
       /\ JudgeAlone(c)
       /\ left' = left \ {c}
       /\ chunk' = [chunk EXCEPT ![k] = IF left' \cap Slice(k) = {} THEN "done" ELSE "each"]
  /\ UNCHANGED <<claims, pc, dim, extra>>

\* Fault: the results of several batches are merged and returned.
EndChunksUnchecked(d) ==
  /\ dim[d] = "chunks" /\ \A k \in Chunks(d) : chunk[k] = "done"
  /\ dim' = [dim EXCEPT ![d] = IF Cardinality(Chunks(d)) > 1 THEN "done" ELSE "extra"]
  /\ extra' = IF Cardinality(Chunks(d)) > 1 THEN extra ELSE extra \cup Group(d)
  /\ UNCHANGED <<claims, pc, chunk, left, judgement>>

\* All batches are in: the merged list is looked through.
EndChunks(d) ==
  /\ dim[d] = "chunks" /\ \A k \in Chunks(d) : chunk[k] = "done"
  /\ dim' = [dim EXCEPT ![d] = "extra"]
  /\ extra' = extra \cup Group(d)
  /\ UNCHANGED <<claims, pc, chunk, left, judgement>>

NeedsCheck(c) == verdict[c] = "single_source" /\ Importance[c] = "primary"

\* One statement of the merged list: a check costs a call, the others are passed over.
Supplement(d) ==
  /\ dim[d] = "extra"
  /\ \E c \in extra :
       /\ First(c, extra \cap Group(d))
       /\ IF NeedsCheck(c) THEN \E b \in Checked : basis' = [basis EXCEPT ![c] = b]
          ELSE UNCHANGED basis
       /\ extra' = extra \ {c}
       /\ dim' = [dim EXCEPT ![d] = IF extra' \cap Group(d) = {} THEN "done" ELSE "extra"]
  /\ UNCHANGED <<claims, pc, chunk, left, verdict>>

Finish ==
  /\ pc = "judging" /\ \A d \in Groups : dim[d] = "done"
  /\ pc' = "done"
  /\ UNCHANGED <<claims, progress, judgement>>

DimStep(d) == StartDim(d) \/ JudgeSingle(d) \/ EndChunks(d) \/ Supplement(d)
ChunkStep(k) == AskBatch(k) \/ BatchAnswers(k) \/ BatchFails(k) \/ JudgeNext(k)

Next ==
  \/ Start \/ NodeFails \/ Finish
  \/ \E d \in Dims \cup {General} : DimStep(d)
  \/ \E k \in Keys : ChunkStep(k)

Spec == Init /\ [][Next]_vars

\* asyncio runs what can run, and every model call has a timeout.
FairSpec == Spec /\ WF_vars(Next)

-----------------------------------------------------------------------------
(* Properties.                                                             *)

\* Every statement that counts has been judged when the node is done, whichever
\* way its dimension took: alone, in one of several batches, or one by one after
\* a batch had failed.
AllAreJudged == pc = "done" => \A c \in Direct : verdict[c] # "none" /\ basis[c] # "none"

\* A key statement for which only one source was found does not keep the score of
\* a comparison there was nothing to compare with, if its dimension has others.
LoneClaimsOfGroupsAreChecked ==
  pc = "done" =>
    \A c \in Direct :
      NeedsCheck(c) /\ Group(DimOf[c]) # {c} => basis[c] \in Checked

\* The node comes to an end whatever calls fail or time out.
JudgingEnds == <>(pc \in {"done", "failed"})
=============================================================================
