------------------------- MODULE VerifyJudgesProofs -------------------------
(***************************************************************************)
(* Theorems about the judging of statements: types, that none is left      *)
(* unjudged, that single-source statements get their check, and that the   *)
(* node is never stuck and takes a bounded number of steps.                *)
(***************************************************************************)
EXTENDS VerifyJudges, FiniteSetTheorems, TLAPS

Judged(c) == verdict[c] \in Verdicts /\ basis[c] \in Bases

\* Batches at work belong to a dimension that waits for them; a batch that is
\* done has judged its slice, one that goes one by one what it has passed.
ChunkInv ==
  \A k \in Keys :
    /\ chunk[k] \in {"waiting", "batch", "each"} => dim[k[1]] = "chunks"
    /\ chunk[k] = "done" => \A c \in Slice(k) : Judged(c)
    /\ chunk[k] = "each" => \A c \in Slice(k) : c \in left \/ Judged(c)

\* A dimension that looks for checks has judged everything and checked what it
\* has looked through; one that is done has checked all, unless it has one
\* statement only.
DimInv ==
  \A d \in Groups :
    /\ dim[d] = "single" => Cardinality(Group(d)) = 1
    /\ dim[d] = "extra" =>
         \A c \in Group(d) : Judged(c) /\ (NeedsCheck(c) /\ c \notin extra => basis[c] \in Checked)
    /\ dim[d] = "done" =>
         \A c \in Group(d) :
           Judged(c) /\ (NeedsCheck(c) /\ Group(d) # {c} => basis[c] \in Checked)

NodeInv ==
  /\ pc = "start" => \A k \in Keys : chunk[k] = "absent"
  /\ pc = "done" => \A d \in Groups : dim[d] = "done"

JudgesInv == TypeOK /\ ChunkInv /\ DimInv /\ NodeInv

-----------------------------------------------------------------------------

LEMMA SameClaims ==
  ASSUME claims' = claims
  PROVE  /\ Direct' = Direct /\ Groups' = Groups /\ Keys' = Keys
         /\ \A d \in Groups : Group(d)' = Group(d)
         /\ \A d \in Groups : Chunks(d)' = Chunks(d)
         /\ \A k \in Keys : Slice(k)' = Slice(k)
BY DEF Direct, Groups, Keys, Group, Chunks, Slice

\* Slices cover the group they are cut from.
LEMMA Sliced ==
  ASSUME TypeOK
  PROVE  /\ \A d \in Groups : \A c \in Group(d) :
              <<d, Cut[claims][c]>> \in Chunks(d) /\ c \in Slice(<<d, Cut[claims][c]>>)
         /\ \A d \in Groups : Chunks(d) \subseteq Keys /\ \A k \in Chunks(d) : k[1] = d
         /\ \A k \in Keys : k[1] \in Groups /\ Slice(k) \subseteq Group(k[1])
         /\ \A d \in Groups : Group(d) \subseteq Claims /\ Group(d) \subseteq Direct
         /\ Groups \subseteq Dims \cup {General}
BY JudgesAssumption DEF TypeOK, Groups, Group, Direct, Chunks, Slice, Keys

LEMMA Singleton ==
  ASSUME TypeOK, NEW d \in Groups, Cardinality(Group(d)) = 1, NEW c \in Group(d)
  PROVE  Group(d) = {c}
<1>1. Group(d) \subseteq 1..NumClaims
  BY Sliced DEF Claims
<1>2. IsFiniteSet(Group(d))
  <2>1. 1 \in Int /\ NumClaims \in Int
    BY JudgesAssumption
  <2>2. IsFiniteSet(1..NumClaims)
    BY <2>1, FS_Interval
  <2> QED
    BY <1>1, <2>2, FS_Subset
<1>3. \E x : Group(d) = {x}
  BY <1>2, FS_Singleton
<1> QED
  BY <1>3

\* What one judgement by itself gives.
LEMMA AloneJudges ==
  ASSUME TypeOK, NEW c \in Claims, JudgeAlone(c)
  PROVE  /\ verdict' \in [Claims -> Verdicts \cup {"none"}]
         /\ basis' \in [Claims -> Bases \cup {"none"}]
         /\ verdict'[c] \in Verdicts /\ basis'[c] \in Bases
         /\ \A e \in Claims : e # c => verdict'[e] = verdict[e] /\ basis'[e] = basis[e]
BY DEF JudgeAlone, TypeOK

LEMMA JudgesInit == Init => JudgesInv
<1> SUFFICES ASSUME Init PROVE JudgesInv
  OBVIOUS
<1>1. TypeOK
  BY DEF Init, TypeOK
<1>2. \A d \in Groups : dim[d] = "absent"
  BY <1>1, Sliced DEF Init
<1> QED
  BY <1>1, <1>2 DEF Init, JudgesInv, ChunkInv, DimInv, NodeInv

LEMMA StartKeeps == ASSUME JudgesInv, Start PROVE JudgesInv'
<1>1. /\ claims' = claims /\ UNCHANGED <<chunk, left, extra, verdict, basis>>
      /\ \A d \in Groups : dim'[d] = "waiting"
      /\ \A k \in Keys : chunk[k] = "absent"
  BY Sliced DEF Start, judgement, JudgesInv, TypeOK, NodeInv
<1>2. TypeOK'
  BY <1>1, SameClaims DEF Start, JudgesInv, TypeOK
<1>3. NodeInv'
  BY <1>1, SameClaims DEF Start, NodeInv, Groups
<1>4. ChunkInv' /\ DimInv'
  BY <1>1, SameClaims DEF ChunkInv, DimInv
<1> QED
  BY <1>2, <1>3, <1>4 DEF JudgesInv

LEMMA NodeEndKeeps == ASSUME JudgesInv, NodeFails \/ Finish PROVE JudgesInv'
<1>1. /\ UNCHANGED <<claims, chunk, dim, left, extra, verdict, basis>>
      /\ pc' \in {"failed", "done"}
      /\ pc' = "done" => \A d \in Groups : dim[d] = "done"
  BY DEF NodeFails, Finish, progress, judgement
<1>2. TypeOK'
  BY <1>1, SameClaims DEF JudgesInv, TypeOK
<1>3. ChunkInv' /\ DimInv' /\ NodeInv'
  BY <1>1, SameClaims DEF JudgesInv, ChunkInv, DimInv, NodeInv, Judged, NeedsCheck
<1> QED
  BY <1>2, <1>3 DEF JudgesInv

LEMMA StartDimKeeps ==
  ASSUME JudgesInv, NEW d \in Dims \cup {General}, StartDim(d) PROVE JudgesInv'
<1>1. /\ UNCHANGED <<claims, pc, left, extra, verdict, basis>>
      /\ pc = "judging" /\ dim[d] = "waiting"
      /\ \/ Cardinality(Group(d)) = 1 /\ dim' = [dim EXCEPT ![d] = "single"] /\ chunk' = chunk
         \/ /\ dim' = [dim EXCEPT ![d] = "chunks"]
            /\ chunk' = [k \in Keys |-> IF k \in Chunks(d) THEN "waiting" ELSE chunk[k]]
  BY DEF StartDim, judgement
<1>2. TypeOK'
  BY <1>1, SameClaims DEF JudgesInv, TypeOK
<1>3. \A k \in Keys : k \in Chunks(d) => k[1] = d
  BY DEF Chunks
<1>4. /\ dim'[d] \in {"single", "chunks"}
      /\ dim'[d] = "single" => Cardinality(Group(d)) = 1
      /\ \A e \in Groups : e # d => dim'[e] = dim[e]
      /\ \A k \in Keys : chunk'[k] # chunk[k] => chunk'[k] = "waiting" /\ k[1] = d /\ dim'[d] = "chunks"
  <2>1. dim \in [Dims \cup {General} -> {"absent", "waiting", "single", "chunks", "extra", "done"}]
    BY DEF JudgesInv, TypeOK
  <2>2. /\ dim'[d] \in {"single", "chunks"}
        /\ \A e \in Dims \cup {General} : e # d => dim'[e] = dim[e]
    BY <1>1, <2>1
  <2>3. dim'[d] = "single" => Cardinality(Group(d)) = 1
    BY <1>1, <2>1
  <2>4. \A k \in Keys : chunk'[k] # chunk[k] => chunk'[k] = "waiting" /\ k[1] = d /\ dim'[d] = "chunks"
    <3>1. CASE chunk' = chunk
      BY <3>1
    <3>2. CASE /\ dim' = [dim EXCEPT ![d] = "chunks"]
               /\ chunk' = [k \in Keys |-> IF k \in Chunks(d) THEN "waiting" ELSE chunk[k]]
      BY <1>3, <2>1, <3>2
    <3> QED
      BY <1>1, <3>1, <3>2
  <2> QED
    BY <2>2, <2>3, <2>4, Sliced DEF JudgesInv
<1>5. \A e : Judged(e)' = Judged(e) /\ NeedsCheck(e)' = NeedsCheck(e)
  BY <1>1 DEF Judged, NeedsCheck
<1>7. ChunkInv'
  <2> SUFFICES ASSUME NEW k \in Keys
               PROVE  /\ chunk'[k] \in {"waiting", "batch", "each"} => dim'[k[1]] = "chunks"
                      /\ chunk'[k] = "done" => \A c \in Slice(k) : Judged(c)
                      /\ chunk'[k] = "each" => \A c \in Slice(k) : c \in left \/ Judged(c)
    BY <1>1, <1>5, SameClaims DEF ChunkInv
  <2>1. k[1] \in Groups
    BY Sliced DEF JudgesInv
  <2> QED
    BY <1>1, <1>4, <2>1 DEF JudgesInv, ChunkInv
<1>8. DimInv'
  BY <1>1, <1>4, <1>5, SameClaims DEF JudgesInv, DimInv
<1>9. NodeInv'
  BY <1>1 DEF NodeInv
<1> QED
  BY <1>2, <1>7, <1>8, <1>9 DEF JudgesInv

\* A statement of a dimension that is judged by itself, alone or after its batch.
LEMMA JudgeSingleKeeps ==
  ASSUME JudgesInv, NEW d \in Dims \cup {General}, JudgeSingle(d) PROVE JudgesInv'
<1>1. PICK c \in Group(d) : JudgeAlone(c)
  BY DEF JudgeSingle
<1>2. /\ UNCHANGED <<claims, pc, chunk, left, extra>>
      /\ dim[d] = "single" /\ dim' = [dim EXCEPT ![d] = "done"]
      /\ d \in Groups /\ c \in Claims
  BY <1>1, JudgesAssumption DEF JudgeSingle, Group, Groups, Direct, JudgesInv, TypeOK
<1>3. /\ verdict' \in [Claims -> Verdicts \cup {"none"}]
      /\ basis' \in [Claims -> Bases \cup {"none"}]
      /\ verdict'[c] \in Verdicts /\ basis'[c] \in Bases
      /\ \A e \in Claims : e # c => verdict'[e] = verdict[e] /\ basis'[e] = basis[e]
  BY <1>1, <1>2, AloneJudges DEF JudgesInv
<1>4. TypeOK'
  BY <1>2, <1>3, SameClaims DEF JudgesInv, TypeOK
<1>5. Group(d) = {c}
  BY <1>1, <1>2, Singleton DEF JudgesInv, DimInv
<1>6. \A e \in Direct : e \in Claims /\ (Judged(e) => Judged(e)')
  BY <1>3, JudgesAssumption DEF Judged, Direct, JudgesInv, TypeOK
<1>7. ChunkInv'
  <2>1. \A k \in Keys : Slice(k) \subseteq Direct
    BY DEF Slice, Group
  <2>2. \A k \in Keys : chunk[k] \in {"waiting", "batch", "each"} => k[1] # d
    BY <1>2 DEF JudgesInv, ChunkInv
  <2> QED
    BY <1>2, <1>6, <2>1, <2>2, SameClaims DEF JudgesInv, TypeOK, ChunkInv
<1>8. DimInv'
  <2>1. \A e \in Groups : e # d => dim'[e] = dim[e] /\ c \notin Group(e)
    BY <1>1, <1>2 DEF Group, JudgesInv, TypeOK
  <2>2. \A e \in Groups : Group(e) \subseteq Claims
    BY Sliced DEF JudgesInv
  <2> QED
    BY <1>2, <1>3, <1>5, <2>1, <2>2, SameClaims
       DEF JudgesInv, TypeOK, DimInv, Judged, NeedsCheck
<1>9. NodeInv'
  BY <1>2, SameClaims DEF JudgesInv, TypeOK, NodeInv
<1> QED
  BY <1>4, <1>7, <1>8, <1>9 DEF JudgesInv

LEMMA EndChunksKeeps ==
  ASSUME JudgesInv, NEW d \in Dims \cup {General}, EndChunks(d) PROVE JudgesInv'
<1>1. /\ UNCHANGED <<claims, pc, chunk, left, verdict, basis>>
      /\ dim[d] = "chunks" /\ \A k \in Chunks(d) : chunk[k] = "done"
      /\ dim' = [dim EXCEPT ![d] = "extra"]
      /\ extra' = extra \cup Group(d)
  BY DEF EndChunks, judgement
<1>2. TypeOK'
  BY <1>1, SameClaims DEF JudgesInv, TypeOK, Group
<1>3. dim'[d] = "extra" /\ \A e \in Groups : e # d => dim'[e] = dim[e]
  BY <1>1 DEF JudgesInv, TypeOK
<1>4. \A e : Judged(e)' = Judged(e) /\ NeedsCheck(e)' = NeedsCheck(e)
  BY <1>1 DEF Judged, NeedsCheck
<1>5. ASSUME d \in Groups, NEW c \in Group(d) PROVE Judged(c) /\ c \in extra'
  <2>1. /\ <<d, Cut[claims][c]>> \in Chunks(d) /\ Chunks(d) \subseteq Keys
        /\ c \in Slice(<<d, Cut[claims][c]>>)
    BY <1>5, Sliced DEF JudgesInv
  <2> QED
    BY <1>1, <1>5, <2>1 DEF JudgesInv, ChunkInv
<1>6. \A k \in Keys : k[1] \in Groups /\ (k[1] = d => k \in Chunks(d))
  BY Sliced DEF JudgesInv, Keys, Chunks, Group
<1>7. ChunkInv'
  <2> SUFFICES ASSUME NEW k \in Keys
               PROVE  /\ chunk[k] \in {"waiting", "batch", "each"} => dim'[k[1]] = "chunks"
                      /\ chunk[k] = "done" => \A c \in Slice(k) : Judged(c)
                      /\ chunk[k] = "each" => \A c \in Slice(k) : c \in left \/ Judged(c)
    BY <1>1, <1>4, SameClaims DEF ChunkInv
  <2> QED
    BY <1>1, <1>3, <1>6 DEF JudgesInv, ChunkInv
<1>8. DimInv'
  <2> SUFFICES ASSUME NEW e \in Groups
               PROVE  /\ dim'[e] = "single" => Cardinality(Group(e)) = 1
                      /\ dim'[e] = "extra" =>
                           \A c \in Group(e) :
                             Judged(c) /\ (NeedsCheck(c) /\ c \notin extra' => basis[c] \in Checked)
                      /\ dim'[e] = "done" =>
                           \A c \in Group(e) :
                             Judged(c) /\ (NeedsCheck(c) /\ Group(e) # {c} => basis[c] \in Checked)
    BY <1>1, <1>4, SameClaims DEF DimInv
  <2>1. CASE e = d
    BY <1>3, <1>5, <2>1
  <2>2. CASE e # d
    BY <1>1, <1>3, <2>2 DEF JudgesInv, DimInv
  <2> QED
    BY <2>1, <2>2
<1>9. NodeInv'
  <2>1. d \in Groups => pc # "done"
    BY <1>1 DEF JudgesInv, NodeInv
  <2> QED
    BY <1>1, <1>3, <2>1, SameClaims DEF JudgesInv, NodeInv
<1> QED
  BY <1>2, <1>7, <1>8, <1>9 DEF JudgesInv

LEMMA SupplementKeeps ==
  ASSUME JudgesInv, NEW d \in Dims \cup {General}, Supplement(d) PROVE JudgesInv'
<1>1. PICK c \in extra :
        /\ First(c, extra \cap Group(d))
        /\ IF NeedsCheck(c) THEN \E b \in Checked : basis' = [basis EXCEPT ![c] = b]
           ELSE UNCHANGED basis
        /\ extra' = extra \ {c}
        /\ dim' = [dim EXCEPT ![d] = IF extra' \cap Group(d) = {} THEN "done" ELSE "extra"]
  BY DEF Supplement
<1>2. /\ UNCHANGED <<claims, pc, chunk, left, verdict>> /\ dim[d] = "extra"
      /\ c \in Group(d) /\ d \in Groups /\ c \in Claims
  BY <1>1, JudgesAssumption
     DEF Supplement, First, Group, Groups, Direct, JudgesInv, TypeOK
<1>3. /\ \A e \in Claims : e # c => basis'[e] = basis[e]
      /\ basis' \in [Claims -> Bases \cup {"none"}]
      /\ IF NeedsCheck(c) THEN basis'[c] \in Checked ELSE basis'[c] = basis[c]
  BY <1>1, <1>2 DEF JudgesInv, TypeOK, Bases, Checked
<1>4. /\ \A e \in Groups : e # d => dim'[e] = dim[e]
      /\ dim'[d] \in {"extra", "done"}
      /\ dim'[d] = "done" => extra' \cap Group(d) = {}
  BY <1>1, <1>2 DEF JudgesInv, TypeOK
<1>5. TypeOK'
  BY <1>1, <1>2, <1>3, SameClaims DEF JudgesInv, TypeOK
<1>6. \A e \in Claims : NeedsCheck(e)' = NeedsCheck(e) /\ (Judged(e) => Judged(e)')
  BY <1>2, <1>3 DEF Judged, NeedsCheck, Checked, Bases
<1>7. ChunkInv'
  <2> SUFFICES ASSUME NEW k \in Keys
               PROVE  /\ chunk[k] \in {"waiting", "batch", "each"} => dim'[k[1]] = "chunks"
                      /\ chunk[k] = "done" => \A e \in Slice(k) : Judged(e)'
                      /\ chunk[k] = "each" => \A e \in Slice(k) : e \in left \/ Judged(e)'
    BY <1>2, SameClaims DEF ChunkInv
  <2>1. k[1] \in Groups /\ Slice(k) \subseteq Claims
    BY Sliced DEF JudgesInv
  <2> QED
    BY <1>2, <1>4, <1>6, <2>1 DEF JudgesInv, ChunkInv
<1>8. DimInv'
  <2> SUFFICES ASSUME NEW e \in Groups
               PROVE  /\ dim'[e] = "single" => Cardinality(Group(e)) = 1
                      /\ dim'[e] = "extra" =>
                           \A g \in Group(e) :
                             Judged(g)' /\ (NeedsCheck(g)' /\ g \notin extra' => basis'[g] \in Checked)
                      /\ dim'[e] = "done" =>
                           \A g \in Group(e) :
                             Judged(g)' /\ (NeedsCheck(g)' /\ Group(e) # {g} => basis'[g] \in Checked)
    BY <1>2, SameClaims DEF DimInv
  <2>1. \A g \in Group(e) : g \in Claims
    BY Sliced DEF JudgesInv
  <2>2. CASE e = d
    <3>1. \A g \in Group(d) :
            Judged(g)' /\ (NeedsCheck(g)' /\ g \notin extra' => basis'[g] \in Checked)
      BY <1>1, <1>2, <1>3, <1>6, <2>1, <2>2 DEF JudgesInv, DimInv
    <3> QED
      BY <1>4, <2>2, <3>1
  <2>3. CASE e # d
    <3>1. c \notin Group(e)
      BY <1>2, <2>3 DEF Group
    <3>2. \A g \in Group(e) : basis'[g] = basis[g] /\ (g \notin extra' => g \notin extra)
      BY <1>1, <1>3, <2>1, <3>1
    <3> QED
      BY <1>4, <1>6, <2>1, <2>3, <3>2 DEF JudgesInv, DimInv
  <2> QED
    BY <2>2, <2>3
<1>9. NodeInv'
  BY <1>2, <1>4, SameClaims DEF JudgesInv, NodeInv
<1> QED
  BY <1>5, <1>7, <1>8, <1>9 DEF JudgesInv

\* A step of a batch touches the statements of its slice only, and its dimension
\* waits for it.
LEMMA SliceKeeps ==
  ASSUME JudgesInv, TypeOK', NEW k \in Keys, chunk[k] \in {"waiting", "batch", "each"},
         NEW p \in {"batch", "each", "done"}, chunk' = [chunk EXCEPT ![k] = p],
         UNCHANGED <<claims, pc, dim, extra>>,
         \A c \in Claims : c \notin Slice(k) => verdict'[c] = verdict[c] /\ basis'[c] = basis[c],
         \A c \in Claims : Judged(c) => Judged(c)',
         \A c \in Claims : c \in left => c \in left' \/ Judged(c)',
         p = "done" => \A c \in Slice(k) : Judged(c)',
         p = "each" => \A c \in Slice(k) : c \in left' \/ Judged(c)'
  PROVE  JudgesInv'
<1>1. \A q \in Keys : q[1] \in Groups /\ Slice(q) \subseteq Claims
  BY Sliced DEF JudgesInv
<1>2. dim[k[1]] = "chunks"
  BY DEF JudgesInv, ChunkInv
<1>3. chunk'[k] = p /\ \A q \in Keys : q # k => chunk'[q] = chunk[q]
  BY DEF JudgesInv, TypeOK
<1>4. ChunkInv'
  <2> SUFFICES ASSUME NEW q \in Keys
               PROVE  /\ chunk'[q] \in {"waiting", "batch", "each"} => dim[q[1]] = "chunks"
                      /\ chunk'[q] = "done" => \A c \in Slice(q) : Judged(c)'
                      /\ chunk'[q] = "each" => \A c \in Slice(q) : c \in left' \/ Judged(c)'
    BY SameClaims DEF ChunkInv
  <2>1. CASE q = k
    BY <1>2, <1>3, <2>1
  <2>2. CASE q # k
    <3>1. chunk'[q] = chunk[q]
      BY <1>3, <2>2
    <3> QED
      BY <1>1, <3>1 DEF JudgesInv, ChunkInv
  <2> QED
    BY <2>1, <2>2
<1>5. DimInv'
  <2> SUFFICES ASSUME NEW e \in Groups
               PROVE  /\ dim[e] = "single" => Cardinality(Group(e)) = 1
                      /\ dim[e] = "extra" =>
                           \A g \in Group(e) :
                             Judged(g)' /\ (NeedsCheck(g)' /\ g \notin extra => basis'[g] \in Checked)
                      /\ dim[e] = "done" =>
                           \A g \in Group(e) :
                             Judged(g)' /\ (NeedsCheck(g)' /\ Group(e) # {g} => basis'[g] \in Checked)
    BY SameClaims DEF DimInv
  <2>1. CASE e = k[1]
    BY <1>2, <2>1 DEF JudgesInv, DimInv
  <2>2. CASE e # k[1]
    <3>1. \A g \in Group(e) : g \in Claims /\ g \notin Slice(k)
      BY <2>2, Sliced DEF JudgesInv, Slice, Group
    <3>2. \A g \in Group(e) : verdict'[g] = verdict[g] /\ basis'[g] = basis[g]
      BY <3>1
    <3> QED
      BY <3>1, <3>2 DEF JudgesInv, DimInv, Judged, NeedsCheck
  <2> QED
    BY <2>1, <2>2
<1>6. NodeInv'
  <2>1. pc # "start"
    BY DEF JudgesInv, NodeInv
  <2> QED
    BY <2>1, SameClaims DEF JudgesInv, NodeInv
<1> QED
  BY <1>4, <1>5, <1>6 DEF JudgesInv

LEMMA BatchStepKeeps ==
  ASSUME JudgesInv, NEW k \in Keys, AskBatch(k) \/ BatchAnswers(k) \/ BatchFails(k)
  PROVE  JudgesInv'
<1>1. Slice(k) \subseteq Claims /\ Slice(k) \subseteq Direct
  BY Sliced DEF JudgesInv, Slice, Group
<1>2. CASE AskBatch(k)
  <2>1. /\ chunk[k] = "waiting" /\ chunk' = [chunk EXCEPT ![k] = "batch"]
        /\ UNCHANGED <<claims, pc, dim, left, extra, verdict, basis>>
    BY <1>2 DEF AskBatch, judgement
  <2>2. TypeOK'
    BY <2>1, SameClaims DEF JudgesInv, TypeOK
  <2>3. \A c \in Claims : Judged(c) => Judged(c)'
    BY <2>1 DEF Judged
  <2> QED
    BY <2>1, <2>2, <2>3, SliceKeeps
<1>3. CASE BatchAnswers(k)
  <2>1. PICK v \in [Slice(k) -> Verdicts] :
          verdict' = [c \in Claims |-> IF c \in DOMAIN v THEN v[c] ELSE verdict[c]]
    BY <1>3 DEF BatchAnswers
  <2>2. /\ chunk[k] = "batch" /\ chunk' = [chunk EXCEPT ![k] = "done"]
        /\ basis' = [c \in Claims |-> IF c \in Slice(k) THEN "judge" ELSE basis[c]]
        /\ UNCHANGED <<claims, pc, dim, left, extra>>
    BY <1>3 DEF BatchAnswers
  <2>3. TypeOK'
    BY <1>1, <2>1, <2>2, SameClaims DEF JudgesInv, TypeOK, Bases
  <2>4. \A c \in Slice(k) : Judged(c)'
    BY <1>1, <2>1, <2>2 DEF Judged, Bases
  <2>5. \A c \in Claims : c \notin Slice(k) => verdict'[c] = verdict[c] /\ basis'[c] = basis[c]
    BY <2>1, <2>2
  <2>6. \A c \in Claims : Judged(c) => Judged(c)'
    BY <2>4, <2>5 DEF Judged
  <2> QED
    BY <2>2, <2>3, <2>4, <2>5, <2>6, SliceKeeps
<1>4. CASE BatchFails(k)
  <2>1. /\ chunk[k] = "batch" /\ chunk' = [chunk EXCEPT ![k] = "each"]
        /\ left' = left \cup Slice(k)
        /\ UNCHANGED <<claims, pc, dim, extra, verdict, basis>>
    BY <1>4 DEF BatchFails, judgement
  <2>2. TypeOK'
    BY <1>1, <2>1, SameClaims DEF JudgesInv, TypeOK
  <2>3. \A c \in Claims : Judged(c) => Judged(c)'
    BY <2>1 DEF Judged
  <2> QED
    BY <2>1, <2>2, <2>3, SliceKeeps
<1> QED
  BY <1>2, <1>3, <1>4

LEMMA JudgeNextKeeps ==
  ASSUME JudgesInv, NEW k \in Keys, JudgeNext(k) PROVE JudgesInv'
<1>1. PICK c \in left :
        /\ First(c, left \cap Slice(k))
        /\ JudgeAlone(c)
        /\ left' = left \ {c}
        /\ chunk' = [chunk EXCEPT ![k] = IF left' \cap Slice(k) = {} THEN "done" ELSE "each"]
  BY DEF JudgeNext
<1>2. /\ chunk[k] = "each" /\ UNCHANGED <<claims, pc, dim, extra>>
      /\ c \in Slice(k) /\ c \in Claims /\ Slice(k) \subseteq Claims
  BY <1>1, Sliced DEF JudgeNext, First, JudgesInv, Slice, Group
<1>3. /\ verdict' \in [Claims -> Verdicts \cup {"none"}]
      /\ basis' \in [Claims -> Bases \cup {"none"}]
      /\ verdict'[c] \in Verdicts /\ basis'[c] \in Bases
      /\ \A e \in Claims : e # c => verdict'[e] = verdict[e] /\ basis'[e] = basis[e]
  BY <1>1, <1>2, AloneJudges DEF JudgesInv
<1>4. TypeOK'
  BY <1>1, <1>2, <1>3, SameClaims DEF JudgesInv, TypeOK
<1>5. Judged(c)' /\ \A e \in Claims : Judged(e) => Judged(e)'
  BY <1>2, <1>3 DEF Judged
<1>6. \A e \in Slice(k) : e \in left' \/ Judged(e)'
  BY <1>1, <1>2, <1>5 DEF JudgesInv, ChunkInv
<1>7. PICK p \in {"each", "done"} :
        chunk' = [chunk EXCEPT ![k] = p] /\ (p = "done" => left' \cap Slice(k) = {})
  BY <1>1
<1> QED
  BY <1>1, <1>2, <1>3, <1>4, <1>5, <1>6, <1>7, SliceKeeps

LEMMA JudgesStep == JudgesInv /\ [Next]_vars => JudgesInv'
<1> SUFFICES ASSUME JudgesInv, [Next]_vars PROVE JudgesInv'
  OBVIOUS
<1>1. CASE Start
  BY <1>1, StartKeeps
<1>2. CASE NodeFails \/ Finish
  BY <1>2, NodeEndKeeps
<1>3. ASSUME NEW d \in Dims \cup {General}, DimStep(d) PROVE JudgesInv'
  BY <1>3, StartDimKeeps, JudgeSingleKeeps, EndChunksKeeps, SupplementKeeps DEF DimStep
<1>4. ASSUME NEW k \in Keys, ChunkStep(k) PROVE JudgesInv'
  BY <1>4, BatchStepKeeps, JudgeNextKeeps DEF ChunkStep
<1>5. CASE UNCHANGED vars
  <2>1. UNCHANGED <<claims, pc, dim, chunk, left, extra, verdict, basis>>
    BY <1>5 DEF vars, progress, judgement
  <2>2. TypeOK'
    BY <2>1, SameClaims DEF JudgesInv, TypeOK
  <2>3. ChunkInv' /\ DimInv' /\ NodeInv'
    BY <2>1, SameClaims DEF JudgesInv, ChunkInv, DimInv, NodeInv, Judged, NeedsCheck
  <2> QED
    BY <2>2, <2>3 DEF JudgesInv
<1> QED
  BY <1>1, <1>2, <1>3, <1>4, <1>5 DEF Next

LEMMA JudgesAlways == Spec => []JudgesInv
BY JudgesInit, JudgesStep, PTL DEF Spec

-----------------------------------------------------------------------------

\* Type correctness of the judging, for any statements, pages, slots and slices.
THEOREM TypeCorrect == Spec => []TypeOK
<1>1. JudgesInv => TypeOK
  BY DEF JudgesInv
<1> QED
  BY <1>1, JudgesAlways, PTL

\* tripartite_node leaves no statement that counts without a verdict, whichever
\* batches fail.
THEOREM NoneIsLeftOut == Spec => []AllAreJudged
<1>1. JudgesInv => AllAreJudged
  <2> SUFFICES ASSUME JudgesInv, pc = "done", NEW c \in Direct
               PROVE  verdict[c] # "none" /\ basis[c] # "none"
    BY DEF AllAreJudged
  <2>1. DimOf[c] \in Groups /\ c \in Group(DimOf[c])
    BY DEF Groups, Group
  <2>2. Judged(c)
    BY <2>1 DEF JudgesInv, NodeInv, DimInv
  <2> QED
    BY <2>2 DEF Judged, Verdicts, Bases
<1> QED
  BY <1>1, JudgesAlways, PTL

\* Key statements of a single source are checked in every dimension that has
\* other statements, whether their batch answered or failed.
THEOREM LoneOnesAreChecked == Spec => []LoneClaimsOfGroupsAreChecked
<1>1. JudgesInv => LoneClaimsOfGroupsAreChecked
  <2> SUFFICES ASSUME JudgesInv, pc = "done", NEW c \in Direct, NeedsCheck(c),
                      Group(DimOf[c]) # {c}
               PROVE  basis[c] \in Checked
    BY DEF LoneClaimsOfGroupsAreChecked
  <2>1. DimOf[c] \in Groups /\ c \in Group(DimOf[c])
    BY DEF Groups, Group
  <2> QED
    BY <2>1 DEF JudgesInv, NodeInv, DimInv
<1> QED
  BY <1>1, JudgesAlways, PTL

-----------------------------------------------------------------------------
(* The node comes to its end: nobody waits for a slot that nobody gives    *)
(* back, and there is only so much to do.                                  *)

\* A dimension that is looked through, and a batch that is judged one by one, has
\* a statement left; the batches of a dimension that waits for them have started.
WaitInv ==
  /\ \A d \in Dims \cup {General} : d \notin Groups => dim[d] = "absent"
  /\ pc = "start" => \A d \in Groups : dim[d] = "absent"
  /\ pc = "judging" => \A d \in Groups : dim[d] # "absent"
  /\ \A d \in Groups :
       /\ dim[d] \in {"absent", "waiting"} => \A k \in Chunks(d) : chunk[k] = "absent"
       /\ dim[d] = "chunks" => \A k \in Chunks(d) : chunk[k] # "absent"
       /\ dim[d] = "extra" => extra \cap Group(d) # {}
  /\ \A k \in Keys : chunk[k] = "each" => left \cap Slice(k) # {}

\* What is still to be done: the start and the end of the node, the steps of its
\* dimensions and batches, the statements to be judged one by one or looked through.
DimAhead(d) ==
  IF dim[d] \in {"absent", "waiting"} THEN 3
  ELSE IF dim[d] = "chunks" THEN 2 ELSE IF dim[d] \in {"single", "extra"} THEN 1 ELSE 0

ChunkAhead(k) ==
  IF chunk[k] \in {"absent", "waiting"} THEN 3
  ELSE IF chunk[k] = "batch" THEN 2 ELSE IF chunk[k] = "each" THEN 1 ELSE 0

NodeToDo == IF pc = "start" THEN {1, 2} ELSE IF pc = "judging" THEN {1} ELSE {}
DimToDo == {p \in Groups \X (1..3) : p[2] <= DimAhead(p[1])}
ChunkToDo == {p \in Keys \X (1..3) : p[2] <= ChunkAhead(p[1])}
EachToDo == {c \in Direct : c \in left \/ \E k \in Keys : c \in Slice(k) /\ ChunkAhead(k) > 1}
ExtraToDo == {c \in Direct : DimAhead(DimOf[c]) > 1 \/ c \in extra}

LeavesLess ==
  /\ NodeToDo' \subseteq NodeToDo /\ DimToDo' \subseteq DimToDo /\ ChunkToDo' \subseteq ChunkToDo
  /\ EachToDo' \subseteq EachToDo /\ ExtraToDo' \subseteq ExtraToDo
  /\ \/ NodeToDo' # NodeToDo \/ DimToDo' # DimToDo \/ ChunkToDo' # ChunkToDo
     \/ EachToDo' # EachToDo \/ ExtraToDo' # ExtraToDo

LEMMA AheadTypes ==
  /\ \A d : DimAhead(d) \in 0..3 /\ DimAhead(d)' \in 0..3
  /\ \A k : ChunkAhead(k) \in 0..3 /\ ChunkAhead(k)' \in 0..3
BY DEF DimAhead, ChunkAhead

LEMMA SlicesApart ==
  ASSUME NEW k \in Keys, NEW q \in Keys, NEW c \in Slice(k), c \in Slice(q)
  PROVE  k = q
BY DEF Keys, Slice, Group

\* How a step leaves less to do.
LEMMA Shrinks ==
  ASSUME claims' = claims, NodeToDo' \subseteq NodeToDo,
         \A d \in Groups : DimAhead(d)' <= DimAhead(d),
         \A k \in Keys : ChunkAhead(k)' <= ChunkAhead(k),
         \A c \in Direct :
           c \in left' => c \in left \/ \E k \in Keys : c \in Slice(k) /\ ChunkAhead(k) > 1,
         \A c \in Direct : c \in extra' => c \in extra \/ DimAhead(DimOf[c]) > 1,
         \/ NodeToDo' # NodeToDo
         \/ \E d \in Groups : DimAhead(d)' < DimAhead(d)
         \/ \E k \in Keys : ChunkAhead(k)' < ChunkAhead(k)
         \/ \E k \in Keys : \E c \in Slice(k) : c \in left \ left' /\ ChunkAhead(k)' <= 1
         \/ \E c \in Direct : c \in extra \ extra' /\ DimAhead(DimOf[c])' <= 1
  PROVE  LeavesLess
<1>1. Direct' = Direct /\ Groups' = Groups /\ Keys' = Keys
  BY SameClaims
<1>2. \A c \in Direct : DimOf[c] \in Groups
  BY DEF Groups
<1>3. DimToDo' \subseteq DimToDo
  BY <1>1, AheadTypes DEF DimToDo
<1>4. ChunkToDo' \subseteq ChunkToDo
  BY <1>1, AheadTypes DEF ChunkToDo
<1>5. EachToDo' \subseteq EachToDo
  <2>1. \A k \in Keys : Slice(k)' = Slice(k)
    BY SameClaims
  <2>2. \A c \in Direct : (\E k \in Keys : c \in Slice(k)' /\ ChunkAhead(k)' > 1)
                          => \E k \in Keys : c \in Slice(k) /\ ChunkAhead(k) > 1
    BY <2>1, AheadTypes
  <2> QED
    BY <1>1, <2>2 DEF EachToDo
<1>6. ExtraToDo' \subseteq ExtraToDo
  <2> SUFFICES ASSUME NEW c \in Direct, DimAhead(DimOf[c])' > 1 \/ c \in extra'
               PROVE  DimAhead(DimOf[c]) > 1 \/ c \in extra
    BY <1>1 DEF ExtraToDo
  <2>1. DimAhead(DimOf[c])' <= DimAhead(DimOf[c])
    BY <1>2
  <2> QED
    BY <2>1, AheadTypes
<1>7. CASE \E d \in Groups : DimAhead(d)' < DimAhead(d)
  <2>1. PICK d \in Groups : DimAhead(d)' < DimAhead(d)
    BY <1>7
  <2>2. <<d, DimAhead(d)>> \in DimToDo /\ <<d, DimAhead(d)>> \notin DimToDo'
    BY <2>1, AheadTypes DEF DimToDo
  <2> QED
    BY <1>3, <1>4, <1>5, <1>6, <2>2 DEF LeavesLess
<1>8. CASE \E k \in Keys : ChunkAhead(k)' < ChunkAhead(k)
  <2>1. PICK k \in Keys : ChunkAhead(k)' < ChunkAhead(k)
    BY <1>8
  <2>2. <<k, ChunkAhead(k)>> \in ChunkToDo /\ <<k, ChunkAhead(k)>> \notin ChunkToDo'
    BY <2>1, AheadTypes DEF ChunkToDo
  <2> QED
    BY <1>3, <1>4, <1>5, <1>6, <2>2 DEF LeavesLess
<1>9. CASE \E k \in Keys : \E c \in Slice(k) : c \in left \ left' /\ ChunkAhead(k)' <= 1
  <2>1. PICK k \in Keys : \E c \in Slice(k) : c \in left \ left' /\ ChunkAhead(k)' <= 1
    BY <1>9
  <2>2. PICK c \in Slice(k) : c \in left \ left' /\ ChunkAhead(k)' <= 1
    BY <2>1
  <2>3. c \in Direct
    BY DEF Slice, Group
  <2>4. \A q \in Keys : c \in Slice(q)' => q = k
    BY SameClaims, SlicesApart
  <2>5. c \in EachToDo /\ c \notin EachToDo'
    BY <1>1, <2>2, <2>3, <2>4, AheadTypes DEF EachToDo
  <2> QED
    BY <1>3, <1>4, <1>5, <1>6, <2>5 DEF LeavesLess
<1>10. CASE \E c \in Direct : c \in extra \ extra' /\ DimAhead(DimOf[c])' <= 1
  <2>1. PICK c \in Direct : c \in extra \ extra' /\ DimAhead(DimOf[c])' <= 1
    BY <1>10
  <2>2. c \in ExtraToDo /\ c \notin ExtraToDo'
    BY <2>1, AheadTypes DEF ExtraToDo
  <2> QED
    BY <1>3, <1>4, <1>5, <1>6, <2>2 DEF LeavesLess
<1> QED
  BY <1>3, <1>4, <1>5, <1>6, <1>7, <1>8, <1>9, <1>10 DEF LeavesLess

LEMMA StartLessens == ASSUME JudgesInv, WaitInv, Start PROVE WaitInv' /\ LeavesLess
<1>1. /\ claims' = claims /\ UNCHANGED <<chunk, left, extra, verdict, basis>>
      /\ pc = "start" /\ pc' \in {"done", "judging"}
      /\ \A d \in Dims \cup {General} : dim'[d] = IF d \in Groups THEN "waiting" ELSE "absent"
  BY DEF Start, judgement, JudgesInv, TypeOK
<1>2. \A d \in Groups : dim'[d] = "waiting" /\ dim[d] = "absent"
  BY <1>1, Sliced DEF JudgesInv, WaitInv
<1>3. \A k \in Keys : chunk[k] = "absent"
  BY <1>1 DEF JudgesInv, NodeInv
<1>4. WaitInv'
  BY <1>1, <1>2, <1>3, SameClaims DEF WaitInv
<1>5. NodeToDo' \subseteq NodeToDo /\ NodeToDo' # NodeToDo
  BY <1>1 DEF NodeToDo
<1>6. LeavesLess
  <2>1. \A d \in Groups : DimAhead(d)' <= DimAhead(d)
    BY <1>2 DEF DimAhead
  <2>2. \A k \in Keys : ChunkAhead(k)' <= ChunkAhead(k)
    BY <1>1 DEF ChunkAhead
  <2> QED
    BY <1>1, <1>5, <2>1, <2>2, Shrinks
<1> QED
  BY <1>4, <1>6

LEMMA NodeEndLessens == ASSUME JudgesInv, WaitInv, NodeFails \/ Finish PROVE WaitInv' /\ LeavesLess
<1>1. /\ UNCHANGED <<claims, chunk, dim, left, extra, verdict, basis>>
      /\ pc \in {"start", "judging"} /\ pc' \in {"failed", "done"}
  BY DEF NodeFails, Finish, progress, judgement
<1>2. WaitInv'
  BY <1>1, SameClaims DEF WaitInv
<1>3. NodeToDo' \subseteq NodeToDo /\ NodeToDo' # NodeToDo
  BY <1>1 DEF NodeToDo
<1>4. LeavesLess
  <2>1. \A d \in Groups : DimAhead(d)' <= DimAhead(d)
    BY <1>1 DEF DimAhead
  <2>2. \A k \in Keys : ChunkAhead(k)' <= ChunkAhead(k)
    BY <1>1 DEF ChunkAhead
  <2> QED
    BY <1>1, <1>3, <2>1, <2>2, Shrinks
<1> QED
  BY <1>2, <1>4

\* A dimension goes a step further, to p; its batches may start, and the statements
\* to be looked through change by those of its own.
LEMMA DimLessens ==
  ASSUME JudgesInv, WaitInv, NEW d \in Groups, NEW p, dim' = [dim EXCEPT ![d] = p],
         UNCHANGED <<claims, pc, left>>,
         dim[d] # "absent", p \notin {"absent", "waiting"},
         DimAhead(d)' < DimAhead(d) \/ \E c \in Group(d) : c \in extra \ extra' /\ p \in {"extra", "done"},
         DimAhead(d)' <= DimAhead(d),
         \A k \in Keys : \/ chunk'[k] = chunk[k]
                         \/ k \in Chunks(d) /\ chunk[k] = "absent" /\ chunk'[k] = "waiting",
         p = "chunks" => \A k \in Chunks(d) : chunk'[k] # "absent",
         p = "extra" => extra' \cap Group(d) # {},
         \A c \in Direct : DimOf[c] # d => (c \in extra' <=> c \in extra),
         \A c \in Group(d) : c \in extra' => c \in extra \/ DimAhead(d) > 1
  PROVE  WaitInv' /\ LeavesLess
<1>1. dim'[d] = p /\ \A e \in Dims \cup {General} : e # d => dim'[e] = dim[e]
  BY Sliced DEF JudgesInv, TypeOK
<1>2. \A e \in Groups : e # d => DimAhead(e)' = DimAhead(e)
  BY <1>1, Sliced DEF JudgesInv, DimAhead
<1>3. \A e \in Groups : e # d => \A c \in Group(e) : c \in Direct /\ DimOf[c] # d
  BY DEF Group
<1>4. WaitInv'
  <2>1. \A e \in Groups : e # d /\ dim'[e] = "extra" => extra' \cap Group(e) # {}
    BY <1>1, <1>3, Sliced DEF JudgesInv, WaitInv
  <2>7. \A e \in Groups : e # d => \A k \in Chunks(e) : k \in Keys /\ chunk'[k] = chunk[k]
    BY Sliced DEF JudgesInv
  <2>2. \A e \in Groups :
          /\ e # d /\ dim'[e] = "chunks" => \A k \in Chunks(e) : chunk'[k] # "absent"
          /\ e # d /\ dim'[e] \in {"absent", "waiting"} => \A k \in Chunks(e) : chunk'[k] = "absent"
    BY <1>1, <2>7, Sliced DEF JudgesInv, WaitInv
  <2>3. \A k \in Keys : chunk'[k] = "each" => left' \cap Slice(k) # {}
    BY DEF WaitInv
  <2>4. pc # "start"
    BY DEF WaitInv
  <2>5. \A e \in Dims \cup {General} : e \notin Groups => dim'[e] = "absent"
    BY <1>1 DEF WaitInv
  <2>6. pc = "judging" => \A e \in Groups : dim'[e] # "absent"
    BY <1>1, Sliced DEF JudgesInv, WaitInv
  <2> QED
    BY <1>1, <2>1, <2>2, <2>3, <2>4, <2>5, <2>6, SameClaims DEF WaitInv
<1>5. LeavesLess
  <2>1. \A e \in Groups : DimAhead(e)' <= DimAhead(e)
    BY <1>2, AheadTypes
  <2>2. \A k \in Keys : ChunkAhead(k)' <= ChunkAhead(k)
    BY DEF ChunkAhead
  <2>3. \A c \in Direct : c \in extra' => c \in extra \/ DimAhead(DimOf[c]) > 1
    BY DEF Group
  <2>4. NodeToDo' = NodeToDo
    BY DEF NodeToDo
  <2>5. CASE DimAhead(d)' < DimAhead(d)
    BY <2>1, <2>2, <2>3, <2>4, <2>5, Shrinks
  <2>6. CASE \E c \in Group(d) : c \in extra \ extra' /\ p \in {"extra", "done"}
    <3>1. PICK c \in Group(d) : c \in extra \ extra' /\ p \in {"extra", "done"}
      BY <2>6
    <3>2. c \in Direct /\ DimOf[c] = d /\ DimAhead(d)' <= 1
      BY <1>1, <3>1 DEF Group, DimAhead
    <3> QED
      BY <2>1, <2>2, <2>3, <2>4, <3>1, <3>2, Shrinks
  <2> QED
    BY <2>5, <2>6
<1> QED
  BY <1>4, <1>5

LEMMA DimStepLessens ==
  ASSUME JudgesInv, WaitInv, NEW d \in Dims \cup {General}, DimStep(d)
  PROVE  WaitInv' /\ LeavesLess
<1>1. /\ dim[d] \in {"waiting", "single", "chunks", "extra"} /\ d \in Groups
      /\ dim \in [Dims \cup {General} -> {"absent", "waiting", "single", "chunks", "extra", "done"}]
      /\ chunk \in [Keys -> {"absent", "waiting", "batch", "each", "done"}]
  BY DEF DimStep, StartDim, JudgeSingle, EndChunks, Supplement, WaitInv, JudgesInv, TypeOK
<1>2. Group(d) # {} /\ Group(d) \subseteq Direct /\ Chunks(d) \subseteq Keys
  BY <1>1, Sliced DEF Groups, Group, JudgesInv
<1>3. CASE StartDim(d)
  <2>1. /\ UNCHANGED <<claims, pc, left, extra>> /\ dim[d] = "waiting"
        /\ \A k \in Chunks(d) : chunk[k] = "absent"
    BY <1>1, <1>3 DEF StartDim, WaitInv
  <2>2. CASE dim' = [dim EXCEPT ![d] = "single"] /\ UNCHANGED chunk
    <3>1. DimAhead(d)' < DimAhead(d) /\ DimAhead(d)' <= DimAhead(d)
      BY <1>1, <2>1, <2>2 DEF DimAhead
    <3> DEFINE p == "single"
    <3>2. /\ dim' = [dim EXCEPT ![d] = p] /\ p \notin {"absent", "waiting", "chunks", "extra"}
          /\ dim[d] # "absent"
      BY <2>1, <2>2
    <3>3. \A k \in Keys : chunk'[k] = chunk[k]
      BY <2>2
    <3> HIDE DEF p
    <3> QED
      BY <1>1, <2>1, <3>1, <3>2, <3>3, DimLessens
  <2>3. CASE /\ dim' = [dim EXCEPT ![d] = "chunks"]
             /\ chunk' = [k \in Keys |-> IF k \in Chunks(d) THEN "waiting" ELSE chunk[k]]
    <3>1. DimAhead(d)' < DimAhead(d) /\ DimAhead(d)' <= DimAhead(d)
      BY <1>1, <2>1, <2>3 DEF DimAhead
    <3>2. \A k \in Keys : \/ chunk'[k] = chunk[k]
                          \/ k \in Chunks(d) /\ chunk[k] = "absent" /\ chunk'[k] = "waiting"
      BY <2>1, <2>3
    <3>3. \A k \in Chunks(d) : chunk'[k] # "absent"
      BY <1>2, <2>3
    <3> DEFINE p == "chunks"
    <3>4. /\ dim' = [dim EXCEPT ![d] = p] /\ p \notin {"absent", "waiting", "extra"}
          /\ dim[d] # "absent"
      BY <2>1, <2>3
    <3> HIDE DEF p
    <3> QED
      BY <1>1, <2>1, <3>1, <3>2, <3>3, <3>4, DimLessens
  <2> QED
    BY <1>3, <2>2, <2>3 DEF StartDim
<1>4. CASE JudgeSingle(d)
  <2>1. /\ UNCHANGED <<claims, pc, left, extra, chunk>> /\ dim[d] = "single"
        /\ dim' = [dim EXCEPT ![d] = "done"]
    BY <1>4 DEF JudgeSingle
  <2>2. DimAhead(d)' < DimAhead(d) /\ DimAhead(d)' <= DimAhead(d)
    BY <1>1, <2>1 DEF DimAhead
  <2> QED
    BY <1>1, <2>1, <2>2, DimLessens
<1>5. CASE EndChunks(d)
  <2>1. /\ UNCHANGED <<claims, pc, left, chunk>> /\ dim[d] = "chunks"
        /\ dim' = [dim EXCEPT ![d] = "extra"] /\ extra' = extra \cup Group(d)
    BY <1>5 DEF EndChunks
  <2>2. DimAhead(d)' < DimAhead(d) /\ DimAhead(d)' <= DimAhead(d) /\ DimAhead(d) > 1
    BY <1>1, <2>1 DEF DimAhead
  <2>3. \A c \in Direct : DimOf[c] # d => (c \in extra' <=> c \in extra)
    BY <2>1 DEF Group
  <2>4. extra' \cap Group(d) # {}
    BY <1>2, <2>1
  <2> DEFINE p == "extra"
  <2>5. /\ dim' = [dim EXCEPT ![d] = p] /\ p \notin {"absent", "waiting", "chunks"}
        /\ dim[d] # "absent"
    BY <2>1
  <2> HIDE DEF p
  <2> QED
    BY <1>1, <2>1, <2>2, <2>3, <2>4, <2>5, DimLessens
<1>6. CASE Supplement(d)
  <2> DEFINE p == IF extra' \cap Group(d) = {} THEN "done" ELSE "extra"
  <2>1. PICK c \in extra : First(c, extra \cap Group(d)) /\ extra' = extra \ {c}
    BY <1>6 DEF Supplement
  <2>2. UNCHANGED <<claims, pc, left, chunk>> /\ dim[d] = "extra" /\ dim' = [dim EXCEPT ![d] = p]
    BY <1>6 DEF Supplement
  <2>3. c \in Group(d) /\ c \in extra \ extra'
    BY <2>1 DEF First
  <2>4. p \in {"extra", "done"} /\ (p = "extra" => extra' \cap Group(d) # {})
    OBVIOUS
  <2>5. DimAhead(d)' <= DimAhead(d)
    BY <1>1, <2>2, <2>4 DEF DimAhead
  <2>6. \A e \in Direct : DimOf[e] # d => (e \in extra' <=> e \in extra)
    BY <2>1, <2>3 DEF Group
  <2>7. \A e \in Group(d) : e \in extra' => e \in extra
    BY <2>1
  <2> HIDE DEF p
  <2> QED
    BY <1>1, <2>2, <2>3, <2>4, <2>5, <2>6, <2>7, DimLessens
<1> QED
  BY <1>3, <1>4, <1>5, <1>6 DEF DimStep

\* A batch goes a step further, to p.
LEMMA ChunkLessens ==
  ASSUME JudgesInv, WaitInv, NEW k \in Keys, NEW p \in {"batch", "each", "done"},
         chunk' = [chunk EXCEPT ![k] = p], UNCHANGED <<claims, pc, dim, extra>>,
         chunk[k] # "absent",
         ChunkAhead(k)' < ChunkAhead(k) \/ \E c \in Slice(k) : c \in left \ left' /\ p # "batch",
         ChunkAhead(k)' <= ChunkAhead(k),
         p = "each" => left' \cap Slice(k) # {},
         \A c \in Direct : c \notin Slice(k) => (c \in left' <=> c \in left),
         \A c \in Slice(k) : c \in left' => c \in left \/ ChunkAhead(k) > 1
  PROVE  WaitInv' /\ LeavesLess
<1>1. chunk'[k] = p /\ \A q \in Keys : q # k => chunk'[q] = chunk[q]
  BY DEF JudgesInv, TypeOK
<1>2. \A q \in Keys : q # k => ChunkAhead(q)' = ChunkAhead(q)
  BY <1>1 DEF ChunkAhead
<1>3. \A q \in Keys : Slice(q) \subseteq Direct
  BY DEF Slice, Group
<1>4. WaitInv'
  <2>1. \A q \in Keys : q # k /\ chunk'[q] = "each" => left' \cap Slice(q) # {}
    <3> SUFFICES ASSUME NEW q \in Keys, q # k, chunk[q] = "each"
                 PROVE  left' \cap Slice(q) # {}
      BY <1>1
    <3>1. PICK c \in Slice(q) : c \in left
      BY DEF WaitInv
    <3>2. c \notin Slice(k) /\ c \in Direct
      BY <1>3, SlicesApart
    <3> QED
      BY <3>1, <3>2
  <2>2. \A d \in Groups :
          /\ dim[d] = "chunks" => \A q \in Chunks(d) : chunk'[q] # "absent"
          /\ dim[d] \in {"absent", "waiting"} => \A q \in Chunks(d) : chunk'[q] = "absent"
    <3>1. \A d \in Groups : Chunks(d) \subseteq Keys
      BY Sliced DEF JudgesInv
    <3> QED
      BY <1>1, <3>1 DEF WaitInv
  <2> QED
    BY <1>1, <2>1, <2>2, SameClaims DEF WaitInv
<1>5. LeavesLess
  <2>1. \A q \in Keys : ChunkAhead(q)' <= ChunkAhead(q)
    BY <1>2, AheadTypes
  <2>2. \A d \in Groups : DimAhead(d)' <= DimAhead(d)
    BY AheadTypes DEF DimAhead
  <2>3. \A c \in Direct : c \in left' => c \in left \/ \E q \in Keys : c \in Slice(q) /\ ChunkAhead(q) > 1
    OBVIOUS
  <2>4. NodeToDo' = NodeToDo
    BY DEF NodeToDo
  <2>5. CASE ChunkAhead(k)' < ChunkAhead(k)
    BY <2>1, <2>2, <2>3, <2>4, <2>5, Shrinks
  <2>6. CASE \E c \in Slice(k) : c \in left \ left' /\ p # "batch"
    <3>1. ChunkAhead(k)' <= 1
      BY <1>1, <2>6 DEF ChunkAhead
    <3> QED
      BY <2>1, <2>2, <2>3, <2>4, <2>6, <3>1, Shrinks
  <2> QED
    BY <2>5, <2>6
<1> QED
  BY <1>4, <1>5

LEMMA ChunkStepLessens ==
  ASSUME JudgesInv, WaitInv, NEW k \in Keys, ChunkStep(k) PROVE WaitInv' /\ LeavesLess
<1>1. /\ chunk \in [Keys -> {"absent", "waiting", "batch", "each", "done"}]
      /\ Slice(k) # {} /\ UNCHANGED <<claims, pc, dim, extra>>
  BY DEF ChunkStep, AskBatch, BatchAnswers, BatchFails, JudgeNext, JudgesInv, TypeOK,
         Keys, Slice, Group
<1>2. CASE AskBatch(k)
  <2>1. chunk[k] = "waiting" /\ chunk' = [chunk EXCEPT ![k] = "batch"] /\ left' = left
    BY <1>2 DEF AskBatch
  <2>2. ChunkAhead(k)' < ChunkAhead(k) /\ ChunkAhead(k)' <= ChunkAhead(k)
    BY <1>1, <2>1 DEF ChunkAhead
  <2> QED
    BY <1>1, <2>1, <2>2, ChunkLessens
<1>3. CASE BatchAnswers(k)
  <2>1. chunk[k] = "batch" /\ chunk' = [chunk EXCEPT ![k] = "done"] /\ left' = left
    BY <1>3 DEF BatchAnswers
  <2>2. ChunkAhead(k)' < ChunkAhead(k) /\ ChunkAhead(k)' <= ChunkAhead(k)
    BY <1>1, <2>1 DEF ChunkAhead
  <2> QED
    BY <1>1, <2>1, <2>2, ChunkLessens
<1>4. CASE BatchFails(k)
  <2>1. chunk[k] = "batch" /\ chunk' = [chunk EXCEPT ![k] = "each"] /\ left' = left \cup Slice(k)
    BY <1>4 DEF BatchFails
  <2>2. ChunkAhead(k)' < ChunkAhead(k) /\ ChunkAhead(k)' <= ChunkAhead(k) /\ ChunkAhead(k) > 1
    BY <1>1, <2>1 DEF ChunkAhead
  <2>3. left' \cap Slice(k) # {} /\ \A c : c \notin Slice(k) => (c \in left' <=> c \in left)
    BY <1>1, <2>1
  <2> QED
    BY <1>1, <2>1, <2>2, <2>3, ChunkLessens
<1>5. CASE JudgeNext(k)
  <2> DEFINE p == IF left' \cap Slice(k) = {} THEN "done" ELSE "each"
  <2>1. PICK c \in left : First(c, left \cap Slice(k)) /\ left' = left \ {c}
                          /\ chunk' = [chunk EXCEPT ![k] = p]
    BY <1>5 DEF JudgeNext
  <2>2. chunk[k] = "each"
    BY <1>5 DEF JudgeNext
  <2>3. c \in Slice(k) /\ c \in left \ left'
    BY <2>1 DEF First
  <2>4. p \in {"each", "done"} /\ (p = "each" => left' \cap Slice(k) # {})
    OBVIOUS
  <2>5. ChunkAhead(k)' <= ChunkAhead(k)
    BY <1>1, <2>1, <2>2, <2>4 DEF ChunkAhead
  <2>6. \A e : e \notin Slice(k) => (e \in left' <=> e \in left)
    BY <2>1, <2>3
  <2>7. \A e : e \in left' => e \in left
    BY <2>1
  <2> HIDE DEF p
  <2> QED
    BY <1>1, <2>1, <2>2, <2>3, <2>4, <2>5, <2>6, <2>7, ChunkLessens
<1> QED
  BY <1>2, <1>3, <1>4, <1>5 DEF ChunkStep

LEMMA WaitAlways == Spec => [](JudgesInv /\ WaitInv)
<1>1. Init => WaitInv
  <2> SUFFICES ASSUME Init PROVE WaitInv
    OBVIOUS
  <2>1. \A d \in Groups : d \in Dims \cup {General} /\ Chunks(d) \subseteq Keys
    BY JudgesInit, Sliced DEF JudgesInv
  <2> QED
    BY <2>1 DEF Init, WaitInv
<1>2. JudgesInv /\ WaitInv /\ [Next]_vars => WaitInv'
  <2> SUFFICES ASSUME JudgesInv, WaitInv, [Next]_vars PROVE WaitInv'
    OBVIOUS
  <2>1. CASE UNCHANGED vars
    BY <2>1, SameClaims DEF vars, progress, WaitInv
  <2> QED
    BY <2>1, StartLessens, NodeEndLessens, DimStepLessens, ChunkStepLessens DEF Next
<1> QED
  BY <1>1, <1>2, JudgesInit, JudgesStep, PTL DEF Spec

LEMMA FiniteParts ==
  ASSUME TypeOK PROVE IsFiniteSet(Direct) /\ IsFiniteSet(Groups) /\ IsFiniteSet(Keys)
<1>1. Direct \subseteq 1..NumClaims
  BY JudgesAssumption DEF TypeOK, Direct, Claims
<1>2. 1 \in Int /\ NumClaims \in Int
  BY JudgesAssumption
<1>3. IsFiniteSet(Direct)
  BY <1>1, <1>2, FS_Interval, FS_Subset
<1>4. IsFiniteSet(Groups)
  <2> DEFINE f == [c \in Direct |-> DimOf[c]]
  <2>1. f \in Surjection(Direct, Groups)
    BY DEF Groups, Surjection
  <2> QED
    BY <1>3, <2>1, FS_Surjection
<1>5. IsFiniteSet(Keys)
  <2> DEFINE f == [c \in Direct |-> <<DimOf[c], Cut[claims][c]>>]
  <2>1. f \in Surjection(Direct, Keys)
    BY DEF Keys, Surjection
  <2> QED
    BY <1>3, <2>1, FS_Surjection
<1> QED
  BY <1>3, <1>4, <1>5

ToDoIsFinite ==
  /\ IsFiniteSet(NodeToDo) /\ IsFiniteSet(DimToDo) /\ IsFiniteSet(ChunkToDo)
  /\ IsFiniteSet(EachToDo) /\ IsFiniteSet(ExtraToDo)

LEMMA PartsAreFinite == ASSUME TypeOK PROVE ToDoIsFinite
<1>1. IsFiniteSet(1..3)
  <2>1. 1 \in Int /\ 3 \in Int
    OBVIOUS
  <2> QED
    BY <2>1, FS_Interval
<1>2. IsFiniteSet(NodeToDo)
  <2>1. NodeToDo \subseteq 1..3
    BY DEF NodeToDo
  <2> QED
    BY <1>1, <2>1, FS_Subset
<1>3. IsFiniteSet(DimToDo)
  <2>1. IsFiniteSet(Groups \X (1..3))
    BY <1>1, FiniteParts, FS_Product
  <2>2. DimToDo \subseteq Groups \X (1..3)
    BY DEF DimToDo
  <2> QED
    BY <2>1, <2>2, FS_Subset
<1>4. IsFiniteSet(ChunkToDo)
  <2>1. IsFiniteSet(Keys \X (1..3))
    BY <1>1, FiniteParts, FS_Product
  <2>2. ChunkToDo \subseteq Keys \X (1..3)
    BY DEF ChunkToDo
  <2> QED
    BY <2>1, <2>2, FS_Subset
<1>5. EachToDo \subseteq Direct /\ ExtraToDo \subseteq Direct
  BY DEF EachToDo, ExtraToDo
<1>6. IsFiniteSet(EachToDo) /\ IsFiniteSet(ExtraToDo)
  BY <1>5, FiniteParts, FS_Subset
<1> QED
  BY <1>2, <1>3, <1>4, <1>6 DEF ToDoIsFinite

\* The node takes a bounded number of steps, whatever batches fail and time out and
\* however dimensions and batches take turns: each step strictly shrinks a tuple of
\* finite sets, none of which a step makes larger.
THEOREM JudgingIsShort == Spec => []ToDoIsFinite /\ [][LeavesLess]_vars
<1>1. JudgesInv /\ WaitInv /\ [Next]_vars => [LeavesLess]_vars
  BY StartLessens, NodeEndLessens, DimStepLessens, ChunkStepLessens DEF Next
<1>2. JudgesInv => ToDoIsFinite
  BY PartsAreFinite DEF JudgesInv
<1> QED
  BY <1>1, <1>2, WaitAlways, PTL DEF Spec

-----------------------------------------------------------------------------
(* Nobody waits for a slot that is not given back.                         *)

Less == OpToRel(<, Nat)

LEMMA FirstExists ==
  ASSUME TypeOK, NEW S \in SUBSET Direct, S # {} PROVE \E c \in S : First(c, S)
<1>1. Less = {p \in Nat \X Nat : p[1] < p[2]}
  BY Zenon DEF Less, OpToRel
<1>2. IsWellFoundedOn(Less, Nat)
  BY NatLessThanWellFounded, Zenon DEF Less
<1>3. S \subseteq Nat
  BY JudgesAssumption DEF TypeOK, Direct, Claims
<1>4. \E c \in S : \A e \in S : <<e, c>> \notin Less
  BY <1>2, <1>3, WFMin
<1>5. \A c \in S, e \in S : <<e, c>> \notin Less => c <= e
  BY <1>1, <1>3
<1> QED
  BY <1>4, <1>5 DEF First

\* A step the node can take, with what its action waits for.
DimGoes(d) ==
  \/ dim[d] = "waiting" /\ DimSlotFree
  \/ dim[d] = "single"
  \/ dim[d] = "chunks" /\ \A k \in Chunks(d) : chunk[k] = "done"
  \/ dim[d] = "extra" /\ \E c \in extra : First(c, extra \cap Group(d))

ChunkGoes(k) ==
  \/ chunk[k] = "waiting" /\ dim[k[1]] = "chunks" /\ ChunkSlotFree(k[1])
  \/ chunk[k] = "batch"
  \/ chunk[k] = "each" /\ \E c \in left : First(c, left \cap Slice(k))

SomebodyGoes ==
  \/ \A d \in Groups : dim[d] = "done"
  \/ \E d \in Groups : DimGoes(d)
  \/ \E k \in Keys : ChunkGoes(k)

\* As long as the node judges, it can end, or a dimension or a batch can go on:
\* a dimension keeps its slot while its batches wait for theirs, and still no slot
\* of either kind is waited for in a circle.
THEOREM NoneIsStuck == Spec => [](pc = "judging" => SomebodyGoes)
<1>1. ASSUME JudgesInv, WaitInv, pc = "judging" PROVE SomebodyGoes
  <2>1. TypeOK
    BY <1>1 DEF JudgesInv
  <2>2. ASSUME NEW k \in Keys, chunk[k] \in {"batch", "each"} PROVE SomebodyGoes
    <3>1. CASE chunk[k] = "each"
      <4>1. left \cap Slice(k) # {} /\ left \cap Slice(k) \subseteq Direct
        BY <1>1, <2>1, <3>1 DEF WaitInv, TypeOK
      <4>2. \E c \in left \cap Slice(k) : First(c, left \cap Slice(k))
        BY <2>1, <4>1, FirstExists
      <4> QED
        BY <3>1, <4>2 DEF SomebodyGoes, ChunkGoes
    <3> QED
      BY <2>2, <3>1 DEF SomebodyGoes, ChunkGoes
  <2>3. ASSUME NEW d \in Groups, dim[d] \in Busy PROVE SomebodyGoes
    <3>1. CASE dim[d] = "single"
      BY <3>1 DEF SomebodyGoes, DimGoes
    <3>2. CASE dim[d] = "extra"
      <4>1. extra \cap Group(d) # {} /\ extra \cap Group(d) \subseteq Direct
        BY <1>1, <2>1, <3>2 DEF WaitInv, TypeOK
      <4>2. \E c \in extra \cap Group(d) : First(c, extra \cap Group(d))
        BY <2>1, <4>1, FirstExists
      <4> QED
        BY <3>2, <4>2 DEF SomebodyGoes, DimGoes
    <3>3. CASE dim[d] = "chunks"
      <4>1. CASE \A k \in Chunks(d) : chunk[k] = "done"
        BY <3>3, <4>1 DEF SomebodyGoes, DimGoes
      <4>2. CASE \E k \in Chunks(d) : chunk[k] # "done"
        <5>1. PICK k \in Chunks(d) : chunk[k] # "done"
          BY <4>2
        <5>2. k \in Keys /\ k[1] = d /\ chunk[k] \in {"waiting", "batch", "each"}
          BY <1>1, <2>1, <3>3, <5>1, Sliced DEF WaitInv, TypeOK
        <5>3. CASE ChunkSlotFree(d)
          BY <2>2, <3>3, <5>2, <5>3 DEF SomebodyGoes, ChunkGoes
        <5>4. CASE ~ChunkSlotFree(d)
          <6>1. ActiveChunks(d) # {}
            <7>1. SUFFICES ASSUME ActiveChunks(d) = {} PROVE FALSE
              OBVIOUS
            <7>2. Cardinality(ActiveChunks(d)) = 0
              BY <7>1, FS_EmptySet
            <7> QED
              BY <5>4, <7>2, JudgesAssumption DEF ChunkSlotFree
          <6>2. PICK q \in Chunks(d) : chunk[q] \in {"batch", "each"}
            BY <6>1 DEF ActiveChunks
          <6> QED
            BY <2>1, <2>2, <6>2, Sliced
        <5> QED
          BY <5>3, <5>4
      <4> QED
        BY <4>1, <4>2
    <3> QED
      BY <2>3, <3>1, <3>2, <3>3 DEF Busy
  <2>4. CASE \E d \in Groups : dim[d] = "waiting"
    <3>1. PICK d \in Groups : dim[d] = "waiting"
      BY <2>4
    <3>2. CASE DimSlotFree
      BY <3>1, <3>2 DEF SomebodyGoes, DimGoes
    <3>3. CASE ~DimSlotFree
      <4> DEFINE W == {e \in DOMAIN dim : dim[e] \in Busy}
      <4>1. W # {}
        <5>1. SUFFICES ASSUME W = {} PROVE FALSE
          OBVIOUS
        <5>2. Cardinality(W) = 0
          BY <5>1, FS_EmptySet
        <5> QED
          BY <3>3, <5>2, JudgesAssumption DEF DimSlotFree
      <4>2. PICK e \in DOMAIN dim : dim[e] \in Busy
        BY <4>1
      <4>3. e \in Groups
        BY <1>1, <2>1, <4>2 DEF WaitInv, TypeOK, Busy
      <4> QED
        BY <2>3, <4>2, <4>3
    <3> QED
      BY <3>2, <3>3
  <2>5. \A d \in Groups : dim[d] \in Busy \cup {"waiting", "done"}
    BY <1>1, <2>1, Sliced DEF WaitInv, TypeOK, Busy
  <2> QED
    BY <2>3, <2>4, <2>5 DEF SomebodyGoes
<1> QED
  BY <1>1, WaitAlways, PTL

=============================================================================
