----------------------------- MODULE ThinkingTags -----------------------------
(***************************************************************************)
(* ThinkingTagProcessor of services/sse/processor.py: the tokens of a      *)
(* model arrive in pieces cut anywhere, and what stands between <thinking> *)
(* and </thinking> is not shown.  A tag that may be cut is carried over to *)
(* the next piece.  The word inside the tags is one symbol here: what      *)
(* matters is that both begin with the only "<" they hold and that each    *)
(* may be cut after any of its symbols.                                    *)
(***************************************************************************)
EXTENDS Integers, Sequences, SequencesExt

Start == <<"<", "t", ">">>
End == <<"<", "/", "t", ">">>
Symbols == {"<", "/", "t", ">"}

\* str.find: where a tag begins in a text.
Occurrences(tag, text) ==
  {i \in 1..Len(text) : IsPrefix(tag, SubSeq(text, i, Len(text)))}

LastOnes(text, n) == SubSeq(text, Len(text) - n + 1, Len(text))

Least(S) == CHOOSE i \in S : \A k \in S : i <= k
Greatest(S) == CHOOSE i \in S : \A k \in S : k <= i

\* The length of the longest end of a text that may be the beginning of a tag.
LongestSuffixPrefix(text, candidates) ==
  Greatest({0} \cup {n \in 1..Len(text) : \E c \in candidates : IsPrefix(LastOnes(text, n), c)})

NoTags == [open |-> FALSE, carry |-> <<>>, shown |-> <<>>]

Candidates(open) == IF open THEN {End} ELSE {Start, End}

\* One round of the loop: up to the first tag, inside thinking only its end, outside
\* a tag of either kind.  Without one the loop is over.
PassTag(st) ==
  LET starts == IF st.open THEN {} ELSE Occurrences(Start, st.carry)
      ends   == Occurrences(End, st.carry)
      first  == Least(starts \cup ends)
      tag    == IF first \in starts THEN Start ELSE End
  IN  IF starts \cup ends = {} THEN st
      ELSE [open  |-> tag = Start,
            carry |-> SubSeq(st.carry, first + Len(tag), Len(st.carry)),
            shown |-> IF st.open THEN st.shown ELSE st.shown \o SubSeq(st.carry, 1, first - 1)]

\* The loop over a buffer, which holds no more tags than symbols.
PassTags(st) ==
  LET round[n \in 0..Len(st.carry)] == IF n = 0 THEN st ELSE PassTag(round[n - 1])
  IN  round[Len(st.carry)]

\* The end that may be the beginning of a tag is carried, the rest shown or dropped.
KeepCut(st) ==
  LET held == LongestSuffixPrefix(st.carry, Candidates(st.open))
  IN  [open  |-> st.open,
       carry |-> LastOnes(st.carry, held),
       shown |-> IF st.open THEN st.shown
                 ELSE st.shown \o SubSeq(st.carry, 1, Len(st.carry) - held)]

\* process: one piece, after what was carried over from the last.
Process(st, text) == KeepCut(PassTags([st EXCEPT !.carry = @ \o text]))

-----------------------------------------------------------------------------
(* What it shall do, said of positions in the whole text.                  *)

Texts(n) == UNION {[1..k -> Symbols] : k \in 0..n}

\* Tags never overlap; a start inside thinking changes nothing.
Tags(text) ==
  {<<i, i + Len(Start) - 1, "start">> : i \in Occurrences(Start, text)}
    \cup {<<i, i + Len(End) - 1, "end">> : i \in Occurrences(End, text)}

InTag(p, text) == \E g \in Tags(text) : g[1] <= p /\ p <= g[2]

InThinking(p, text) ==
  \E g \in Tags(text) :
    /\ g[2] < p /\ g[3] = "start"
    /\ \A h \in Tags(text) : h[2] < p => h[2] <= g[2]

\* The end of the text may be the beginning of a tag still to come.
InCutTag(p, text) ==
  \E i \in 1..p : \E tag \in {Start, End} : IsPrefix(SubSeq(text, i, Len(text)), tag)

Visible(text) ==
  LET out == {p \in 1..Len(text) : ~(InTag(p, text) \/ InThinking(p, text) \/ InCutTag(p, text))}
  IN  [k \in 1..Cardinality(out) |->
         text[CHOOSE p \in out : Cardinality({q \in out : q <= p}) = k]]

Misread == {text \in Texts(6) : Process(NoTags, text).shown # Visible(text)}

\* Exactly what is outside the tags and outside thinking is shown, in its order,
\* except an end of the text that may still become a tag.
ShowsWhatIsOutside == Misread = {}

\* What came before, and a text of which the first n symbols come as one piece.
Cuts == {c \in Texts(3) \X Texts(4) \X (0..4) : c[3] <= Len(c[2])}

CutsThatMatter ==
  {c \in Cuts :
     LET st == Process(NoTags, c[1])
         first == SubSeq(c[2], 1, c[3])
         rest  == SubSeq(c[2], c[3] + 1, Len(c[2]))
     IN  Process(Process(st, first), rest) # Process(st, c[2])}

\* It does not matter where the network cuts a text: a piece and then the rest
\* leave the processor where the whole leaves it, after whatever came before.
CutsDoNotMatter == CutsThatMatter = {}

\* Neither says anything of a state: TLC evaluates both once, before it starts.
ASSUME ProcessorReads == ShowsWhatIsOutside /\ CutsDoNotMatter
=============================================================================
