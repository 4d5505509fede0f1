--------------------------- MODULE MCVerifyJudges ---------------------------
EXTENDS VerifyJudges, TLC
CONSTANTS d1, d2, p1, p2, p3
MCDims == {d1, d2}
\* Three batches of d1, one of d2, a single untagged statement, two not judged.
MCDimOf == <<d1, d1, d2, d1, d2, General, d1, d1, d1, d2>>
MCImportance ==
  <<"primary", "secondary", "primary", "primary", "secondary", "primary", "primary",
    "secondary", "indirect", "other">>
\* One page for d1, two for d2; untagged statements are compared with all.
MCItemDim == (p1 :> d1) @@ (p2 :> d2) @@ (p3 :> d2)
MCInputs == {1..10, {1}, {2}, {9, 10}}
=============================================================================
