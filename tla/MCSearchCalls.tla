---------------------------- MODULE MCSearchCalls ----------------------------
(* An instance of SearchCalls for TLC: two engines that overlap in one page, *)
(* a retried and an unretried one; the pages of a query cover it or not.     *)
EXTENDS SearchCalls

CONSTANTS c1, c2, q1, q2, e1, e2, u1, u2

MCFinds == [e \in {e1, e2} |-> [q \in {q1, q2} |->
              IF e = e1 THEN {u1} ELSE IF q = q1 THEN {u1, u2} ELSE {}]]
MCCovers == [u \in {u1, u2} |-> IF u = u1 THEN {q2} ELSE {q1}]
=============================================================================
