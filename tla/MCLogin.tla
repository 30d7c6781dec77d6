------------------------------ MODULE MCLogin ------------------------------
(* Instances of Login for TLC.                                             *)
EXTENDS Login, TLC

CONSTANTS u1, n1, n2, t1, t2, r1, r2

OneUser     == {u1}
OneName     == {n1}
TwoNames    == {n1, n2}
TwoTokens   == {t1, t2}
OneToken    == {t1}
OneRequest  == {r1}
TwoRequests == {r1, r2}
Symmetry    == Permutations(TwoTokens) \cup Permutations(TwoRequests)
=============================================================================
