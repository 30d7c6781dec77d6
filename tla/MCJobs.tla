------------------------------- MODULE MCJobs -------------------------------
(* Instances of Jobs for TLC.                                              *)
EXTENDS Jobs, TLC

CONSTANTS j1, j2, a1, a2, good, other, bad

TwoJobs   == {j1, j2}
TwoAdmins == {a1, a2}
Symmetry  == Permutations(TwoAdmins)
OneJob    == {j1}
OneDef    == {good}
Mixed     == {good, bad}
OneBad    == {bad}
=============================================================================
