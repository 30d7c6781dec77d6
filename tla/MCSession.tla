----------------------------- MODULE MCSession -----------------------------
(* Instances of Session for TLC.                                           *)
EXTENDS Session, TLC

CONSTANTS s1, s2, t1, t2, g1, h1, a1, m1, none

OneSession  == {s1}
TwoSessions == {s1, s2}
OneTerm     == {t1}
TwoTerms    == {t1, t2}
OneGuac     == {g1}
OneShell    == {h1}
OneAdmin    == {a1}
OneMonitor  == {m1}
Nobody      == {}
=============================================================================
