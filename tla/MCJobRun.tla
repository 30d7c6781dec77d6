------------------------------ MODULE MCJobRun ------------------------------
(* Instances of JobRun for TLC.                                            *)
EXTENDS JobRun

CONSTANTS c1, h1, l1, x1, x2

OneCheck    == {c1}
OneShell    == {h1}
OneLocal    == {l1}
Nobody      == {}
OneAsset    == {x1}
OtherAsset  == {x2}
TwoAssets   == {x1, x2}
=============================================================================
