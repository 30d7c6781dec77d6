----------------------------- MODULE MCGateway -----------------------------
(* Instances of Gateway for TLC.                                           *)
EXTENDS Gateway, TLC

CONSTANTS u1, u2, k1, a1, i1, i2, i3

TwoClients == {u1, u2}
OneCheck   == {k1}
OneAdmin   == {a1}
Tabs       == Permutations({u1, u2})
ThreeIds   == {i1, i2, i3}
Shared     == u1 :> i1 @@ u2 :> i1 @@ k1 :> i3
=============================================================================
