-------------------------- MODULE MCAccessSecurity --------------------------
(* Instances of AccessSecurity for TLC.                                    *)
EXTENDS AccessSecurity, TLC

CONSTANTS i1, i2, i3, a1, a2, x, y

TwoIds    == {i1, i2}
ThreeIds  == {i1, i2, i3}
Clients   == {x, y}
OneAdmin  == {a1}
TwoAdmins == {a1, a2}
Symmetry  == Permutations(TwoAdmins) \cup Permutations(TwoIds)

\* an address, a range that holds it, and "y,x-x", which is a range up to x when it
\* is read as one
Allowed  == [rule |-> "allow", ip |-> {x}, whole |-> {x}, priority |-> 1]
Rejected == [rule |-> "reject", ip |-> {x, y}, whole |-> {x, y}, priority |-> 2]
Several  == [rule |-> "reject", ip |-> {x, y}, whole |-> {x}, priority |-> 1]
Forms    == {Allowed, Rejected, Several}
=============================================================================
