------------------------------ MODULE MCFiles ------------------------------
(***************************************************************************)
(* The file panel over a directory with a file in it and a file beside it. *)
(***************************************************************************)
EXTENDS Files

CONSTANTS a, b

MCNames == {a, b}
MCStartTree == (<<a>> :> "dir") @@ (<<a, b>> :> "old") @@ (<<b>> :> "old")
MCTyped == {Root, <<a>>}
MCChosen == {[sub |-> Root, names |-> {a, b}]}
MCFlagSets == {Operations, {"edit"}}
=============================================================================
