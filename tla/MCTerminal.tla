----------------------------- MODULE MCTerminal -----------------------------
(* Instances of Terminal for TLC.                                          *)
EXTENDS Terminal

CONSTANT w1

OneWatcher == {w1}
=============================================================================
