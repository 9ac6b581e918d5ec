------------------------------ MODULE MCBullMQ ------------------------------
(* Two callers of one configuration, and instances enough for a race of     *)
(* their loads or for one that a probe made.                                *)
EXTENDS BullMQ, TLC
CONSTANTS a, b, j1
TwoCallers == {a, b}
OneJob == {j1}
Symmetric == Permutations(TwoCallers)
=============================================================================
