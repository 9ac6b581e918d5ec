----------------------------- MODULE MCRabbitMQ -----------------------------
(* Three overlapping calls of any kind, batches of two, and as many         *)
(* connections as the races and failures of three calls can leave behind.   *)
EXTENDS RabbitMQ, TLC
CONSTANTS c1, c2, c3
Callers == {c1, c2, c3}
Symmetric == Permutations(Callers)
=============================================================================
