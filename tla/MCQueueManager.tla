--------------------------- MODULE MCQueueManager ---------------------------
(***************************************************************************)
(* Small instances of QueueManager for TLC.  Twice as many worker slots as *)
(* config.concurrency, so that a second crew can start beside the first.   *)
(***************************************************************************)
EXTENDS QueueManager

CONSTANTS w1, w2, w3, w4, s1, s2

\* Workers, and pending stop() calls, differ in name only.
WorkerSymmetry == Permutations(Workers) \cup Permutations(StopCalls)
=============================================================================
