---------------------------- MODULE MCRedisQueue ----------------------------
(***************************************************************************)
(* Small instances of RedisQueue for TLC: enough processes for two to move *)
(* the same job.                                                           *)
(***************************************************************************)
EXTENDS RedisQueue

CONSTANTS w1, w2

\* One job that is tried twice, one that is tried once.
JobAttempts == <<2, 1>>

\* Workers differ in name only.
WorkerSymmetry == Permutations(Workers)
=============================================================================
