--------------------------- MODULE MCRetryEngine ---------------------------
(***************************************************************************)
(* Small instances of RetryEngine for TLC: enough calls for two overrides  *)
(* to overlap, and maxAttempts of none and of several.                     *)
(***************************************************************************)
EXTENDS RetryEngine

CONSTANTS c1, c2
=============================================================================
