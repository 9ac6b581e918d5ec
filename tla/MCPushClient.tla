---------------------------- MODULE MCPushClient ----------------------------
(***************************************************************************)
(* Small instances of PushClient for TLC.                                  *)
(***************************************************************************)
EXTENDS PushClient

CONSTANTS l1, l2, l3, l4, c1, c2

\* Calls differ in name only.
CallSymmetry == Permutations(LifeCalls) \cup Permutations(SendCalls)
=============================================================================
