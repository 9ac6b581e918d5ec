-------------------------- MODULE MCInMemoryQueue --------------------------
(***************************************************************************)
(* A small instance of InMemoryQueue for TLC.  Three priorities, one of    *)
(* them negative, and one more item than the queue has room for.           *)
(***************************************************************************)
EXTENDS InMemoryQueue

MCPriorities == {-1, 0, 2}
=============================================================================
