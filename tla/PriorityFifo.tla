---------------------------- MODULE PriorityFifo ----------------------------
(***************************************************************************)
(* What a priority queue promises, with no array in it: a set of waiting   *)
(* messages, numbered in order of arrival, from which a consumer is always *)
(* served one of the highest priority and, among those, the one that came  *)
(* first.  What the consumer got is visible, so a message that was served  *)
(* is never taken for one that was withdrawn.  InMemoryQueue implements    *)
(* this specification.                                                     *)
(***************************************************************************)
EXTENDS Integers, Sequences, FiniteSets

CONSTANTS Priorities,   \* the priorities callers pass
          Limit         \* most messages that may wait, 0 for no limit

VARIABLES waiting,      \* the messages waiting, records [id, priority]
          issued,       \* how many messages have been accepted so far
          handed        \* the messages the last consumer was served, in order

fifoVars == <<waiting, issued, handed>>

Overtakes(x, y) ==
    \/ x.priority > y.priority
    \/ x.priority = y.priority /\ x.id < y.id

FifoInit == waiting = {} /\ issued = 0 /\ handed = <<>>

\* A message is accepted while there is room, and is the youngest waiting.
Put(p) ==
    /\ Limit > 0 => Cardinality(waiting) < Limit
    /\ issued' = issued + 1
    /\ waiting' = waiting \cup {[id |-> issued + 1, priority |-> p]}
    /\ UNCHANGED handed

\* A consumer is served the messages in front of all that stay, in their order.
Serve(S) ==
    /\ S # {}
    /\ \A x \in S, y \in waiting \ S : Overtakes(x, y)
    /\ handed' \in Seq(S) /\ S = {handed'[i] : i \in DOMAIN handed'}
    /\ \A i, j \in DOMAIN handed' : i < j => Overtakes(handed'[i], handed'[j])
    /\ waiting' = waiting \ S
    /\ UNCHANGED issued

\* The owner withdraws one message, wherever it stands, and nobody is served.
Withdraw(x) ==
    /\ waiting' = waiting \ {x}
    /\ UNCHANGED <<issued, handed>>

Empty ==
    /\ waiting' = {}
    /\ UNCHANGED <<issued, handed>>

FifoNext ==
    \/ \E p \in Priorities : Put(p)
    \/ \E S \in SUBSET waiting : Serve(S)
    \/ \E x \in waiting : Withdraw(x)
    \/ Empty

FifoSpec == FifoInit /\ [][FifoNext]_fifoVars
=============================================================================
