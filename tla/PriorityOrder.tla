--------------------------- MODULE PriorityOrder ---------------------------
(***************************************************************************)
(* The array operations of src/queue/InMemoryQueue.ts as operators on      *)
(* sequences of items.  They are kept apart from the state machines that   *)
(* use them (InMemoryQueue, QueueManager) so that both share one set of    *)
(* definitions and one set of lemmas (Data_proofs).                        *)
(*                                                                         *)
(* An item keeps the fields the code reads: the number in its id, its      *)
(* priority and its attempt count.  The message it carries is named by the *)
(* id, and addedAt, which nothing reads, is left out.                      *)
(***************************************************************************)
EXTENDS SequencesExt

Item == [id : Nat, priority : Int, attempts : Nat]

NewItem(id, p) == [id |-> id, priority |-> p, attempts |-> 0]

\* Mutant: an unstable sort that puts the later of two equals first.
GoesBefore_Unstable(q, i, j) ==
    \/ q[i].priority > q[j].priority
    \/ q[i].priority = q[j].priority /\ i > j

\* Array.prototype.sort with (a, b) => b.priority - a.priority: a larger
\* priority first, and, the sort being stable, array order between equals.
GoesBefore(q, i, j) ==
    \/ q[i].priority > q[j].priority
    \/ q[i].priority = q[j].priority /\ i < j

\* The index the i-th element of q has after sorting.
Place(q, i) == 1 + Cardinality({j \in 1..Len(q) : GoesBefore(q, j, i)})

SortByPriority(q) ==
    [k \in 1..Len(q) |-> q[CHOOSE i \in 1..Len(q) : Place(q, i) = k]]

\* push, then sort the whole array.
Pushed(q, x) == SortByPriority(Append(q, x))

\* What n calls of shift return, one after the other; less when it is used up.
Taken(q, n) == SubSeq(q, 1, IF n < Len(q) THEN n ELSE Len(q))

\* What n calls of shift leave; more calls than elements leave nothing.
Shifted(q, n) == SubSeq(q, n + 1, Len(q))

IdsOf(q) == {q[i].id : i \in 1..Len(q)}
=============================================================================
