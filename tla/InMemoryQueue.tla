--------------------------- MODULE InMemoryQueue ---------------------------
(***************************************************************************)
(* src/queue/InMemoryQueue.ts: the array behind the queue manager.  Every  *)
(* method is synchronous, so each is one action.  The read-only methods    *)
(* (peek, size, isEmpty, isFull, getAll) are read off the sequence, and an *)
(* enqueue that throws changes nothing, so it is no step.                  *)
(***************************************************************************)
EXTENDS PriorityOrder

CONSTANTS Priorities,    \* the priorities callers pass to enqueue
          MaxSize,       \* maxSize of the constructor, 0 for no limit
          MaxIds,        \* bound: how many items a behaviour enqueues
          AttemptBound    \* bound: how often an item's attempts are counted

ASSUME PrioritiesAssumption == Priorities \subseteq Int
ASSUME SizeAssumption == MaxSize \in Nat
ASSUME QueueBounds == MaxIds \in Nat /\ AttemptBound \in Nat

VARIABLES queue,         \* the array, its head first
          idCounter,     \* ids handed out so far
          served         \* history: what the last dequeue or dequeueBatch returned

vars == <<queue, idCounter, served>>

Init == queue = <<>> /\ idCounter = 0 /\ served = <<>>

\* Mutant: the size test lets one item too many in.
Full_OffByOne == MaxSize > 0 /\ Len(queue) > MaxSize

Full == MaxSize > 0 /\ Len(queue) >= MaxSize

Enqueue(p) ==
    /\ ~Full
    /\ idCounter < MaxIds
    /\ idCounter' = idCounter + 1
    /\ queue' = Pushed(queue, NewItem(idCounter + 1, p))
    /\ UNCHANGED served

\* Mutant: pop in place of shift, the last items are returned.
DequeueBatch_Pop(count) ==
    /\ queue # <<>>
    /\ queue' = Reverse(Shifted(Reverse(queue), count))
    /\ served' = Taken(Reverse(queue), count)
    /\ UNCHANGED idCounter

\* dequeueBatch shifts until it has count items or the queue is empty.
DequeueBatch(count) ==
    /\ queue # <<>>
    /\ queue' = Shifted(queue, count)
    /\ served' = Taken(queue, count)
    /\ UNCHANGED idCounter

Dequeue == DequeueBatch(1)

\* findIndex and find: the first item with the id.
At(id, i) ==
    /\ queue[i].id = id
    /\ \A j \in 1..(i - 1) : queue[j].id # id

RemoveById(id) ==
    \E i \in 1..Len(queue) :
        /\ At(id, i)
        /\ queue' = RemoveAt(queue, i)
        /\ UNCHANGED <<idCounter, served>>

IncrementAttempts(id) == \E i \in 1..Len(queue) :
    /\ At(id, i)
    /\ queue[i].attempts < AttemptBound
    /\ queue' = [queue EXCEPT ![i].attempts = @ + 1]
    /\ UNCHANGED <<idCounter, served>>

Clear ==
    /\ queue # <<>>
    /\ queue' = <<>>
    /\ UNCHANGED <<idCounter, served>>

Next ==
    \/ \E p \in Priorities : Enqueue(p)
    \/ Dequeue
    \/ \E count \in 1..(MaxIds + 1) : DequeueBatch(count)
    \/ \E id \in 1..idCounter : RemoveById(id)
    \/ \E id \in 1..idCounter : IncrementAttempts(id)
    \/ Clear

Spec == Init /\ [][Next]_vars

-----------------------------------------------------------------------------

\* The queue holds well-formed items, all of them issued by enqueue, and
\* never more than maxSize of them.
TypeOK ==
    /\ queue \in Seq(Item)
    /\ idCounter \in Nat
    /\ \A i \in 1..Len(queue) : queue[i].id \in 1..idCounter
    /\ MaxSize > 0 => Len(queue) <= MaxSize

\* Whatever is enqueued, removed or counted in between, the array is ordered
\* by priority and, within a priority, by arrival.
Ordered ==
    \A i, j \in 1..Len(queue) : i < j =>
        \/ queue[i].priority > queue[j].priority
        \/ queue[i].priority = queue[j].priority /\ queue[i].id < queue[j].id

\* The array is one way to keep the set of waiting messages: what dequeue and
\* dequeueBatch return to their caller is served in the order PriorityFifo
\* promises, one message or many; what remove and clear take reaches nobody.
Shown(q, i) == [id |-> q[i].id, priority |-> q[i].priority]
Waiting == {Shown(queue, i) : i \in 1..Len(queue)}
Handed == [i \in 1..Len(served) |-> Shown(served, i)]

Fifo == INSTANCE PriorityFifo
            WITH waiting <- Waiting, issued <- idCounter,
                 handed <- Handed, Limit <- MaxSize

ServesInOrder == Fifo!FifoSpec
=============================================================================
