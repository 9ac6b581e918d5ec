---------------------------- MODULE Parts_proofs ----------------------------
(***************************************************************************)
(* Theorems about the parts that the queue manager and the client work     *)
(* with: InMemoryQueue, for every set of priorities, size limit and number *)
(* of items; RateLimiter, for any limits, periods, burst settings, callers *)
(* and windows; and RetryEngine, for any number of calls and any values of *)
(* maxAttempts.  The three share nothing.                                  *)
(***************************************************************************)
EXTENDS InMemoryQueue, RateLimiter, RetryEngine, Data_proofs

-----------------------------------------------------------------------------
(* The queue.                                                              *)

\* The inductive invariant: TypeOK and Ordered, which no step keeps one
\* without the other (a pushed item takes its place without moving the others
\* only if they are in order, and belongs behind its equals only if its id is
\* the largest), and that no id is in the array twice.
QueueInv ==
    /\ WellKept(queue, idCounter)
    /\ idCounter \in Nat
    /\ MaxSize > 0 => Len(queue) <= MaxSize

LEMMA QueueInvMeans == QueueInv => TypeOK /\ Ordered
BY DEF QueueInv, WellKept, InOrder, TypeOK, Ordered

LEMMA QueueInvInit == Init => QueueInv
<1> SUFFICES ASSUME Init PROVE QueueInv
  OBVIOUS
<1>1. queue \in Seq(Item) /\ Len(queue) = 0
  BY EmptySeq DEF Init
<1> QED
  BY <1>1, SizeAssumption DEF Init, QueueInv, WellKept, InOrder

LEMMA EnqueueKeeps ==
    ASSUME QueueInv, NEW p \in Priorities, Enqueue(p)
    PROVE  QueueInv'
<1>1. WellKept(queue', idCounter') /\ Len(queue') = Len(queue) + 1
  BY PushedKept, PrioritiesAssumption DEF QueueInv, Enqueue
<1>2. Len(queue) \in Nat
  BY LenProperties DEF QueueInv, WellKept
<1>3. MaxSize > 0 => Len(queue) + 1 <= MaxSize
  BY <1>2, SizeAssumption DEF Enqueue, Full
<1> QED
  BY <1>1, <1>3 DEF QueueInv, Enqueue

LEMMA DequeueBatchKeeps ==
    ASSUME QueueInv, NEW count \in Nat, DequeueBatch(count)
    PROVE  QueueInv'
<1>1. WellKept(queue', idCounter') /\ Len(queue') <= Len(queue)
  BY ShiftedKept DEF QueueInv, DequeueBatch
<1>2. Len(queue) \in Nat /\ Len(queue') \in Nat
  BY <1>1, LenProperties DEF QueueInv, WellKept
<1> QED
  BY <1>1, <1>2, SizeAssumption DEF QueueInv, DequeueBatch

LEMMA RemoveByIdKeeps ==
    ASSUME QueueInv, NEW id, RemoveById(id)
    PROVE  QueueInv'
<1>1. PICK i \in 1..Len(queue) : queue' = RemoveAt(queue, i)
  BY DEF RemoveById
<1>2. /\ queue \in Seq(Item)
      /\ Len(queue) \in Nat
      /\ idCounter' = idCounter
  BY LenProperties DEF QueueInv, WellKept, RemoveById
<1>3. /\ queue' \in Seq(Item)
      /\ Len(queue') = Len(queue) - 1
      /\ \A j \in 1..(Len(queue) - 1) :
            queue'[j] = IF j < i THEN queue[j] ELSE queue[j + 1]
  BY <1>1, <1>2, RemovedElements
<1>4. \A j \in 1..Len(queue') : queue'[j].id \in 1..idCounter
  BY <1>2, <1>3 DEF QueueInv, WellKept
<1>5. InOrder(queue')
  <2> SUFFICES ASSUME NEW a \in 1..Len(queue'), NEW b \in 1..Len(queue'), a < b
               PROVE  \/ queue'[a].priority > queue'[b].priority
                      \/ /\ queue'[a].priority = queue'[b].priority
                         /\ queue'[a].id < queue'[b].id
    BY DEF InOrder
  <2>1. /\ \/ queue'[a] = queue[a]
           \/ a >= i /\ queue'[a] = queue[a + 1]
        /\ \/ queue'[b] = queue[b + 1]
           \/ b < i /\ queue'[b] = queue[b]
    BY <1>2, <1>3
  <2>2. /\ {a, b, a + 1, b + 1} \subseteq 1..Len(queue)
        /\ a < b + 1 /\ a + 1 < b + 1
        /\ b < i => a < i
    BY <1>2, <1>3
  <2> QED
    BY <1>2, <1>3, <2>1, <2>2 DEF QueueInv, WellKept, InOrder
<1>6. ASSUME NEW a \in 1..Len(queue'), NEW b \in 1..Len(queue'), a < b
      PROVE  queue'[a].id # queue'[b].id
  <2>1. /\ \/ queue'[a] = queue[a]
           \/ a >= i /\ queue'[a] = queue[a + 1]
        /\ \/ queue'[b] = queue[b + 1]
           \/ b < i /\ queue'[b] = queue[b]
    BY <1>2, <1>3
  <2>2. /\ {a, b, a + 1, b + 1} \subseteq 1..Len(queue)
        /\ a # b + 1 /\ a + 1 # b + 1 /\ a # b
        /\ b < i => a < i
    BY <1>2, <1>3, <1>6
  <2> QED
    BY <1>2, <1>3, <2>1, <2>2 DEF QueueInv, WellKept
<1>7. \A a, b \in 1..Len(queue') : queue'[a].id = queue'[b].id => a = b
  <2> TAKE a, b \in 1..Len(queue')
  <2>1. a < b \/ b < a \/ a = b
    BY <1>2, <1>3
  <2> QED
    BY <1>6, <2>1
<1> QED
  BY <1>2, <1>3, <1>4, <1>5, <1>7, SizeAssumption DEF QueueInv, WellKept

\* Counting an attempt changes neither what an item is nor where it belongs.
LEMMA CountedItem ==
    ASSUME NEW x \in Item
    PROVE  /\ [x EXCEPT !.attempts = @ + 1] \in Item
           /\ [x EXCEPT !.attempts = @ + 1].id = x.id
           /\ [x EXCEPT !.attempts = @ + 1].priority = x.priority
BY DEF Item

LEMMA IncrementAttemptsKeeps ==
    ASSUME QueueInv, NEW id, IncrementAttempts(id)
    PROVE  QueueInv'
<1>1. PICK i \in 1..Len(queue) :
        queue' = [queue EXCEPT ![i].attempts = @ + 1]
  BY DEF IncrementAttempts
<1> DEFINE counted == [queue[i] EXCEPT !.attempts = @ + 1]
<1>2. queue \in Seq(Item) /\ queue[i] \in Item /\ idCounter' = idCounter
  BY ElementOfSeq DEF QueueInv, WellKept, IncrementAttempts
<1>3. /\ counted \in Item
      /\ counted.id = queue[i].id
      /\ counted.priority = queue[i].priority
  BY <1>2, CountedItem
<1>4. queue' = [queue EXCEPT ![i] = counted]
  BY <1>1
<1> HIDE DEF counted
<1>5. /\ queue' \in Seq(Item)
      /\ Len(queue') = Len(queue)
      /\ \A j \in 1..Len(queue) :
            queue'[j] = IF j = i THEN counted ELSE queue[j]
  BY <1>2, <1>3, <1>4, ExceptSeq
<1>6. \A j \in 1..Len(queue) :
        queue'[j].id = queue[j].id /\ queue'[j].priority = queue[j].priority
  BY <1>3, <1>5
<1> QED
  BY <1>2, <1>5, <1>6 DEF QueueInv, WellKept, InOrder

LEMMA ClearKeeps ==
    ASSUME QueueInv, Clear
    PROVE  QueueInv'
<1>1. queue' \in Seq(Item) /\ Len(queue') = 0 /\ idCounter' = idCounter
  BY EmptySeq DEF Clear
<1> QED
  BY <1>1, SizeAssumption DEF QueueInv, WellKept, InOrder

LEMMA QueueInvStep == QueueInv /\ [Next]_vars => QueueInv'
<1> SUFFICES ASSUME QueueInv, [Next]_vars PROVE QueueInv'
  OBVIOUS
<1>1. CASE \E p \in Priorities : Enqueue(p)
  BY <1>1, EnqueueKeeps
<1>2. CASE Dequeue \/ \E count \in 1..(MaxIds + 1) : DequeueBatch(count)
  BY <1>2, DequeueBatchKeeps, QueueBounds DEF Dequeue
<1>3. CASE \E id \in 1..idCounter : RemoveById(id)
  BY <1>3, RemoveByIdKeeps
<1>4. CASE \E id \in 1..idCounter : IncrementAttempts(id)
  BY <1>4, IncrementAttemptsKeeps
<1>5. CASE Clear
  BY <1>5, ClearKeeps
<1>6. CASE UNCHANGED vars
  BY <1>6 DEF QueueInv, vars
<1> QED
  BY <1>1, <1>2, <1>3, <1>4, <1>5, <1>6 DEF Next

\* The array of InMemoryQueue.ts stays well formed and within maxSize, however
\* its methods are called.
THEOREM QueueTypeCorrect == Spec => []TypeOK
<1>1. QueueInv => TypeOK
  BY QueueInvMeans
<1> QED
  BY <1>1, QueueInvInit, QueueInvStep, PTL DEF Spec

\* The array is always ordered by priority and then by arrival, so dequeue
\* (lines 70-76) may simply shift its first element.
THEOREM QueueOrdered == Spec => []Ordered
<1>1. QueueInv => Ordered
  BY QueueInvMeans
<1> QED
  BY <1>1, QueueInvInit, QueueInvStep, PTL DEF Spec

-----------------------------------------------------------------------------
(***************************************************************************)
(* The array implements PriorityFifo: every step of the queue is a step of *)
(* the abstract specification under the map that forgets the positions.    *)
(***************************************************************************)

\* Different indices show different messages, the earlier index overtaking.
LEMMA ShownInOrder ==
    ASSUME QueueInv,
           NEW i \in 1..Len(queue), NEW j \in 1..Len(queue), i < j
    PROVE  /\ Fifo!Overtakes(Shown(queue, i), Shown(queue, j))
           /\ Shown(queue, i) # Shown(queue, j)
<1>1. queue[i] \in Item /\ queue[j] \in Item
  BY ElementOfSeq DEF QueueInv, WellKept
<1>2. \/ queue[i].priority > queue[j].priority
      \/ queue[i].priority = queue[j].priority /\ queue[i].id < queue[j].id
  BY DEF QueueInv, WellKept, InOrder
<1>3. queue[i].priority # queue[j].priority \/ queue[i].id # queue[j].id
  BY <1>1, <1>2 DEF Item
<1> QED
  BY <1>2, <1>3 DEF Shown, Fifo!Overtakes

LEMMA WaitingShown == Waiting = {Shown(queue, i) : i \in 1..Len(queue)}
BY DEF Waiting

LEMMA WaitingSize ==
    ASSUME QueueInv
    PROVE  /\ IsFiniteSet(Waiting)
           /\ Cardinality(Waiting) \in Nat
           /\ Cardinality(Waiting) <= Len(queue)
<1>1. Len(queue) \in Nat
  BY LenProperties DEF QueueInv, WellKept
<1>2. IsFiniteSet(1..Len(queue)) /\ Cardinality(1..Len(queue)) = Len(queue)
  BY <1>1, SegmentSize
<1>3. /\ IsFiniteSet({Shown(queue, i) : i \in 1..Len(queue)})
      /\ Cardinality({Shown(queue, i) : i \in 1..Len(queue)})
            <= Cardinality(1..Len(queue))
  <2> DEFINE f == [i \in 1..Len(queue) |-> Shown(queue, i)]
             T == {Shown(queue, i) : i \in 1..Len(queue)}
  <2>1. f \in Surjection(1..Len(queue), T)
    BY DEF Surjection
  <2> QED
    BY <1>2, <2>1, FS_Surjection
<1> QED
  BY <1>2, <1>3, WaitingShown, FS_CardinalityType

LEMMA EnqueuePuts ==
    ASSUME QueueInv, NEW p \in Priorities, Enqueue(p)
    PROVE  Fifo!Put(p)
<1> DEFINE n == Len(queue)
           x == NewItem(idCounter + 1, p)
<1>1. queue \in Seq(Item) /\ n \in Nat /\ idCounter \in Nat
  BY LenProperties DEF QueueInv, WellKept
<1>2. x \in Item
  BY <1>1, PrioritiesAssumption DEF NewItem, Item
<1>3. Sorted(queue)
  BY <1>1, InOrderSorted DEF QueueInv, WellKept
<1>4. idCounter' = idCounter + 1 /\ queue' = Pushed(queue, x)
  BY DEF Enqueue
<1> HIDE DEF x
<1>5. Len(queue') = n + 1
  BY <1>1, <1>2, <1>3, <1>4, PushInserts
<1>6. PICK k \in 0..n :
        /\ \A i \in 1..k : queue'[i] = queue[i]
        /\ queue'[k + 1] = x
        /\ \A i \in (k + 1)..n : queue'[i + 1] = queue[i]
  BY <1>1, <1>2, <1>3, <1>4, PushInserts
<1> DEFINE shown == [id |-> x.id, priority |-> x.priority]
<1>7. Waiting' = {Shown(queue', i) : i \in 1..(n + 1)}
  BY <1>5 DEF Waiting, Shown
<1>8. Waiting' = Waiting \cup {shown}
  <2>1. ASSUME NEW i \in 1..(n + 1)
        PROVE  Shown(queue', i) \in Waiting \cup {shown}
    <3>1. CASE i \in 1..k
      BY <1>1, <1>6, <3>1 DEF Waiting, Shown
    <3>2. CASE i = k + 1
      BY <1>6, <3>2 DEF Shown
    <3>3. CASE i \notin 1..k /\ i # k + 1
      <4>1. i - 1 \in (k + 1)..n /\ i - 1 \in 1..n /\ (i - 1) + 1 = i
        BY <1>1, <3>3
      <4>2. queue'[i] = queue[i - 1]
        BY <1>6, <4>1
      <4> QED
        BY <4>1, <4>2 DEF Waiting, Shown
    <3> QED
      BY <3>1, <3>2, <3>3
  <2>2. ASSUME NEW i \in 1..n
        PROVE  \E j \in 1..(n + 1) : Shown(queue', j) = Shown(queue, i)
    <3>1. CASE i \in 1..k
      <4>1. i \in 1..(n + 1) /\ queue'[i] = queue[i]
        BY <1>1, <1>6, <3>1
      <4> QED
        BY <4>1 DEF Shown
    <3>2. CASE i \notin 1..k
      <4>1. i + 1 \in 1..(n + 1) /\ queue'[i + 1] = queue[i]
        BY <1>1, <1>6, <3>2
      <4> QED
        BY <4>1 DEF Shown
    <3> QED
      BY <3>1, <3>2
  <2>3. k + 1 \in 1..(n + 1) /\ Shown(queue', k + 1) = shown
    BY <1>1, <1>6 DEF Shown
  <2> HIDE DEF shown, n
  <2>4. Waiting = {Shown(queue, i) : i \in 1..n}
    BY WaitingShown DEF n
  <2>5. Waiting' \subseteq Waiting \cup {shown}
    BY <1>7, <2>1
  <2>6. Waiting \cup {shown} \subseteq Waiting'
    BY <1>7, <2>2, <2>3, <2>4
  <2> QED
    BY <2>5, <2>6
<1>9. shown = [id |-> idCounter + 1, priority |-> p]
  BY DEF x, NewItem
<1>10. MaxSize > 0 => Cardinality(Waiting) < MaxSize
  BY <1>1, WaitingSize, SizeAssumption DEF Enqueue, Full
<1>11. Fifo!Cardinality(Waiting) = Cardinality(Waiting)
  BY DEF Fifo!Cardinality, Cardinality, Fifo!IsFiniteSet, IsFiniteSet
<1>12. Handed' = Handed
  BY DEF Enqueue, Handed
<1> QED
  BY <1>4, <1>8, <1>9, <1>10, <1>11, <1>12 DEF Fifo!Put

\* What a batch hands over are the first items of the array, in its order.
LEMMA HandedIsFront ==
    ASSUME QueueInv, NEW count \in Nat \ {0}, DequeueBatch(count)
    PROVE  LET m == IF count < Len(queue) THEN count ELSE Len(queue)
           IN  Handed' = [i \in 1..m |-> Shown(queue, i)]
<1> DEFINE n == Len(queue)
           m == IF count < n THEN count ELSE n
<1>1. queue \in Seq(Item) /\ n \in Nat \ {0}
  BY LenProperties, EmptySeq DEF QueueInv, WellKept, DequeueBatch
<1>2. m \in 1..n
  BY <1>1
<1>3. served' = SubSeq(queue, 1, m)
  BY DEF DequeueBatch, Taken
<1> HIDE DEF m
<1>4. \A i \in 1..m : queue[i] \in Item
  BY <1>1, <1>2, ElementOfSeq
<1>5. /\ Len(SubSeq(queue, 1, m)) = m
      /\ \A i \in 1..m : SubSeq(queue, 1, m)[i] = queue[i]
  BY <1>1, <1>2, <1>4, SubSeqProperties
<1>6. Len(served') = m /\ \A i \in 1..m : served'[i] = queue[i]
  BY <1>3, <1>5
<1>7. Handed' = [i \in 1..m |-> Shown(served', i)]
  BY <1>6 DEF Handed
<1>8. \A i \in 1..m : Shown(served', i) = Shown(queue, i)
  BY <1>6 DEF Shown
<1> QED
  BY <1>7, <1>8 DEF m

LEMMA DequeueBatchServes ==
    ASSUME QueueInv, NEW count \in Nat \ {0}, DequeueBatch(count)
    PROVE  \E S \in SUBSET Waiting : Fifo!Serve(S)
<1> DEFINE n == Len(queue)
           m == IF count < n THEN count ELSE n
           S == {Shown(queue, i) : i \in 1..m}
           R == {Shown(queue, i) : i \in (m + 1)..n}
<1>1. queue \in Seq(Item) /\ n \in Nat \ {0}
  BY LenProperties, EmptySeq DEF QueueInv, WellKept, DequeueBatch
<1>2. m \in 1..n
  BY <1>1
<1>3. Waiting = S \cup R
  <2>1. 1..n = 1..m \cup (m + 1)..n
    BY <1>1, <1>2
  <2> HIDE DEF n, m
  <2>2. Waiting = {Shown(queue, i) : i \in 1..n}
    BY WaitingShown DEF n
  <2> QED
    BY <2>1, <2>2
<1>4. \A i \in 1..m, j \in (m + 1)..n :
        /\ Fifo!Overtakes(Shown(queue, i), Shown(queue, j))
        /\ Shown(queue, i) # Shown(queue, j)
  <2> TAKE i \in 1..m, j \in (m + 1)..n
  <2>1. i \in 1..n /\ j \in 1..n /\ i < j
    BY <1>1, <1>2
  <2> QED
    BY <2>1, ShownInOrder
<1>5. Waiting \ S = R
  <2> HIDE DEF n, m
  <2> QED
    BY <1>3, <1>4
<1>6. Waiting' = R
  <2>1. /\ Len(queue') = n - m
        /\ \A i \in 1..(n - m) : queue'[i] = queue[count + i]
    BY <1>1, ShiftedElements DEF DequeueBatch
  <2>2. \A i \in 1..(n - m) : queue'[i] = queue[m + i]
    BY <1>1, <2>1
  <2>3. Waiting' = {Shown(queue', i) : i \in 1..(n - m)}
    BY <2>1 DEF Waiting, Shown
  <2>4. \A i \in 1..(n - m) :
          m + i \in (m + 1)..n /\ Shown(queue', i) = Shown(queue, m + i)
    BY <1>1, <1>2, <2>2 DEF Shown
  <2>5. ASSUME NEW j \in (m + 1)..n
        PROVE  j - m \in 1..(n - m) /\ Shown(queue', j - m) = Shown(queue, j)
    <3>1. j - m \in 1..(n - m) /\ m + (j - m) = j
      BY <1>1, <1>2
    <3> QED
      BY <2>4, <3>1
  <2> HIDE DEF n, m
  <2>6. Waiting' \subseteq R
    BY <2>3, <2>4
  <2>7. R \subseteq Waiting'
    BY <2>3, <2>5
  <2> QED
    BY <2>6, <2>7
<1>7. S # {} /\ S \subseteq Waiting
  <2>1. 1 \in 1..m
    BY <1>1, <1>2
  <2> HIDE DEF n, m
  <2> QED
    BY <1>3, <2>1
<1>8. \A x \in S, y \in R : Fifo!Overtakes(x, y)
  <2> HIDE DEF n, m
  <2> QED
    BY <1>4
<1>9. idCounter' = idCounter
  BY DEF DequeueBatch
<1>10. Handed' = [i \in 1..m |-> Shown(queue, i)]
  BY <1>1, HandedIsFront
<1>11. DOMAIN Handed' = 1..m /\ \A i \in 1..m : Handed'[i] = Shown(queue, i)
  <2> HIDE DEF n, m
  <2> QED
    BY <1>10
<1>12. Handed' \in Seq(S)
  <2>1. m \in Nat
    BY <1>1, <1>2
  <2> HIDE DEF n, m
  <2>2. \A i \in 1..m : Shown(queue, i) \in S
    OBVIOUS
  <2> HIDE DEF S
  <2> QED
    BY <1>10, <2>1, <2>2, IsASeq
<1>13. S = {Handed'[i] : i \in DOMAIN Handed'}
  <2> HIDE DEF n, m
  <2> QED
    BY <1>11
<1>14. \A i, j \in DOMAIN Handed' : i < j => Fifo!Overtakes(Handed'[i], Handed'[j])
  <2> SUFFICES ASSUME NEW i \in 1..m, NEW j \in 1..m, i < j
               PROVE  Fifo!Overtakes(Handed'[i], Handed'[j])
    BY <1>11
  <2>1. i \in 1..n /\ j \in 1..n
    BY <1>1, <1>2
  <2> HIDE DEF n, m
  <2>2. Fifo!Overtakes(Shown(queue, i), Shown(queue, j))
    BY <2>1, ShownInOrder DEF n
  <2> QED
    BY <1>11, <2>2
<1> HIDE DEF S, R, m
<1>15. Fifo!Serve(S)
  BY <1>5, <1>6, <1>7, <1>8, <1>9, <1>12, <1>13, <1>14 DEF Fifo!Serve
<1> QED
  BY <1>7, <1>15

LEMMA RemoveByIdWithdraws ==
    ASSUME QueueInv, NEW id, RemoveById(id)
    PROVE  \E x \in Waiting : Fifo!Withdraw(x)
<1> DEFINE n == Len(queue)
<1>1. PICK i \in 1..n : queue' = RemoveAt(queue, i) /\ idCounter' = idCounter
  BY DEF RemoveById
<1>2. queue \in Seq(Item) /\ n \in Nat
  BY LenProperties DEF QueueInv, WellKept
<1>3. /\ Len(queue') = n - 1
      /\ \A j \in 1..(n - 1) : queue'[j] = IF j < i THEN queue[j] ELSE queue[j + 1]
  BY <1>1, <1>2, RemovedElements
<1> DEFINE x == Shown(queue, i)
<1>4. Waiting' = {Shown(queue', j) : j \in 1..(n - 1)}
  BY <1>3 DEF Waiting, Shown
<1>5. \A j \in 1..n : j # i => Shown(queue, j) # x
  <2> TAKE j \in 1..n
  <2>1. CASE j < i
    BY <2>1, ShownInOrder
  <2>2. CASE i < j
    BY <2>2, ShownInOrder
  <2> QED
    BY <1>2, <2>1, <2>2
<1>6. ASSUME NEW j \in 1..(n - 1)
      PROVE  \E l \in 1..n : l # i /\ Shown(queue', j) = Shown(queue, l)
  <2>1. CASE j < i
    <3>1. j \in 1..n /\ j # i /\ queue'[j] = queue[j]
      BY <1>2, <1>3, <2>1
    <3> QED
      BY <3>1 DEF Shown
  <2>2. CASE ~(j < i)
    <3>1. j + 1 \in 1..n /\ j + 1 # i /\ queue'[j] = queue[j + 1]
      BY <1>2, <1>3, <2>2
    <3> QED
      BY <3>1 DEF Shown
  <2> QED
    BY <2>1, <2>2
<1>7. ASSUME NEW l \in 1..n, l # i
      PROVE  \E j \in 1..(n - 1) : Shown(queue', j) = Shown(queue, l)
  <2>1. CASE l < i
    <3>1. l \in 1..(n - 1) /\ queue'[l] = queue[l]
      BY <1>2, <1>3, <2>1
    <3> QED
      BY <3>1 DEF Shown
  <2>2. CASE ~(l < i)
    <3>1. l - 1 \in 1..(n - 1) /\ ~(l - 1 < i) /\ (l - 1) + 1 = l
      BY <1>2, <1>7, <2>2
    <3>2. queue'[l - 1] = queue[l]
      BY <1>3, <3>1
    <3> QED
      BY <3>1, <3>2 DEF Shown
  <2> QED
    BY <2>1, <2>2
<1>8. Waiting = {Shown(queue, l) : l \in 1..n}
  BY WaitingShown
<1> HIDE DEF n, x
<1>9. Waiting' \subseteq Waiting \ {x}
  BY <1>4, <1>5, <1>6, <1>8
<1>10. Waiting \ {x} \subseteq Waiting'
  BY <1>4, <1>7, <1>8 DEF x
<1>11. x \in Waiting
  BY <1>8 DEF x
<1>12. Handed' = Handed
  BY DEF RemoveById, Handed
<1>13. Fifo!Withdraw(x)
  BY <1>1, <1>9, <1>10, <1>12 DEF Fifo!Withdraw
<1> QED
  BY <1>11, <1>13

LEMMA IncrementAttemptsStutters ==
    ASSUME QueueInv, NEW id, IncrementAttempts(id)
    PROVE  UNCHANGED Fifo!fifoVars
<1>1. PICK i \in 1..Len(queue) :
        queue' = [queue EXCEPT ![i] = [queue[i] EXCEPT !.attempts = @ + 1]]
  BY DEF IncrementAttempts
<1>2. queue \in Seq(Item) /\ queue[i] \in Item /\ idCounter' = idCounter
  BY ElementOfSeq DEF QueueInv, WellKept, IncrementAttempts
<1> DEFINE counted == [queue[i] EXCEPT !.attempts = @ + 1]
<1>3. counted \in Item /\ counted.id = queue[i].id
      /\ counted.priority = queue[i].priority
  BY <1>2, CountedItem
<1> HIDE DEF counted
<1>4. /\ Len(queue') = Len(queue)
      /\ \A j \in 1..Len(queue) : queue'[j] = IF j = i THEN counted ELSE queue[j]
  BY <1>1, <1>2, <1>3, ExceptSeq DEF counted
<1>5. Waiting' = {Shown(queue', j) : j \in 1..Len(queue)}
  BY <1>4 DEF Waiting, Shown
<1>6. \A j \in 1..Len(queue) : Shown(queue', j) = Shown(queue, j)
  BY <1>3, <1>4 DEF Shown
<1>7. Handed' = Handed
  BY DEF IncrementAttempts, Handed
<1> QED
  BY <1>2, <1>5, <1>6, <1>7, WaitingShown DEF Fifo!fifoVars

LEMMA ClearEmpties ==
    ASSUME Clear
    PROVE  Fifo!Empty
<1>1. Len(queue') = 0 /\ idCounter' = idCounter
  BY EmptySeq DEF Clear
<1>2. Waiting' = {}
  BY <1>1 DEF Waiting
<1>3. Handed' = Handed
  BY DEF Clear, Handed
<1> QED
  BY <1>1, <1>2, <1>3 DEF Fifo!Empty

LEMMA StepServesInOrder ==
    ASSUME QueueInv, [Next]_vars
    PROVE  [Fifo!FifoNext]_Fifo!fifoVars
<1>1. CASE \E p \in Priorities : Enqueue(p)
  BY <1>1, EnqueuePuts DEF Fifo!FifoNext
<1>2. CASE Dequeue \/ \E count \in 1..(MaxIds + 1) : DequeueBatch(count)
  <2>1. PICK count \in Nat \ {0} : DequeueBatch(count)
    BY <1>2, QueueBounds DEF Dequeue
  <2> QED
    BY <2>1, DequeueBatchServes DEF Fifo!FifoNext
<1>3. CASE \E id \in 1..idCounter : RemoveById(id)
  BY <1>3, RemoveByIdWithdraws DEF Fifo!FifoNext
<1>4. CASE \E id \in 1..idCounter : IncrementAttempts(id)
  BY <1>4, IncrementAttemptsStutters
<1>5. CASE Clear
  BY <1>5, ClearEmpties DEF Fifo!FifoNext
<1>6. CASE UNCHANGED vars
  BY <1>6 DEF vars, Fifo!fifoVars, Waiting, Handed
<1> QED
  BY <1>1, <1>2, <1>3, <1>4, <1>5, <1>6 DEF Next

\* However enqueue, dequeue, dequeueBatch, removeById, incrementAttempts and
\* clear are interleaved, what dequeue and dequeueBatch return is what
\* PriorityFifo promises: the front of the queue, in its order.
THEOREM QueueServesInOrder == Spec => ServesInOrder
<1>1. Init => Fifo!FifoInit
  <2> SUFFICES ASSUME Init PROVE Fifo!FifoInit
    OBVIOUS
  <2>1. Len(queue) = 0 /\ idCounter = 0
    BY EmptySeq DEF Init
  <2>2. Waiting = {}
    BY <2>1 DEF Waiting
  <2>3. Handed = <<>>
    BY EmptySeq DEF Init, Handed
  <2> QED
    BY <2>1, <2>2, <2>3 DEF Fifo!FifoInit
<1>2. QueueInv /\ [Next]_vars => [Fifo!FifoNext]_Fifo!fifoVars
  BY StepServesInOrder
<1> QED
  BY <1>1, <1>2, QueueInvInit, QueueInvStep, PTL
     DEF Spec, ServesInOrder, Fifo!FifoSpec


-----------------------------------------------------------------------------
(* Products of numbers, which the provers treat as opaque elsewhere.       *)

LEMMA Product ==
    ASSUME NEW a \in Nat, NEW b \in Nat
    PROVE  a * b \in Nat
OBVIOUS

LEMMA ProductOfSum ==
    ASSUME NEW a \in Nat, NEW b \in Nat, NEW c \in Nat
    PROVE  (a + b) * c = a * c + b * c
OBVIOUS

LEMMA ProductMonotonic ==
    ASSUME NEW a \in Nat, NEW b \in Nat, NEW c \in Nat, a <= b
    PROVE  a * c <= b * c
OBVIOUS

LEMMA Quotient ==
    ASSUME NEW a \in Nat, NEW b \in Nat \ {0}
    PROVE  a \div b \in Nat
OBVIOUS

-----------------------------------------------------------------------------
(* The inductive invariant: what was granted in the window, and what the   *)
(* buckets hold now, came out of what they held at its start and what has  *)
(* flowed in since.                                                        *)

Flow == \A b \in Buckets :
    window.granted * Period[b] + Refilled(b)
        <= capacity[b] * Period[b] + window.span * MaxPer[b]

LimiterInv == LimiterTypeOK /\ Flow

\* The types of everything an attempt computes.
LEMMA BucketFacts ==
    ASSUME LimiterTypeOK, NEW b \in Buckets
    PROVE  /\ capacity[b] \in Nat /\ tokens[b] \in Nat /\ elapsed[b] \in Nat
           /\ MaxPer[b] \in Nat \ {0} /\ Period[b] \in Nat \ {0}
           /\ capacity[b] * Period[b] \in Nat
           /\ elapsed[b] * MaxPer[b] \in Nat
           /\ Refilled(b) \in Nat
           /\ tokens[b] <= Refilled(b)
           /\ Refilled(b) <= capacity[b] * Period[b]
           /\ Refilled(b) <= tokens[b] + elapsed[b] * MaxPer[b]
<1>1. /\ capacity[b] \in Nat /\ tokens[b] \in Nat /\ elapsed[b] \in Nat
      /\ MaxPer[b] \in Nat \ {0} /\ Period[b] \in Nat \ {0}
      /\ tokens[b] <= capacity[b] * Period[b]
  BY LimiterAssumption DEF LimiterTypeOK
<1>2. capacity[b] * Period[b] \in Nat /\ elapsed[b] * MaxPer[b] \in Nat
  BY <1>1, Product
<1> DEFINE full == capacity[b] * Period[b]
           inflow == elapsed[b] * MaxPer[b]
<1>3. Refilled(b) = IF full <= tokens[b] + inflow THEN full
                                                  ELSE tokens[b] + inflow
  BY DEF Refilled, AtMost
<1>4. full \in Nat /\ inflow \in Nat /\ tokens[b] <= full
  BY <1>1, <1>2
<1> HIDE DEF full, inflow
<1>5. /\ Refilled(b) \in Nat
      /\ tokens[b] <= Refilled(b)
      /\ Refilled(b) <= full
      /\ Refilled(b) <= tokens[b] + inflow
  BY <1>1, <1>3, <1>4
<1> QED
  BY <1>1, <1>2, <1>5 DEF full, inflow

\* What an attempt leaves in a bucket, and takes from it if it is granted.
LEMMA ConsumedFacts ==
    ASSUME LimiterTypeOK, NEW n \in Nat, NEW b \in Buckets
    PROVE  /\ n * Period[b] \in Nat
           /\ Consumed(n)[b] \in Nat
           /\ Consumed(n)[b] <= Refilled(b)
           /\ Granted(n) => Consumed(n)[b] + n * Period[b] = Refilled(b)
<1>1. n * Period[b] \in Nat
  BY BucketFacts, Product
<1> DEFINE share == n * Period[b]
<1>2. /\ Consumed(n)[b] = IF Refilled(b) >= share THEN Refilled(b) - share
                                                  ELSE Refilled(b)
      /\ Granted(n) => Refilled(b) >= share
  BY DEF Consumed, CanConsume, Granted
<1> HIDE DEF share
<1>3. /\ Consumed(n)[b] \in Nat
      /\ Consumed(n)[b] <= Refilled(b)
      /\ Granted(n) => Consumed(n)[b] + share = Refilled(b)
  BY <1>1, <1>2, BucketFacts DEF share
<1> QED
  BY <1>1, <1>3 DEF share

LEMMA WaitTimeType ==
    ASSUME NEW b \in Buckets, NEW left \in Nat, NEW n \in Nat
    PROVE  WaitTime(b, left, n) \in Nat
<1>1. Period[b] \in Nat /\ MaxPer[b] \in Nat \ {0}
  BY LimiterAssumption
<1> DEFINE share == n * Period[b]
<1>2. share \in Nat
  BY <1>1, Product
<1>3. WaitTime(b, left, n) = IF left >= share THEN 0
                             ELSE (share - left + MaxPer[b] - 1) \div MaxPer[b]
  BY DEF WaitTime
<1> HIDE DEF share
<1>4. ~(left >= share) => share - left + MaxPer[b] - 1 \in Nat
  BY <1>1, <1>2
<1>5. ~(left >= share) => (share - left + MaxPer[b] - 1) \div MaxPer[b] \in Nat
  BY <1>1, <1>4, Quotient
<1> QED
  BY <1>3, <1>5

LEMMA WaitMsType ==
    ASSUME LimiterTypeOK, NEW n \in Nat
    PROVE  WaitMs(n) \in Nat
<1>1. \A b \in Buckets : Waits(n)[b] \in Nat
  BY ConsumedFacts, WaitTimeType DEF Waits
<1> QED
  BY <1>1 DEF WaitMs, AtLeast, Buckets

LEMMA CapacityType == \A b \in Buckets : Capacity(b) \in Nat
<1> SUFFICES ASSUME NEW b \in Buckets PROVE Capacity(b) \in Nat
  OBVIOUS
<1>1. MaxPer[b] \in Nat /\ MaxPer[b] * BurstPercent \in Nat
  BY LimiterAssumption, Product
<1>2. (MaxPer[b] * BurstPercent) \div 100 \in Nat
  BY <1>1, Quotient
<1> QED
  BY <1>1, <1>2 DEF Capacity, Floor

\* A window that starts now has nothing against it.
LEMMA FreshFlow == LimiterTypeOK /\ window = FreshWindow => Flow
<1> SUFFICES ASSUME LimiterTypeOK, window = FreshWindow PROVE Flow
  OBVIOUS
<1>1. \A b \in Buckets : 0 * Period[b] = 0 /\ 0 * MaxPer[b] = 0
  BY LimiterAssumption
<1> QED
  BY <1>1, BucketFacts DEF Flow, FreshWindow

LEMMA LimiterInvInit == LimiterInit => LimiterInv
<1> SUFFICES ASSUME LimiterInit PROVE LimiterInv
  OBVIOUS
<1>1. LimiterTypeOK
  <2>1. \A b \in Buckets : Capacity(b) * Period[b] \in Nat
    BY CapacityType, LimiterAssumption, Product
  <2>2. /\ capacity \in [Buckets -> Nat]
        /\ tokens \in [Buckets -> Nat]
        /\ elapsed \in [Buckets -> Nat]
    BY <2>1, CapacityType DEF LimiterInit
  <2>3. \A b \in Buckets : tokens[b] <= capacity[b] * Period[b]
    BY <2>1 DEF LimiterInit
  <2>4. caller \in [Callers -> [waiting : BOOLEAN, count : Nat, timer : Nat]]
    BY DEF LimiterInit, Idle
  <2>5. window \in [granted : Nat, span : 0..MaxSpan]
    BY SpanAssumption DEF LimiterInit, FreshWindow
  <2>6. undisturbed \subseteq Callers
    BY DEF LimiterInit
  <2> QED
    BY <2>2, <2>3, <2>4, <2>5, <2>6 DEF LimiterTypeOK
<1>2. window = FreshWindow
  BY DEF LimiterInit
<1> QED
  BY <1>1, <1>2, FreshFlow DEF LimiterInv

\* What every attempt, of whichever call, does to the buckets and the window.
LEMMA AcquireEffectKeeps ==
    ASSUME LimiterInv, NEW n \in Nat, AcquireEffect(n)
    PROVE  /\ capacity' \in [Buckets -> Nat]
           /\ tokens' \in [Buckets -> Nat]
           /\ elapsed' \in [Buckets -> Nat]
           /\ window' \in [granted : Nat, span : 0..MaxSpan]
           /\ \A b \in Buckets : tokens'[b] <= capacity'[b] * Period[b]
           /\ Flow'
<1>1. /\ tokens' = Consumed(n)
      /\ elapsed' = [b \in Buckets |-> 0]
      /\ window' = IF Granted(n) THEN [window EXCEPT !.granted = @ + n]
                                 ELSE window
      /\ capacity' = capacity
  BY DEF AcquireEffect
<1>2. /\ window.granted \in Nat /\ window.span \in Nat
      /\ window' \in [granted : Nat, span : 0..MaxSpan]
      /\ window'.span = window.span
      /\ window'.granted = IF Granted(n) THEN window.granted + n
                                         ELSE window.granted
  BY <1>1, SpanAssumption DEF LimiterInv, LimiterTypeOK
<1>3. tokens' \in [Buckets -> Nat]
  BY <1>1, ConsumedFacts DEF LimiterInv, Consumed
<1>4. ASSUME NEW b \in Buckets
      PROVE  /\ tokens'[b] <= capacity'[b] * Period[b]
             /\ Refilled(b)' = tokens'[b]
  <2>1. tokens'[b] \in Nat /\ tokens'[b] <= Refilled(b)
    BY <1>1, ConsumedFacts DEF LimiterInv
  <2>2. 0 * MaxPer[b] = 0
    BY LimiterAssumption
  <2>3. Refilled(b)' = AtMost(capacity[b] * Period[b], tokens'[b])
    BY <1>1, <2>1, <2>2 DEF Refilled
  <2> QED
    BY <1>1, <2>1, <2>3, BucketFacts DEF LimiterInv, AtMost
<1>5. ASSUME NEW b \in Buckets
      PROVE  window'.granted * Period[b] + Refilled(b)'
                <= capacity'[b] * Period[b] + window'.span * MaxPer[b]
  <2> DEFINE full == capacity[b] * Period[b]
             inflow == window.span * MaxPer[b]
             spent == window.granted * Period[b]
             share == n * Period[b]
  <2>1. /\ full \in Nat /\ inflow \in Nat /\ spent \in Nat /\ share \in Nat
        /\ Refilled(b) \in Nat
    BY <1>2, BucketFacts, Product DEF LimiterInv
  <2>2. spent + Refilled(b) <= full + inflow
    BY DEF LimiterInv, Flow
  <2>3. (window.granted + n) * Period[b] = spent + share
    BY <1>2, BucketFacts, ProductOfSum DEF LimiterInv
  <2>4. /\ tokens'[b] \in Nat /\ tokens'[b] <= Refilled(b)
        /\ Granted(n) => tokens'[b] + share = Refilled(b)
    BY <1>1, ConsumedFacts DEF LimiterInv
  <2>5. /\ window'.granted * Period[b] = IF Granted(n) THEN spent + share
                                                       ELSE spent
        /\ capacity'[b] * Period[b] = full
        /\ window'.span * MaxPer[b] = inflow
    BY <1>1, <1>2, <2>3
  <2> HIDE DEF full, inflow, spent, share
  <2> QED
    BY <1>4, <2>1, <2>2, <2>4, <2>5
<1>6. Flow'
  BY <1>5 DEF Flow
<1> QED
  BY <1>1, <1>2, <1>3, <1>4, <1>6 DEF LimiterInv, LimiterTypeOK

LEMMA AttemptKeeps ==
    ASSUME LimiterInv, NEW c \in Callers, NEW n \in Nat, Attempt(c, n)
    PROVE  LimiterInv'
<1>1. caller' \in [Callers -> [waiting : BOOLEAN, count : Nat, timer : Nat]]
  <2>1. Idle \in [waiting : BOOLEAN, count : Nat, timer : Nat]
    BY DEF Idle
  <2>2. [waiting |-> TRUE, count |-> n, timer |-> WaitMs(n)]
            \in [waiting : BOOLEAN, count : Nat, timer : Nat]
    BY WaitMsType DEF LimiterInv
  <2> QED
    BY <2>1, <2>2 DEF Attempt, LimiterInv, LimiterTypeOK
<1>2. undisturbed' \subseteq Callers
  BY DEF Attempt
<1> QED
  BY <1>1, <1>2, AcquireEffectKeeps DEF LimiterInv, LimiterTypeOK, Attempt

LEMMA TickKeeps ==
    ASSUME LimiterInv, Tick
    PROVE  LimiterInv'
<1>1. /\ elapsed' = [b \in Buckets |-> AtMost(elapsed[b] + 1, FillTime(b))]
      /\ caller' = [c \in Callers |->
                       [caller[c] EXCEPT !.timer = IF @ > 0 THEN @ - 1 ELSE 0]]
      /\ window' = IF window.span < MaxSpan THEN [window EXCEPT !.span = @ + 1]
                                            ELSE FreshWindow
      /\ UNCHANGED <<tokens, capacity, undisturbed>>
  BY DEF Tick
<1>2. ASSUME NEW b \in Buckets
      PROVE  elapsed'[b] \in Nat /\ elapsed'[b] <= elapsed[b] + 1
  <2>1. FillTime(b) \in Nat
    <3> DEFINE full == capacity[b] * Period[b]
               whole == full \div MaxPer[b]
    <3>1. full \in Nat /\ MaxPer[b] \in Nat \ {0}
      BY BucketFacts DEF LimiterInv
    <3> HIDE DEF full
    <3>2. whole \in Nat
      BY <3>1, Quotient
    <3>3. FillTime(b) = whole + 1
      BY DEF FillTime, full
    <3> HIDE DEF whole
    <3> QED
      BY <3>2, <3>3
  <2>2. elapsed[b] \in Nat
    BY BucketFacts DEF LimiterInv
  <2> QED
    BY <1>1, <2>1, <2>2 DEF AtMost
<1>3. window.granted \in Nat /\ window.span \in 0..MaxSpan /\ window.span \in Nat
  BY SpanAssumption DEF LimiterInv, LimiterTypeOK
<1>4. LimiterTypeOK'
  <2>1. elapsed' \in [Buckets -> Nat]
    BY <1>1, <1>2
  <2>2. caller' \in [Callers -> [waiting : BOOLEAN, count : Nat, timer : Nat]]
    <3>1. ASSUME NEW c \in Callers
          PROVE  caller'[c] \in [waiting : BOOLEAN, count : Nat, timer : Nat]
      <4>1. caller[c] \in [waiting : BOOLEAN, count : Nat, timer : Nat]
        BY DEF LimiterInv, LimiterTypeOK
      <4>2. (IF caller[c].timer > 0 THEN caller[c].timer - 1 ELSE 0) \in Nat
        BY <4>1
      <4>3. caller'[c] = [caller[c] EXCEPT
                !.timer = IF caller[c].timer > 0 THEN caller[c].timer - 1 ELSE 0]
        BY <1>1
      <4> QED
        BY <4>1, <4>2, <4>3
    <3> QED
      BY <1>1, <3>1
  <2>3. window' \in [granted : Nat, span : 0..MaxSpan]
    BY <1>1, <1>3, SpanAssumption DEF FreshWindow, LimiterInv, LimiterTypeOK
  <2> QED
    BY <1>1, <2>1, <2>2, <2>3 DEF LimiterInv, LimiterTypeOK
<1>5. CASE window.span < MaxSpan
  <2>1. window'.granted = window.granted /\ window'.span = window.span + 1
    BY <1>1, <1>5 DEF LimiterInv, LimiterTypeOK
  <2>2. ASSUME NEW b \in Buckets
        PROVE  window'.granted * Period[b] + Refilled(b)'
                  <= capacity'[b] * Period[b] + window'.span * MaxPer[b]
    <3> DEFINE full == capacity[b] * Period[b]
               inflow == window.span * MaxPer[b]
               spent == window.granted * Period[b]
               old == elapsed[b] * MaxPer[b]
               new == elapsed'[b] * MaxPer[b]
    <3>1. /\ full \in Nat /\ inflow \in Nat /\ spent \in Nat /\ old \in Nat
          /\ new \in Nat /\ MaxPer[b] \in Nat /\ tokens[b] \in Nat
      BY <1>2, <1>3, BucketFacts, Product DEF LimiterInv
    <3>2. new <= old + MaxPer[b]
      <4>1. elapsed[b] \in Nat /\ elapsed[b] + 1 \in Nat /\ MaxPer[b] \in Nat
        BY BucketFacts DEF LimiterInv
      <4>2. elapsed'[b] * MaxPer[b] <= (elapsed[b] + 1) * MaxPer[b]
        BY <1>2, <4>1, ProductMonotonic
      <4>3. (elapsed[b] + 1) * MaxPer[b] = elapsed[b] * MaxPer[b] + 1 * MaxPer[b]
        BY <4>1, ProductOfSum
      <4> QED
        BY <4>1, <4>2, <4>3
    <3>3. window'.span * MaxPer[b] = inflow + MaxPer[b]
      <4>1. (window.span + 1) * MaxPer[b] = window.span * MaxPer[b] + 1 * MaxPer[b]
        BY <1>3, <3>1, ProductOfSum
      <4> QED
        BY <2>1, <3>1, <4>1
    <3>4. /\ Refilled(b) = AtMost(full, tokens[b] + old)
          /\ Refilled(b)' = AtMost(full, tokens[b] + new)
      BY <1>1 DEF Refilled
    <3>5. spent + Refilled(b) <= full + inflow
      BY DEF LimiterInv, Flow
    <3>6. /\ window'.granted * Period[b] = spent
          /\ capacity'[b] * Period[b] = full
      BY <1>1, <2>1
    <3> HIDE DEF full, inflow, spent, old, new
    <3>7. Refilled(b)' <= Refilled(b) + MaxPer[b]
      BY <3>1, <3>2, <3>4 DEF AtMost
    <3>8. Refilled(b) \in Nat /\ Refilled(b)' \in Nat
      BY <3>1, <3>4 DEF AtMost
    <3> QED
      BY <3>1, <3>3, <3>5, <3>6, <3>7, <3>8
  <2> QED
    BY <1>4, <2>2 DEF LimiterInv, Flow
<1>6. CASE ~(window.span < MaxSpan)
  <2>1. window' = FreshWindow
    BY <1>1, <1>6
  <2>2. (LimiterTypeOK /\ window = FreshWindow => Flow)'
    BY FreshFlow, PTL
  <2> QED
    BY <1>4, <2>1, <2>2 DEF LimiterInv
<1> QED
  BY <1>5, <1>6

LEMMA GetStatusKeeps ==
    ASSUME LimiterInv, GetStatus
    PROVE  LimiterInv'
<1>1. /\ tokens' = [b \in Buckets |-> Refilled(b)]
      /\ elapsed' = [b \in Buckets |-> 0]
      /\ UNCHANGED <<capacity, caller, window, undisturbed>>
  BY DEF GetStatus
<1>2. LimiterTypeOK'
  BY <1>1, BucketFacts DEF LimiterInv, LimiterTypeOK
<1>3. \A b \in Buckets : Refilled(b)' = Refilled(b)
  <2> TAKE b \in Buckets
  <2>1. 0 * MaxPer[b] = 0
    BY LimiterAssumption
  <2>2. Refilled(b)' = AtMost(capacity[b] * Period[b], Refilled(b))
    BY <1>1, <2>1, BucketFacts DEF LimiterInv, Refilled
  <2> QED
    BY <2>2, BucketFacts DEF LimiterInv, AtMost
<1> QED
  BY <1>1, <1>2, <1>3 DEF LimiterInv, Flow

LEMMA ResetKeeps ==
    ASSUME LimiterInv, Reset
    PROVE  LimiterInv'
<1>1. /\ capacity' = MaxPer
      /\ tokens' = [b \in Buckets |-> MaxPer[b] * Period[b]]
      /\ elapsed' = [b \in Buckets |-> 0]
      /\ window' = FreshWindow
      /\ undisturbed' = {}
      /\ UNCHANGED caller
  BY DEF Reset
<1>2. \A b \in Buckets : MaxPer[b] \in Nat /\ MaxPer[b] * Period[b] \in Nat
  BY LimiterAssumption, Product
<1>3. MaxPer \in [Buckets -> Nat]
  BY <1>2, LimiterAssumption
<1>4. FreshWindow \in [granted : Nat, span : 0..MaxSpan]
  BY SpanAssumption DEF FreshWindow
<1>5. LimiterTypeOK'
  BY <1>1, <1>2, <1>3, <1>4 DEF LimiterInv, LimiterTypeOK
<1>6. (LimiterTypeOK /\ window = FreshWindow => Flow)'
  BY FreshFlow, PTL
<1> QED
  BY <1>1, <1>5, <1>6 DEF LimiterInv

LEMMA ObserveKeeps ==
    ASSUME LimiterInv, Observe
    PROVE  LimiterInv'
<1>1. FreshWindow \in [granted : Nat, span : 0..MaxSpan]
  BY SpanAssumption DEF FreshWindow
<1>2. LimiterTypeOK' /\ window' = FreshWindow
  BY <1>1 DEF Observe, LimiterInv, LimiterTypeOK
<1>3. (LimiterTypeOK /\ window = FreshWindow => Flow)'
  BY FreshFlow, PTL
<1> QED
  BY <1>2, <1>3 DEF LimiterInv

LEMMA LimiterStep == LimiterInv /\ [LimiterNext]_limiterVars => LimiterInv'
<1> SUFFICES ASSUME LimiterInv, [LimiterNext]_limiterVars PROVE LimiterInv'
  OBVIOUS
<1>1. ASSUME NEW n \in Counts, Acquire(n) PROVE LimiterInv'
  <2>1. n \in Nat
    BY LimiterAssumption
  <2> QED
    BY <1>1, <2>1, AcquireEffectKeeps DEF Acquire, LimiterInv, LimiterTypeOK
<1>2. ASSUME NEW c \in Callers, NEW n \in Counts, WaitAndAcquire(c, n)
      PROVE  LimiterInv'
  BY <1>2, AttemptKeeps, LimiterAssumption DEF WaitAndAcquire
<1>3. ASSUME NEW c \in Callers, Wake(c) PROVE LimiterInv'
  <2>1. caller[c].count \in Nat
    BY DEF LimiterInv, LimiterTypeOK
  <2> QED
    BY <1>3, <2>1, AttemptKeeps DEF Wake
<1>4. CASE GetStatus
  BY <1>4, GetStatusKeeps
<1>5. CASE Reset
  BY <1>5, ResetKeeps
<1>6. CASE Tick
  BY <1>6, TickKeeps
<1>7. CASE Observe
  BY <1>7, ObserveKeeps
<1>8. CASE UNCHANGED limiterVars
  BY <1>8 DEF limiterVars, LimiterInv, LimiterTypeOK, Flow, Refilled
<1> QED
  BY <1>1, <1>2, <1>3, <1>4, <1>5, <1>6, <1>7, <1>8 DEF LimiterNext

-----------------------------------------------------------------------------
(* The theorems.                                                           *)

\* The limiter's state keeps its types, and no bucket ever holds less than
\* nothing or more than its capacity.
THEOREM LimiterTypeCorrect == LimiterSpec => []LimiterTypeOK
<1>1. LimiterInv => LimiterTypeOK
  BY DEF LimiterInv
<1> QED
  BY <1>1, LimiterInvInit, LimiterStep, PTL DEF LimiterSpec

\* In any window of time, whoever calls, no more permits are granted than a
\* bucket's capacity and what flows into it during the window.
THEOREM LimiterWindowLimit == LimiterSpec => []WindowLimit
<1>1. LimiterInv => WindowLimit
  <2> SUFFICES ASSUME LimiterInv, NEW b \in Buckets
               PROVE  window.granted * Period[b]
                         <= capacity[b] * Period[b] + window.span * MaxPer[b]
    BY DEF WindowLimit
  <2> DEFINE full == capacity[b] * Period[b]
             inflow == window.span * MaxPer[b]
             spent == window.granted * Period[b]
  <2>1. window.granted \in Nat /\ window.span \in Nat
    BY SpanAssumption DEF LimiterInv, LimiterTypeOK
  <2>2. full \in Nat /\ inflow \in Nat /\ spent \in Nat /\ Refilled(b) \in Nat
    BY <2>1, BucketFacts, Product DEF LimiterInv
  <2>3. spent + Refilled(b) <= full + inflow
    BY DEF LimiterInv, Flow
  <2> HIDE DEF full, inflow, spent
  <2>4. spent <= full + inflow
    BY <2>2, <2>3
  <2> QED
    BY <2>4 DEF full, inflow, spent
<1> QED
  BY <1>1, LimiterInvInit, LimiterStep, PTL DEF LimiterSpec

-----------------------------------------------------------------------------
(* The first wake.  As long as nobody got in the way of a waiting caller,  *)
(* what a bucket holds, what flowed in since, and what will flow in until  *)
(* the timer fires make up the permits it waits for - if the bucket can    *)
(* hold that many at all.                                                  *)

PermitsDue == \A c \in undisturbed : \A b \in Buckets :
    caller[c].count <= capacity[b] =>
        caller[c].count * Period[b]
            <= tokens[b] + elapsed[b] * MaxPer[b] + caller[c].timer * MaxPer[b]

WakeInv == LimiterInv /\ PermitsDue

\* Rounding up is enough, and one more than the quotient is.
LEMMA RoundedUp ==
    ASSUME NEW a \in Nat, NEW m \in Nat \ {0}
    PROVE  a <= ((a + m - 1) \div m) * m
OBVIOUS

LEMMA OneMore ==
    ASSUME NEW a \in Nat, NEW m \in Nat \ {0}
    PROVE  a < (a \div m + 1) * m
OBVIOUS

LEMMA WaitEnough ==
    ASSUME NEW b \in Buckets, NEW left \in Nat, NEW n \in Nat
    PROVE  n * Period[b] <= left + WaitTime(b, left, n) * MaxPer[b]
<1>1. Period[b] \in Nat /\ MaxPer[b] \in Nat \ {0}
  BY LimiterAssumption
<1> DEFINE share == n * Period[b]
<1>2. share \in Nat
  BY <1>1, Product
<1>3. WaitTime(b, left, n) = IF left >= share THEN 0
                             ELSE (share - left + MaxPer[b] - 1) \div MaxPer[b]
  BY DEF WaitTime
<1> HIDE DEF share
<1>4. CASE left >= share
  <2>1. WaitTime(b, left, n) * MaxPer[b] = 0
    BY <1>1, <1>3, <1>4
  <2>2. share <= left + 0
    BY <1>2, <1>4
  <2> QED
    BY <2>1, <2>2 DEF share
<1>5. CASE ~(left >= share)
  <2>1. PICK lack \in Nat : lack = share - left
    BY <1>2, <1>5
  <2>2. lack <= WaitTime(b, left, n) * MaxPer[b]
    BY <1>1, <1>3, <1>5, <2>1, RoundedUp
  <2>3. WaitTime(b, left, n) * MaxPer[b] \in Nat
    BY <1>1, WaitTimeType, Product
  <2> DEFINE inflow == WaitTime(b, left, n) * MaxPer[b]
  <2> HIDE DEF inflow
  <2>4. lack <= inflow /\ inflow \in Nat
    BY <2>2, <2>3 DEF inflow
  <2>5. share <= left + inflow
    BY <1>2, <2>1, <2>4
  <2> QED
    BY <2>5 DEF inflow, share
<1> QED
  BY <1>4, <1>5

\* The wait reported is long enough for each bucket.
LEMMA WaitMsEnough ==
    ASSUME LimiterTypeOK, NEW n \in Nat, NEW b \in Buckets
    PROVE  n * Period[b] <= Consumed(n)[b] + WaitMs(n) * MaxPer[b]
<1>1. Consumed(n)[b] \in Nat /\ n * Period[b] \in Nat /\ MaxPer[b] \in Nat
  BY ConsumedFacts, BucketFacts
<1>2. n * Period[b] <= Consumed(n)[b] + Waits(n)[b] * MaxPer[b]
  BY <1>1, WaitEnough DEF Waits
<1>3. \A d \in Buckets : Waits(n)[d] \in Nat
  BY ConsumedFacts, WaitTimeType DEF Waits
<1>4. WaitMs(n) \in Nat /\ Waits(n)[b] <= WaitMs(n)
  BY <1>3 DEF WaitMs, AtLeast, Buckets
<1>5. Waits(n)[b] * MaxPer[b] <= WaitMs(n) * MaxPer[b]
  BY <1>1, <1>3, <1>4, ProductMonotonic
<1> DEFINE share == n * Period[b]
           one == Waits(n)[b] * MaxPer[b]
           all == WaitMs(n) * MaxPer[b]
<1>6. one \in Nat /\ all \in Nat
  BY <1>1, <1>3, <1>4, Product
<1>7. share \in Nat /\ share <= Consumed(n)[b] + one /\ one <= all
  BY <1>1, <1>2, <1>5
<1> HIDE DEF share, one, all
<1>8. share <= Consumed(n)[b] + all
  BY <1>1, <1>6, <1>7
<1> QED
  BY <1>8 DEF share, all

LEMMA AttemptEnough ==
    ASSUME LimiterInv, NEW c \in Callers, NEW n \in Nat, Attempt(c, n)
    PROVE  PermitsDue'
<1>1. CASE Granted(n)
  BY <1>1 DEF Attempt, PermitsDue
<1>2. CASE ~Granted(n)
  <2>1. undisturbed' = {c}
    BY <1>2 DEF Attempt
  <2>2. caller'[c].count = n /\ caller'[c].timer = WaitMs(n)
    BY <1>2 DEF Attempt, LimiterInv, LimiterTypeOK
  <2>3. ASSUME NEW b \in Buckets
        PROVE  n * Period[b] <= tokens'[b] + elapsed'[b] * MaxPer[b] + WaitMs(n) * MaxPer[b]
    <3>1. tokens'[b] = Consumed(n)[b] /\ elapsed'[b] = 0
      BY DEF Attempt, AcquireEffect
    <3>2. 0 * MaxPer[b] = 0
      BY LimiterAssumption
    <3>3. n * Period[b] <= Consumed(n)[b] + WaitMs(n) * MaxPer[b]
      BY WaitMsEnough DEF LimiterInv
    <3>4. Consumed(n)[b] \in Nat
      BY ConsumedFacts DEF LimiterInv
    <3>5. Consumed(n)[b] + 0 = Consumed(n)[b]
      BY <3>4
    <3> QED
      BY <3>1, <3>2, <3>3, <3>5
  <2> QED
    BY <2>1, <2>2, <2>3 DEF PermitsDue
<1> QED
  BY <1>1, <1>2

LEMMA TickEnough ==
    ASSUME WakeInv, Tick
    PROVE  PermitsDue'
<1> SUFFICES ASSUME NEW c \in undisturbed, NEW b \in Buckets, caller[c].count <= capacity[b]
             PROVE  caller[c].count * Period[b]
                      <= tokens[b] + elapsed'[b] * MaxPer[b] + caller'[c].timer * MaxPer[b]
  <2>1. UNCHANGED <<tokens, capacity, undisturbed>>
    BY DEF Tick
  <2>2. ASSUME NEW c \in undisturbed PROVE caller'[c].count = caller[c].count
    BY <2>2 DEF Tick, WakeInv, LimiterInv, LimiterTypeOK
  <2> QED
    BY <2>1, <2>2 DEF PermitsDue
<1>1. c \in Callers /\ caller[c].count \in Nat /\ caller[c].timer \in Nat
  BY DEF WakeInv, LimiterInv, LimiterTypeOK
<1>2. caller'[c].timer = IF caller[c].timer > 0 THEN caller[c].timer - 1 ELSE 0
  BY <1>1 DEF Tick, WakeInv, LimiterInv, LimiterTypeOK
<1>3. elapsed'[b] = IF elapsed[b] + 1 <= FillTime(b) THEN elapsed[b] + 1 ELSE FillTime(b)
  BY DEF Tick, AtMost
<1>4. /\ capacity[b] \in Nat /\ tokens[b] \in Nat /\ elapsed[b] \in Nat
      /\ MaxPer[b] \in Nat \ {0} /\ Period[b] \in Nat
  BY BucketFacts DEF WakeInv, LimiterInv
<1> DEFINE share == caller[c].count * Period[b]
           old == elapsed[b] * MaxPer[b]
           new == elapsed'[b] * MaxPer[b]
           due == caller[c].timer * MaxPer[b]
           left == caller'[c].timer * MaxPer[b]
<1>5. PICK t \in Nat : t = caller'[c].timer
  BY <1>1, <1>2
<1>6. share \in Nat /\ old \in Nat /\ due \in Nat /\ left \in Nat
  BY <1>1, <1>4, <1>5, Product
<1>7. share <= tokens[b] + old + due
  BY DEF WakeInv, PermitsDue
<1>8. CASE elapsed'[b] = elapsed[b] + 1
  <2>1. new = old + MaxPer[b]
    <3>1. (elapsed[b] + 1) * MaxPer[b] = elapsed[b] * MaxPer[b] + 1 * MaxPer[b]
      BY <1>4, ProductOfSum
    <3> QED
      BY <1>4, <1>8, <3>1
  <2>2. due <= left + MaxPer[b]
    <3>1. caller[c].timer <= t + 1
      BY <1>1, <1>2, <1>5
    <3>2. caller[c].timer * MaxPer[b] <= (t + 1) * MaxPer[b]
      BY <1>1, <1>4, <3>1, ProductMonotonic
    <3>3. (t + 1) * MaxPer[b] = t * MaxPer[b] + 1 * MaxPer[b]
      BY <1>4, ProductOfSum
    <3> QED
      BY <1>4, <1>5, <3>2, <3>3
  <2> HIDE DEF share, old, new, due, left
  <2>3. share <= tokens[b] + new + left
    BY <1>4, <1>6, <1>7, <2>1, <2>2
  <2> QED
    BY <2>3 DEF share, new, left
<1>9. CASE elapsed'[b] = FillTime(b)
  <2> DEFINE full == capacity[b] * Period[b]
  <2>1. full \in Nat
    BY <1>4, Product
  <2>2. share <= full
    BY <1>1, <1>4, ProductMonotonic
  <2>3. full < new
    <3>1. new = (full \div MaxPer[b] + 1) * MaxPer[b]
      BY <1>9 DEF FillTime
    <3> HIDE DEF full, new
    <3> QED
      BY <1>4, <2>1, <3>1, OneMore
  <2>4. new \in Nat
    <3>1. full \div MaxPer[b] \in Nat
      BY <1>4, <2>1, Quotient
    <3>2. FillTime(b) \in Nat
      BY <3>1 DEF FillTime
    <3> QED
      BY <1>4, <1>9, <3>2, Product
  <2> HIDE DEF share, full, new, left
  <2>5. share <= tokens[b] + new + left
    BY <1>4, <1>6, <2>1, <2>2, <2>3, <2>4
  <2> QED
    BY <2>5 DEF share, new, left
<1> QED
  BY <1>3, <1>8, <1>9

LEMMA GetStatusEnough ==
    ASSUME WakeInv, GetStatus
    PROVE  PermitsDue'
<1> SUFFICES ASSUME NEW c \in undisturbed, NEW b \in Buckets, caller[c].count <= capacity[b]
             PROVE  caller[c].count * Period[b]
                      <= Refilled(b) + 0 * MaxPer[b] + caller[c].timer * MaxPer[b]
  BY DEF GetStatus, PermitsDue
<1>1. caller[c].count \in Nat /\ caller[c].timer \in Nat
  BY DEF WakeInv, LimiterInv, LimiterTypeOK
<1>2. /\ capacity[b] \in Nat /\ tokens[b] \in Nat /\ elapsed[b] \in Nat
      /\ MaxPer[b] \in Nat \ {0} /\ Period[b] \in Nat
  BY BucketFacts DEF WakeInv, LimiterInv
<1> DEFINE share == caller[c].count * Period[b]
           full == capacity[b] * Period[b]
           inflow == elapsed[b] * MaxPer[b]
           due == caller[c].timer * MaxPer[b]
<1>3. share \in Nat /\ full \in Nat /\ inflow \in Nat /\ due \in Nat /\ 0 * MaxPer[b] = 0
  BY <1>1, <1>2, Product
<1>4. share <= full
  BY <1>1, <1>2, ProductMonotonic
<1>5. share <= tokens[b] + inflow + due
  BY DEF WakeInv, PermitsDue
<1>6. Refilled(b) = IF full <= tokens[b] + inflow THEN full ELSE tokens[b] + inflow
  BY DEF Refilled, AtMost
<1> HIDE DEF share, full, inflow, due
<1>7. share <= Refilled(b) + 0 + due
  BY <1>2, <1>3, <1>4, <1>5, <1>6
<1> QED
  BY <1>3, <1>7 DEF share, due

LEMMA WakeStep == WakeInv /\ [LimiterNext]_limiterVars => WakeInv'
<1> SUFFICES ASSUME WakeInv, [LimiterNext]_limiterVars PROVE PermitsDue'
  BY LimiterStep DEF WakeInv
<1>1. ASSUME NEW n \in Counts, Acquire(n) PROVE PermitsDue'
  BY <1>1 DEF Acquire, PermitsDue
<1>2. ASSUME NEW c \in Callers, NEW n \in Counts, WaitAndAcquire(c, n) PROVE PermitsDue'
  BY <1>2, AttemptEnough, LimiterAssumption DEF WaitAndAcquire, WakeInv
<1>3. ASSUME NEW c \in Callers, Wake(c) PROVE PermitsDue'
  <2>1. caller[c].count \in Nat
    BY DEF WakeInv, LimiterInv, LimiterTypeOK
  <2> QED
    BY <1>3, <2>1, AttemptEnough DEF Wake, WakeInv
<1>4. CASE GetStatus
  BY <1>4, GetStatusEnough
<1>5. CASE Reset
  BY <1>5 DEF Reset, PermitsDue
<1>6. CASE Tick
  BY <1>6, TickEnough
<1>7. CASE Observe
  BY <1>7 DEF Observe, PermitsDue, WakeInv
<1>8. CASE UNCHANGED limiterVars
  BY <1>8 DEF limiterVars, PermitsDue, WakeInv
<1> QED
  BY <1>1, <1>2, <1>3, <1>4, <1>5, <1>6, <1>7, <1>8 DEF LimiterNext

\* A timer that fires finds the permits there, unless somebody got in the way
\* or a bucket cannot hold that many.
LEMMA WakeFinds ==
    ASSUME WakeInv, NEW c \in undisturbed, Wake(c),
           \A b \in Buckets : caller[c].count <= capacity[b]
    PROVE  ~caller'[c].waiting
<1>1. c \in Callers /\ caller[c].count \in Nat /\ caller[c].timer = 0
  BY DEF WakeInv, LimiterInv, LimiterTypeOK, Wake
<1>2. ASSUME NEW b \in Buckets PROVE CanConsume(b, caller[c].count)
  <2>1. /\ capacity[b] \in Nat /\ tokens[b] \in Nat /\ elapsed[b] \in Nat
        /\ MaxPer[b] \in Nat \ {0} /\ Period[b] \in Nat
    BY BucketFacts DEF WakeInv, LimiterInv
  <2> DEFINE share == caller[c].count * Period[b]
             full == capacity[b] * Period[b]
             inflow == elapsed[b] * MaxPer[b]
  <2>2. share \in Nat /\ full \in Nat /\ inflow \in Nat /\ 0 * MaxPer[b] = 0
    BY <1>1, <2>1, Product
  <2>3. share <= full
    BY <1>1, <2>1, ProductMonotonic
  <2>4. share <= tokens[b] + inflow + 0
    BY <1>1, <2>2 DEF WakeInv, PermitsDue
  <2>5. Refilled(b) = IF full <= tokens[b] + inflow THEN full ELSE tokens[b] + inflow
    BY DEF Refilled, AtMost
  <2> HIDE DEF share, full, inflow
  <2>6. Refilled(b) >= share
    BY <2>1, <2>2, <2>3, <2>4, <2>5
  <2> QED
    BY <2>6 DEF CanConsume, share
<1>3. Granted(caller[c].count)
  BY <1>2 DEF Granted
<1>4. caller'[c] = Idle
  BY <1>1, <1>3 DEF Wake, Attempt, WakeInv, LimiterInv, LimiterTypeOK
<1> QED
  BY <1>4 DEF Idle

\* The wait that acquire reports is long enough: a caller nobody else got in
\* the way of gets its permits when its timer first fires.
THEOREM LimiterFirstWake == LimiterSpec => FirstWakeSucceeds
<1>1. LimiterInit => WakeInv
  BY LimiterInvInit DEF LimiterInit, PermitsDue, WakeInv
<1>2. WakeInv /\ [LimiterNext]_limiterVars =>
        [\A c \in undisturbed : /\ Wake(c)
                                /\ \A b \in Buckets : caller[c].count <= capacity[b]
                                => ~caller'[c].waiting]_limiterVars
  BY WakeFinds
<1> QED
  BY <1>1, <1>2, WakeStep, PTL DEF LimiterSpec, FirstWakeSucceeds

-----------------------------------------------------------------------------
(* RetryEngine.                                                            *)

-----------------------------------------------------------------------------
(* The inductive invariant, in parts.                                      *)
\* Only a call of executeWithConfig waits for its finally block.
Stages == \A c \in Calls :
    /\ call[c].pc = "settled" => call[c].custom
    /\ call[c].pc = "idle" => ~call[c].custom

\* A call has seen the value in force, since it saw every change of it.
Watching == \A c \in Calls : call[c].pc # "idle" => maxAttempts \in seen[c]

\* Unless overrides got tangled there is at most one, and it remembers what
\* the engine was configured with.
OneOverride ==
    ~tangled =>
        /\ \A c, d \in Overriding : c = d
        /\ \A c \in Overriding : call[c].original = base /\ call[c].wasEnabled = baseEnabled
        /\ Overriding = {} => maxAttempts = base /\ enabled = baseEnabled

RetryInv ==
    /\ RetryTypeOK
    /\ Stages
    /\ Watching
    /\ AttemptsBounded
    /\ OneOverride

-----------------------------------------------------------------------------
(* Steps.                                                                  *)

\* The fields of a call.
LEMMA CallFields ==
    ASSUME RetryTypeOK, NEW c \in Calls
    PROVE  /\ call[c] \in CallState
           /\ call[c].attempt \in Nat
           /\ maxAttempts \in Nat
BY RetryAssumption DEF RetryTypeOK, CallState

LEMMA RetryInvInit == RetryInit => RetryInv
<1> SUFFICES ASSUME RetryInit PROVE RetryInv
  OBVIOUS
<1>1. \A c \in Calls : call[c] = NoCall
  BY DEF RetryInit
<1>2. Overriding = {}
  BY <1>1 DEF Overriding, NoCall
<1>3. RetryTypeOK
  <2>1. NoCall \in CallState
    BY DEF NoCall, CallState, PCs
  <2> QED
    BY <1>1, <2>1 DEF RetryInit, RetryTypeOK, Results, NoCall
<1>4. Stages /\ Watching /\ AttemptsBounded
  BY <1>1 DEF Stages, Watching, AttemptsBounded, NoCall
<1> QED
  BY <1>2, <1>3, <1>4 DEF RetryInit, RetryInv, OneOverride

\* The record a call starts with.
Started(custom, limit, on) ==
    [pc |-> IF ~on THEN "once" ELSE IF limit > 0 THEN "fn"
            ELSE IF custom THEN "settled" ELSE "idle",
     attempt |-> 0, custom |-> custom,
     original |-> IF custom THEN maxAttempts ELSE 0,
     wasEnabled |-> custom /\ enabled]

LEMMA StartedFields ==
    ASSUME RetryTypeOK, NEW custom \in BOOLEAN, NEW n \in AttemptValues, NEW on \in BOOLEAN
    PROVE  LET x == Started(custom, n, on)
           IN  /\ x \in CallState
               /\ x.pc \in {"fn", "once", "settled", "idle"}
               /\ x.pc = "fn" => n > 0
               /\ x.pc = "settled" => custom
               /\ x.pc = "idle" => ~custom
               /\ x.attempt = 0
               /\ x.custom = custom
               /\ custom => x.original = maxAttempts /\ x.wasEnabled = enabled
BY DEF Started, CallState, PCs, RetryTypeOK

LEMMA ExecuteKeeps ==
    ASSUME RetryInv, NEW c \in Calls, Execute(c)
    PROVE  RetryInv'
<1> DEFINE x == Started(FALSE, maxAttempts, enabled)
<1>1. /\ call[c].pc = "idle"
      /\ call' = [call EXCEPT ![c] = x]
      /\ seen' = [seen EXCEPT ![c] = {maxAttempts}]
      /\ result' = [result EXCEPT ![c] = IF enabled /\ ~(maxAttempts > 0) THEN "fellThrough"
                                                                          ELSE "none"]
      /\ UNCHANGED <<maxAttempts, enabled, base, baseEnabled, tangled>>
  BY DEF Execute, Begin, Started, config, baseConfig
<1>2. /\ x \in CallState
      /\ x.pc \in {"fn", "once", "idle"}
      /\ x.pc = "fn" => maxAttempts > 0
      /\ x.attempt = 0
      /\ x.custom = FALSE
  BY StartedFields DEF RetryInv, RetryTypeOK
<1> HIDE DEF x
<1>3. /\ call'[c] = x /\ seen'[c] = {maxAttempts}
      /\ \A d \in Calls \ {c} : call'[d] = call[d] /\ seen'[d] = seen[d]
  BY <1>1 DEF RetryInv, RetryTypeOK
<1>4. RetryTypeOK'
  BY <1>1, <1>2, <1>3 DEF RetryInv, RetryTypeOK, Results
<1>5. Stages' /\ Watching' /\ AttemptsBounded'
  BY <1>1, <1>2, <1>3 DEF RetryInv, Stages, Watching, AttemptsBounded
<1>6. Overriding' = Overriding
  BY <1>1, <1>2, <1>3 DEF RetryInv, Stages, Overriding
<1>7. OneOverride'
  BY <1>1, <1>2, <1>3, <1>6 DEF RetryInv, OneOverride, Overriding
<1> QED
  BY <1>4, <1>5, <1>7 DEF RetryInv

LEMMA ExecuteWithConfigKeeps ==
    ASSUME RetryInv, NEW c \in Calls, NEW n \in AttemptValues, NEW on \in BOOLEAN,
           ExecuteWithConfig(c, n, on)
    PROVE  RetryInv'
<1> DEFINE x == Started(TRUE, n, on)
<1>1. /\ call[c].pc = "idle"
      /\ call' = [call EXCEPT ![c] = x]
      /\ seen' = [Observed(n) EXCEPT ![c] = {n}]
      /\ result' = [result EXCEPT ![c] = IF on /\ ~(n > 0) THEN "fellThrough" ELSE "none"]
      /\ maxAttempts' = n /\ enabled' = on
      /\ tangled' = (tangled \/ Overriding # {})
      /\ UNCHANGED <<base, baseEnabled>>
  BY DEF ExecuteWithConfig, Begin, Started, baseConfig
<1>2. /\ x \in CallState
      /\ x.pc \in {"fn", "once", "settled"}
      /\ x.pc = "fn" => n > 0
      /\ x.attempt = 0
      /\ x.custom = TRUE
      /\ x.original = maxAttempts /\ x.wasEnabled = enabled
  BY StartedFields DEF RetryInv
<1> HIDE DEF x
<1>3. /\ call'[c] = x /\ seen'[c] = {n}
      /\ \A d \in Calls \ {c} :
            /\ call'[d] = call[d]
            /\ seen'[d] = IF d \in Running THEN seen[d] \cup {n} ELSE seen[d]
      /\ seen' \in [Calls -> SUBSET AttemptValues]
  BY <1>1 DEF RetryInv, RetryTypeOK, Observed
<1>4. RetryTypeOK'
  BY <1>1, <1>2, <1>3 DEF RetryInv, RetryTypeOK, Results
<1>5. Stages' /\ Watching'
  BY <1>1, <1>2, <1>3 DEF RetryInv, Stages, Watching, Running
<1>6. AttemptsBounded'
  BY <1>1, <1>2, <1>3 DEF RetryInv, AttemptsBounded
<1>7. Overriding' = Overriding \cup {c} /\ c \notin Overriding
  BY <1>1, <1>2, <1>3 DEF RetryInv, Stages, Overriding
<1>8. OneOverride'
  BY <1>1, <1>2, <1>3, <1>7 DEF RetryInv, OneOverride
<1> QED
  BY <1>4, <1>5, <1>6, <1>8 DEF RetryInv

LEMMA UpdateConfigKeeps ==
    ASSUME RetryInv, NEW n \in AttemptValues, NEW on \in BOOLEAN, UpdateConfig(n, on)
    PROVE  RetryInv'
<1>1. /\ maxAttempts' = n /\ base' = n /\ seen' = Observed(n)
      /\ enabled' = on /\ baseEnabled' = on
      /\ tangled' = (Overriding # {})
      /\ UNCHANGED <<call, result>>
  BY DEF UpdateConfig
<1>2. \A d \in Calls :
        seen'[d] = IF d \in Running THEN seen[d] \cup {n} ELSE seen[d]
  BY <1>1 DEF Observed
<1>3. RetryTypeOK'
  BY <1>1 DEF RetryInv, RetryTypeOK, Observed
<1>4. Stages' /\ Watching' /\ AttemptsBounded'
  BY <1>1, <1>2 DEF RetryInv, Stages, Watching, AttemptsBounded, Running
<1>5. OneOverride'
  BY <1>1 DEF OneOverride, Overriding
<1> QED
  BY <1>3, <1>4, <1>5 DEF RetryInv

\* A call that goes on, or settles, and leaves the configuration alone.
LEMMA ProgressKeeps ==
    ASSUME RetryInv, NEW c \in Calls,
           NEW x \in CallState,
           NEW r \in Results,
           call[c].pc \in {"fn", "once", "sleep"},
           x.custom = call[c].custom, x.original = call[c].original,
           x.wasEnabled = call[c].wasEnabled,
           x.pc = "settled" => x.custom, x.pc = "idle" => ~x.custom,
           x.pc \in {"fn", "sleep"} => \E n \in seen[c] : x.attempt < n,
           call' = [call EXCEPT ![c] = x], result' = [result EXCEPT ![c] = r],
           UNCHANGED <<maxAttempts, enabled, base, baseEnabled, seen, tangled>>
    PROVE  RetryInv'
<1>1. call'[c] = x /\ \A d \in Calls \ {c} : call'[d] = call[d]
  BY DEF RetryInv, RetryTypeOK
<1>2. RetryTypeOK'
  BY <1>1 DEF RetryInv, RetryTypeOK
<1>3. Stages' /\ Watching' /\ AttemptsBounded'
  BY <1>1 DEF RetryInv, Stages, Watching, AttemptsBounded
<1>4. Overriding' = Overriding
  BY <1>1 DEF Overriding
<1>5. \A d \in Overriding : /\ call'[d].original = call[d].original
                             /\ call'[d].wasEnabled = call[d].wasEnabled
  BY <1>1 DEF Overriding
<1>6. OneOverride'
  BY <1>4, <1>5 DEF RetryInv, OneOverride
<1> QED
  BY <1>2, <1>3, <1>6 DEF RetryInv

\* A call that settles, with whatever result.
LEMMA SettledKeeps ==
    ASSUME RetryInv, NEW c \in Calls, NEW r \in Results,
           call[c].pc \in {"fn", "once", "sleep"},
           call' = [call EXCEPT ![c] = Settled(c)],
           result' = [result EXCEPT ![c] = r],
           UNCHANGED <<maxAttempts, enabled, base, baseEnabled, seen, tangled>>
    PROVE  RetryInv'
<1>1. call[c] \in CallState
  BY DEF RetryInv, RetryTypeOK
<1>2. CASE call[c].custom
  <2>1. Settled(c) = [call[c] EXCEPT !.pc = "settled"]
    BY <1>2 DEF Settled
  <2>2. /\ Settled(c) \in CallState
        /\ Settled(c).pc = "settled"
        /\ Settled(c).custom = call[c].custom
        /\ Settled(c).original = call[c].original
        /\ Settled(c).wasEnabled = call[c].wasEnabled
    BY <1>1, <2>1 DEF CallState, PCs
  <2> QED
    BY <1>2, <2>2, ProgressKeeps
<1>3. CASE ~call[c].custom
  <2>1. call' = [call EXCEPT ![c] = NoCall]
    BY <1>3 DEF Settled
  <2>2. /\ NoCall \in CallState
        /\ NoCall.pc = "idle" /\ NoCall.custom = FALSE
    BY DEF NoCall, CallState, PCs
  <2>3. call'[c] = NoCall /\ \A d \in Calls \ {c} : call'[d] = call[d]
    BY <2>1 DEF RetryInv, RetryTypeOK
  <2>4. RetryTypeOK'
    BY <2>1, <2>2, <2>3 DEF RetryInv, RetryTypeOK
  <2>5. Stages' /\ Watching' /\ AttemptsBounded'
    BY <2>2, <2>3 DEF RetryInv, Stages, Watching, AttemptsBounded
  <2>6. Overriding' = Overriding
    BY <1>3, <2>2, <2>3 DEF Overriding
  <2>7. \A d \in Overriding : /\ call'[d].original = call[d].original
                             /\ call'[d].wasEnabled = call[d].wasEnabled
    BY <1>3, <2>3 DEF Overriding
  <2>8. OneOverride'
    BY <2>6, <2>7 DEF RetryInv, OneOverride
  <2> QED
    BY <2>4, <2>5, <2>8 DEF RetryInv
<1> QED
  BY <1>2, <1>3

LEMMA RetryKeeps ==
    ASSUME RetryInv, NEW c \in Calls, Retry(c)
    PROVE  RetryInv'
<1> DEFINE x == [call[c] EXCEPT !.pc = "sleep"]
<1>1. /\ x \in CallState
      /\ x.pc = "sleep" /\ x.attempt = call[c].attempt
      /\ x.custom = call[c].custom /\ x.original = call[c].original
      /\ x.wasEnabled = call[c].wasEnabled
  BY CallFields DEF RetryInv, PCs, CallState
<1>2. call[c].pc = "fn" /\ \E n \in seen[c] : call[c].attempt < n
  BY DEF Retry, RetryInv, AttemptsBounded
<1>3. /\ call' = [call EXCEPT ![c] = x]
      /\ result' = [result EXCEPT ![c] = result[c]]
      /\ result[c] \in Results
      /\ UNCHANGED <<maxAttempts, enabled, base, baseEnabled, seen, tangled>>
  BY DEF Retry, config, baseConfig, RetryInv, RetryTypeOK
<1> HIDE DEF x
<1> QED
  BY <1>1, <1>2, <1>3, ProgressKeeps

LEMMA WakeAndTryKeeps ==
    ASSUME RetryInv, NEW c \in Calls, WakeAndTry(c)
    PROVE  RetryInv'
<1> DEFINE y == [call[c] EXCEPT !.pc = "fn"]
           x == [y EXCEPT !.attempt = call[c].attempt + 1]
<1>1. /\ y \in CallState
      /\ y.pc = "fn" /\ y.custom = call[c].custom
      /\ y.original = call[c].original /\ y.wasEnabled = call[c].wasEnabled
  BY CallFields DEF RetryInv, PCs, CallState
<1>2. [call[c] EXCEPT !.pc = "fn", !.attempt = @ + 1] = x
  OBVIOUS
<1>3. call[c].attempt + 1 \in Nat
  BY CallFields DEF RetryInv
<1> HIDE DEF y
<1>4. /\ x \in CallState
      /\ x.pc = "fn" /\ x.attempt = call[c].attempt + 1
      /\ x.custom = call[c].custom /\ x.original = call[c].original
      /\ x.wasEnabled = call[c].wasEnabled
  BY <1>1, <1>3 DEF CallState
<1>5. call[c].pc = "sleep" /\ call[c].attempt + 1 < maxAttempts
  BY DEF WakeAndTry, AttemptsLeft
<1>6. maxAttempts \in seen[c]
  BY <1>5 DEF RetryInv, Watching
<1>7. /\ call' = [call EXCEPT ![c] =
                     [call[c] EXCEPT !.pc = "fn", !.attempt = @ + 1]]
      /\ result' = [result EXCEPT ![c] = result[c]]
      /\ result[c] \in Results
      /\ UNCHANGED <<maxAttempts, enabled, base, baseEnabled, seen, tangled>>
  BY DEF WakeAndTry, config, baseConfig, RetryInv, RetryTypeOK
<1> HIDE DEF x
<1>8. call' = [call EXCEPT ![c] = x]
  BY <1>2, <1>7, Zenon
<1>9. \E m \in seen[c] : x.attempt < m
  BY <1>4, <1>5, <1>6
<1>10. x.pc \notin {"settled", "idle"}
  BY <1>4
<1> QED
  BY <1>4, <1>5, <1>7, <1>8, <1>9, <1>10, ProgressKeeps

LEMMA RestoreKeeps ==
    ASSUME RetryInv, NEW c \in Calls, Restore(c)
    PROVE  RetryInv'
<1> DEFINE n == call[c].original
<1>1. /\ call[c].pc = "settled"
      /\ maxAttempts' = n /\ enabled' = call[c].wasEnabled
      /\ call' = [call EXCEPT ![c] = NoCall]
      /\ seen' = Observed(n)
      /\ UNCHANGED <<result, base, baseEnabled, tangled>>
  BY DEF Restore, baseConfig
<1>2. call[c].custom /\ n \in AttemptValues /\ enabled' \in BOOLEAN
  BY <1>1, CallFields DEF RetryInv, Stages, RetryTypeOK, CallState
<1>3. /\ NoCall \in CallState
      /\ NoCall.pc = "idle" /\ NoCall.custom = FALSE
  BY DEF NoCall, CallState, PCs
<1> HIDE DEF n
<1>4. /\ call'[c] = NoCall
      /\ \A d \in Calls \ {c} : call'[d] = call[d]
      /\ \A d \in Calls :
            seen'[d] = IF d \in Running THEN seen[d] \cup {n} ELSE seen[d]
      /\ seen' \in [Calls -> SUBSET AttemptValues]
  BY <1>1, <1>2 DEF RetryInv, RetryTypeOK, Observed
<1>5. RetryTypeOK'
  BY <1>1, <1>2, <1>3, <1>4 DEF RetryInv, RetryTypeOK
<1>6. Stages' /\ Watching'
  BY <1>1, <1>3, <1>4 DEF RetryInv, Stages, Watching, Running
<1>7. AttemptsBounded'
  BY <1>3, <1>4 DEF RetryInv, AttemptsBounded
<1>8. Overriding' = Overriding \ {c} /\ c \in Overriding
  BY <1>2, <1>3, <1>4 DEF Overriding
<1>9. OneOverride'
  BY <1>1, <1>4, <1>8 DEF RetryInv, OneOverride, n
<1> QED
  BY <1>5, <1>6, <1>7, <1>9 DEF RetryInv

LEMMA RetryStep == RetryInv /\ [RetryNext]_retryVars => RetryInv'
<1> SUFFICES ASSUME RetryInv, [RetryNext]_retryVars PROVE RetryInv'
  OBVIOUS
<1>1. ASSUME NEW c \in Calls, Execute(c) PROVE RetryInv'
  BY <1>1, ExecuteKeeps
<1>2. ASSUME NEW c \in Calls, NEW n \in AttemptValues, NEW on \in BOOLEAN,
             ExecuteWithConfig(c, n, on)
      PROVE  RetryInv'
  BY <1>2, ExecuteWithConfigKeeps
<1>3. ASSUME NEW c \in Calls, Proceed(c) PROVE RetryInv'
  <2>1. CASE Succeed(c)
    BY <2>1, SettledKeeps DEF Succeed, Results, config, baseConfig
  <2>2. CASE \E retryable \in BOOLEAN : Reject(c, retryable)
    BY <2>2, SettledKeeps DEF Reject, Results, config, baseConfig
  <2>3. CASE Retry(c)
    BY <2>3, RetryKeeps
  <2>4. CASE WakeAndTry(c)
    BY <2>4, WakeAndTryKeeps
  <2>5. CASE FallThrough(c)
    BY <2>5, SettledKeeps DEF FallThrough, Results, config, baseConfig
  <2>6. CASE Restore(c)
    BY <2>6, RestoreKeeps
  <2>7. CASE RejectOnce(c)
    BY <2>7, SettledKeeps DEF RejectOnce, Results, config, baseConfig
  <2> QED
    BY <1>3, <2>1, <2>2, <2>3, <2>4, <2>5, <2>6, <2>7 DEF Proceed
<1>4. ASSUME NEW n \in AttemptValues, NEW on \in BOOLEAN, UpdateConfig(n, on) PROVE RetryInv'
  BY <1>4, UpdateConfigKeeps
<1>5. CASE UNCHANGED retryVars
  BY <1>5 DEF retryVars, RetryInv, RetryTypeOK, Stages, Watching, AttemptsBounded,
              OneOverride, Overriding
<1> QED
  BY <1>1, <1>2, <1>3, <1>4, <1>5 DEF RetryNext

-----------------------------------------------------------------------------
(* The theorems.                                                           *)

LEMMA RetryInvAlways == RetrySpec => []RetryInv
BY RetryInvInit, RetryStep, PTL DEF RetrySpec

\* The engine's state keeps its types; what a call will restore is a value
\* somebody configured.
THEOREM RetryTypeCorrect == RetrySpec => []RetryTypeOK
<1>1. RetryInv => RetryTypeOK
  BY DEF RetryInv
<1> QED
  BY <1>1, RetryInvAlways, PTL

\* However calls overlap and the configuration changes under them, no call
\* of an enabled engine makes an attempt beyond the largest maxAttempts it has seen.
THEOREM RetryAttemptsBounded == RetrySpec => []AttemptsBounded
<1>1. RetryInv => AttemptsBounded
  BY DEF RetryInv
<1> QED
  BY <1>1, RetryInvAlways, PTL

\* An override that overlaps no other override and no update is undone,
\* whatever else runs meanwhile and however its call ends.
THEOREM OverrideRestored == RetrySpec => []RestoredWhenAlone
<1>1. RetryInv => RestoredWhenAlone
  BY DEF RetryInv, OneOverride, RestoredWhenAlone
<1> QED
  BY <1>1, RetryInvAlways, PTL

\* A call whose function keeps failing retryably makes at least as many
\* attempts as the smallest maxAttempts it has seen.
THEOREM RetriesExhausted == RetrySpec => NoEarlyExit
<1> DEFINE Exits(c) ==
             /\ call[c].pc \in {"fn", "sleep"}
             /\ call'[c].pc \notin {"fn", "sleep"}
             /\ result'[c] \in {"exhausted", "fellThrough"}
           Enough(c) == \E n \in seen[c] : n <= call[c].attempt + 1
<1>1. RetryInv /\ [RetryNext]_retryVars => \A c \in Calls : Exits(c) => Enough(c)
  <2> SUFFICES ASSUME RetryInv, RetryNext, NEW c \in Calls, Exits(c)
               PROVE  Enough(c)
    BY DEF retryVars
  <2>1. maxAttempts \in seen[c]
    BY DEF RetryInv, Watching
  <2>2. call[c].attempt \in Nat /\ maxAttempts \in Nat
    BY CallFields DEF RetryInv
  <2>3. ASSUME NEW d \in Calls, Proceed(d)
        PROVE  Reject(c, TRUE) \/ FallThrough(c)
    <3>1. c = d
      BY <2>3 DEF Proceed, Succeed, Reject, Retry, WakeAndTry, FallThrough,
                  Restore, RejectOnce, RetryInv, RetryTypeOK
    <3>2. ~Succeed(c)
      BY DEF Succeed, RetryInv, RetryTypeOK
    <3>3. ~Reject(c, FALSE)
      BY DEF Reject, RetryInv, RetryTypeOK
    <3>4. ~Retry(c) /\ ~Restore(c) /\ ~RejectOnce(c)
      BY DEF Retry, Restore, RejectOnce, RetryInv, RetryTypeOK, CallState
    <3>5. ~WakeAndTry(c)
      BY DEF WakeAndTry, RetryInv, RetryTypeOK, CallState
    <3> QED
      BY <2>3, <3>1, <3>2, <3>3, <3>4, <3>5 DEF Proceed
  <2>4. Reject(c, TRUE) \/ FallThrough(c)
    <3>1. ASSUME NEW d \in Calls, Execute(d) PROVE FALSE
      BY <3>1 DEF Execute, Begin, RetryInv, RetryTypeOK
    <3>2. ASSUME NEW d \in Calls, NEW n \in AttemptValues, NEW on \in BOOLEAN,
                 ExecuteWithConfig(d, n, on)
          PROVE  FALSE
      BY <3>2 DEF ExecuteWithConfig, Begin, RetryInv, RetryTypeOK
    <3>3. ASSUME NEW n \in AttemptValues, NEW on \in BOOLEAN, UpdateConfig(n, on) PROVE FALSE
      BY <3>3 DEF UpdateConfig
    <3> QED
      BY <2>3, <3>1, <3>2, <3>3 DEF RetryNext
  <2>5. CASE Reject(c, TRUE)
    BY <2>1, <2>2, <2>5 DEF Reject, LastAttempt
  <2>6. CASE FallThrough(c)
    BY <2>1, <2>2, <2>6 DEF FallThrough, AttemptsLeft
  <2> QED
    BY <2>4, <2>5, <2>6
<1> QED
  BY <1>1, RetryInvAlways, PTL DEF RetrySpec, NoEarlyExit
=============================================================================
