----------------------------- MODULE Data_proofs -----------------------------
(***************************************************************************)
(* What the operators on data compute, for every argument: facts that the  *)
(* invariants of several state machines rest on.                           *)
(*                                                                         *)
(* The array of PriorityOrder: pushing an item and sorting an array that   *)
(* is sorted already inserts the item behind all items of its priority or  *)
(* a higher one, and nothing else moves.                                   *)
(*                                                                         *)
(* SumFunctionOnSet of the community modules: the sum of the values of a   *)
(* function over a finite set does not depend on the order in which the    *)
(* fold takes them.  The induction is on sets, by a smallest               *)
(* counterexample.                                                         *)
(*                                                                         *)
(* FlattenSeq of the community modules: the sequences of a set, one after  *)
(* the other, are a sequence of that set.                                  *)
(*                                                                         *)
(* A map that entries are put into one after the other: whatever the order *)
(* of the fold, the last entry of a key counts; and what a map holds that  *)
(* is the last of a log goes on being that while the log grows.            *)
(***************************************************************************)
EXTENDS PriorityOrder, FiniteSetTheorems, SequenceTheorems, WellFoundedInduction,
        TLAPS

-----------------------------------------------------------------------------
(* Arrays in priority order.                                               *)

Sorted(q) ==
    \A i, j \in 1..Len(q) : i < j => q[i].priority >= q[j].priority

\* The segment 1..m has m elements.
LEMMA SegmentSize ==
    ASSUME NEW m \in Nat
    PROVE  IsFiniteSet(1..m) /\ Cardinality(1..m) = m
<1>1. IsFiniteSet(1..m) /\ Cardinality(1..m) = IF 1 > m THEN 0 ELSE m - 1 + 1
  BY FS_Interval
<1> QED
  BY <1>1

\* A set of indices that holds every index below one of its own is an initial
\* segment, as long as the set has elements.
LEMMA InitialSegment ==
    ASSUME NEW n \in Nat, NEW S \in SUBSET (1..n),
           \A i \in S : \A j \in 1..n : j <= i => j \in S
    PROVE  /\ Cardinality(S) \in 0..n
           /\ S = 1..Cardinality(S)
<1> DEFINE k == Cardinality(S)
<1>1. IsFiniteSet(1..n) /\ Cardinality(1..n) = n
  BY SegmentSize
<1>2. IsFiniteSet(S) /\ k <= n
  BY <1>1, FS_Subset
<1>3. k \in Nat
  BY <1>2, FS_CardinalityType
<1>4. IsFiniteSet(1..k) /\ Cardinality(1..k) = k
  BY <1>3, SegmentSize
<1>5. CASE k = 0
  BY <1>2, <1>5, FS_EmptySet
<1>6. CASE k # 0 /\ k \in S
  <2>1. 1..k \subseteq S
    BY <1>3, <1>6
  <2>2. S = 1..k
    <3> HIDE DEF k
    <3>1. Cardinality(1..k) = Cardinality(S)
      BY <1>4 DEF k
    <3> QED
      BY <1>2, <2>1, <3>1, FS_Subset
  <2> QED
    BY <1>2, <1>3, <2>2
<1>7. CASE k # 0 /\ k \notin S
  <2>1. S \subseteq 1..(k - 1)
    <3> SUFFICES ASSUME NEW i \in S PROVE i \in 1..(k - 1)
      OBVIOUS
    <3>1. k \in 1..n
      BY <1>2, <1>3, <1>7
    <3>2. ~(k <= i)
      BY <1>7, <3>1
    <3> QED
      BY <1>3, <3>1, <3>2
  <2>2. IsFiniteSet(1..(k - 1)) /\ Cardinality(1..(k - 1)) = k - 1
    <3> HIDE DEF k
    <3>1. k - 1 \in Nat
      BY <1>3, <1>7
    <3> QED
      BY <3>1, SegmentSize
  <2> DEFINE T == 1..(k - 1)
  <2>3. Cardinality(S) <= Cardinality(T)
    <3>1. S \in SUBSET T /\ IsFiniteSet(T)
      BY <2>1, <2>2
    <3> HIDE DEF T, k
    <3> QED
      BY <3>1, FS_Subset
  <2> QED
    BY <1>3, <2>2, <2>3
<1> QED
  BY <1>5, <1>6, <1>7

\* Where each element of a sorted array, and the item pushed behind it, goes.
LEMMA PlaceAfterPush ==
    ASSUME NEW q \in Seq(Item), Sorted(q), NEW x \in Item,
           NEW k \in 0..Len(q),
           {i \in 1..Len(q) : q[i].priority >= x.priority} = 1..k
    PROVE  /\ \A i \in 1..k : Place(Append(q, x), i) = i
           /\ \A i \in (k + 1)..Len(q) : Place(Append(q, x), i) = i + 1
           /\ Place(Append(q, x), Len(q) + 1) = k + 1
<1> DEFINE n == Len(q)
           s == Append(q, x)
           Ahead(i) == {j \in 1..Len(s) : GoesBefore(s, j, i)}
<1>0. \A i : Place(s, i) = 1 + Cardinality(Ahead(i))
  BY DEF Place
<1>1. /\ n \in Nat
      /\ Len(s) = n + 1
      /\ \A i \in 1..n : s[i] = q[i] /\ q[i] \in Item
      /\ s[n + 1] = x
  BY AppendProperties, LenProperties, ElementOfSeq
<1>2. \A i \in 1..n : q[i].priority \in Int
  BY <1>1 DEF Item
<1>3. x.priority \in Int
  BY DEF Item
<1>4. ASSUME NEW i \in 1..k PROVE Place(s, i) = i
  <2>1. i \in 1..n /\ q[i].priority >= x.priority
    BY <1>1
  <2>2. Ahead(i) = 1..(i - 1)
    <3>1. ASSUME NEW j \in 1..n PROVE GoesBefore(s, j, i) <=> j < i
      BY <1>1, <1>2, <2>1 DEF GoesBefore, Sorted
    <3>2. ~GoesBefore(s, n + 1, i)
      BY <1>1, <1>2, <1>3, <2>1 DEF GoesBefore
    <3> QED
      BY <1>1, <2>1, <3>1, <3>2
  <2>3. i - 1 \in Nat /\ Cardinality(1..(i - 1)) = i - 1
    <3>1. i - 1 \in Nat
      BY <2>1
    <3> QED
      BY <3>1, SegmentSize
  <2> HIDE DEF Ahead, s
  <2> QED
    BY <1>0, <2>1, <2>2, <2>3
<1>5. ASSUME NEW i \in (k + 1)..n PROVE Place(s, i) = i + 1
  <2>1. i \in 1..n /\ ~(q[i].priority >= x.priority)
    BY <1>1
  <2>2. Ahead(i) = 1..(i - 1) \cup {n + 1}
    <3>1. ASSUME NEW j \in 1..n PROVE GoesBefore(s, j, i) <=> j < i
      BY <1>1, <1>2, <2>1 DEF GoesBefore, Sorted
    <3>2. GoesBefore(s, n + 1, i)
      BY <1>1, <1>2, <1>3, <2>1 DEF GoesBefore
    <3> QED
      BY <1>1, <2>1, <3>1, <3>2
  <2>3. IsFiniteSet(1..(i - 1)) /\ Cardinality(1..(i - 1)) = i - 1
    <3>1. i - 1 \in Nat
      BY <1>1, <2>1
    <3> QED
      BY <3>1, SegmentSize
  <2>4. n + 1 \notin 1..(i - 1)
    BY <1>1, <2>1
  <2>5. Cardinality(1..(i - 1) \cup {n + 1}) = Cardinality(1..(i - 1)) + 1
    BY <2>3, <2>4, FS_AddElement
  <2>6. i \in Nat
    BY <1>1, <2>1
  <2> HIDE DEF Ahead, s, n
  <2>7. Cardinality(Ahead(i)) = Cardinality(1..(i - 1) \cup {n + 1})
    BY <2>2, Zenon
  <2> QED
    BY <1>0, <2>3, <2>5, <2>6, <2>7
<1>6. Place(s, n + 1) = k + 1
  <2>1. Ahead(n + 1) = 1..k
    <3>1. ASSUME NEW j \in 1..n
          PROVE  GoesBefore(s, j, n + 1) <=> q[j].priority >= x.priority
      BY <1>1, <1>2, <1>3 DEF GoesBefore
    <3>2. ~GoesBefore(s, n + 1, n + 1)
      BY <1>1, <1>3 DEF GoesBefore
    <3>3. \A j \in 1..n : j \in 1..k <=> q[j].priority >= x.priority
      OBVIOUS
    <3> QED
      BY <1>1, <3>1, <3>2, <3>3
  <2>2. Cardinality(1..k) = k
    <3>1. k \in Nat
      BY <1>1
    <3> QED
      BY <3>1, SegmentSize
  <2>3. k \in Nat
    BY <1>1
  <2> HIDE DEF Ahead, s, n
  <2> QED
    BY <1>0, <2>1, <2>2, <2>3
<1> QED
  BY <1>4, <1>5, <1>6

\* Pushing into a sorted array inserts: the elements of the item's priority or
\* a higher one stay where they are, the item comes next, the others move up.
LEMMA PushInserts ==
    ASSUME NEW q \in Seq(Item), Sorted(q), NEW x \in Item
    PROVE  /\ Pushed(q, x) \in Seq(Item)
           /\ Len(Pushed(q, x)) = Len(q) + 1
           /\ \E k \in 0..Len(q) :
                 /\ \A i \in 1..k :
                       q[i].priority >= x.priority /\ Pushed(q, x)[i] = q[i]
                 /\ Pushed(q, x)[k + 1] = x
                 /\ \A i \in (k + 1)..Len(q) :
                       q[i].priority < x.priority /\ Pushed(q, x)[i + 1] = q[i]
<1> DEFINE n == Len(q)
           s == Append(q, x)
           S == {i \in 1..n : q[i].priority >= x.priority}
           k == Cardinality(S)
           p == Pushed(q, x)
<1>0. \A i \in 1..n : q[i] \in Item
  BY ElementOfSeq
<1>1. /\ n \in Nat
      /\ s \in Seq(Item)
      /\ Len(s) = n + 1
      /\ \A i \in 1..n : s[i] = q[i] /\ q[i].priority \in Int
      /\ s[n + 1] = x
      /\ x.priority \in Int
  <2>1. \A i \in 1..n : q[i].priority \in Int
    BY <1>0 DEF Item
  <2>2. x.priority \in Int
    BY DEF Item
  <2> QED
    BY <2>1, <2>2, AppendProperties, LenProperties
<1>2. k \in 0..n /\ S = 1..k
  <2>1. \A i \in S : \A j \in 1..n : j <= i => j \in S
    BY <1>1 DEF Sorted
  <2> HIDE DEF S
  <2> QED
    BY <1>1, <2>1, InitialSegment DEF S
<1> HIDE DEF k
<1>3. /\ \A i \in 1..k : Place(s, i) = i
      /\ \A i \in (k + 1)..n : Place(s, i) = i + 1
      /\ Place(s, n + 1) = k + 1
  BY <1>2, PlaceAfterPush
<1>4. /\ \A i \in 1..k : q[i].priority >= x.priority
      /\ \A i \in (k + 1)..n : q[i].priority < x.priority
  BY <1>1, <1>2
<1> DEFINE at(m) == CHOOSE i \in 1..Len(s) : Place(s, i) = m
<1>5. \A i \in 1..k : at(i) = i
  BY <1>1, <1>2, <1>3
<1>6. at(k + 1) = n + 1
  BY <1>1, <1>2, <1>3
<1>7. \A i \in (k + 1)..n : at(i + 1) = i
  BY <1>1, <1>2, <1>3
<1>8. p = [m \in 1..(n + 1) |-> s[at(m)]]
  BY <1>1 DEF Pushed, SortByPriority
<1> HIDE DEF at, s
<1>9. /\ \A i \in 1..k : p[i] = q[i]
      /\ p[k + 1] = x
      /\ \A i \in (k + 1)..n : p[i + 1] = q[i]
  BY <1>1, <1>2, <1>5, <1>6, <1>7, <1>8
<1>10. ASSUME NEW m \in 1..(n + 1) PROVE p[m] \in Item
  <2> HIDE DEF p, n
  <2>1. CASE m \in 1..k
    BY <1>0, <1>1, <1>2, <1>9, <2>1
  <2>2. CASE m = k + 1
    BY <1>9, <2>2
  <2>3. CASE m \notin 1..k /\ m # k + 1
    <3>1. m - 1 \in (k + 1)..n
      BY <1>1, <1>2, <2>3
    <3>2. (m - 1) + 1 = m /\ m - 1 \in 1..n
      BY <1>1, <1>2, <3>1
    <3> QED
      BY <1>0, <1>9, <3>1, <3>2
  <2> QED
    BY <2>1, <2>2, <2>3
<1>11. p \in [1..(n + 1) -> Item]
  BY <1>8, <1>10
<1>12. p \in Seq(Item) /\ Len(p) = n + 1
  BY <1>1, <1>11
<1> QED
  BY <1>2, <1>4, <1>9, <1>12

\* Taking n elements from the front leaves the others in their order.
LEMMA ShiftedElements ==
    ASSUME NEW q \in Seq(Item), NEW n \in Nat
    PROVE  /\ Shifted(q, n) \in Seq(Item)
           /\ Len(Shifted(q, n)) = IF n <= Len(q) THEN Len(q) - n ELSE 0
           /\ \A i \in 1..Len(Shifted(q, n)) :
                 n + i \in 1..Len(q) /\ Shifted(q, n)[i] = q[n + i]
<1>1. Len(q) \in Nat
  BY LenProperties
<1>2. \A i \in (n + 1)..Len(q) : q[i] \in Item
  BY <1>1, ElementOfSeq
<1>3. /\ SubSeq(q, n + 1, Len(q)) \in Seq(Item)
      /\ Len(SubSeq(q, n + 1, Len(q))) =
            IF n + 1 <= Len(q) THEN Len(q) - (n + 1) + 1 ELSE 0
      /\ \A i \in 1..(Len(q) - (n + 1) + 1) :
            SubSeq(q, n + 1, Len(q))[i] = q[(n + 1) + i - 1]
  BY <1>1, <1>2, SubSeqProperties
<1>4. \A i \in Int : (n + 1) + i - 1 = n + i
  OBVIOUS
<1> QED
  BY <1>1, <1>3, <1>4 DEF Shifted

\* Removing the element at i closes the gap and moves nothing else.
LEMMA RemovedElements ==
    ASSUME NEW q \in Seq(Item), NEW i \in 1..Len(q)
    PROVE  /\ RemoveAt(q, i) \in Seq(Item)
           /\ Len(RemoveAt(q, i)) = Len(q) - 1
           /\ \A j \in 1..(Len(q) - 1) :
                 RemoveAt(q, i)[j] = IF j < i THEN q[j] ELSE q[j + 1]
<1> DEFINE front == SubSeq(q, 1, i - 1)
           back == SubSeq(q, i + 1, Len(q))
<1>1. Len(q) \in Nat
  BY LenProperties
<1>2. \A j \in 1..Len(q) : q[j] \in Item
  BY ElementOfSeq
<1>3. /\ front \in Seq(Item)
      /\ Len(front) = i - 1
      /\ \A j \in 1..(i - 1) : front[j] = q[j]
  BY <1>1, <1>2, SubSeqProperties
<1>4. /\ back \in Seq(Item)
      /\ Len(back) = Len(q) - i
      /\ \A j \in 1..(Len(q) - i) : back[j] = q[i + j]
  BY <1>1, <1>2, SubSeqProperties
<1> HIDE DEF front, back
<1>5. /\ front \o back \in Seq(Item)
      /\ Len(front \o back) = Len(q) - 1
      /\ \A j \in 1..(Len(q) - 1) :
            (front \o back)[j] =
                IF j <= i - 1 THEN front[j] ELSE back[j - (i - 1)]
  <2>1. /\ front \o back \in Seq(Item)
        /\ Len(front \o back) = Len(front) + Len(back)
        /\ \A j \in 1..(Len(front) + Len(back)) :
              (front \o back)[j] =
                  IF j <= Len(front) THEN front[j] ELSE back[j - Len(front)]
    BY <1>3, <1>4, ConcatProperties
  <2>2. (i - 1) + (Len(q) - i) = Len(q) - 1
    BY <1>1
  <2> QED
    BY <1>3, <1>4, <2>1, <2>2
<1>6. ASSUME NEW j \in 1..(Len(q) - 1)
      PROVE  (front \o back)[j] = IF j < i THEN q[j] ELSE q[j + 1]
  <2>1. CASE j < i
    BY <1>1, <1>3, <1>5, <2>1
  <2>2. CASE ~(j < i)
    <3>1. j - (i - 1) \in 1..(Len(q) - i) /\ i + (j - (i - 1)) = j + 1
      BY <1>1, <2>2
    <3> QED
      BY <1>1, <1>4, <1>5, <2>2, <3>1
  <2> QED
    BY <2>1, <2>2
<1> QED
  BY <1>5, <1>6 DEF RemoveAt, front, back

-----------------------------------------------------------------------------
(***************************************************************************)
(* What the queue's methods preserve: the array is in order of priority    *)
(* and arrival and holds only ids handed out so far, each at most once.    *)
(* The state machines that keep such an array cite these lemmas.           *)
(***************************************************************************)

InOrder(q) ==
    \A i, j \in 1..Len(q) : i < j =>
        \/ q[i].priority > q[j].priority
        \/ q[i].priority = q[j].priority /\ q[i].id < q[j].id

WellKept(q, c) ==
    /\ q \in Seq(Item)
    /\ InOrder(q)
    /\ \A i \in 1..Len(q) : q[i].id \in 1..c
    /\ \A i, j \in 1..Len(q) : q[i].id = q[j].id => i = j

LEMMA InOrderSorted ==
    ASSUME NEW q \in Seq(Item), InOrder(q)
    PROVE  Sorted(q)
<1>1. \A i \in 1..Len(q) : q[i] \in Item
  BY ElementOfSeq
<1>2. \A i \in 1..Len(q) : q[i].priority \in Int
  BY <1>1 DEF Item
<1> QED
  BY <1>2 DEF InOrder, Sorted

\* Pushing the next id keeps the array, whatever the item's priority.
LEMMA PushedKept ==
    ASSUME NEW c \in Nat, NEW q, WellKept(q, c), NEW p \in Int
    PROVE  LET r == Pushed(q, NewItem(c + 1, p))
           IN  /\ WellKept(r, c + 1)
               /\ Len(r) = Len(q) + 1
               /\ IdsOf(r) = IdsOf(q) \cup {c + 1}
<1> DEFINE n == Len(q)
           x == NewItem(c + 1, p)
           r == Pushed(q, x)
<1>1. /\ q \in Seq(Item)
      /\ n \in Nat
      /\ \A i \in 1..n : q[i] \in Item /\ q[i].id \in 1..c
  BY LenProperties, ElementOfSeq DEF WellKept
<1>2. x \in Item /\ x.id = c + 1 /\ x.priority = p
  BY DEF NewItem, Item
<1>3. Sorted(q)
  BY InOrderSorted DEF WellKept
<1> HIDE DEF x
<1>4. r \in Seq(Item) /\ Len(r) = n + 1
  BY <1>1, <1>2, <1>3, PushInserts
<1>5. PICK k \in 0..n :
        /\ \A i \in 1..k : q[i].priority >= x.priority /\ r[i] = q[i]
        /\ r[k + 1] = x
        /\ \A i \in (k + 1)..n : q[i].priority < x.priority /\ r[i + 1] = q[i]
  BY <1>1, <1>2, <1>3, PushInserts
<1> HIDE DEF r, n
\* Which element of the old array, or the new item, each index holds.
<1>6. ASSUME NEW i \in 1..(n + 1), i \notin 1..k, i # k + 1
      PROVE  i - 1 \in (k + 1)..n /\ i - 1 \in 1..n /\ r[i] = q[i - 1]
  <2>1. i - 1 \in (k + 1)..n /\ i - 1 \in 1..n /\ (i - 1) + 1 = i
    BY <1>1, <1>6
  <2> QED
    BY <1>5, <2>1
<1>7. \A i \in 1..k : i \in 1..n
  BY <1>1
<1>8. \A i \in 1..(n + 1) : r[i].id \in 1..(c + 1)
  <2> TAKE i \in 1..(n + 1)
  <2>1. CASE i \in 1..k
    BY <1>1, <1>5, <1>7, <2>1
  <2>2. CASE i = k + 1
    BY <1>2, <1>5, <2>2
  <2>3. CASE i \notin 1..k /\ i # k + 1
    BY <1>1, <1>6, <2>3
  <2> QED
    BY <2>1, <2>2, <2>3
<1>9. ASSUME NEW i \in 1..(n + 1), NEW j \in 1..(n + 1), i < j
      PROVE  \/ r[i].priority > r[j].priority
             \/ r[i].priority = r[j].priority /\ r[i].id < r[j].id
  <2>1. \A a, b \in 1..n : a < b =>
          \/ q[a].priority > q[b].priority
          \/ q[a].priority = q[b].priority /\ q[a].id < q[b].id
    BY DEF WellKept, InOrder, n
  <2>2. \A a \in 1..n : q[a].priority \in Int
    BY <1>1 DEF Item
  <2>3. CASE j \in 1..k
    <3>1. i \in 1..k
      BY <1>1, <1>9, <2>3
    <3> QED
      BY <1>5, <1>7, <1>9, <2>1, <2>3, <3>1
  <2>4. CASE j = k + 1
    <3>1. i \in 1..k /\ i \in 1..n
      BY <1>1, <1>9, <2>4
    <3>2. r[i] = q[i] /\ q[i].priority >= x.priority /\ r[j] = x
      BY <1>5, <2>4, <3>1
    <3> QED
      BY <1>1, <1>2, <2>2, <3>1, <3>2
  <2>5. CASE j \notin 1..k /\ j # k + 1
    <3>1. j - 1 \in (k + 1)..n /\ j - 1 \in 1..n /\ r[j] = q[j - 1]
      BY <1>6, <2>5
    <3>2. q[j - 1].priority < x.priority
      BY <1>5, <3>1
    <3>3. CASE i \in 1..k
      <4>1. i \in 1..n /\ i < j - 1 /\ r[i] = q[i]
        BY <1>1, <1>5, <3>1, <3>3
      <4> QED
        BY <2>1, <3>1, <4>1
    <3>4. CASE i = k + 1
      BY <1>2, <1>5, <2>2, <3>1, <3>2, <3>4
    <3>5. CASE i \notin 1..k /\ i # k + 1
      <4>1. i - 1 \in 1..n /\ r[i] = q[i - 1]
        BY <1>6, <3>5
      <4>2. i - 1 < j - 1
        BY <1>1, <1>9
      <4> QED
        BY <2>1, <3>1, <4>1, <4>2
    <3> QED
      BY <3>3, <3>4, <3>5
  <2> QED
    BY <2>3, <2>4, <2>5
<1>10. IdsOf(r) = IdsOf(q) \cup {c + 1}
  <2>1. IdsOf(r) = {r[i].id : i \in 1..(n + 1)}
    BY <1>4 DEF IdsOf
  <2>2. IdsOf(q) = {q[i].id : i \in 1..n}
    BY DEF IdsOf, n
  <2>3. ASSUME NEW i \in 1..(n + 1)
        PROVE  r[i].id \in IdsOf(q) \cup {c + 1}
    <3>1. CASE i \in 1..k
      BY <1>5, <1>7, <2>2, <3>1
    <3>2. CASE i = k + 1
      BY <1>2, <1>5, <3>2
    <3>3. CASE i \notin 1..k /\ i # k + 1
      BY <1>6, <2>2, <3>3
    <3> QED
      BY <3>1, <3>2, <3>3
  <2>4. ASSUME NEW i \in 1..n
        PROVE  \E j \in 1..(n + 1) : r[j].id = q[i].id
    <3>1. CASE i \in 1..k
      <4>1. i \in 1..(n + 1) /\ r[i] = q[i]
        BY <1>1, <1>5, <3>1
      <4> QED
        BY <4>1
    <3>2. CASE i \notin 1..k
      <4>1. i + 1 \in 1..(n + 1) /\ r[i + 1] = q[i]
        BY <1>1, <1>5, <3>2
      <4> QED
        BY <4>1
    <3> QED
      BY <3>1, <3>2
  <2>5. k + 1 \in 1..(n + 1) /\ r[k + 1].id = c + 1
    BY <1>1, <1>2, <1>5
  <2>6. IdsOf(r) \subseteq IdsOf(q) \cup {c + 1}
    BY <2>1, <2>3
  <2>7. IdsOf(q) \cup {c + 1} \subseteq IdsOf(r)
    BY <2>1, <2>2, <2>4, <2>5
  <2> QED
    BY <2>6, <2>7
<1>11. InOrder(r)
  BY <1>4, <1>9 DEF InOrder
<1>12. ASSUME NEW i \in 1..(n + 1), NEW j \in 1..(n + 1), i < j
       PROVE  r[i].id # r[j].id
  <2>1. \A a, b \in 1..n : q[a].id = q[b].id => a = b
    BY DEF WellKept, n
  <2>2. \A a \in 1..n : q[a].id # c + 1
    BY <1>1
  <2>3. CASE j \in 1..k
    <3>1. i \in 1..k
      BY <1>1, <1>12, <2>3
    <3> QED
      BY <1>5, <1>7, <1>12, <2>1, <2>3, <3>1
  <2>4. CASE j = k + 1
    <3>1. i \in 1..k
      BY <1>1, <1>12, <2>4
    <3> QED
      BY <1>2, <1>5, <1>7, <2>2, <2>4, <3>1
  <2>5. CASE j \notin 1..k /\ j # k + 1
    <3>1. j - 1 \in (k + 1)..n /\ j - 1 \in 1..n /\ r[j] = q[j - 1]
      BY <1>6, <2>5
    <3>2. CASE i \in 1..k
      <4>1. i # j - 1
        BY <1>1, <3>1, <3>2
      <4> QED
        BY <1>5, <1>7, <2>1, <3>1, <3>2, <4>1
    <3>3. CASE i = k + 1
      BY <1>2, <1>5, <2>2, <3>1, <3>3
    <3>4. CASE i \notin 1..k /\ i # k + 1
      <4>1. i - 1 \in 1..n /\ r[i] = q[i - 1]
        BY <1>6, <3>4
      <4>2. i - 1 # j - 1
        BY <1>12
      <4> QED
        BY <2>1, <3>1, <4>1, <4>2
    <3> QED
      BY <3>2, <3>3, <3>4
  <2> QED
    BY <2>3, <2>4, <2>5
<1>13. \A i, j \in 1..(n + 1) : r[i].id = r[j].id => i = j
  <2> TAKE i, j \in 1..(n + 1)
  <2>1. i < j \/ j < i \/ i = j
    BY <1>1
  <2> QED
    BY <1>12, <2>1
<1>14. WellKept(r, c + 1)
  BY <1>4, <1>8, <1>11, <1>13 DEF WellKept
<1> QED
  BY <1>4, <1>10, <1>14 DEF r, x, n

\* Taking from the front keeps the array, and takes the first ids.
LEMMA ShiftedKept ==
    ASSUME NEW q, NEW c, WellKept(q, c), NEW n \in Nat
    PROVE  /\ WellKept(Shifted(q, n), c)
           /\ Len(Shifted(q, n)) <= Len(q)
           /\ IdsOf(Shifted(q, n)) = {q[i].id : i \in (n + 1)..Len(q)}
<1> DEFINE r == Shifted(q, n)
<1>1. q \in Seq(Item) /\ Len(q) \in Nat
  BY LenProperties DEF WellKept
<1>2. /\ r \in Seq(Item)
      /\ Len(r) = IF n <= Len(q) THEN Len(q) - n ELSE 0
      /\ \A i \in 1..Len(r) : n + i \in 1..Len(q) /\ r[i] = q[n + i]
  BY <1>1, ShiftedElements
<1> HIDE DEF r
<1>3. \A i \in 1..Len(r) : r[i].id \in 1..c
  BY <1>2 DEF WellKept
<1>4. InOrder(r)
  <2> SUFFICES ASSUME NEW i \in 1..Len(r), NEW j \in 1..Len(r), i < j
               PROVE  \/ r[i].priority > r[j].priority
                      \/ r[i].priority = r[j].priority /\ r[i].id < r[j].id
    BY DEF InOrder
  <2>1. n + i < n + j
    BY <1>1, <1>2
  <2>2. /\ n + i \in 1..Len(q) /\ r[i] = q[n + i]
        /\ n + j \in 1..Len(q) /\ r[j] = q[n + j]
    BY <1>2
  <2>3. \/ q[n + i].priority > q[n + j].priority
        \/ q[n + i].priority = q[n + j].priority /\ q[n + i].id < q[n + j].id
    BY <2>1, <2>2 DEF WellKept, InOrder
  <2> QED
    BY <2>2, <2>3
<1>5. IdsOf(r) = {q[i].id : i \in (n + 1)..Len(q)}
  <2>1. \A i \in 1..Len(r) : n + i \in (n + 1)..Len(q) /\ r[i] = q[n + i]
    BY <1>1, <1>2
  <2>2. \A i \in (n + 1)..Len(q) :
          i - n \in 1..Len(r) /\ r[i - n] = q[i]
    <3> TAKE i \in (n + 1)..Len(q)
    <3>1. i - n \in 1..Len(r) /\ n + (i - n) = i
      BY <1>1, <1>2
    <3> QED
      BY <1>2, <3>1
  <2>3. IdsOf(r) \subseteq {q[i].id : i \in (n + 1)..Len(q)}
    BY <2>1 DEF IdsOf
  <2>4. {q[i].id : i \in (n + 1)..Len(q)} \subseteq IdsOf(r)
    BY <2>2 DEF IdsOf
  <2> QED
    BY <2>3, <2>4
<1>6. Len(r) <= Len(q)
  BY <1>1, <1>2
<1>7. \A i, j \in 1..Len(r) : r[i].id = r[j].id => i = j
  <2> TAKE i, j \in 1..Len(r)
  <2>1. r[i].id = r[j].id => n + i = n + j
    BY <1>2 DEF WellKept
  <2> QED
    BY <1>1, <1>2, <2>1
<1> QED
  BY <1>2, <1>3, <1>4, <1>5, <1>6, <1>7 DEF WellKept, r

-----------------------------------------------------------------------------
(* Sums.                                                                   *)

(* Among sets of subsets of a finite set there are smallest ones.          *)
LEMMA SmallestSet ==
    ASSUME NEW S, IsFiniteSet(S), NEW Bad, Bad \subseteq SUBSET S, Bad # {}
    PROVE  \E T \in Bad : \A U \in SUBSET T : U # T => U \notin Bad
  <1>1. IsWellFoundedOn(StrictSubsetOrdering(S), SUBSET S)
    BY FS_StrictSubsetOrderingWellFounded, FS_FiniteSubsetsOfFinite
  <1>2. PICK T \in Bad : \A U \in Bad : ~(<<U, T>> \in StrictSubsetOrdering(S))
    BY <1>1, WFMin
  <1>3. ASSUME NEW U \in SUBSET T, U # T PROVE U \notin Bad
    BY <1>2, <1>3 DEF StrictSubsetOrdering
  <1> QED BY <1>3

Chosen(T) == CHOOSE x \in T : TRUE

LEMMA ChosenIn == ASSUME NEW T, T # {} PROVE Chosen(T) \in T
  BY DEF Chosen

(* g has the sums of all subsets of S.                                     *)
IsSum(g, w, S) ==
    g = [s \in SUBSET S |->
            IF s = {} THEN 0 ELSE w[Chosen(s)] + g[s \ {Chosen(s)}]]

LEMMA SumIs == ASSUME NEW w, NEW S
               PROVE  SumFunctionOnSet(w, S) = (CHOOSE g : IsSum(g, w, S))[S]
  BY DEF SumFunctionOnSet, FoldFunctionOnSet, MapThenFoldSet, IsSum, Chosen

LEMMA SumAt ==
    ASSUME NEW g, NEW w, NEW S, IsSum(g, w, S), NEW T \in SUBSET S
    PROVE  /\ T = {} => g[T] = 0
           /\ T # {} => g[T] = w[Chosen(T)] + g[T \ {Chosen(T)}]
  <1>1. g[T] = IF T = {} THEN 0 ELSE w[Chosen(T)] + g[T \ {Chosen(T)}]
    BY DEF IsSum
  <1> QED BY <1>1

LEMMA SumUnique ==
    ASSUME NEW w, NEW S, NEW V, IsFiniteSet(V), V \subseteq S, NEW g, NEW h,
           IsSum(g, w, S), IsSum(h, w, V)
    PROVE  g[V] = h[V]
  <1> DEFINE Bad == {T \in SUBSET V : g[T] # h[T]}
  <1>1. SUFFICES ASSUME Bad # {} PROVE FALSE
    BY DEF Bad
  <1>2. PICK T \in Bad : \A U \in SUBSET T : U # T => U \notin Bad
    <2>1. Bad \subseteq SUBSET V
      OBVIOUS
    <2> HIDE DEF Bad
    <2> QED BY <1>1, <2>1, SmallestSet
  <1>3. T \in SUBSET V /\ T \in SUBSET S /\ g[T] # h[T]
    BY <1>2
  <1>4. CASE T = {}
    BY <1>3, <1>4, SumAt
  <1>5. CASE T # {}
    <2>1. Chosen(T) \in T
      BY <1>5, ChosenIn
    <2>2. g[T \ {Chosen(T)}] = h[T \ {Chosen(T)}]
      BY <1>2, <1>3, <2>1
    <2> QED BY <1>3, <1>5, <2>2, SumAt
  <1> QED BY <1>4, <1>5

LEMMA SumExists ==
    ASSUME NEW w, NEW S, IsFiniteSet(S)
    PROVE  \E g : IsSum(g, w, S)
  <1> DEFINE Bad == {T \in SUBSET S : ~\E g : IsSum(g, w, T)}
  <1>1. SUFFICES ASSUME Bad # {} PROVE FALSE
    BY DEF Bad
  <1>2. PICK T \in Bad : \A U \in SUBSET T : U # T => U \notin Bad
    <2>1. Bad \subseteq SUBSET S
      OBVIOUS
    <2> HIDE DEF Bad
    <2> QED BY <1>1, <2>1, SmallestSet
  <1>3. T \in SUBSET S /\ ~\E g : IsSum(g, w, T)
    BY <1>2
  <1>4. \A U \in SUBSET T : U # T => \E g : IsSum(g, w, U)
    BY <1>2, <1>3
  <1> DEFINE part == [U \in SUBSET T |-> CHOOSE g : IsSum(g, w, U)]
             sum == [s \in SUBSET T |->
                        IF s = {} THEN 0
                        ELSE w[Chosen(s)] + part[s \ {Chosen(s)}][s \ {Chosen(s)}]]
  <1>5. \A U \in SUBSET T : U # T => IsSum(part[U], w, U)
    BY <1>4
  <1>6. ASSUME NEW s \in SUBSET T, s # {}, s # T
        PROVE  sum[s] = part[s][s]
    <2>1. IsSum(part[s], w, s)
      BY <1>5, <1>6
    <2>2. Chosen(s) \in s /\ s \ {Chosen(s)} \in SUBSET s /\ s \ {Chosen(s)} # T
      BY <1>6, ChosenIn
    <2>3. IsSum(part[s \ {Chosen(s)}], w, s \ {Chosen(s)})
      BY <1>5, <2>2
    <2>4. IsFiniteSet(s \ {Chosen(s)})
      BY <1>3, FS_Subset
    <2>5. sum[s] = w[Chosen(s)] + part[s \ {Chosen(s)}][s \ {Chosen(s)}]
      BY <1>6
    <2> HIDE DEF part, sum
    <2>6. part[s][s \ {Chosen(s)}] = part[s \ {Chosen(s)}][s \ {Chosen(s)}]
      BY <2>1, <2>2, <2>3, <2>4, SumUnique
    <2>7. part[s][s] = w[Chosen(s)] + part[s][s \ {Chosen(s)}]
      BY <1>6, <2>1, SumAt
    <2> QED BY <2>5, <2>6, <2>7
  <1>7. IsSum(sum, w, T)
    <2>1. ASSUME NEW s \in SUBSET T, s # {}
          PROVE  sum[s] = w[Chosen(s)] + sum[s \ {Chosen(s)}]
      <3>1. Chosen(s) \in s /\ s \ {Chosen(s)} \in SUBSET T /\ s \ {Chosen(s)} # T
        BY <2>1, ChosenIn
      <3>2. sum[s] = w[Chosen(s)] + part[s \ {Chosen(s)}][s \ {Chosen(s)}]
        BY <2>1
      <3>3. CASE s \ {Chosen(s)} = {}
        <4>1. IsSum(part[{}], w, {}) /\ sum[{}] = 0
          BY <1>5, <3>1, <3>3
        <4> HIDE DEF part, sum
        <4>2. part[{}][{}] = 0
          BY <4>1, SumAt
        <4> QED BY <3>2, <3>3, <4>1, <4>2
      <3>4. CASE s \ {Chosen(s)} # {}
        <4>1. sum[s \ {Chosen(s)}] = part[s \ {Chosen(s)}][s \ {Chosen(s)}]
          BY <1>6, <3>1, <3>4
        <4> HIDE DEF part, sum
        <4> QED BY <3>2, <4>1
      <3> QED BY <3>3, <3>4
    <2>2. sum[{}] = 0 /\ DOMAIN sum = SUBSET T
      OBVIOUS
    <2>3. sum = [s \in SUBSET T |-> sum[s]]
      OBVIOUS
    <2> HIDE DEF sum
    <2> QED BY <2>1, <2>2, <2>3 DEF IsSum
  <1> QED BY <1>3, <1>7

-----------------------------------------------------------------------------
(* What a sum is, in terms of the sums of smaller sets.                    *)

LEMMA SumChosen ==
    ASSUME NEW w, NEW S, IsFiniteSet(S)
    PROVE  /\ S = {} => SumFunctionOnSet(w, S) = 0
           /\ S # {} => SumFunctionOnSet(w, S) =
                            w[Chosen(S)] + SumFunctionOnSet(w, S \ {Chosen(S)})
  <1> DEFINE g == CHOOSE h : IsSum(h, w, S)
  <1>1. IsSum(g, w, S) /\ SumFunctionOnSet(w, S) = g[S]
    BY SumExists, SumIs
  <1>2. CASE S = {}
    BY <1>1, <1>2, SumAt
  <1>3. CASE S # {}
    <2> DEFINE V == S \ {Chosen(S)}
               h == CHOOSE f : IsSum(f, w, V)
    <2>1. IsFiniteSet(V) /\ V \subseteq S
      BY FS_Subset
    <2>2. IsSum(h, w, V) /\ SumFunctionOnSet(w, V) = h[V]
      BY <2>1, SumExists, SumIs
    <2> HIDE DEF g, h
    <2>3. g[V] = h[V]
      BY <1>1, <2>1, <2>2, SumUnique
    <2>4. g[S] = w[Chosen(S)] + g[V]
      BY <1>1, <1>3, SumAt
    <2> QED BY <1>1, <1>3, <2>2, <2>3, <2>4
  <1> QED BY <1>2, <1>3

LEMMA SumEmpty == ASSUME NEW w PROVE SumFunctionOnSet(w, {}) = 0
  BY SumChosen, FS_EmptySet

LEMMA SumNat ==
    ASSUME NEW w, NEW S, IsFiniteSet(S), \A x \in S : w[x] \in Nat
    PROVE  SumFunctionOnSet(w, S) \in Nat
  <1> DEFINE Bad == {T \in SUBSET S : SumFunctionOnSet(w, T) \notin Nat}
  <1>1. SUFFICES ASSUME Bad # {} PROVE FALSE
    BY DEF Bad
  <1>2. PICK T \in Bad : \A U \in SUBSET T : U # T => U \notin Bad
    <2>1. Bad \subseteq SUBSET S
      OBVIOUS
    <2> HIDE DEF Bad
    <2> QED BY <1>1, <2>1, SmallestSet
  <1>3. T \in SUBSET S /\ IsFiniteSet(T) /\ SumFunctionOnSet(w, T) \notin Nat
    BY <1>2, FS_Subset
  <1>4. T # {}
    BY <1>3, SumEmpty
  <1>5. Chosen(T) \in T /\ T \ {Chosen(T)} \in SUBSET T /\ w[Chosen(T)] \in Nat
    BY <1>3, <1>4, ChosenIn
  <1>6. SumFunctionOnSet(w, T \ {Chosen(T)}) \in Nat
    BY <1>2, <1>3, <1>5
  <1>7. SumFunctionOnSet(w, T) = w[Chosen(T)] + SumFunctionOnSet(w, T \ {Chosen(T)})
    BY <1>3, <1>4, SumChosen
  <1> QED BY <1>3, <1>5, <1>6, <1>7

(* Any element may be summed apart.                                        *)
LEMMA SumWithout ==
    ASSUME NEW w, NEW S, IsFiniteSet(S), \A x \in S : w[x] \in Nat, NEW x \in S
    PROVE  SumFunctionOnSet(w, S) = w[x] + SumFunctionOnSet(w, S \ {x})
  <1> DEFINE Apart(T, y) == SumFunctionOnSet(w, T) = w[y] + SumFunctionOnSet(w, T \ {y})
             Bad == {T \in SUBSET S : \E y \in T : ~Apart(T, y)}
  <1>1. SUFFICES ASSUME Bad # {} PROVE FALSE
    BY DEF Bad
  <1>2. PICK T \in Bad : \A U \in SUBSET T : U # T => U \notin Bad
    <2>1. Bad \subseteq SUBSET S
      OBVIOUS
    <2> HIDE DEF Bad
    <2> QED BY <1>1, <2>1, SmallestSet
  <1>3. T \in SUBSET S
    BY <1>2
  <1>4. PICK y \in T : ~Apart(T, y)
    BY <1>2
  <1>5. \A U \in SUBSET T : U # T => \A z \in U : Apart(U, z)
    BY <1>2, <1>3
  <1> DEFINE c == Chosen(T)
  <1>6. c \in T
    BY <1>4, ChosenIn
  <1> HIDE DEF Bad, c
  <1>7. IsFiniteSet(T) /\ SumFunctionOnSet(w, T) = w[c] + SumFunctionOnSet(w, T \ {c})
    BY <1>3, <1>6, FS_Subset, SumChosen DEF c
  <1>8. CASE y = c
    BY <1>4, <1>7, <1>8
  <1>9. CASE y # c
    <2>1. SumFunctionOnSet(w, T \ {c}) = w[y] + SumFunctionOnSet(w, (T \ {c}) \ {y})
      <3>1. T \ {c} \in SUBSET T /\ T \ {c} # T /\ y \in T \ {c}
        BY <1>4, <1>6, <1>9
      <3> QED BY <1>5, <3>1
    <2>2. SumFunctionOnSet(w, T \ {y}) = w[c] + SumFunctionOnSet(w, (T \ {y}) \ {c})
      <3>1. T \ {y} \in SUBSET T /\ T \ {y} # T /\ c \in T \ {y}
        BY <1>4, <1>6, <1>9
      <3> QED BY <1>5, <3>1
    <2>3. (T \ {c}) \ {y} = (T \ {y}) \ {c}
      OBVIOUS
    <2>4. PICK rest : rest = SumFunctionOnSet(w, (T \ {c}) \ {y})
      OBVIOUS
    <2>5. rest \in Nat /\ w[c] \in Nat /\ w[y] \in Nat
      BY <1>3, <1>4, <1>6, <2>4, FS_Subset, SumNat
    <2>6. SumFunctionOnSet(w, T) = w[c] + (w[y] + rest)
          /\ SumFunctionOnSet(w, T \ {y}) = w[c] + rest
      BY <1>7, <2>1, <2>2, <2>3, <2>4
    <2> QED BY <1>4, <2>5, <2>6
  <1> QED BY <1>8, <1>9

LEMMA SumWith ==
    ASSUME NEW w, NEW S, IsFiniteSet(S), NEW x, x \notin S,
           \A y \in S \cup {x} : w[y] \in Nat
    PROVE  SumFunctionOnSet(w, S \cup {x}) = SumFunctionOnSet(w, S) + w[x]
  <1>1. IsFiniteSet(S \cup {x}) /\ (S \cup {x}) \ {x} = S
    BY FS_AddElement
  <1>2. SumFunctionOnSet(w, S \cup {x}) = w[x] + SumFunctionOnSet(w, S)
    BY <1>1, SumWithout
  <1>3. SumFunctionOnSet(w, S) \in Nat
    BY SumNat
  <1> QED BY <1>2, <1>3

(* Only the values on the set count.                                       *)
LEMMA SumSame ==
    ASSUME NEW w, NEW v, NEW S, IsFiniteSet(S), \A x \in S : w[x] = v[x]
    PROVE  SumFunctionOnSet(w, S) = SumFunctionOnSet(v, S)
  <1> DEFINE Bad == {T \in SUBSET S : SumFunctionOnSet(w, T) # SumFunctionOnSet(v, T)}
  <1>1. SUFFICES ASSUME Bad # {} PROVE FALSE
    BY DEF Bad
  <1>2. PICK T \in Bad : \A U \in SUBSET T : U # T => U \notin Bad
    <2>1. Bad \subseteq SUBSET S
      OBVIOUS
    <2> HIDE DEF Bad
    <2> QED BY <1>1, <2>1, SmallestSet
  <1>3. T \in SUBSET S /\ IsFiniteSet(T) /\ SumFunctionOnSet(w, T) # SumFunctionOnSet(v, T)
    BY <1>2, FS_Subset
  <1>4. T # {}
    BY <1>3, SumEmpty
  <1>5. Chosen(T) \in T /\ T \ {Chosen(T)} \in SUBSET T
    BY <1>4, ChosenIn
  <1>6. SumFunctionOnSet(w, T \ {Chosen(T)}) = SumFunctionOnSet(v, T \ {Chosen(T)})
    BY <1>2, <1>3, <1>5
  <1>7. w[Chosen(T)] = v[Chosen(T)]
    BY <1>3, <1>5
  <1> QED BY <1>3, <1>4, <1>6, <1>7, SumChosen

(* From w on S to v on T one argument joins, leaves or changes its value.  *)
OneMoves(w, v, S, T, x) ==
    /\ S \ {x} = T \ {x}
    /\ \A y \in S : w[y] \in Nat
    /\ \A y \in T : v[y] \in Nat
    /\ \A y \in S \ {x} : w[y] = v[y]

(* The sum changes by what that argument has, before and after.            *)
LEMMA SumMoves ==
    ASSUME NEW w, NEW v, NEW S, NEW T, NEW x, IsFiniteSet(S), OneMoves(w, v, S, T, x)
    PROVE  /\ SumFunctionOnSet(w, S) \in Nat /\ SumFunctionOnSet(v, T) \in Nat
           /\ SumFunctionOnSet(v, T) + (IF x \in S THEN w[x] ELSE 0)
                 = SumFunctionOnSet(w, S) + (IF x \in T THEN v[x] ELSE 0)
           /\ IsFiniteSet(T)
  <1> USE DEF OneMoves
  <1>1. IsFiniteSet(S \ {x}) /\ IsFiniteSet(T \ {x})
    BY FS_Subset
  <1>2. IsFiniteSet(T)
    <2>1. T \subseteq (T \ {x}) \cup {x} /\ IsFiniteSet((T \ {x}) \cup {x})
      BY <1>1, FS_AddElement
    <2> QED BY <2>1, FS_Subset
  <1>3. PICK rest : rest = SumFunctionOnSet(w, S \ {x})
    OBVIOUS
  <1>4. rest = SumFunctionOnSet(v, T \ {x}) /\ rest \in Nat
    <2>1. SumFunctionOnSet(w, S \ {x}) = SumFunctionOnSet(v, S \ {x})
      BY <1>1, SumSame
    <2>2. SumFunctionOnSet(w, S \ {x}) \in Nat
      BY <1>1, SumNat
    <2> QED BY <1>3, <2>1, <2>2
  <1>5. /\ SumFunctionOnSet(w, S) = rest + (IF x \in S THEN w[x] ELSE 0)
        /\ x \in S => w[x] \in Nat
    <2>1. CASE x \in S
      <3>1. SumFunctionOnSet(w, S) = w[x] + SumFunctionOnSet(w, S \ {x})
        BY <2>1, SumWithout
      <3> QED BY <1>3, <1>4, <2>1, <3>1
    <2>2. CASE x \notin S
      <3>1. S \ {x} = S
        BY <2>2
      <3>2. SumFunctionOnSet(w, S) = rest
        BY <1>3, <3>1, Zenon
      <3> QED BY <1>4, <2>2, <3>2
    <2> QED BY <2>1, <2>2
  <1>6. /\ SumFunctionOnSet(v, T) = rest + (IF x \in T THEN v[x] ELSE 0)
        /\ x \in T => v[x] \in Nat
    <2>1. CASE x \in T
      <3>1. SumFunctionOnSet(v, T) = v[x] + SumFunctionOnSet(v, T \ {x})
        BY <1>2, <2>1, SumWithout
      <3> QED BY <1>4, <2>1, <3>1
    <2>2. CASE x \notin T
      <3>1. T \ {x} = T
        BY <2>2
      <3>2. SumFunctionOnSet(v, T) = rest
        BY <1>4, <3>1, Zenon
      <3> QED BY <1>4, <2>2, <3>2
    <2> QED BY <2>1, <2>2
  <1> QED BY <1>2, <1>4, <1>5, <1>6

-----------------------------------------------------------------------------
(* Sequences put one after another.                                        *)

LEMMA SmallestNumber ==
    ASSUME NEW Bad, Bad \subseteq Nat, Bad # {}
    PROVE  \E m \in Bad : \A k \in Nat : k < m => k \notin Bad
  <1>1. PICK m \in Bad : \A k \in Bad : ~(<<k, m>> \in OpToRel(<, Nat))
    BY NatLessThanWellFounded, WFMin
  <1> QED BY <1>1 DEF OpToRel

(* f has what the first elements of parts make, for each of 1..n.          *)
IsFlat(f, parts, n) ==
    f = [i \in 1..n |-> IF i = 1 THEN parts[i] ELSE f[i - 1] \o parts[i]]

LEMMA FlatExists ==
    ASSUME NEW parts, NEW n \in Nat
    PROVE  \E f : IsFlat(f, parts, n)
  <1> DEFINE Bad == {k \in Nat : ~\E f : IsFlat(f, parts, k)}
  <1>1. SUFFICES ASSUME Bad # {} PROVE FALSE
    BY DEF Bad
  <1>2. PICK k \in Bad : \A j \in Nat : j < k => j \notin Bad
    <2>1. Bad \subseteq Nat
      OBVIOUS
    <2> HIDE DEF Bad
    <2> QED BY <1>1, <2>1, SmallestNumber
  <1>3. k \in Nat /\ ~\E f : IsFlat(f, parts, k)
    BY <1>2
  <1>4. CASE k = 0
    <2>1. IsFlat([i \in 1..0 |-> 0], parts, 0)
      BY DEF IsFlat
    <2> QED BY <1>3, <1>4, <2>1
  <1>5. CASE k # 0
    <2>1. k - 1 \in Nat /\ k - 1 < k
      BY <1>3, <1>5
    <2>2. PICK f : IsFlat(f, parts, k - 1)
      BY <1>2, <2>1
    <2>3. PICK g : g = [i \in 1..k |-> IF i = k THEN IF k = 1 THEN parts[k] ELSE f[k - 1] \o parts[k]
                                       ELSE f[i]]
      OBVIOUS
    <2>4. \A i \in 1..(k - 1) : g[i] = f[i] /\ f[i] = IF i = 1 THEN parts[i] ELSE f[i - 1] \o parts[i]
      <3>1. ASSUME NEW i \in 1..(k - 1) PROVE i \in 1..k /\ i # k
        BY <1>3, <3>1
      <3>2. ASSUME NEW i \in 1..(k - 1) PROVE f[i] = IF i = 1 THEN parts[i] ELSE f[i - 1] \o parts[i]
        BY <2>2, <3>2 DEF IsFlat
      <3> QED BY <2>3, <3>1, <3>2
    <2>5. ASSUME NEW i \in 1..k PROVE g[i] = IF i = 1 THEN parts[i] ELSE g[i - 1] \o parts[i]
      <3>1. CASE i = k /\ k = 1
        BY <2>3, <3>1
      <3>2. CASE i = k /\ k # 1
        <4>1. k - 1 \in 1..(k - 1)
          BY <1>3, <1>5, <3>2
        <4>2. g[k - 1] = f[k - 1]
          BY <2>4, <4>1
        <4> QED BY <2>3, <3>2, <4>2
      <3>3. CASE i # k /\ i = 1
        <4>1. i \in 1..(k - 1)
          BY <1>3, <3>3
        <4> QED BY <2>4, <3>3, <4>1
      <3>4. CASE i # k /\ i # 1
        <4>1. i \in 1..(k - 1) /\ i - 1 \in 1..(k - 1)
          BY <1>3, <3>4
        <4>2. g[i] = f[i - 1] \o parts[i] /\ g[i - 1] = f[i - 1]
          BY <2>4, <3>4, <4>1
        <4> QED BY <3>4, <4>2
      <3> QED BY <3>1, <3>2, <3>3, <3>4
    <2>6. g = [i \in 1..k |-> g[i]]
      BY <2>3
    <2>7. IsFlat(g, parts, k)
      BY <2>5, <2>6 DEF IsFlat
    <2> QED BY <1>3, <2>7
  <1> QED BY <1>4, <1>5

LEMMA FlatKeeps ==
    ASSUME NEW S, NEW n \in Nat, NEW parts, \A k \in 1..n : parts[k] \in Seq(S),
           NEW f, IsFlat(f, parts, n)
    PROVE  \A k \in 1..n : f[k] \in Seq(S)
  <1> DEFINE Bad == {k \in 1..n : f[k] \notin Seq(S)}
  <1>1. SUFFICES ASSUME Bad # {} PROVE FALSE
    BY DEF Bad
  <1>2. PICK k \in Bad : \A j \in Nat : j < k => j \notin Bad
    <2>1. Bad \subseteq Nat
      OBVIOUS
    <2> HIDE DEF Bad
    <2> QED BY <1>1, <2>1, SmallestNumber
  <1>3. k \in 1..n /\ f[k] \notin Seq(S)
    BY <1>2
  <1>4. f[k] = IF k = 1 THEN parts[k] ELSE f[k - 1] \o parts[k]
    BY <1>3 DEF IsFlat
  <1>5. CASE k = 1
    BY <1>3, <1>4, <1>5
  <1>6. CASE k # 1
    <2>1. k - 1 \in 1..n /\ k - 1 \in Nat /\ k - 1 < k
      BY <1>3, <1>6
    <2>2. f[k - 1] \in Seq(S)
      BY <1>2, <2>1
    <2> QED BY <1>3, <1>4, <1>6, <2>2
  <1> QED BY <1>5, <1>6

LEMMA FlattenKeeps ==
    ASSUME NEW S, NEW parts \in Seq(Seq(S))
    PROVE  FlattenSeq(parts) \in Seq(S)
  <1> DEFINE n == Len(parts)
  <1>1. n \in Nat /\ \A k \in 1..n : parts[k] \in Seq(S)
    OBVIOUS
  <1>2. CASE n = 0
    <2>1. parts = <<>>
      BY <1>2
    <2> QED BY <1>2, <2>1 DEF FlattenSeq
  <1>3. CASE n # 0
    <2> DEFINE f == CHOOSE g : IsFlat(g, parts, n)
    <2>1. FlattenSeq(parts) = f[n]
      BY <1>3 DEF FlattenSeq, IsFlat
    <2>2. IsFlat(f, parts, n)
      BY <1>1, FlatExists
    <2> HIDE DEF f, n
    <2>3. n \in 1..n
      BY <1>1, <1>3
    <2> QED BY <1>1, <2>1, <2>2, <2>3, FlatKeeps
  <1> QED BY <1>2, <1>3

-----------------------------------------------------------------------------
(* A sequence of entries put into a map one after the other: the last one  *)
(* of a key counts.  kf and vf give the key and the value of an entry.     *)

LEMMA LargestNumber ==
    ASSUME NEW n \in Nat, NEW S, S \subseteq 1..n, S # {}
    PROVE  \E m \in S : \A k \in S : k <= m
  <1> DEFINE Below == {n - k : k \in S}
  <1>1. Below \subseteq Nat /\ Below # {}
    <2>1. \A k \in S : n - k \in Nat
      OBVIOUS
    <2> QED BY <2>1
  <1> HIDE DEF Below
  <1>2. PICK b \in Below : \A k \in Nat : k < b => k \notin Below
    BY <1>1, SmallestNumber
  <1>3. PICK m \in S : b = n - m
    BY <1>2 DEF Below
  <1>4. ASSUME NEW k \in S PROVE k <= m
    <2>1. n - k \in Below /\ n - k \in Nat
      BY <1>1 DEF Below
    <2>2. ~(n - k < n - m)
      BY <1>2, <1>3, <2>1
    <2> QED BY <2>2
  <1> QED BY <1>4

LEMMA MaxIs ==
    ASSUME NEW n \in Nat, NEW S, S \subseteq 1..n, S # {}
    PROVE  Max(S) \in S /\ \A k \in S : k <= Max(S)
  <1>1. \E m \in S : \A k \in S : m >= k
    <2>1. PICK m \in S : \A k \in S : k <= m
      BY LargestNumber
    <2>2. \A k \in S : m >= k
      BY <2>1
    <2> QED BY <2>2
  <1>2. Max(S) \in S /\ \A k \in S : Max(S) >= k
    BY <1>1 DEF Max
  <1> QED BY <1>2

WithKey(map, key, value) ==
    [k \in DOMAIN map \cup {key} |-> IF k = key THEN value ELSE map[k]]
KeysIn(kf, s) == {kf[i] : i \in s}
Overridden(base, kf, vf, s) ==
    [k \in DOMAIN base \cup KeysIn(kf, s) |->
        IF k \in KeysIn(kf, s) THEN vf[Max({i \in s : kf[i] = k})] ELSE base[k]]
IsOver(g, base, kf, vf, n) ==
    g = [s \in SUBSET (1..n) |->
            IF s = {} THEN base ELSE WithKey(g[s \ {Max(s)}], kf[Max(s)], vf[Max(s)])]

\* One entry more, the last one.
LEMMA OverriddenStep ==
    ASSUME NEW n \in Nat, NEW base, NEW kf, NEW vf, NEW s \in SUBSET (1..n), s # {},
           NEW x, x = Max(s)
    PROVE  WithKey(Overridden(base, kf, vf, s \ {x}), kf[x], vf[x]) = Overridden(base, kf, vf, s)
  <1>1. x \in s /\ \A k \in s : k <= x
    BY MaxIs
  <1> DEFINE old == Overridden(base, kf, vf, s \ {x})
             new == Overridden(base, kf, vf, s)
             one == WithKey(old, kf[x], vf[x])
             At(t, k) == {i \in t : kf[i] = k}
  <1>2. KeysIn(kf, s) = KeysIn(kf, s \ {x}) \cup {kf[x]}
    BY <1>1 DEF KeysIn
  <1>3. /\ one = [k \in DOMAIN one |-> one[k]] /\ new = [k \in DOMAIN new |-> new[k]]
        /\ DOMAIN one = DOMAIN new
    BY <1>2 DEF Overridden, WithKey
  <1>4. ASSUME NEW k \in DOMAIN new PROVE one[k] = new[k]
    <2>1. CASE k = kf[x]
      <3>1. one[k] = vf[x]
        BY <2>1 DEF WithKey
      <3>2. x \in At(s, k) /\ At(s, k) \subseteq 1..n
        BY <1>1, <2>1
      <3>3. Max(At(s, k)) \in At(s, k) /\ \A i \in At(s, k) : i <= Max(At(s, k))
        BY <3>2, MaxIs
      <3>4. Max(At(s, k)) \in s /\ x <= Max(At(s, k)) /\ Max(At(s, k)) <= x
        BY <1>1, <3>2, <3>3
      <3>5. Max(At(s, k)) = x
        <4> HIDE DEF At
        <4>1. \A i \in s : i \in 1..n
          OBVIOUS
        <4>2. x \in 1..n /\ Max(At(s, k)) \in 1..n
          BY <1>1, <3>4, <4>1
        <4>3. PICK m \in 1..n : m = Max(At(s, k))
          BY <4>2
        <4>4. x \in Nat /\ m \in Nat /\ x <= m /\ m <= x
          BY <3>4, <4>2, <4>3
        <4> QED BY <4>3, <4>4
      <3>6. new[k] = vf[Max(At(s, k))]
        BY <1>2, <2>1 DEF Overridden
      <3> QED BY <3>1, <3>5, <3>6
    <2>2. CASE k # kf[x]
      <3>1. At(s, k) = At(s \ {x}, k)
        BY <2>2
      <3>2. k \in KeysIn(kf, s) <=> k \in KeysIn(kf, s \ {x})
        BY <1>2, <2>2
      <3>3. k \in DOMAIN old
        BY <3>2, <1>4 DEF Overridden
      <3>4. one[k] = old[k]
        BY <2>2, <3>3 DEF WithKey
      <3>5. old[k] = new[k]
        BY <3>1, <3>2, <3>3, <1>4 DEF Overridden
      <3> QED BY <3>4, <3>5
    <2> QED BY <2>1, <2>2
  <1> HIDE DEF one, new
  <1> QED BY <1>3, <1>4 DEF one, new

LEMMA OverriddenNone ==
    ASSUME NEW base, NEW kf, NEW vf, base = [k \in DOMAIN base |-> base[k]]
    PROVE  Overridden(base, kf, vf, {}) = base
  <1>1. KeysIn(kf, {}) = {}
    BY DEF KeysIn
  <1>2. Overridden(base, kf, vf, {}) = [k \in DOMAIN base |-> base[k]]
    BY <1>1 DEF Overridden
  <1> QED BY <1>2

LEMMA OverExists ==
    ASSUME NEW n \in Nat, NEW base, base = [k \in DOMAIN base |-> base[k]], NEW kf, NEW vf
    PROVE  IsOver([s \in SUBSET (1..n) |-> Overridden(base, kf, vf, s)], base, kf, vf, n)
  <1> DEFINE g == [s \in SUBSET (1..n) |-> Overridden(base, kf, vf, s)]
  <1>1. ASSUME NEW s \in SUBSET (1..n)
        PROVE  g[s] = IF s = {} THEN base ELSE WithKey(g[s \ {Max(s)}], kf[Max(s)], vf[Max(s)])
    <2>1. CASE s = {}
      BY <2>1, OverriddenNone
    <2>2. CASE s # {}
      <3>1. s \ {Max(s)} \in SUBSET (1..n)
        OBVIOUS
      <3>2. g[s \ {Max(s)}] = Overridden(base, kf, vf, s \ {Max(s)})
        BY <3>1
      <3>3. PICK x : x = Max(s)
        OBVIOUS
      <3>4. WithKey(Overridden(base, kf, vf, s \ {x}), kf[x], vf[x]) = Overridden(base, kf, vf, s)
        BY <2>2, <3>3, OverriddenStep
      <3> QED BY <2>2, <3>2, <3>3, <3>4
    <2> QED BY <2>1, <2>2
  <1>2. g = [s \in SUBSET (1..n) |-> g[s]]
    OBVIOUS
  <1> HIDE DEF g
  <1>3. IsOver(g, base, kf, vf, n)
    BY <1>1, <1>2 DEF IsOver
  <1> QED BY <1>3 DEF g

LEMMA OverUnique ==
    ASSUME NEW n \in Nat, NEW base, base = [k \in DOMAIN base |-> base[k]], NEW kf, NEW vf,
           NEW g, IsOver(g, base, kf, vf, n)
    PROVE  g[1..n] = Overridden(base, kf, vf, 1..n)
  <1> DEFINE Bad == {s \in SUBSET (1..n) : g[s] # Overridden(base, kf, vf, s)}
  <1>1. SUFFICES ASSUME Bad # {} PROVE FALSE
    BY DEF Bad
  <1>2. PICK s \in Bad : \A u \in SUBSET s : u # s => u \notin Bad
    <2>1. Bad \subseteq SUBSET (1..n)
      OBVIOUS
    <2>2. IsFiniteSet(1..n)
      BY FS_Interval
    <2> HIDE DEF Bad
    <2> QED BY <1>1, <2>1, <2>2, SmallestSet
  <1>3. s \in SUBSET (1..n) /\ g[s] # Overridden(base, kf, vf, s)
    BY <1>2
  <1>4. g[s] = IF s = {} THEN base ELSE WithKey(g[s \ {Max(s)}], kf[Max(s)], vf[Max(s)])
    BY <1>3 DEF IsOver
  <1>5. CASE s = {}
    BY <1>3, <1>4, <1>5, OverriddenNone
  <1>6. CASE s # {}
    <2>1. PICK x : x = Max(s)
      OBVIOUS
    <2>2. x \in s
      BY <1>3, <1>6, <2>1, MaxIs
    <2>3. g[s \ {x}] = Overridden(base, kf, vf, s \ {x})
      BY <1>2, <1>3, <2>2
    <2>4. WithKey(Overridden(base, kf, vf, s \ {x}), kf[x], vf[x]) = Overridden(base, kf, vf, s)
      BY <1>3, <1>6, <2>1, OverriddenStep
    <2> QED BY <1>3, <1>4, <1>6, <2>1, <2>3, <2>4
  <1> QED BY <1>5, <1>6

(* A map has the keys of the entries at the places S, and for each the     *)
(* value of the last of them.                                              *)
HoldsLast(map, K, V, S) ==
    /\ map = [k \in DOMAIN map |-> map[k]] /\ DOMAIN map = KeysIn(K, S)
    /\ \A i \in S : (\A j \in S : j > i => K[j] # K[i]) => map[K[i]] = V[i]
Added(n, m) == {n + i : i \in 1..m}
LastAt(K, S, k) == {i \in S : K[i] = k /\ \A j \in S : K[j] = k => j <= i}

LEMMA LatestGrows ==
    ASSUME NEW n \in Nat, NEW m \in Nat, NEW S, S \subseteq 1..n,
           NEW K, NEW V, NEW map, HoldsLast(map, K, V, S), NEW kf, NEW vf, NEW K2, NEW V2,
           \A i \in S : K2[i] = K[i] /\ V2[i] = V[i],
           \A i \in 1..m : K2[n + i] = kf[i] /\ V2[n + i] = vf[i]
    PROVE  HoldsLast(Overridden(map, kf, vf, 1..m), K2, V2, S \cup Added(n, m))
  <1> DEFINE new == Overridden(map, kf, vf, 1..m)
             T == S \cup Added(n, m)
  <1>1. DOMAIN new = KeysIn(K2, T)
    <2>1. KeysIn(K2, Added(n, m)) = KeysIn(kf, 1..m)
      BY DEF KeysIn, Added
    <2>2. KeysIn(K2, S) = DOMAIN map
      BY DEF KeysIn, HoldsLast
    <2>3. KeysIn(K2, T) = KeysIn(K2, S) \cup KeysIn(K2, Added(n, m))
      BY DEF KeysIn
    <2> QED BY <2>1, <2>2, <2>3 DEF Overridden
  <1>2. new = [k \in DOMAIN new |-> new[k]]
    BY DEF Overridden
  <1>3. ASSUME NEW i \in T, \A j \in T : j > i => K2[j] # K2[i] PROVE new[K2[i]] = V2[i]
    <2>1. CASE i \in Added(n, m)
      <3>1. PICK a \in 1..m : i = n + a
        BY <2>1 DEF Added
      <3>2. ASSUME NEW b \in 1..m, b > a PROVE kf[b] # kf[a]
        <4>1. n + b \in T /\ n + b > i
          BY <3>1, <3>2 DEF Added
        <4> QED BY <1>3, <3>1, <4>1
      <3> DEFINE At == {b \in 1..m : kf[b] = kf[a]}
      <3>3. a \in At /\ At \subseteq 1..m
        OBVIOUS
      <3>4. Max(At) \in At /\ \A b \in At : b <= Max(At)
        BY <3>3, MaxIs
      <3>5. Max(At) = a
        <4>1. PICK c \in 1..m : c = Max(At)
          BY <3>3, <3>4
        <4>2. a <= c /\ kf[c] = kf[a]
          BY <3>3, <3>4, <4>1
        <4>3. ~(c > a)
          BY <3>2, <4>2
        <4> QED BY <4>1, <4>2, <4>3
      <3>6. kf[a] \in KeysIn(kf, 1..m)
        BY DEF KeysIn
      <3>7. new[kf[a]] = vf[Max(At)]
        BY <3>6 DEF Overridden
      <3> QED BY <3>1, <3>5, <3>7
    <2>2. CASE i \notin Added(n, m)
      <3>1. i \in S /\ K2[i] = K[i] /\ V2[i] = V[i] /\ i \in 1..n
        BY <2>2
      <3>2. ASSUME NEW b \in 1..m PROVE kf[b] # K[i]
        <4>1. n + b \in T /\ n + b > i /\ K2[n + b] = kf[b]
          BY <3>1, <3>2 DEF Added
        <4> QED BY <1>3, <3>1, <4>1
      <3>3. K[i] \notin KeysIn(kf, 1..m)
        BY <3>2 DEF KeysIn
      <3>4. K[i] \in DOMAIN map
        BY <3>1 DEF HoldsLast, KeysIn
      <3>5. new[K[i]] = map[K[i]]
        BY <3>3, <3>4 DEF Overridden
      <3>6. ASSUME NEW j \in S, j > i PROVE K[j] # K[i]
        BY <1>3, <3>1, <3>6
      <3>7. map[K[i]] = V[i]
        BY <3>1, <3>6 DEF HoldsLast
      <3> QED BY <3>1, <3>5, <3>7
    <2> QED BY <2>1, <2>2
  <1> HIDE DEF new, T
  <1>4. HoldsLast(new, K2, V2, T)
    BY <1>1, <1>2, <1>3 DEF HoldsLast
  <1> QED BY <1>4 DEF new, T

LEMMA LatestSame ==
    ASSUME NEW S, NEW K, NEW V, NEW map, HoldsLast(map, K, V, S), NEW K2, NEW V2,
           \A i \in S : K2[i] = K[i] /\ V2[i] = V[i]
    PROVE  HoldsLast(map, K2, V2, S)
  <1>1. KeysIn(K2, S) = KeysIn(K, S)
    BY DEF KeysIn
  <1> QED BY <1>1 DEF HoldsLast

\* What the map gives a key: the value of its last entry, or nothing.
ReadsLast(map, K, V, S, k) ==
    /\ {map[x] : x \in {k} \cap DOMAIN map} = {V[i] : i \in LastAt(K, S, k)}
    /\ k \in DOMAIN map <=> LastAt(K, S, k) # {}
    /\ \A i \in LastAt(K, S, k) : LastAt(K, S, k) = {i}

LEMMA LatestAt ==
    ASSUME NEW n \in Nat, NEW S, S \subseteq 1..n, NEW K, NEW V, NEW map, HoldsLast(map, K, V, S), NEW k
    PROVE  ReadsLast(map, K, V, S, k)
  <1> DEFINE At == {i \in S : K[i] = k}
  <1>1. k \in DOMAIN map <=> At # {}
    BY DEF HoldsLast, KeysIn
  <1>2. At \subseteq 1..n
    OBVIOUS
  <1>3. CASE At = {}
    BY <1>1, <1>3 DEF LastAt, ReadsLast
  <1>4. CASE At # {}
    <2>1. PICK m \in At : \A j \in At : j <= m
      BY <1>2, <1>4, LargestNumber
    <2>2. LastAt(K, S, k) = {m}
      <3>1. m \in LastAt(K, S, k)
        BY <2>1 DEF LastAt
      <3>2. ASSUME NEW i \in LastAt(K, S, k) PROVE i = m
        <4>1. i <= m /\ m <= i /\ i \in Nat /\ m \in Nat
          BY <1>2, <2>1, <3>2 DEF LastAt
        <4> QED BY <4>1
      <3> QED BY <3>1, <3>2
    <2>3. map[k] = V[m]
      <3>1. ASSUME NEW j \in S, j > m PROVE K[j] # K[m]
        <4>1. j \in Nat /\ m \in Nat
          BY <1>2, <3>1
        <4> QED BY <2>1, <3>1, <4>1
      <3> QED BY <2>1, <3>1 DEF HoldsLast
    <2> QED BY <1>1, <1>4, <2>2, <2>3 DEF ReadsLast
  <1> QED BY <1>3, <1>4
=============================================================================
