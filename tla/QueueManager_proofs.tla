------------------------ MODULE QueueManager_proofs ------------------------
(***************************************************************************)
(* Theorems about QueueManager, for every configuration and any number of  *)
(* messages, workers and stop() calls.                                     *)
(***************************************************************************)
EXTENDS QueueManager, Data_proofs

-----------------------------------------------------------------------------
(* The inductive invariant, in parts.                                      *)

HeldIn(wk, m) == \E w \in Workers : wk[w].item = m

\* Conservation of the messages, of a given queue, counter, crew and outcome:
\* start() is reached with the queue as it is and as enqueue has just left it.
Accounted(q, c, wk, out) ==
    /\ \A m \in Messages :
          /\ m <= c <=> m \in IdsOf(q) \/ HeldIn(wk, m) \/ out[m] # "none"
          /\ ~(m \in IdsOf(q) /\ HeldIn(wk, m))
          /\ out[m] # "none" => m \notin IdsOf(q) /\ ~HeldIn(wk, m)
    /\ \A v, w \in Workers :
          wk[v].item = wk[w].item /\ wk[v].item # 0 => v = w

\* What a worker's place in its loop says of the message it holds.
TurnOK(x) ==
    /\ x.item = 0 <=> x.pc \in {"off", "loop", "poll"}
    /\ x.pc = "limit" => sends[x.item] = 0 /\ x.attempt = 0
    /\ x.pc \in {"send", "backoff"} => sends[x.item] = x.attempt + 1
    /\ x.pc = "backoff" => x.attempt < MaxAttempts - 1

Turns == \A w \in Workers : TurnOK(worker[w])

\* The provider has not seen a message that still waits, or is yet to come.
Untried(q, c, tries) ==
    \A m \in Messages : m > c \/ m \in IdsOf(q) => tries[m] = 0

Stops ==
    \A s \in StopCalls :
        /\ stop[s].workers \subseteq Active
        /\ ~stop[s].waiting => stop[s].workers = {}

ManagerInv ==
    /\ TypeOK
    /\ WellKept(queue, idCounter)
    /\ Accounted(queue, idCounter, worker, outcome)
    /\ Turns
    /\ Untried(queue, idCounter, sends)
    /\ Stops
    /\ CrewAccounting

-----------------------------------------------------------------------------
(* What the parts give.                                                    *)

LEMMA ManagerInvMeans == ManagerInv => Conservation
<1> SUFFICES ASSUME ManagerInv PROVE Conservation
  OBVIOUS
<1>1. \A m \in Messages : (Queued(m) <=> m \in IdsOf(queue))
  BY DEF Queued, IdsOf
<1>2. \A m \in Messages : (Held(m) <=> HeldIn(worker, m))
  BY DEF Held, HeldIn
<1>3. \A i, j \in 1..Len(queue) : queue[i].id = queue[j].id => i = j
  BY DEF ManagerInv, WellKept
<1> QED
  BY <1>1, <1>2, <1>3 DEF ManagerInv, Accounted, Conservation

LEMMA AwaitedActive ==
    ASSUME Stops
    PROVE  Awaited \subseteq Active
BY DEF Stops, Awaited

LEMMA ActiveFinite == IsFiniteSet(Active)
BY BoundAssumption, FS_Subset DEF Active

\* The workers nobody waits for, when the manager does not process: none.
LEMMA NoneUnawaited ==
    ASSUME CrewAccounting, ~processing
    PROVE  Active \ Awaited = {}
<1>1. Cardinality(Active \ Awaited) = 0
  BY DEF CrewAccounting
<1>2. IsFiniteSet(Active \ Awaited)
  BY ActiveFinite, FS_Subset
<1> QED
  BY <1>1, <1>2, FS_EmptySet

LEMMA QuietFromCrew ==
    ASSUME ManagerInv
    PROVE  QuietAfterStop
<1> SUFFICES ASSUME ~processing, \A s \in StopCalls : ~stop[s].waiting
             PROVE  Active = {} /\ \A m \in Messages : ~Held(m)
  BY DEF QuietAfterStop
<1>1. Awaited = {}
  BY DEF Awaited
<1>2. Active = {}
  BY <1>1, NoneUnawaited DEF ManagerInv
<1>3. \A w \in Workers : worker[w].item = 0
  BY <1>2 DEF ManagerInv, Turns, TurnOK, Active
<1>4. \A m \in Messages : m # 0
  BY BoundAssumption DEF Messages
<1> QED
  BY <1>2, <1>3, <1>4 DEF Held

\* The messages are accounted for as long as every worker keeps its item.
LEMMA SameItems ==
    ASSUME NEW q, NEW c, NEW wk, NEW wk2, NEW out, Accounted(q, c, wk, out),
           \A w \in Workers : wk2[w].item = wk[w].item
    PROVE  Accounted(q, c, wk2, out)
<1>1. \A m \in Messages : (HeldIn(wk2, m) <=> HeldIn(wk, m))
  BY DEF HeldIn
<1> QED
  BY <1>1 DEF Accounted

-----------------------------------------------------------------------------
(* Starting a crew.                                                        *)

LEMMA StartOnFacts ==
    ASSUME ManagerInv, ~processing, NEW q, NEW c \in 0..MaxMessages,
           WellKept(q, c), Accounted(q, c, worker, outcome), Untried(q, c, sends),
           StartOn(q), UNCHANGED <<stop, outcome, sends>>
    PROVE  /\ worker' \in [Workers -> WorkerState]
           /\ WellKept(queue', c)
           /\ Len(queue') <= Len(q)
           /\ Accounted(queue', c, worker', outcome')
           /\ Turns'
           /\ Untried(queue', c, sends')
           /\ Stops'
           /\ CrewAccounting'
<1> DEFINE n == Len(q)
<1>0. PICK crew \in SUBSET Idle :
        \E turn \in Bijection(crew, 1..Concurrency) :
            worker' = [w \in Workers |->
                        IF w \in crew THEN FirstTurn(q, turn[w]) ELSE worker[w]]
  BY DEF StartOn
<1>1. PICK turn \in Bijection(crew, 1..Concurrency) :
        worker' = [w \in Workers |->
                      IF w \in crew THEN FirstTurn(q, turn[w]) ELSE worker[w]]
  BY <1>0
<1>2. processing' /\ queue' = Shifted(q, Concurrency)
  BY DEF StartOn
<1>3. /\ n \in Nat
      /\ \A i \in 1..n : q[i].id \in 1..c /\ q[i].id \in Messages
      /\ \A i, j \in 1..n : q[i].id = q[j].id => i = j
  <2>1. \A i \in 1..c : i \in Messages
    BY BoundAssumption DEF Messages
  <2> QED
    BY <2>1, LenProperties DEF WellKept
<1>4. /\ \A w \in crew : turn[w] \in 1..Concurrency
      /\ \A v, w \in crew : turn[v] = turn[w] => v = w
      /\ \A k \in 1..Concurrency : \E w \in crew : turn[w] = k
  BY DEF Bijection, Injection, IsInjective, Surjection
<1>5. \A w \in crew : w \in Workers /\ worker[w].pc = "off" /\ worker[w].item = 0
  BY DEF Idle, Active, ManagerInv, Turns, TurnOK
<1>6. /\ WellKept(queue', c)
      /\ Len(queue') <= n
      /\ IdsOf(queue') = {q[i].id : i \in (Concurrency + 1)..n}
  BY <1>2, ShiftedKept, ConfigAssumption
\* A member of the crew holds the item of its turn, or finds none.
<1>7. \A w \in crew :
        \/ turn[w] \in 1..n /\ worker'[w] = Holding(q[turn[w]].id)
        \/ turn[w] \notin 1..n /\ worker'[w] = Without("poll")
  BY <1>1, <1>3, <1>4, <1>5, ConfigAssumption DEF FirstTurn
<1>71. /\ \A m : Holding(m).pc = "limit" /\ Holding(m).item = m
       /\ Without("poll").pc = "poll" /\ Without("poll").item = 0
  BY DEF Holding, Without
<1>72. \A w \in crew :
         /\ worker'[w].pc \in {"limit", "poll"}
         /\ turn[w] \in 1..n => worker'[w].item = q[turn[w]].id
         /\ turn[w] \notin 1..n => worker'[w].item = 0
  <2> HIDE DEF n
  <2> QED
    BY <1>7, <1>71
<1>8. \A w \in Workers \ crew : worker'[w] = worker[w]
  BY <1>1
<1>9. worker' \in [Workers -> WorkerState]
  <2>1. \A m \in Messages : Holding(m) \in WorkerState
    BY ConfigAssumption, BoundAssumption
       DEF Holding, WorkerState, PCs, Messages
  <2>2. Without("poll") \in WorkerState
    BY ConfigAssumption, BoundAssumption DEF Without, WorkerState, PCs
  <2>3. \A w \in crew : worker'[w] \in WorkerState
    BY <1>3, <1>7, <2>1, <2>2
  <2>4. \A w \in Workers : worker'[w] \in WorkerState
    BY <1>8, <2>3 DEF ManagerInv, TypeOK
  <2> QED
    BY <1>1, <2>4
<1>10. Turns'
  <2>1. ASSUME NEW w \in crew PROVE TurnOK(worker[w])'
    <3>1. CASE turn[w] \in 1..n /\ worker'[w] = Holding(q[turn[w]].id)
      <4>1. q[turn[w]].id \in IdsOf(q) /\ q[turn[w]].id \in Messages
        BY <1>3, <3>1 DEF IdsOf
      <4>2. sends[q[turn[w]].id] = 0
        BY <4>1 DEF Untried
      <4>3. q[turn[w]].id # 0
        BY <4>1, BoundAssumption DEF Messages
      <4> QED
        BY <3>1, <4>2, <4>3 DEF TurnOK, Holding
    <3>2. CASE worker'[w] = Without("poll")
      BY <3>2 DEF TurnOK, Without
    <3> QED
      BY <1>7, <3>1, <3>2
  <2>2. ASSUME NEW w \in Workers \ crew PROVE TurnOK(worker[w])'
    BY <1>8 DEF ManagerInv, Turns, TurnOK
  <2> QED
    BY <2>1, <2>2 DEF Turns
<1>11. Untried(queue', c, sends')
  <2>1. IdsOf(queue') \subseteq IdsOf(q)
    <3>1. \A i \in (Concurrency + 1)..n : i \in 1..n
      BY <1>3, ConfigAssumption
    <3> QED
      BY <1>6, <3>1 DEF IdsOf
  <2> QED
    BY <2>1 DEF Untried
<1>12. Active' = Active \cup crew
  <2>1. \A w \in crew : worker'[w].pc # "off"
    BY <1>72
  <2> QED
    BY <1>5, <1>8, <2>1 DEF Active
<1>13. Stops'
  BY <1>12 DEF ManagerInv, Stops
<1>14. CrewAccounting'
  <2>1. Active \ Awaited = {} /\ Awaited \subseteq Active
    BY NoneUnawaited, AwaitedActive DEF ManagerInv
  <2>2. Awaited' = Awaited
    BY DEF Awaited
  <2>3. crew \cap Active = {}
    BY DEF Idle
  <2>4. Active' \ Awaited' = crew
    BY <1>12, <2>1, <2>2, <2>3
  <2>5. IsFiniteSet(crew) /\ ExistsBijection(crew, 1..Concurrency)
    BY <1>5, BoundAssumption, FS_Subset DEF ExistsBijection
  <2>6. Cardinality(1..Concurrency) = Cardinality(crew)
    BY <2>5, FS_Bijection
  <2>7. Cardinality(1..Concurrency) = Concurrency
    BY ConfigAssumption, SegmentSize
  <2> QED
    BY <1>2, <2>4, <2>6, <2>7 DEF CrewAccounting
<1>15. Accounted(queue', c, worker', outcome')
  <2>1. \A m \in Messages : m \in IdsOf(q) <=>
            \/ m \in IdsOf(queue')
            \/ \E i \in 1..n : i <= Concurrency /\ q[i].id = m
    <3>1. \A i \in 1..n : i <= Concurrency \/ i \in (Concurrency + 1)..n
      BY <1>3, ConfigAssumption
    <3>2. \A i \in (Concurrency + 1)..n : i \in 1..n
      BY <1>3, ConfigAssumption
    <3> QED
      BY <1>6, <3>1, <3>2 DEF IdsOf
  <2>2. \A i \in 1..n : i <= Concurrency => q[i].id \notin IdsOf(queue')
    <3>1. \A j \in (Concurrency + 1)..n : j \in 1..n /\ ~(j <= Concurrency)
      BY <1>3, ConfigAssumption
    <3> QED
      BY <1>3, <1>6, <3>1
  <2>3. \A i \in 1..n : i <= Concurrency => i \in 1..Concurrency
    BY <1>3, ConfigAssumption
  <2>4. \A m \in Messages : m # 0
    BY BoundAssumption DEF Messages
  <2>5. ASSUME NEW m \in Messages
        PROVE  HeldIn(worker', m) <=>
                  \/ HeldIn(worker, m)
                  \/ \E i \in 1..n : i <= Concurrency /\ q[i].id = m
    <3>1. ASSUME NEW w \in Workers, worker'[w].item = m
          PROVE  \/ HeldIn(worker, m)
                 \/ \E i \in 1..n : i <= Concurrency /\ q[i].id = m
      <4>1. CASE w \in crew
        <5>1. turn[w] \in 1..n /\ q[turn[w]].id = m
          BY <1>72, <2>4, <3>1, <4>1
        <5>2. turn[w] <= Concurrency
          BY <1>4, <4>1, ConfigAssumption
        <5> QED
          BY <5>1, <5>2
      <4>2. CASE w \notin crew
        BY <1>8, <3>1, <4>2 DEF HeldIn
      <4> QED
        BY <4>1, <4>2
    <3>2. ASSUME NEW w \in Workers, worker[w].item = m
          PROVE  worker'[w].item = m
      BY <1>5, <1>8, <2>4, <3>2
    <3>3. ASSUME NEW i \in 1..n, i <= Concurrency, q[i].id = m
          PROVE  HeldIn(worker', m)
      <4>1. PICK w \in crew : turn[w] = i
        BY <1>4, <2>3, <3>3
      <4>2. worker'[w].item = m
        BY <1>72, <3>3, <4>1
      <4> QED
        BY <1>5, <4>2 DEF HeldIn
    <3> QED
      BY <3>1, <3>2, <3>3 DEF HeldIn
  <2>6. ASSUME NEW v \in Workers, NEW w \in Workers,
               worker'[v].item = worker'[w].item, worker'[v].item # 0
        PROVE  v = w
    <3>1. ASSUME NEW x \in crew, worker'[x].item # 0
          PROVE  turn[x] \in 1..n /\ worker'[x].item = q[turn[x]].id
      BY <1>72, <3>1
    <3>2. ASSUME NEW x \in crew, NEW y \in Workers \ crew,
                 worker'[x].item = worker'[y].item, worker'[x].item # 0
          PROVE  FALSE
      <4>1. worker[y].item = q[turn[x]].id /\ turn[x] \in 1..n
        BY <1>8, <3>1, <3>2
      <4> QED
        BY <1>3, <4>1 DEF Accounted, HeldIn, IdsOf
    <3>3. CASE v \in crew /\ w \in crew
      BY <1>3, <1>4, <2>6, <3>1, <3>3
    <3>4. CASE v \notin crew /\ w \notin crew
      BY <1>8, <2>6, <3>4 DEF Accounted
    <3> QED
      BY <2>6, <3>2, <3>3, <3>4
  <2>7. \A m \in Messages :
          /\ m <= c <=> \/ m \in IdsOf(queue')
                        \/ HeldIn(worker', m)
                        \/ outcome[m] # "none"
          /\ ~(m \in IdsOf(queue') /\ HeldIn(worker', m))
          /\ outcome[m] # "none" =>
                m \notin IdsOf(queue') /\ ~HeldIn(worker', m)
    BY <2>1, <2>2, <2>5 DEF Accounted
  <2> QED
    BY <2>6, <2>7 DEF Accounted
<1> QED
  BY <1>6, <1>9, <1>10, <1>11, <1>13, <1>14, <1>15

-----------------------------------------------------------------------------
(* The client's calls keep the invariant.                                  *)

LEMMA QueueNumbers ==
    ASSUME ManagerInv
    PROVE  /\ Len(queue) \in Nat
           /\ idCounter \in 0..MaxMessages /\ idCounter \in Nat
           /\ \A i \in 1..Len(queue) : queue[i].id \in Messages
           /\ 0 \notin Messages
<1>1. Len(queue) \in Nat /\ idCounter \in 0..MaxMessages
  BY LenProperties DEF ManagerInv, TypeOK
<1>2. \A i \in 1..idCounter : i \in Messages
  BY <1>1, BoundAssumption DEF Messages
<1> QED
  BY <1>1, <1>2, BoundAssumption DEF ManagerInv, WellKept, Messages

LEMMA InitManager == Init => ManagerInv
<1> SUFFICES ASSUME Init PROVE ManagerInv
  OBVIOUS
<1>1. /\ queue \in Seq(Item) /\ Len(queue) = 0 /\ idCounter = 0
      /\ IdsOf(queue) = {}
  BY EmptySeq DEF Init, Q!Init, IdsOf
<1>2. \A w \in Workers :
        /\ worker[w] \in WorkerState
        /\ worker[w].pc = "off" /\ worker[w].item = 0
  BY ConfigAssumption, BoundAssumption
     DEF Init, Without, WorkerState, PCs
<1>3. Active = {}
  BY <1>2 DEF Active
<1>4. \A m \in Messages : m \in Nat \ {0}
  BY BoundAssumption DEF Messages
<1>5. TypeOK
  <2>1. worker \in [Workers -> WorkerState]
    BY <1>2 DEF Init
  <2>2. sends \in [Messages -> 0..MaxAttempts]
    BY ConfigAssumption DEF Init
  <2>3. stop \in [StopCalls -> [waiting : BOOLEAN, workers : SUBSET Workers]]
    BY DEF Init
  <2>4. outcome \in [Messages -> {"none", "delivered", "dropped", "cleared"}]
    BY DEF Init
  <2>5. processing \in BOOLEAN
    BY DEF Init
  <2>6. idCounter \in 0..MaxMessages /\ (MaxSize > 0 => Len(queue) <= MaxSize)
    BY <1>1, ConfigAssumption, BoundAssumption
  <2> QED
    BY <1>1, <2>1, <2>2, <2>3, <2>4, <2>5, <2>6 DEF TypeOK
<1>6. WellKept(queue, idCounter)
  BY <1>1 DEF WellKept, InOrder
<1>7. Accounted(queue, idCounter, worker, outcome)
  BY <1>1, <1>2, <1>4 DEF Init, Accounted, HeldIn
<1>8. Turns /\ Untried(queue, idCounter, sends)
  BY <1>2 DEF Init, Turns, TurnOK, Untried
<1>9. Stops
  BY DEF Init, Stops
<1>10. CrewAccounting
  BY <1>3, FS_EmptySet DEF Init, CrewAccounting
<1> QED
  BY <1>5, <1>6, <1>7, <1>8, <1>9, <1>10 DEF ManagerInv

LEMMA StartKeeps ==
    ASSUME ManagerInv, Start
    PROVE  ManagerInv'
<1>1. /\ worker' \in [Workers -> WorkerState]
      /\ WellKept(queue', idCounter)
      /\ Len(queue') <= Len(queue)
      /\ Accounted(queue', idCounter, worker', outcome')
      /\ Turns'
      /\ Untried(queue', idCounter, sends')
      /\ Stops'
      /\ CrewAccounting'
  BY QueueNumbers, StartOnFacts DEF ManagerInv, Start
<1>2. queue' \in Seq(Item) /\ Len(queue') \in Nat /\ processing'
  BY <1>1, LenProperties DEF WellKept, Start, StartOn
<1>3. TypeOK'
  BY <1>1, <1>2, QueueNumbers, ConfigAssumption DEF ManagerInv, TypeOK, Start
<1> QED
  BY <1>1, <1>3 DEF ManagerInv, Start

LEMMA EnqueueKeeps ==
    ASSUME ManagerInv, NEW p \in Priorities, Enqueue(p)
    PROVE  ManagerInv'
<1> DEFINE c == idCounter + 1
           pushed == Pushed(queue, NewItem(c, p))
<1>1. /\ c \in 0..MaxMessages /\ c \in Messages /\ idCounter' = c
      /\ UNCHANGED <<stop, outcome, sends>>
  BY QueueNumbers, BoundAssumption DEF Enqueue, Messages
<1>2. /\ WellKept(pushed, c)
      /\ Len(pushed) = Len(queue) + 1
      /\ IdsOf(pushed) = IdsOf(queue) \cup {c}
  BY PushedKept, QueueNumbers, ConfigAssumption DEF ManagerInv
<1>3. \A m \in Messages :
        /\ m <= c <=> m <= idCounter \/ m = c
        /\ ~(c <= idCounter)
        /\ m > c => m > idCounter
        /\ c > idCounter
  BY QueueNumbers, BoundAssumption DEF Messages
<1> HIDE DEF pushed, c
<1>4. Accounted(pushed, c, worker, outcome)
  <2>1. c \notin IdsOf(queue) /\ ~HeldIn(worker, c) /\ outcome[c] = "none"
    BY <1>1, <1>3 DEF ManagerInv, Accounted
  <2> QED
    BY <1>1, <1>2, <1>3, <2>1 DEF ManagerInv, Accounted
<1>5. Untried(pushed, c, sends)
  BY <1>1, <1>2, <1>3 DEF ManagerInv, Untried
<1>6. MaxSize > 0 => Len(queue) + 1 <= MaxSize
  BY QueueNumbers, ConfigAssumption DEF Enqueue, Q!Full
<1>7. CASE AutoStart /\ ~processing
  <2>1. StartOn(pushed)
    BY <1>7 DEF Enqueue, pushed, c
  <2>2. /\ worker' \in [Workers -> WorkerState]
        /\ WellKept(queue', c)
        /\ Len(queue') <= Len(pushed)
        /\ Accounted(queue', c, worker', outcome')
        /\ Turns'
        /\ Untried(queue', c, sends')
        /\ Stops'
        /\ CrewAccounting'
    BY <1>1, <1>2, <1>4, <1>5, <1>7, <2>1, StartOnFacts
  <2>3. queue' \in Seq(Item) /\ Len(queue') \in Nat /\ processing'
    BY <2>1, <2>2, LenProperties DEF WellKept, StartOn
  <2>4. TypeOK'
    BY <1>1, <1>2, <1>6, <2>2, <2>3, QueueNumbers, ConfigAssumption
       DEF ManagerInv, TypeOK
  <2> QED
    BY <1>1, <2>2, <2>4 DEF ManagerInv
<1>8. CASE ~(AutoStart /\ ~processing)
  <2>1. queue' = pushed /\ UNCHANGED <<processing, worker>>
    BY <1>8 DEF Enqueue, pushed, c
  <2>2. TypeOK'
    BY <1>1, <1>2, <1>6, <2>1 DEF ManagerInv, TypeOK, WellKept
  <2>3. Turns' /\ Stops' /\ CrewAccounting'
    BY <1>1, <2>1
       DEF ManagerInv, Turns, TurnOK, Stops, Active, CrewAccounting, Awaited
  <2> QED
    BY <1>1, <1>2, <1>4, <1>5, <2>1, <2>2, <2>3 DEF ManagerInv
<1> QED
  BY <1>7, <1>8

LEMMA StopKeeps ==
    ASSUME ManagerInv, NEW s \in StopCalls, Stop(s)
    PROVE  ManagerInv'
<1>1. /\ processing' = FALSE
      /\ stop' = [stop EXCEPT ![s] = [waiting |-> TRUE, workers |-> Active]]
      /\ UNCHANGED <<queue, idCounter, worker, outcome, sends>>
  BY DEF Stop
<1>2. Active' = Active /\ Active \subseteq Workers
  BY <1>1 DEF Active
<1>3. /\ stop'[s].waiting /\ stop'[s].workers = Active
      /\ \A r \in StopCalls \ {s} : stop'[r] = stop[r]
  BY <1>1 DEF ManagerInv, TypeOK
<1>4. TypeOK'
  BY <1>1, <1>2 DEF ManagerInv, TypeOK
<1>5. Turns'
  BY <1>1 DEF ManagerInv, Turns, TurnOK
<1>6. Stops'
  BY <1>2, <1>3 DEF ManagerInv, Stops
<1>7. CrewAccounting'
  <2>1. Active \subseteq Awaited'
    BY <1>3 DEF Awaited
  <2>2. (Active \ Awaited)' = {}
    BY <1>2, <2>1
  <2> QED
    BY <1>1, <2>2, FS_EmptySet DEF CrewAccounting
<1> QED
  BY <1>1, <1>4, <1>5, <1>6, <1>7 DEF ManagerInv

LEMMA StopReturnsKeeps ==
    ASSUME ManagerInv, NEW s \in StopCalls, StopReturns(s)
    PROVE  ManagerInv'
<1>1. /\ stop[s].waiting /\ stop[s].workers = {}
      /\ stop' = [stop EXCEPT ![s].waiting = FALSE]
      /\ UNCHANGED <<queue, idCounter, processing, worker, outcome, sends>>
  BY DEF StopReturns
<1>2. /\ ~stop'[s].waiting
      /\ \A r \in StopCalls : stop'[r].workers = stop[r].workers
      /\ \A r \in StopCalls \ {s} : stop'[r] = stop[r]
  BY <1>1 DEF ManagerInv, TypeOK
<1>3. Active' = Active
  BY <1>1 DEF Active
<1>4. TypeOK'
  BY <1>1 DEF ManagerInv, TypeOK
<1>5. Turns'
  BY <1>1 DEF ManagerInv, Turns, TurnOK
<1>6. Stops'
  BY <1>1, <1>2, <1>3 DEF ManagerInv, Stops
<1>7. Awaited' = Awaited
  BY <1>1, <1>2 DEF Awaited
<1> QED
  BY <1>1, <1>3, <1>4, <1>5, <1>6, <1>7 DEF ManagerInv, CrewAccounting

LEMMA ClearKeeps ==
    ASSUME ManagerInv, Clear
    PROVE  ManagerInv'
<1>1. /\ queue' = <<>>
      /\ outcome' = [m \in Messages |->
                        IF m \in IdsOf(queue) THEN "cleared" ELSE outcome[m]]
      /\ UNCHANGED <<idCounter, processing, worker, stop, sends>>
  BY DEF Clear
<1>2. queue' \in Seq(Item) /\ Len(queue') = 0 /\ IdsOf(queue') = {}
  BY <1>1, EmptySeq DEF IdsOf
<1>3. TypeOK'
  BY <1>1, <1>2, ConfigAssumption DEF ManagerInv, TypeOK
<1>4. WellKept(queue', idCounter)
  BY <1>2 DEF WellKept, InOrder
<1>5. Accounted(queue', idCounter, worker, outcome')
  BY <1>1, <1>2 DEF ManagerInv, Accounted
<1>6. Turns' /\ Stops' /\ CrewAccounting'
  BY <1>1
     DEF ManagerInv, Turns, TurnOK, Stops, Active, CrewAccounting, Awaited
<1>7. Untried(queue', idCounter, sends)
  BY <1>2 DEF ManagerInv, Untried
<1> QED
  BY <1>1, <1>3, <1>4, <1>5, <1>6, <1>7 DEF ManagerInv

-----------------------------------------------------------------------------
(* The turns of a worker keep the invariant.                               *)

\* A turn that leaves the worker in its loop changes nobody else, and neither
\* starts nor stops a crew.
LEMMA TurnFacts ==
    ASSUME ManagerInv, NEW w \in Workers, NEW x \in WorkerState,
           worker' = [worker EXCEPT ![w] = x],
           worker[w].pc # "off", x.pc # "off", UNCHANGED <<processing, stop>>
    PROVE  /\ worker' \in [Workers -> WorkerState]
           /\ worker'[w] = x
           /\ \A v \in Workers \ {w} : worker'[v] = worker[v]
           /\ Active' = Active
           /\ Stops'
           /\ CrewAccounting'
<1>1. /\ worker' \in [Workers -> WorkerState]
      /\ worker'[w] = x
      /\ \A v \in Workers \ {w} : worker'[v] = worker[v]
  BY DEF ManagerInv, TypeOK
<1>2. Active' = Active
  BY <1>1 DEF Active
<1>3. Stops' /\ CrewAccounting'
  BY <1>2 DEF ManagerInv, Stops, CrewAccounting, Awaited
<1> QED
  BY <1>1, <1>2, <1>3

LEMMA WithoutStates ==
    /\ \A pc \in PCs : Without(pc) \in WorkerState
    /\ \A pc : Without(pc).pc = pc /\ Without(pc).item = 0
BY ConfigAssumption, BoundAssumption DEF Without, WorkerState

\* The fields of a worker, and of one that has moved on with its message.
LEMMA WorkerFields ==
    ASSUME ManagerInv, NEW w \in Workers
    PROVE  /\ worker[w] \in WorkerState
           /\ worker[w].pc \in PCs
           /\ worker[w].item \in 0..MaxMessages
           /\ worker[w].attempt \in 0..(MaxAttempts - 1)
           /\ worker[w].item # 0 => worker[w].item \in Messages
           /\ TurnOK(worker[w])
<1>1. worker[w] \in WorkerState /\ TurnOK(worker[w])
  BY DEF ManagerInv, TypeOK, Turns
<1>2. /\ worker[w].pc \in PCs
      /\ worker[w].item \in 0..MaxMessages
      /\ worker[w].attempt \in 0..(MaxAttempts - 1)
  BY <1>1 DEF WorkerState
<1> QED
  BY <1>1, <1>2, BoundAssumption DEF Messages

LEMMA RetireKeeps ==
    ASSUME ManagerInv, NEW w \in Workers, Retire(w)
    PROVE  ManagerInv'
<1>1. /\ worker[w].pc = "loop" /\ ~processing
      /\ worker' = [worker EXCEPT ![w] = Without("off")]
      /\ stop' = [s \in StopCalls |-> [stop[s] EXCEPT !.workers = @ \ {w}]]
      /\ UNCHANGED <<queue, idCounter, processing, outcome, sends>>
  BY DEF Retire
<1>2. /\ worker' \in [Workers -> WorkerState]
      /\ worker'[w] = Without("off")
      /\ \A v \in Workers \ {w} : worker'[v] = worker[v]
  BY <1>1, WithoutStates DEF ManagerInv, TypeOK, PCs
<1>3. /\ stop' \in [StopCalls -> [waiting : BOOLEAN, workers : SUBSET Workers]]
      /\ \A s \in StopCalls :
            /\ stop'[s].workers = stop[s].workers \ {w}
            /\ stop'[s].waiting = stop[s].waiting
  BY <1>1 DEF ManagerInv, TypeOK
<1>4. Active' = Active \ {w}
  BY <1>1, <1>2, WithoutStates DEF Active
<1>5. TypeOK'
  BY <1>1, <1>2, <1>3 DEF ManagerInv, TypeOK
<1>6. Turns'
  <2>1. TurnOK(worker[w])'
    BY <1>2 DEF TurnOK, Without
  <2>2. ASSUME NEW v \in Workers \ {w} PROVE TurnOK(worker[v])'
    BY <1>1, <1>2 DEF ManagerInv, Turns, TurnOK
  <2> QED
    BY <2>1, <2>2 DEF Turns
<1>7. Accounted(queue', idCounter', worker', outcome')
  <2>1. worker[w].item = 0
    BY <1>1, WorkerFields DEF TurnOK
  <2>2. \A v \in Workers : worker'[v].item = worker[v].item
    BY <1>2, <2>1, WithoutStates
  <2> QED
    BY <1>1, <2>2, SameItems DEF ManagerInv
<1>8. Stops'
  BY <1>3, <1>4 DEF ManagerInv, Stops
<1>9. CrewAccounting'
  <2>1. Active \ Awaited = {}
    BY <1>1, NoneUnawaited DEF ManagerInv
  <2>2. Awaited' = Awaited \ {w}
    BY <1>3 DEF Awaited
  <2>3. (Active \ Awaited)' = {}
    BY <1>4, <2>1, <2>2
  <2> QED
    BY <1>1, <2>3, FS_EmptySet DEF CrewAccounting
<1> QED
  BY <1>1, <1>5, <1>6, <1>7, <1>8, <1>9 DEF ManagerInv

\* A worker without a message goes on without one.
LEMMA IdleTurnKeeps ==
    ASSUME ManagerInv, NEW w \in Workers, NEW pc \in {"loop", "poll"},
           worker[w].pc \in {"loop", "poll"},
           worker' = [worker EXCEPT ![w] = Without(pc)],
           UNCHANGED <<queue, idCounter, processing, stop, outcome, sends>>
    PROVE  ManagerInv'
<1>1. Without(pc) \in WorkerState /\ Without(pc).pc = pc /\ Without(pc).item = 0
  BY WithoutStates DEF PCs
<1>2. /\ worker' \in [Workers -> WorkerState]
      /\ worker'[w] = Without(pc)
      /\ \A v \in Workers \ {w} : worker'[v] = worker[v]
      /\ Stops'
      /\ CrewAccounting'
  BY <1>1, TurnFacts
<1>3. TypeOK'
  BY <1>2 DEF ManagerInv, TypeOK
<1>4. Turns'
  BY <1>1, <1>2 DEF ManagerInv, Turns, TurnOK
<1>5. Accounted(queue', idCounter', worker', outcome')
  <2>1. worker[w].item = 0
    BY WorkerFields DEF TurnOK
  <2>2. \A v \in Workers : worker'[v].item = worker[v].item
    BY <1>1, <1>2, <2>1
  <2> QED
    BY <2>2, SameItems DEF ManagerInv
<1> QED
  BY <1>2, <1>3, <1>4, <1>5 DEF ManagerInv

LEMMA TakeKeeps ==
    ASSUME ManagerInv, NEW w \in Workers, Take(w)
    PROVE  ManagerInv'
<1> DEFINE n == Len(queue)
           m0 == queue[1].id
<1>1. /\ worker[w].pc = "loop" /\ queue # <<>>
      /\ worker' = [worker EXCEPT ![w] = Holding(Head(queue).id)]
      /\ queue' = Shifted(queue, 1)
      /\ UNCHANGED <<idCounter, processing, stop, outcome, sends>>
  BY DEF Take
<1>2. /\ queue \in Seq(Item) /\ n \in Nat \ {0} /\ Head(queue) = queue[1]
      /\ 1 \in 1..n
  BY <1>1, LenProperties, EmptySeq DEF ManagerInv, TypeOK
<1>3. m0 \in Messages /\ m0 # 0 /\ m0 \in IdsOf(queue)
  BY <1>2, QueueNumbers DEF IdsOf
<1>4. /\ WellKept(queue', idCounter)
      /\ Len(queue') <= n /\ Len(queue') \in Nat
      /\ IdsOf(queue') = {queue[i].id : i \in 2..n}
  <2>1. (1 + 1)..n = 2..n
    OBVIOUS
  <2>2. /\ WellKept(queue', idCounter)
        /\ Len(queue') <= n
        /\ IdsOf(queue') = {queue[i].id : i \in (1 + 1)..n}
    BY <1>1, ShiftedKept DEF ManagerInv
  <2>3. Len(queue') \in Nat
    BY <2>2, LenProperties DEF WellKept
  <2> HIDE DEF n
  <2> QED
    BY <2>1, <2>2, <2>3
<1>5. /\ m0 \notin IdsOf(queue')
      /\ \A m : m \in IdsOf(queue) <=> m = m0 \/ m \in IdsOf(queue')
  <2>1. \A i \in 1..n : i = 1 \/ i \in 2..n
    BY <1>2
  <2>2. \A i \in 2..n : i \in 1..n /\ i # 1
    BY <1>2
  <2>3. \A i \in 2..n : queue[i].id # m0
    BY <1>2, <2>2 DEF ManagerInv, WellKept
  <2> QED
    BY <1>2, <1>4, <2>1, <2>2, <2>3 DEF IdsOf
<1> DEFINE x == Holding(m0)
<1>6. x \in WorkerState /\ x.pc = "limit" /\ x.item = m0 /\ x.attempt = 0
  BY <1>3, ConfigAssumption, BoundAssumption
     DEF Holding, WorkerState, PCs, Messages
<1>7. worker' = [worker EXCEPT ![w] = x]
  BY <1>1, <1>2
<1> HIDE DEF x, m0, n
<1>8. /\ worker' \in [Workers -> WorkerState]
      /\ worker'[w] = x
      /\ \A v \in Workers \ {w} : worker'[v] = worker[v]
      /\ Stops'
      /\ CrewAccounting'
  BY <1>1, <1>6, <1>7, TurnFacts
<1>9. TypeOK'
  BY <1>1, <1>2, <1>4, <1>8, ConfigAssumption
     DEF ManagerInv, TypeOK, WellKept, n
<1>10. Turns'
  <2>1. sends[m0] = 0
    BY <1>3 DEF ManagerInv, Untried
  <2>2. TurnOK(worker[w])'
    BY <1>1, <1>3, <1>6, <1>8, <2>1 DEF TurnOK
  <2>3. ASSUME NEW v \in Workers \ {w} PROVE TurnOK(worker[v])'
    BY <1>1, <1>8 DEF ManagerInv, Turns, TurnOK
  <2> QED
    BY <2>2, <2>3 DEF Turns
<1>11. Untried(queue', idCounter, sends)
  BY <1>5 DEF ManagerInv, Untried
<1>12. Accounted(queue', idCounter, worker', outcome)
  <2>1. worker[w].item = 0
    BY <1>1, WorkerFields DEF TurnOK
  <2>2. \A m \in Messages : (HeldIn(worker', m) <=> HeldIn(worker, m) \/ m = m0)
    BY <1>6, <1>8, <2>1, QueueNumbers DEF HeldIn
  <2>3. ~HeldIn(worker, m0)
    BY <1>3 DEF ManagerInv, Accounted
  <2>4. \A v \in Workers \ {w} : worker'[v].item # m0
    BY <1>8, <2>3 DEF HeldIn
  <2>5. \A v, u \in Workers :
          worker'[v].item = worker'[u].item /\ worker'[v].item # 0 => v = u
    BY <1>6, <1>8, <2>4 DEF ManagerInv, Accounted
  <2>6. \A m \in Messages :
          /\ m <= idCounter <=> \/ m \in IdsOf(queue')
                                \/ HeldIn(worker', m)
                                \/ outcome[m] # "none"
          /\ ~(m \in IdsOf(queue') /\ HeldIn(worker', m))
          /\ outcome[m] # "none" =>
                m \notin IdsOf(queue') /\ ~HeldIn(worker', m)
    BY <1>3, <1>5, <2>2, <2>3 DEF ManagerInv, Accounted
  <2> QED
    BY <2>5, <2>6 DEF Accounted
<1> QED
  BY <1>1, <1>4, <1>8, <1>9, <1>10, <1>11, <1>12 DEF ManagerInv

\* Send and Resend: the worker hands its message to the provider once more.
LEMMA TryKeeps ==
    ASSUME ManagerInv, NEW w \in Workers, NEW a \in 0..(MaxAttempts - 1),
           \/ worker[w].pc = "limit" /\ a = 0
           \/ worker[w].pc = "backoff" /\ a = worker[w].attempt + 1,
           worker' = [worker EXCEPT
                        ![w] = [pc |-> "send", item |-> worker[w].item,
                                attempt |-> a]],
           sends' = [sends EXCEPT ![worker[w].item] = @ + 1],
           UNCHANGED <<queue, idCounter, processing, stop, outcome>>
    PROVE  ManagerInv' /\ sends'[worker[w].item] <= MaxAttempts
<1> DEFINE m0 == worker[w].item
           x == [pc |-> "send", item |-> m0, attempt |-> a]
<1>1. /\ m0 \in Messages /\ m0 \in 0..MaxMessages /\ m0 # 0
      /\ sends[m0] = a
  BY WorkerFields, QueueNumbers, ConfigAssumption DEF TurnOK, PCs
<1>2. x \in WorkerState /\ x.pc = "send" /\ x.item = m0 /\ x.attempt = a
  BY <1>1, ConfigAssumption DEF WorkerState, PCs
<1> HIDE DEF x
<1>3. /\ worker' \in [Workers -> WorkerState]
      /\ worker'[w] = x
      /\ \A v \in Workers \ {w} : worker'[v] = worker[v]
      /\ Stops'
      /\ CrewAccounting'
  BY <1>2, TurnFacts DEF x
<1>4. sends' = [sends EXCEPT ![m0] = @ + 1]
  OBVIOUS
<1> HIDE DEF m0
<1>5. /\ sends' \in [Messages -> 0..MaxAttempts]
      /\ sends'[m0] = a + 1
      /\ a + 1 <= MaxAttempts
      /\ \A m \in Messages \ {m0} : sends'[m] = sends[m]
  BY <1>1, <1>4, ConfigAssumption DEF ManagerInv, TypeOK
<1>6. TypeOK'
  BY <1>3, <1>5 DEF ManagerInv, TypeOK
<1>7. HeldIn(worker, m0)
  BY DEF HeldIn, m0
<1>8. Turns'
  <2>1. TurnOK(worker[w])'
    BY <1>1, <1>2, <1>3, <1>5 DEF TurnOK
  <2>2. ASSUME NEW v \in Workers \ {w} PROVE TurnOK(worker[v])'
    <3>1. worker[v].item # m0
      BY <1>1 DEF ManagerInv, Accounted, m0
    <3>2. worker'[v] = worker[v] /\ TurnOK(worker[v])
      BY <1>3, WorkerFields
    <3>3. worker[v].item # 0 => sends'[worker[v].item] = sends[worker[v].item]
      BY <1>5, <3>1, WorkerFields
    <3> QED
      BY <3>2, <3>3 DEF TurnOK
  <2> QED
    BY <2>1, <2>2 DEF Turns
<1>9. Untried(queue, idCounter, sends')
  <2>1. m0 \notin IdsOf(queue) /\ m0 <= idCounter
    BY <1>1, <1>7 DEF ManagerInv, Accounted
  <2>2. ~(m0 > idCounter)
    BY <1>1, <2>1, QueueNumbers
  <2> QED
    BY <1>5, <2>1, <2>2 DEF ManagerInv, Untried
<1>10. Accounted(queue, idCounter, worker', outcome)
  <2>1. \A v \in Workers : worker'[v].item = worker[v].item
    BY <1>2, <1>3 DEF m0
  <2> QED
    BY <2>1, SameItems DEF ManagerInv
<1> QED
  BY <1>3, <1>5, <1>6, <1>8, <1>9, <1>10 DEF ManagerInv, m0

\* The record a worker is left with when it asks the provider.
LEMMA Trying ==
    ASSUME NEW x \in WorkerState
    PROVE  /\ [x EXCEPT !.pc = "send"] =
                 [pc |-> "send", item |-> x.item, attempt |-> x.attempt]
           /\ [x EXCEPT !.pc = "send", !.attempt = @ + 1] =
                 [pc |-> "send", item |-> x.item, attempt |-> x.attempt + 1]
<1> DEFINE y == [pc |-> "send", item |-> x.item, attempt |-> x.attempt]
<1>1. [x EXCEPT !.pc = "send"] = y
  BY DEF WorkerState
<1>2. [x EXCEPT !.pc = "send", !.attempt = @ + 1] =
          [[x EXCEPT !.pc = "send"] EXCEPT !.attempt = x.attempt + 1]
  OBVIOUS
<1>3. [y EXCEPT !.attempt = x.attempt + 1] =
          [pc |-> "send", item |-> x.item, attempt |-> x.attempt + 1]
  OBVIOUS
<1> HIDE DEF y
<1>4. [[x EXCEPT !.pc = "send"] EXCEPT !.attempt = x.attempt + 1] =
          [y EXCEPT !.attempt = x.attempt + 1]
  BY <1>1, Zenon
<1> QED
  BY <1>1, <1>2, <1>3, <1>4, Zenon DEF y

\* The steps Send and Resend in the form of TryKeeps.
LEMMA SendTries ==
    ASSUME ManagerInv, NEW w \in Workers, Send(w) \/ Resend(w)
    PROVE  /\ ManagerInv'
           /\ sends' = [sends EXCEPT ![worker[w].item] = @ + 1]
           /\ sends'[worker[w].item] <= MaxAttempts
<1>1. CASE Send(w)
  <2>1. worker[w].attempt = 0
    BY <1>1, WorkerFields DEF Send, TurnOK
  <2>2. worker' = [worker EXCEPT
                      ![w] = [pc |-> "send", item |-> worker[w].item,
                              attempt |-> 0]]
    <3>1. worker' = [worker EXCEPT ![w] = [worker[w] EXCEPT !.pc = "send"]]
      BY <1>1 DEF Send
    <3> QED
      BY <2>1, <3>1, WorkerFields, Trying
  <2>3. 0 \in 0..(MaxAttempts - 1)
    BY ConfigAssumption
  <2> QED
    BY <1>1, <2>2, <2>3, TryKeeps DEF Send
<1>2. CASE Resend(w)
  <2> DEFINE a == worker[w].attempt + 1
  <2>1. a \in 0..(MaxAttempts - 1)
    BY <1>2, WorkerFields, ConfigAssumption DEF Resend, TurnOK
  <2>2. worker' = [worker EXCEPT
                      ![w] = [pc |-> "send", item |-> worker[w].item,
                              attempt |-> a]]
    <3>1. worker' = [worker EXCEPT ![w] =
                        [worker[w] EXCEPT !.pc = "send", !.attempt = @ + 1]]
      BY <1>2 DEF Resend
    <3> QED
      BY <3>1, WorkerFields, Trying
  <2> QED
    BY <1>2, <2>1, <2>2, TryKeeps DEF Resend
<1> QED
  BY <1>1, <1>2

LEMMA BackoffKeeps ==
    ASSUME ManagerInv, NEW w \in Workers, Backoff(w)
    PROVE  ManagerInv'
<1> DEFINE x == [worker[w] EXCEPT !.pc = "backoff"]
<1>1. /\ x \in WorkerState /\ x.pc = "backoff"
      /\ x.item = worker[w].item /\ x.attempt = worker[w].attempt
  BY WorkerFields DEF WorkerState, PCs
<1>2. worker' = [worker EXCEPT ![w] = x]
  BY DEF Backoff
<1> HIDE DEF x
<1>3. /\ worker[w].pc = "send" /\ worker[w].attempt < MaxAttempts - 1
      /\ UNCHANGED <<queue, idCounter, processing, stop, outcome, sends>>
  BY DEF Backoff
<1>4. /\ worker' \in [Workers -> WorkerState]
      /\ worker'[w] = x
      /\ \A v \in Workers \ {w} : worker'[v] = worker[v]
      /\ Stops'
      /\ CrewAccounting'
  BY <1>1, <1>2, <1>3, TurnFacts
<1>5. TypeOK'
  BY <1>3, <1>4 DEF ManagerInv, TypeOK
<1>6. Turns'
  <2>1. TurnOK(worker[w])'
    BY <1>1, <1>3, <1>4, WorkerFields DEF TurnOK
  <2>2. ASSUME NEW v \in Workers \ {w} PROVE TurnOK(worker[v])'
    BY <1>3, <1>4, WorkerFields DEF TurnOK
  <2> QED
    BY <2>1, <2>2 DEF Turns
<1>7. Accounted(queue', idCounter', worker', outcome')
  <2>1. \A v \in Workers : worker'[v].item = worker[v].item
    BY <1>1, <1>4
  <2> QED
    BY <1>3, <2>1, SameItems DEF ManagerInv
<1> QED
  BY <1>3, <1>4, <1>5, <1>6, <1>7 DEF ManagerInv

LEMMA FinishKeeps ==
    ASSUME ManagerInv, NEW w \in Workers, NEW how \in {"delivered", "dropped"},
           Finish(w, how)
    PROVE  ManagerInv'
<1> DEFINE m0 == worker[w].item
<1>1. /\ worker[w].pc = "send"
      /\ worker' = [worker EXCEPT ![w] = Without("loop")]
      /\ outcome' = [outcome EXCEPT ![m0] = how]
      /\ UNCHANGED <<queue, idCounter, processing, stop, sends>>
  BY DEF Finish
<1>2. m0 \in Messages /\ m0 # 0 /\ HeldIn(worker, m0)
  BY <1>1, WorkerFields DEF TurnOK, HeldIn
<1>3. /\ Without("loop") \in WorkerState
      /\ Without("loop").pc = "loop" /\ Without("loop").item = 0
  BY WithoutStates DEF PCs
<1>4. /\ worker' \in [Workers -> WorkerState]
      /\ worker'[w] = Without("loop")
      /\ \A v \in Workers \ {w} : worker'[v] = worker[v]
      /\ Stops'
      /\ CrewAccounting'
  BY <1>1, <1>3, TurnFacts
<1> HIDE DEF m0
<1>5. /\ outcome' \in [Messages -> {"none", "delivered", "dropped", "cleared"}]
      /\ outcome'[m0] = how
      /\ \A m \in Messages \ {m0} : outcome'[m] = outcome[m]
  BY <1>1, <1>2 DEF ManagerInv, TypeOK
<1>6. TypeOK'
  BY <1>1, <1>4, <1>5 DEF ManagerInv, TypeOK
<1>7. Turns'
  <2>1. TurnOK(worker[w])'
    BY <1>1, <1>3, <1>4 DEF TurnOK
  <2>2. ASSUME NEW v \in Workers \ {w} PROVE TurnOK(worker[v])'
    BY <1>1, <1>4, WorkerFields DEF TurnOK
  <2> QED
    BY <2>1, <2>2 DEF Turns
<1>8. Accounted(queue, idCounter, worker', outcome')
  <2>1. \A v \in Workers \ {w} : worker[v].item # m0
    BY <1>2 DEF ManagerInv, Accounted, m0
  <2>2. \A m \in Messages :
          (HeldIn(worker', m) <=> HeldIn(worker, m) /\ m # m0)
    BY <1>3, <1>4, <2>1, QueueNumbers DEF HeldIn, m0
  <2>3. \A v, u \in Workers :
          worker'[v].item = worker'[u].item /\ worker'[v].item # 0 => v = u
    BY <1>3, <1>4 DEF ManagerInv, Accounted
  <2>4. \A m \in Messages :
          /\ m <= idCounter <=> \/ m \in IdsOf(queue)
                                \/ HeldIn(worker', m)
                                \/ outcome'[m] # "none"
          /\ ~(m \in IdsOf(queue) /\ HeldIn(worker', m))
          /\ outcome'[m] # "none" =>
                m \notin IdsOf(queue) /\ ~HeldIn(worker', m)
    BY <1>2, <1>5, <2>2 DEF ManagerInv, Accounted
  <2> QED
    BY <2>3, <2>4 DEF Accounted
<1> QED
  BY <1>1, <1>4, <1>6, <1>7, <1>8 DEF ManagerInv

LEMMA ManagerInvStep == ManagerInv /\ [Next]_vars => ManagerInv'
<1> SUFFICES ASSUME ManagerInv, [Next]_vars PROVE ManagerInv'
  OBVIOUS
<1>1. CASE \E p \in Priorities : Enqueue(p)
  BY <1>1, EnqueueKeeps
<1>2. CASE Start
  BY <1>2, StartKeeps
<1>3. CASE \E s \in StopCalls : Stop(s) \/ StopReturns(s)
  BY <1>3, StopKeeps, StopReturnsKeeps
<1>4. CASE Clear
  BY <1>4, ClearKeeps
<1>5. ASSUME NEW w \in Workers, Turn(w) PROVE ManagerInv'
  <2>1. CASE Retire(w)
    BY <2>1, RetireKeeps
  <2>2. CASE Poll(w) \/ Wake(w)
    BY <2>2, IdleTurnKeeps DEF Poll, Wake
  <2>3. CASE Take(w)
    BY <2>3, TakeKeeps
  <2>4. CASE Send(w) \/ Resend(w)
    BY <2>4, SendTries
  <2>5. CASE Backoff(w)
    BY <2>5, BackoffKeeps
  <2>6. CASE Finish(w, "delivered") \/ Finish(w, "dropped")
    BY <2>6, FinishKeeps
  <2> QED
    BY <1>5, <2>1, <2>2, <2>3, <2>4, <2>5, <2>6 DEF Turn
<1>6. CASE UNCHANGED vars
  BY <1>6 DEF vars, ManagerInv, TypeOK, Turns, TurnOK, Stops, Active,
              CrewAccounting, Awaited
<1> QED
  BY <1>1, <1>2, <1>3, <1>4, <1>5, <1>6 DEF Next

-----------------------------------------------------------------------------
(* The theorems.                                                           *)

LEMMA ManagerInvAlways == Spec => []ManagerInv
BY InitManager, ManagerInvStep, PTL DEF Spec

\* The manager's state keeps its types, the queue keeps config.maxSize, and no
\* message is handed to the provider more than MaxAttempts times.
THEOREM ManagerTypeCorrect == Spec => []TypeOK
<1>1. ManagerInv => TypeOK
  BY DEF ManagerInv
<1> QED
  BY <1>1, ManagerInvAlways, PTL

\* No message is lost or doubled between enqueue, the queue, the workers and
\* its end, in any interleaving of enqueue, start, stop, clear and workers.
THEOREM MessagesConserved == Spec => []Conservation
BY ManagerInvMeans, ManagerInvAlways, PTL

\* Besides the workers a pending stop() waits for, there are exactly
\* config.concurrency workers while the manager processes and none otherwise.
THEOREM CrewsAccounted == Spec => []CrewAccounting
<1>1. ManagerInv => CrewAccounting
  BY DEF ManagerInv
<1> QED
  BY <1>1, ManagerInvAlways, PTL

\* With processing off and no stop() pending, no worker is alive and none
\* holds a message: the provider may be shut down.
THEOREM QuietWhenStopped == Spec => []QuietAfterStop
<1>1. ManagerInv => QuietAfterStop
  BY QuietFromCrew
<1> QED
  BY <1>1, ManagerInvAlways, PTL

-----------------------------------------------------------------------------
(***************************************************************************)
(* QueueManager implements Delivery.                                       *)
(***************************************************************************)

Progress == [m \in Messages |-> Status(m)]

LEMMA EnqueueAccepts ==
    ASSUME ManagerInv, NEW p \in Priorities, Enqueue(p)
    PROVE  \E m \in Messages : D!Accept(m)
<1> DEFINE c == idCounter + 1
<1>1. /\ c \in Messages /\ idCounter' = c /\ UNCHANGED <<outcome, sends>>
      /\ ~(c <= idCounter)
  BY QueueNumbers, BoundAssumption DEF Enqueue, Messages
<1>2. \A m \in Messages : m # c => (m <= c <=> m <= idCounter)
  BY QueueNumbers, BoundAssumption DEF Messages
<1>3. c <= c
  BY QueueNumbers
<1> HIDE DEF c
<1>4. outcome[c] = "none"
  BY <1>1 DEF ManagerInv, Accounted
<1>5. Progress[c] = "new" /\ Progress'[c] = "accepted"
  BY <1>1, <1>3, <1>4 DEF Progress, Status
<1>6. \A m \in Messages : m # c => Progress'[m] = Progress[m]
  BY <1>1, <1>2 DEF Progress, Status
<1>7. Progress' = [Progress EXCEPT ![c] = "accepted"]
  BY <1>5, <1>6 DEF Progress
<1> QED
  BY <1>1, <1>5, <1>7 DEF D!Accept, Progress

LEMMA ClearForgets ==
    ASSUME ManagerInv, Clear
    PROVE  \E S \in SUBSET Messages : D!Forget(S)
<1> DEFINE S == IdsOf(queue)
<1>1. S \subseteq Messages
  BY QueueNumbers DEF IdsOf
<1>2. /\ outcome' = [m \in Messages |->
                        IF m \in S THEN "cleared" ELSE outcome[m]]
      /\ UNCHANGED <<idCounter, sends>>
  BY DEF Clear
<1> HIDE DEF S
<1>3. \A m \in S : outcome[m] = "none" /\ m <= idCounter /\ sends[m] = 0
  BY <1>1 DEF ManagerInv, Accounted, Untried, S
<1>4. \A m \in S : Progress[m] = "accepted" /\ sends[m] = 0
  BY <1>1, <1>3 DEF Progress, Status
<1>5. Progress' = [m \in Messages |-> IF m \in S THEN "cleared" ELSE Progress[m]]
  BY <1>2 DEF Progress, Status
<1> QED
  BY <1>1, <1>2, <1>4, <1>5 DEF D!Forget, Progress

LEMMA HeldAccepted ==
    ASSUME ManagerInv, NEW w \in Workers, worker[w].item # 0
    PROVE  worker[w].item \in Messages /\ Progress[worker[w].item] = "accepted"
<1>1. worker[w].item \in Messages /\ HeldIn(worker, worker[w].item)
  BY WorkerFields DEF HeldIn
<1>2. outcome[worker[w].item] = "none" /\ worker[w].item <= idCounter
  BY <1>1 DEF ManagerInv, Accounted
<1> QED
  BY <1>1, <1>2 DEF Progress, Status

LEMMA SendImplementsTry ==
    ASSUME ManagerInv, NEW w \in Workers, Send(w) \/ Resend(w)
    PROVE  \E m \in Messages : D!Try(m)
<1> DEFINE m0 == worker[w].item
<1>1. m0 # 0
  BY WorkerFields DEF Send, Resend, TurnOK, PCs
<1>2. m0 \in Messages /\ Progress[m0] = "accepted"
  BY <1>1, HeldAccepted
<1>3. sends' = [sends EXCEPT ![m0] = @ + 1] /\ sends'[m0] <= MaxAttempts
  BY SendTries
<1>4. sends[m0] \in Nat
  BY <1>2, ConfigAssumption DEF ManagerInv, TypeOK
<1>5. sends[m0] < MaxAttempts
  BY <1>2, <1>3, <1>4, ConfigAssumption DEF ManagerInv, TypeOK
<1>6. UNCHANGED <<outcome, idCounter>>
  BY DEF Send, Resend
<1>7. Progress' = Progress
  BY <1>6 DEF Progress, Status
<1> HIDE DEF m0
<1> QED
  BY <1>2, <1>3, <1>5, <1>7 DEF D!Try, Progress

LEMMA FinishImplementsEnd ==
    ASSUME ManagerInv, NEW w \in Workers, NEW how \in {"delivered", "dropped"},
           Finish(w, how)
    PROVE  \E m \in Messages : D!End(m, how)
<1> DEFINE m0 == worker[w].item
<1>1. worker[w].pc = "send" /\ m0 # 0 /\ sends[m0] = worker[w].attempt + 1
  BY WorkerFields DEF Finish, TurnOK
<1>2. m0 \in Messages /\ Progress[m0] = "accepted"
  BY <1>1, HeldAccepted
<1>3. sends[m0] > 0
  BY <1>1, WorkerFields, ConfigAssumption
<1>4. outcome' = [outcome EXCEPT ![m0] = how] /\ UNCHANGED <<idCounter, sends>>
  BY DEF Finish
<1> HIDE DEF m0
<1>5. /\ outcome'[m0] = how
      /\ \A m \in Messages \ {m0} : outcome'[m] = outcome[m]
  BY <1>2, <1>4 DEF ManagerInv, TypeOK
<1>6. Progress' = [Progress EXCEPT ![m0] = how]
  BY <1>2, <1>4, <1>5 DEF Progress, Status
<1> QED
  BY <1>2, <1>3, <1>4, <1>6 DEF D!End, Progress

LEMMA StepDelivers ==
    ASSUME ManagerInv, [Next]_vars
    PROVE  [D!DeliveryNext]_D!deliveryVars
<1>1. ASSUME UNCHANGED <<idCounter, outcome, sends>>
      PROVE  UNCHANGED D!deliveryVars
  BY <1>1 DEF D!deliveryVars, Status
<1>2. CASE \E p \in Priorities : Enqueue(p)
  BY <1>2, EnqueueAccepts DEF D!DeliveryNext
<1>3. CASE Start
  BY <1>1, <1>3 DEF Start
<1>4. CASE \E s \in StopCalls : Stop(s) \/ StopReturns(s)
  BY <1>1, <1>4 DEF Stop, StopReturns
<1>5. CASE Clear
  BY <1>5, ClearForgets DEF D!DeliveryNext
<1>6. ASSUME NEW w \in Workers, Turn(w)
      PROVE  [D!DeliveryNext]_D!deliveryVars
  <2>1. CASE Retire(w) \/ Poll(w) \/ Wake(w) \/ Take(w) \/ Backoff(w)
    BY <1>1, <2>1 DEF Retire, Poll, Wake, Take, Backoff
  <2>2. CASE Send(w) \/ Resend(w)
    BY <2>2, SendImplementsTry DEF D!DeliveryNext
  <2>3. CASE Finish(w, "delivered")
    BY <2>3, FinishImplementsEnd DEF D!DeliveryNext
  <2>4. CASE Finish(w, "dropped")
    BY <2>4, FinishImplementsEnd DEF D!DeliveryNext
  <2> QED
    BY <1>6, <2>1, <2>2, <2>3, <2>4 DEF Turn
<1>7. CASE UNCHANGED vars
  BY <1>1, <1>7 DEF vars
<1> QED
  BY <1>2, <1>3, <1>4, <1>5, <1>6, <1>7 DEF Next

\* Whatever the interleaving, an accepted message is tried at most MaxAttempts
\* times, ends once, delivered or dropped only after a try, and is cleared
\* only before one.
THEOREM ManagerDelivers == Spec => ImplementsDelivery
<1>1. Init => D!DeliveryInit
  <2> SUFFICES ASSUME Init PROVE D!DeliveryInit
    OBVIOUS
  <2>1. \A m \in Messages : ~(m <= 0)
    BY BoundAssumption DEF Messages
  <2>2. \A m \in Messages : Status(m) = "new"
    BY <2>1 DEF Init, Q!Init, Status
  <2> QED
    BY <2>2 DEF Init, D!DeliveryInit
<1>2. ManagerInv /\ [Next]_vars => [D!DeliveryNext]_D!deliveryVars
  BY StepDelivers
<1> QED
  BY <1>1, <1>2, ManagerInvAlways, PTL
     DEF Spec, ImplementsDelivery, D!DeliverySpec
=============================================================================
