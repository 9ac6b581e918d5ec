-------------------------- MODULE PushClient_proofs --------------------------
(***************************************************************************)
(* Theorems about PushClient, for any number of overlapping calls and any  *)
(* sizes of messages, batches and permits.                                 *)
(***************************************************************************)
EXTENDS PushClient, Data_proofs

-----------------------------------------------------------------------------
(* The queue of tasks, by the code that they run next.                     *)

Words(t, f) == [i \in 1..Len(t) |-> f[t[i]]]

\* The code that sets the client's flag.
Writers == {"up", "down"}

\* The client's flag f is to become r: the last task that sets it sets it to r,
\* or it is r and no task sets it.
Agreed(w, f, r) ==
    /\ (\A i \in 1..Len(w) : w[i] \notin Writers) => f = r
    /\ \A i \in 1..Len(w) :
          /\ w[i] \in Writers
          /\ \A j \in 1..Len(w) : j > i => w[j] \notin Writers
          => r = (w[i] = "up")

LEMMA AgreedAppend ==
    ASSUME NEW w \in Seq(LifePCs), NEW f \in BOOLEAN, NEW r \in BOOLEAN,
           Agreed(w, f, r),
           NEW pc \in LifePCs, NEW s \in BOOLEAN,
           IF pc \in Writers THEN s = (pc = "up") ELSE s = r
    PROVE  Agreed(Append(w, pc), f, s)
<1> DEFINE v == Append(w, pc)
<1>1. /\ Len(w) \in Nat /\ Len(v) = Len(w) + 1
      /\ v[Len(w) + 1] = pc
      /\ \A i \in 1..Len(w) : v[i] = w[i]
  BY LenProperties, AppendProperties
<1> HIDE DEF v
<1>2. CASE pc \in Writers
  <2>1. ~ \A i \in 1..Len(v) : v[i] \notin Writers
    BY <1>1, <1>2
  <2>2. ASSUME NEW i \in 1..Len(v), v[i] \in Writers,
               \A j \in 1..Len(v) : j > i => v[j] \notin Writers
        PROVE  s = (v[i] = "up")
    <3>1. i = Len(w) + 1
      BY <1>1, <1>2, <2>2
    <3> QED
      BY <1>1, <1>2, <3>1
  <2> QED
    BY <2>1, <2>2 DEF Agreed, v
<1>3. CASE pc \notin Writers
  <2>1. ASSUME \A i \in 1..Len(v) : v[i] \notin Writers
        PROVE  f = s
    <3>1. \A i \in 1..Len(w) : w[i] \notin Writers
      BY <1>1, <2>1
    <3> QED
      BY <1>3, <3>1 DEF Agreed
  <2>2. ASSUME NEW i \in 1..Len(v), v[i] \in Writers,
               \A j \in 1..Len(v) : j > i => v[j] \notin Writers
        PROVE  s = (v[i] = "up")
    <3>1. i \in 1..Len(w) /\ w[i] = v[i]
      BY <1>1, <1>3, <2>2
    <3>2. \A j \in 1..Len(w) : j > i => w[j] \notin Writers
      BY <1>1, <2>2
    <3> QED
      BY <1>3, <2>2, <3>1, <3>2 DEF Agreed
  <2> QED
    BY <2>1, <2>2 DEF Agreed, v
<1> QED
  BY <1>2, <1>3

LEMMA AgreedTail ==
    ASSUME NEW w \in Seq(LifePCs), w # <<>>, NEW f \in BOOLEAN, NEW r \in BOOLEAN,
           Agreed(w, f, r),
           NEW g \in BOOLEAN,
           IF Head(w) \in Writers THEN g = (Head(w) = "up") ELSE g = f
    PROVE  Agreed(Tail(w), g, r)
<1> DEFINE v == Tail(w)
<1>1. /\ Len(w) \in Nat \ {0} /\ Len(v) = Len(w) - 1
      /\ Head(w) = w[1]
      /\ \A i \in 1..Len(v) : v[i] = w[i + 1]
  BY LenProperties, HeadTailProperties, EmptySeq
<1>2. \A k \in 1..Len(w) : k > 1 => (k - 1) \in 1..Len(v) /\ v[k - 1] = w[k]
  BY <1>1
<1> HIDE DEF v
<1>3. ASSUME \A i \in 1..Len(v) : v[i] \notin Writers
      PROVE  g = r
  <2>1. \A k \in 1..Len(w) : k > 1 => w[k] \notin Writers
    BY <1>2, <1>3
  <2>2. 1 \in 1..Len(w)
    BY <1>1
  <2>3. CASE w[1] \in Writers
    <3>1. r = (w[1] = "up")
      BY <2>1, <2>2, <2>3 DEF Agreed
    <3> QED
      BY <1>1, <2>3, <3>1
  <2>4. CASE w[1] \notin Writers
    <3>1. \A k \in 1..Len(w) : w[k] \notin Writers
      BY <1>1, <2>1, <2>4
    <3> QED
      BY <1>1, <2>4, <3>1 DEF Agreed
  <2> QED
    BY <2>3, <2>4
<1>4. ASSUME NEW i \in 1..Len(v), v[i] \in Writers,
             \A j \in 1..Len(v) : j > i => v[j] \notin Writers
      PROVE  r = (v[i] = "up")
  <2>1. i + 1 \in 1..Len(w) /\ w[i + 1] = v[i]
    BY <1>1
  <2>2. \A k \in 1..Len(w) : k > i + 1 => w[k] \notin Writers
    BY <1>1, <1>2, <1>4
  <2> QED
    BY <1>4, <2>1, <2>2 DEF Agreed
<1> QED
  BY <1>3, <1>4 DEF Agreed, v

-----------------------------------------------------------------------------
(* What a step does to the queue.                                          *)

\* The tasks t are calls, each there once, with the code f to run; the flags
\* are i (the client's) and r (the provider's).
Well(t, f, i, r) ==
    /\ t \in Seq(LifeCalls)
    /\ f \in [LifeCalls -> LifePCs]
    /\ \A k \in 1..Len(t) : f[t[k]] \in TaskPCs
    /\ \A k, m \in 1..Len(t) : t[k] = t[m] => k = m
    /\ Agreed(Words(t, f), i, r)

LEMMA WordsAre ==
    ASSUME NEW t \in Seq(LifeCalls), NEW f \in [LifeCalls -> LifePCs]
    PROVE  /\ Words(t, f) \in Seq(LifePCs)
           /\ Len(Words(t, f)) = Len(t)
           /\ \A k \in 1..Len(t) : Words(t, f)[k] = f[t[k]]
<1>1. Len(t) \in Nat /\ \A k \in 1..Len(t) : t[k] \in LifeCalls
  BY LenProperties, ElementOfSeq
<1>2. Words(t, f) \in [1..Len(t) -> LifePCs]
  BY <1>1 DEF Words
<1> QED
  BY <1>1, <1>2, IsASeq, LenProperties DEF Words

\* A call that is in no task moves.
LEMMA StayKept ==
    ASSUME NEW t, NEW f, NEW i, NEW r, Well(t, f, i, r),
           NEW l \in LifeCalls, f[l] \notin TaskPCs,
           NEW pc \in LifePCs
    PROVE  Well(t, [f EXCEPT ![l] = pc], i, r)
<1> DEFINE g == [f EXCEPT ![l] = pc]
<1>1. \A k \in 1..Len(t) : t[k] \in LifeCalls /\ t[k] # l
  BY ElementOfSeq DEF Well
<1>2. \A k \in 1..Len(t) : g[t[k]] = f[t[k]]
  BY <1>1 DEF Well
<1>3. Words(t, g) = Words(t, f)
  BY <1>2 DEF Words
<1>4. g \in [LifeCalls -> LifePCs]
  BY DEF Well
<1> HIDE DEF g
<1>5. Well(t, g, i, r)
  BY <1>2, <1>3, <1>4 DEF Well
<1> QED
  BY <1>5 DEF g

\* A call that is in no task becomes the last one.
LEMMA AppendKept ==
    ASSUME NEW t, NEW f, NEW i \in BOOLEAN, NEW r \in BOOLEAN, Well(t, f, i, r),
           NEW l \in LifeCalls, f[l] \notin TaskPCs,
           NEW pc \in TaskPCs, NEW s \in BOOLEAN,
           IF pc \in Writers THEN s = (pc = "up") ELSE s = r
    PROVE  Well(Append(t, l), [f EXCEPT ![l] = pc], i, s)
<1> DEFINE g == [f EXCEPT ![l] = pc]
           u == Append(t, l)
<1>1. Well(t, g, i, r) /\ pc \in LifePCs
  BY StayKept DEF LifePCs
<1>2. /\ u \in Seq(LifeCalls) /\ Len(t) \in Nat /\ Len(u) = Len(t) + 1
      /\ u[Len(t) + 1] = l
      /\ \A k \in 1..Len(t) : u[k] = t[k]
  BY AppendProperties, LenProperties DEF Well
<1>3. g \in [LifeCalls -> LifePCs] /\ g[l] = pc
  BY <1>1 DEF Well
<1>4. \A k \in 1..Len(t) : t[k] # l
  BY DEF Well
<1> HIDE DEF g, u
<1>5. Words(u, g) = Append(Words(t, g), pc)
  <2> DEFINE w == Words(u, g)
             v == Words(t, g)
  <2>1. /\ w \in Seq(LifePCs) /\ Len(w) = Len(t) + 1
        /\ \A k \in 1..Len(u) : w[k] = g[u[k]]
    BY <1>2, <1>3, WordsAre
  <2>2. /\ v \in Seq(LifePCs) /\ Len(v) = Len(t)
        /\ \A k \in 1..Len(t) : v[k] = g[t[k]]
    BY <1>1, <1>3, WordsAre DEF Well
  <2> HIDE DEF w, v
  <2>3. /\ Append(v, pc) \in Seq(LifePCs) /\ Len(Append(v, pc)) = Len(t) + 1
        /\ \A k \in 1..Len(t) : Append(v, pc)[k] = v[k]
        /\ Append(v, pc)[Len(t) + 1] = pc
    BY <1>1, <2>2, AppendProperties
  <2>4. \A k \in 1..(Len(t) + 1) : w[k] = Append(v, pc)[k]
    BY <1>2, <1>3, <2>1, <2>2, <2>3
  <2>5. w = Append(v, pc)
    BY <2>1, <2>3, <2>4, SeqEqual
  <2> QED
    BY <2>5 DEF w, v
<1>6. Agreed(Words(u, g), i, s)
  <2>1. Words(t, g) \in Seq(LifePCs) /\ Agreed(Words(t, g), i, r)
    BY <1>1, <1>3, WordsAre DEF Well
  <2> QED
    BY <1>1, <1>5, <2>1, AgreedAppend
<1>7. \A k \in 1..Len(u) : g[u[k]] \in TaskPCs
  BY <1>1, <1>2, <1>3 DEF Well
<1>8. \A k, m \in 1..Len(u) : u[k] = u[m] => k = m
  <2>1. \A k, m \in 1..Len(t) : t[k] = t[m] => k = m
    BY DEF Well
  <2> QED
    BY <1>2, <1>4, <2>1
<1>9. Well(u, g, i, s)
  BY <1>2, <1>3, <1>6, <1>7, <1>8 DEF Well
<1> QED
  BY <1>9 DEF g, u

\* The first task runs, and sets the client's flag to j if it is one that does.
LEMMA TailKept ==
    ASSUME NEW t, NEW f, NEW i \in BOOLEAN, NEW r \in BOOLEAN, Well(t, f, i, r),
           t # <<>>, NEW pc \in LifePCs, NEW j \in BOOLEAN,
           IF f[Head(t)] \in Writers THEN j = (f[Head(t)] = "up") ELSE j = i
    PROVE  /\ Well(Tail(t), [f EXCEPT ![Head(t)] = pc], j, r)
           /\ Head(t) \in LifeCalls
<1> DEFINE l == Head(t)
           g == [f EXCEPT ![l] = pc]
           u == Tail(t)
<1>1. /\ u \in Seq(LifeCalls) /\ Len(t) \in Nat \ {0} /\ Len(u) = Len(t) - 1
      /\ l = t[1] /\ l \in LifeCalls
      /\ \A k \in 1..Len(u) : u[k] = t[k + 1]
  BY HeadTailProperties, LenProperties, EmptySeq DEF Well
<1>2. g \in [LifeCalls -> LifePCs]
      /\ \A c \in LifeCalls : c # l => g[c] = f[c]
  BY DEF Well
<1> HIDE DEF g, u, l
<1>3. \A k \in 1..Len(u) : k + 1 \in 1..Len(t) /\ u[k] # l /\ u[k] \in LifeCalls
  <2> SUFFICES ASSUME NEW k \in 1..Len(u)
               PROVE  k + 1 \in 1..Len(t) /\ u[k] # l /\ u[k] \in LifeCalls
    OBVIOUS
  <2>1. k + 1 \in 1..Len(t) /\ 1 \in 1..Len(t) /\ k + 1 # 1
    BY <1>1
  <2>2. t[k + 1] # t[1]
    BY <2>1 DEF Well
  <2>3. u[k] \in LifeCalls
    BY <1>1, ElementOfSeq
  <2> QED
    BY <1>1, <2>1, <2>2, <2>3
<1>4. \A k \in 1..Len(u) : g[u[k]] = f[t[k + 1]]
  BY <1>1, <1>2, <1>3
<1>5. Words(u, g) = Tail(Words(t, f)) /\ Words(t, f) # <<>> /\ Head(Words(t, f)) = f[l]
  <2> DEFINE w == Words(u, g)
             v == Words(t, f)
  <2>1. /\ w \in Seq(LifePCs) /\ Len(w) = Len(u)
        /\ \A k \in 1..Len(u) : w[k] = g[u[k]]
    BY <1>1, <1>2, WordsAre
  <2>2. /\ v \in Seq(LifePCs) /\ Len(v) = Len(t)
        /\ \A k \in 1..Len(t) : v[k] = f[t[k]]
    BY WordsAre DEF Well
  <2> HIDE DEF w, v
  <2>3. v # <<>>
    BY <1>1, <2>2, EmptySeq
  <2>4. /\ Tail(v) \in Seq(LifePCs) /\ Len(Tail(v)) = Len(u)
        /\ \A k \in 1..Len(u) : Tail(v)[k] = v[k + 1]
        /\ Head(v) = v[1]
    BY <1>1, <2>2, <2>3, HeadTailProperties
  <2>5. \A k \in 1..Len(u) : w[k] = Tail(v)[k]
    BY <1>3, <1>4, <2>1, <2>2, <2>4
  <2>6. w = Tail(v)
    BY <2>1, <2>4, <2>5, SeqEqual
  <2>7. Head(v) = f[l]
    BY <1>1, <2>2, <2>4
  <2> QED
    BY <2>3, <2>6, <2>7 DEF w, v
<1>6. Agreed(Words(u, g), j, r)
  <2>1. Words(t, f) \in Seq(LifePCs) /\ Agreed(Words(t, f), i, r)
    BY WordsAre DEF Well
  <2> QED
    BY <1>5, <2>1, AgreedTail DEF l
<1>7. \A k \in 1..Len(u) : g[u[k]] \in TaskPCs
  BY <1>3, <1>4 DEF Well
<1>8. \A k, m \in 1..Len(u) : u[k] = u[m] => k = m
  <2> SUFFICES ASSUME NEW k \in 1..Len(u), NEW m \in 1..Len(u), u[k] = u[m]
               PROVE  k = m
    OBVIOUS
  <2>1. t[k + 1] = t[m + 1] /\ k + 1 \in 1..Len(t) /\ m + 1 \in 1..Len(t)
    BY <1>1, <1>3
  <2>2. k + 1 = m + 1
    BY <2>1 DEF Well
  <2> QED
    BY <1>1, <2>2
<1>9. Well(u, g, j, r)
  BY <1>1, <1>2, <1>6, <1>7, <1>8 DEF Well
<1> QED
  BY <1>1, <1>9 DEF g, u, l

\* The first task runs, and is the last one next.
LEMMA MovedKept ==
    ASSUME NEW t, NEW f, NEW i \in BOOLEAN, NEW r \in BOOLEAN, Well(t, f, i, r),
           t # <<>>, f[Head(t)] \notin Writers,
           NEW pc \in TaskPCs, NEW s \in BOOLEAN,
           IF pc \in Writers THEN s = (pc = "up") ELSE s = r
    PROVE  Well(Append(Tail(t), Head(t)), [f EXCEPT ![Head(t)] = pc], i, s)
<1> DEFINE l == Head(t)
           g == [f EXCEPT ![l] = "done"]
<1>1. "done" \in LifePCs /\ "done" \notin TaskPCs
  BY DEF LifePCs, TaskPCs
<1>2. Well(Tail(t), g, i, r) /\ l \in LifeCalls
  BY <1>1, TailKept
<1>3. f \in [LifeCalls -> LifePCs]
  BY DEF Well
<1>4. g[l] = "done" /\ [g EXCEPT ![l] = pc] = [f EXCEPT ![l] = pc]
  BY <1>2, <1>3
<1> HIDE DEF g, l
<1>5. Well(Append(Tail(t), l), [g EXCEPT ![l] = pc], i, s)
  BY <1>1, <1>2, <1>4, AppendKept
<1> QED
  BY <1>4, <1>5 DEF l, g

-----------------------------------------------------------------------------
(* The life cycle.                                                         *)

\* The inductive invariant of the life cycle: the flag the client is to have
\* when all tasks have run is the one the provider has now.
LifeInv ==
    /\ setup \in Setup
    /\ initialized \in BOOLEAN /\ ready \in BOOLEAN /\ app \in BOOLEAN
    /\ ready => app
    /\ Well(tasks, life, initialized, ready)

LEMMA LifeInvMeans == LifeInv => LifeCycleAgrees
<1> SUFFICES ASSUME LifeInv, tasks = <<>> PROVE initialized = ready
  BY DEF LifeCycleAgrees
<1>1. Len(tasks) = 0
  BY EmptySeq
<1>2. Len(Words(tasks, life)) = 0
  BY <1>1, WordsAre DEF LifeInv, Well
<1> QED
  BY <1>2 DEF LifeInv, Well, Agreed

LEMMA LifeInit == Init => LifeInv
<1> SUFFICES ASSUME Init PROVE LifeInv
  OBVIOUS
<1>1. tasks \in Seq(LifeCalls) /\ Len(tasks) = 0
  BY EmptySeq DEF Init
<1>2. life \in [LifeCalls -> LifePCs]
  BY DEF Init, LifePCs
<1>3. Len(Words(tasks, life)) = 0
  BY <1>1, <1>2, WordsAre
<1>4. initialized = ready
  BY DEF Init
<1>5. 1..0 = {}
  OBVIOUS
<1>6. Agreed(Words(tasks, life), initialized, ready)
  BY <1>3, <1>4, <1>5 DEF Agreed
<1>7. Well(tasks, life, initialized, ready)
  BY <1>1, <1>2, <1>5, <1>6 DEF Well
<1>8. /\ setup \in Setup
      /\ initialized \in BOOLEAN /\ ready \in BOOLEAN /\ app \in BOOLEAN
      /\ ready => app
  BY DEF Init
<1> QED
  BY <1>7, <1>8 DEF LifeInv

\* A call that awaits something external is in no task.
LEMMA OutsideTasks ==
    {"none", "import", "stop", "delete", "done"} \cap TaskPCs = {}
BY DEF TaskPCs

LEMMA LifeStepKeeps ==
    ASSUME LifeInv, NEW l \in LifeCalls, LifeStep(l)
    PROVE  LifeInv'
<1> USE DEF LifeInv
<1>0. /\ \A pc \in {"configure", "stopped", "deleted"} : pc \in TaskPCs \ Writers
      /\ \A pc \in {"up", "down"} : pc \in TaskPCs \cap Writers
      /\ TaskPCs \subseteq LifePCs
      /\ \A pc \in {"import", "stop", "delete", "done"} :
            pc \in LifePCs \ TaskPCs /\ pc \notin Writers
  BY DEF TaskPCs, Writers, LifePCs
<1>1. CASE Initialize(l)
  <2>1. Well(tasks, [life EXCEPT ![l] = "import"], initialized, ready)
    BY <1>0, <1>1, OutsideTasks, StayKept DEF Initialize
  <2> QED
    BY <1>1, <2>1 DEF Initialize, Awaits
<1>2. CASE Imported(l)
  <2>1. Well(Append(tasks, l), [life EXCEPT ![l] = "configure"], initialized, ready)
    BY <1>0, <1>2, OutsideTasks, AppendKept DEF Imported
  <2> QED
    BY <1>2, <2>1 DEF Imported, Queues
<1>3. CASE Configure(l)
  <2>1. Well(Append(Tail(tasks), l), [life EXCEPT ![l] = "up"], initialized, TRUE)
    BY <1>0, <1>3, MovedKept DEF Configure, Runs
  <2>2. Well(Tail(tasks), [life EXCEPT ![l] = "done"], initialized, ready)
    BY <1>0, <1>3, TailKept DEF Configure, Runs
  <2>3. setup' = setup /\ initialized' = initialized
    BY <1>3 DEF Configure
  <2>4. CASE ready' = TRUE /\ app' = TRUE /\ ThenQueues(l, "up")
    <3>1. Well(tasks', life', initialized', ready')
      BY <2>1, <2>3, <2>4 DEF ThenQueues
    <3> QED
      BY <2>3, <2>4, <3>1
  <2>5. CASE Ends(l) /\ UNCHANGED <<ready, app>>
    BY <2>2, <2>3, <2>5 DEF Ends, ThenAwaits
  <2> QED
    BY <1>3, <2>4, <2>5 DEF Configure
<1>4. CASE Up(l)
  <2>1. Well(Tail(tasks), [life EXCEPT ![l] = "done"], TRUE, ready)
    BY <1>0, <1>4, TailKept DEF Up, Runs
  <2> QED
    BY <1>4, <2>1 DEF Up, Ends, ThenAwaits
<1>5. CASE StopQueue(l)
  <2>1. Well(tasks, [life EXCEPT ![l] = "stop"], initialized, ready)
    BY <1>0, <1>5, OutsideTasks, StayKept DEF StopQueue
  <2>2. Well(Append(tasks, l), [life EXCEPT ![l] = "stopped"], initialized, ready)
    BY <1>0, <1>5, OutsideTasks, AppendKept DEF StopQueue
  <2> QED
    BY <1>5, <2>1, <2>2 DEF StopQueue, Awaits, Queues
<1>6. CASE QueueStopped(l)
  <2>1. Well(Append(tasks, l), [life EXCEPT ![l] = "stopped"], initialized, ready)
    BY <1>0, <1>6, OutsideTasks, AppendKept DEF QueueStopped
  <2> QED
    BY <1>6, <2>1 DEF QueueStopped, Queues
<1>7. CASE ShutdownProvider(l)
  <2> DEFINE waits == setup.provider = "fcm" /\ app
  <2>1. CASE Runs(l, "stopped")
    <3>0. life[l] # "none"
      BY <2>1 DEF Runs
    <3>1. CASE waits
      <4>1. Well(Tail(tasks), [life EXCEPT ![l] = "delete"], initialized, ready)
        BY <1>0, <2>1, TailKept DEF Runs
      <4> QED
        BY <1>7, <3>0, <3>1, <4>1 DEF ShutdownProvider
    <3>2. CASE ~waits
      <4>1. ready' = FALSE
        BY <1>7, <3>2 DEF ShutdownProvider
      <4>2. Well(Append(Tail(tasks), l), [life EXCEPT ![l] = "down"], initialized, FALSE)
        BY <1>0, <2>1, MovedKept DEF Runs
      <4> QED
        BY <1>7, <3>0, <3>2, <4>1, <4>2 DEF ShutdownProvider
    <3> QED
      BY <3>1, <3>2
  <2>2. CASE life[l] = "none"
    <3>1. CASE waits
      <4>1. Well(tasks, [life EXCEPT ![l] = "delete"], initialized, ready)
        BY <1>0, <2>2, OutsideTasks, StayKept
      <4> QED
        BY <1>7, <2>2, <3>1, <4>1 DEF ShutdownProvider
    <3>2. CASE ~waits
      <4>1. ready' = FALSE
        BY <1>7, <3>2 DEF ShutdownProvider
      <4>2. Well(Append(tasks, l), [life EXCEPT ![l] = "down"], initialized, FALSE)
        BY <1>0, <2>2, OutsideTasks, AppendKept
      <4> QED
        BY <1>7, <2>2, <3>2, <4>1, <4>2 DEF ShutdownProvider
    <3> QED
      BY <3>1, <3>2
  <2> QED
    BY <1>7, <2>1, <2>2 DEF ShutdownProvider
<1>8. CASE AppDeleted(l)
  <2>1. Well(Append(tasks, l), [life EXCEPT ![l] = "deleted"], initialized, ready)
    BY <1>0, <1>8, OutsideTasks, AppendKept DEF AppDeleted
  <2>2. Well(tasks, [life EXCEPT ![l] = "done"], initialized, ready)
    BY <1>0, <1>8, OutsideTasks, StayKept DEF AppDeleted
  <2> QED
    BY <1>8, <2>1, <2>2 DEF AppDeleted, Awaits, Queues
<1>9. CASE Unready(l)
  <2>1. Well(Append(Tail(tasks), l), [life EXCEPT ![l] = "down"], initialized, FALSE)
    BY <1>0, <1>9, MovedKept DEF Unready, Runs
  <2> QED
    BY <1>9, <2>1 DEF Unready, ThenQueues
<1>10. CASE Down(l)
  <2>1. Well(Tail(tasks), [life EXCEPT ![l] = "done"], FALSE, ready)
    BY <1>0, <1>10, TailKept DEF Down, Runs
  <2> QED
    BY <1>10, <2>1 DEF Down, Ends, ThenAwaits
<1> QED
  BY <1>1, <1>2, <1>3, <1>4, <1>5, <1>6, <1>7, <1>8, <1>9, <1>10 DEF LifeStep

\* The sending calls read the life cycle and leave it alone.
LEMMA SendStepLeavesLife ==
    ASSUME NEW c \in SendCalls, SendStep(c)
    PROVE  UNCHANGED <<setup, lifeCycle>>
BY DEF SendStep, SendBulk, Permit, Answer, SendToTopic

LEMMA LifeNext == LifeInv /\ [Next]_vars => LifeInv'
<1> SUFFICES ASSUME LifeInv, [Next]_vars PROVE LifeInv'
  OBVIOUS
<1>1. ASSUME UNCHANGED <<setup, lifeCycle>> PROVE LifeInv'
  BY <1>1 DEF LifeInv, lifeCycle, Well
<1>2. ASSUME NEW l \in LifeCalls, LifeStep(l) PROVE LifeInv'
  BY <1>2, LifeStepKeeps
<1>3. ASSUME NEW c \in SendCalls, SendStep(c) PROVE LifeInv'
  BY <1>1, <1>3, SendStepLeavesLife
<1>4. CASE UNCHANGED vars
  BY <1>1, <1>4 DEF vars
<1> QED
  BY <1>2, <1>3, <1>4 DEF Next

\* PushClient.initialize and shutdown: whenever no continuation is left to run,
\* the client's flag and its provider's are the same, however calls overlap
\* and whichever of them fail.
THEOREM FlagsAgree == Spec => []LifeCycleAgrees
<1>1. Init => LifeInv
  BY LifeInit
<1>2. LifeInv /\ [Next]_vars => LifeInv'
  BY LifeNext
<1>3. LifeInv => LifeCycleAgrees
  BY LifeInvMeans
<1> QED
  BY <1>1, <1>2, <1>3, PTL DEF Spec

-----------------------------------------------------------------------------
(* Requests.                                                               *)

\* The results of a call are never more than its messages.
LEMMA AnsweredType ==
    ASSUME NEW call \in Call, NEW ok \in 0..Asked(call)
    PROVE  Answered(call, ok) \in Call /\ Asked(Answered(call, ok)) = 0
<1>1. /\ call.size \in 0..MaxSize /\ call.left \in 0..MaxSize
      /\ call.topics \in 0..MaxSize /\ call.ok \in 0..MaxSize
      /\ call.bad \in 0..MaxSize /\ MaxSize \in Nat
  BY SizesAssumption DEF Call
<1>2. /\ Asked(call) = call.size - call.ok - call.bad - call.left - call.topics
      /\ Asked(call) \in Int
  BY <1>1 DEF Asked
<1>3. /\ call.ok + ok \in 0..MaxSize
      /\ call.bad + Asked(call) - ok \in 0..MaxSize
  BY <1>1, <1>2
<1> DEFINE after == Answered(call, ok)
<1>4. /\ after.size = call.size /\ after.left = call.left
      /\ after.topics = call.topics
      /\ after.ok = call.ok + ok
      /\ after.bad = call.bad + Asked(call) - ok
  BY DEF Answered, Call
<1>5. after \in Call
  BY <1>3 DEF Answered, Call
<1>6. Asked(after) = 0
  BY <1>1, <1>2, <1>4 DEF Asked
<1> QED
  BY <1>5, <1>6

\* The inductive invariant of the sending calls.
SendInv ==
    /\ calls \in [SendCalls -> Call]
    /\ \A c \in SendCalls : Asked(calls[c]) \in Nat
    /\ metrics \in [sent : Nat, success : Nat, failure : Nat]
    /\ confirmed \in Nat

LEMMA SendInit == Init => SendInv
<1> SUFFICES ASSUME Init PROVE SendInv
  OBVIOUS
<1>1. NewCall("none", 0) \in Call /\ Asked(NewCall("none", 0)) = 0
  BY SizesAssumption DEF NewCall, Call, Asked
<1> QED
  BY <1>1 DEF Init, SendInv

\* One call changes, and stays well formed.
LEMMA CallChanges ==
    ASSUME SendInv, NEW c \in SendCalls, NEW call \in Call, Asked(call) \in Nat,
           calls' = [calls EXCEPT ![c] = call]
    PROVE  /\ calls' \in [SendCalls -> Call]
           /\ \A d \in SendCalls : Asked(calls'[d]) \in Nat
BY DEF SendInv

\* The pc of a call does not count.
LEMMA PcChanges ==
    ASSUME NEW call \in Call, NEW pc \in {"limit", "service", "done", "failed"}
    PROVE  /\ [call EXCEPT !.pc = pc] \in Call
           /\ Asked([call EXCEPT !.pc = pc]) = Asked(call)
BY DEF Call, Asked

LEMMA EndKeeps ==
    ASSUME SendInv, NEW c \in SendCalls, NEW call \in Call, Asked(call) \in Nat,
           Reject(c, call) \/ Resolve(c, call),
           confirmed' \in Nat
    PROVE  SendInv'
<1>1. /\ call.size \in Nat /\ call.ok \in Nat /\ call.bad \in Nat
      /\ metrics.success \in Nat /\ metrics.failure \in Nat
  BY SizesAssumption DEF Call, SendInv
<1>2. PICK pc \in {"done", "failed"} :
         calls' = [calls EXCEPT ![c] = [call EXCEPT !.pc = pc]]
  BY DEF Reject, Resolve
<1>3. /\ calls' \in [SendCalls -> Call]
      /\ \A d \in SendCalls : Asked(calls'[d]) \in Nat
  <2>1. [call EXCEPT !.pc = pc] \in Call /\ Asked([call EXCEPT !.pc = pc]) \in Nat
    BY PcChanges
  <2> QED
    BY <1>2, <2>1, CallChanges
<1>4. CASE Reject(c, call)
  <2>1. metrics' = [metrics EXCEPT !.failure = @ + call.size]
    BY <1>4 DEF Reject
  <2>2. metrics' \in [sent : Nat, success : Nat, failure : Nat]
    BY <1>1, <2>1 DEF SendInv
  <2> QED
    BY <1>3, <2>2 DEF SendInv
<1>5. CASE Resolve(c, call)
  <2> DEFINE succeeded == [metrics EXCEPT !.success = @ + call.ok]
  <2>1. succeeded \in [sent : Nat, success : Nat, failure : Nat]
    BY <1>1 DEF SendInv
  <2>2. metrics' = [succeeded EXCEPT !.failure = metrics.failure + call.bad]
    BY <1>5 DEF Resolve
  <2> HIDE DEF succeeded
  <2>3. metrics' \in [sent : Nat, success : Nat, failure : Nat]
    BY <1>1, <2>1, <2>2
  <2> QED
    BY <1>3, <2>3 DEF SendInv
<1> QED
  BY <1>4, <1>5

LEMMA SendBulkKeeps ==
    ASSUME SendInv, NEW c \in SendCalls, NEW size \in 1..MaxSize, SendBulk(c, size)
    PROVE  SendInv'
<1> DEFINE call == NewCall("limit", size)
<1>1. size \in 0..MaxSize /\ size \in Nat /\ 0 \in 0..MaxSize
  BY SizesAssumption
<1>2. call \in Call /\ Asked(call) \in Nat
  BY <1>1 DEF NewCall, Call, Asked
<1>3. calls' = [calls EXCEPT ![c] = call]
  BY DEF SendBulk
<1> HIDE DEF call
<1>4. /\ calls' \in [SendCalls -> Call]
      /\ \A d \in SendCalls : Asked(calls'[d]) \in Nat
  BY <1>2, <1>3, CallChanges
<1>5. /\ metrics' \in [sent : Nat, success : Nat, failure : Nat]
      /\ confirmed' \in Nat
  BY <1>1 DEF SendInv, SendBulk
<1> QED
  BY <1>4, <1>5 DEF SendInv

\* A step that sends a request of a call finds the provider initialised.
LEMMA RequestsNeedProvider ==
    ASSUME [Next]_vars, NEW c \in SendCalls, calls \in [SendCalls -> Call],
           calls'[c].pc = "service", calls'[c] # calls[c]
    PROVE  ready
<1>1. ASSUME NEW l \in LifeCalls, LifeStep(l) PROVE calls' = calls
  BY <1>1 DEF LifeStep, Initialize, Imported, Configure, Up, StopQueue,
     QueueStopped, ShutdownProvider, AppDeleted, Unready, Down, sending
<1>2. ASSUME NEW d \in SendCalls, SendStep(d) PROVE ready
  <2>1. CASE \E size \in 1..MaxSize : SendBulk(d, size)
    BY <2>1 DEF SendBulk, NewCall
  <2>2. CASE Permit(d)
    <3>1. CASE ~ready /\ Reject(d, calls[d])
      BY <3>1 DEF Reject
    <3> QED
      BY <2>2, <3>1 DEF Permit, EnsureInitialized
  <2>3. CASE Answer(d)
    <3>1. PICK ok \in 0..Asked(calls[d]) :
             LET call == Answered(calls[d], ok)
             IN  \/ ready
                 \/ Reject(d, call)
                 \/ calls' = [calls EXCEPT ![d] = [call EXCEPT !.pc = "limit"]]
                 \/ Resolve(d, call)
      BY <2>3 DEF Answer, EnsureInitialized
    <3>2. Answered(calls[d], ok) \in Call
      BY AnsweredType
    <3> QED
      BY <3>1, <3>2 DEF Reject, Resolve, Call
  <2>4. CASE SendToTopic(d)
    <3>1. CASE ~ready
      BY <2>4, <3>1 DEF SendToTopic, EnsureInitialized, Call
    <3> QED
      BY <3>1
  <2> QED
    BY <1>2, <2>1, <2>2, <2>3, <2>4 DEF SendStep
<1> QED
  BY <1>1, <1>2 DEF Next, vars, sending

LEMMA PermitKeeps ==
    ASSUME SendInv, NEW c \in SendCalls, Permit(c)
    PROVE  SendInv'
<1> DEFINE call == calls[c]
<1>1. call \in Call /\ Asked(call) \in Nat /\ confirmed' \in Nat
  BY DEF SendInv, Permit
<1>2. CASE ~EnsureInitialized /\ Reject(c, call)
  BY <1>1, <1>2, EndKeeps
<1>3. CASE ~(~EnsureInitialized /\ Reject(c, call))
  <2>1. /\ call.left \in 0..MaxSize /\ call.size \in Nat /\ call.ok \in Nat
        /\ call.bad \in Nat /\ call.topics \in Nat
        /\ MaxSize \in Nat /\ BatchSize \in Nat
    BY <1>1, SizesAssumption DEF Call
  <2>2. Batch(call) \in 0..call.left
    BY <2>1 DEF Batch
  <2>3. PICK topics \in 0..(Batch(call) - 1) :
           calls' = [calls EXCEPT ![c] =
                       [call EXCEPT !.pc = "service", !.topics = topics,
                                    !.left = call.left - Batch(call)]]
    BY <1>3 DEF Permit
  <2> DEFINE next == [call EXCEPT !.pc = "service", !.topics = topics,
                                  !.left = call.left - Batch(call)]
  <2>4. topics \in 0..MaxSize /\ call.left - Batch(call) \in 0..MaxSize
    BY <2>1, <2>2
  <2>5. next \in Call
    BY <1>1, <2>4 DEF Call
  <2>6. /\ next.size = call.size /\ next.ok = call.ok /\ next.bad = call.bad
        /\ next.topics = topics /\ next.left = call.left - Batch(call)
    BY <1>1 DEF Call
  <2>7. Asked(next) \in Nat
    BY <1>1, <2>1, <2>2, <2>6 DEF Asked
  <2> HIDE DEF next
  <2>8. /\ calls' \in [SendCalls -> Call]
        /\ \A d \in SendCalls : Asked(calls'[d]) \in Nat
    BY <2>3, <2>5, <2>7, CallChanges DEF next
  <2> QED
    BY <1>1, <1>3, <2>8 DEF Permit, SendInv
<1> QED
  BY <1>2, <1>3

LEMMA SendToTopicKeeps ==
    ASSUME SendInv, NEW c \in SendCalls, SendToTopic(c)
    PROVE  SendInv'
<1>1. calls[c] \in Call /\ Asked(calls[c]) \in Nat
  BY DEF SendInv
<1>2. PICK pc \in {"service", "failed"} :
         calls' = [calls EXCEPT ![c] = [calls[c] EXCEPT !.pc = pc]]
  BY DEF SendToTopic, SendInv
<1>3. /\ [calls[c] EXCEPT !.pc = pc] \in Call
      /\ Asked([calls[c] EXCEPT !.pc = pc]) \in Nat
  BY <1>1, PcChanges
<1>4. /\ calls' \in [SendCalls -> Call]
      /\ \A d \in SendCalls : Asked(calls'[d]) \in Nat
  BY <1>2, <1>3, CallChanges
<1> QED
  BY <1>4 DEF SendToTopic, SendInv

LEMMA AnswerKeeps ==
    ASSUME SendInv, NEW c \in SendCalls, Answer(c)
    PROVE  SendInv'
<1>1. PICK ok \in 0..Asked(calls[c]) :
         LET call == Answered(calls[c], ok)
         IN  /\ \/ /\ calls' = [calls EXCEPT ![c] = [call EXCEPT !.topics = 0]]
                   /\ UNCHANGED metrics
                \/ Reject(c, call)
                \/ /\ calls' = [calls EXCEPT ![c] = [call EXCEPT !.pc = "limit"]]
                   /\ UNCHANGED metrics
                \/ Resolve(c, call)
             /\ confirmed' = confirmed + ok
  BY DEF Answer
<1> DEFINE call == Answered(calls[c], ok)
<1>2. calls[c] \in Call /\ Asked(calls[c]) \in Nat
  BY DEF SendInv
<1>3. call \in Call /\ Asked(call) = 0
  BY <1>2, AnsweredType
<1>4. confirmed' \in Nat
  BY <1>1, <1>2 DEF SendInv
<1> HIDE DEF call
<1>5. CASE Reject(c, call) \/ Resolve(c, call)
  BY <1>3, <1>4, <1>5, EndKeeps
<1>6. ASSUME NEW next \in Call, Asked(next) \in Nat,
             calls' = [calls EXCEPT ![c] = next], UNCHANGED metrics
      PROVE  SendInv'
  <2>1. /\ calls' \in [SendCalls -> Call]
        /\ \A d \in SendCalls : Asked(calls'[d]) \in Nat
    BY <1>6, CallChanges
  <2> QED
    BY <1>4, <1>6, <2>1 DEF SendInv
<1>7. /\ [call EXCEPT !.topics = 0] \in Call
      /\ Asked([call EXCEPT !.topics = 0]) \in Nat
  <2>1. /\ call.size \in Nat /\ call.ok \in Nat /\ call.bad \in Nat
        /\ call.left \in Nat /\ call.topics \in Nat /\ 0 \in 0..MaxSize
    BY <1>3, SizesAssumption DEF Call
  <2> QED
    BY <1>3, <2>1 DEF Call, Asked
<1>8. /\ [call EXCEPT !.pc = "limit"] \in Call
      /\ Asked([call EXCEPT !.pc = "limit"]) \in Nat
  <2>1. /\ [call EXCEPT !.pc = "limit"] \in Call
        /\ Asked([call EXCEPT !.pc = "limit"]) = Asked(call)
    BY <1>3, PcChanges
  <2> QED
    BY <1>3, <2>1
<1>9. \/ /\ calls' = [calls EXCEPT ![c] = [call EXCEPT !.topics = 0]]
         /\ UNCHANGED metrics
      \/ Reject(c, call)
      \/ /\ calls' = [calls EXCEPT ![c] = [call EXCEPT !.pc = "limit"]]
         /\ UNCHANGED metrics
      \/ Resolve(c, call)
  BY <1>1 DEF call
<1>10. CASE /\ calls' = [calls EXCEPT ![c] = [call EXCEPT !.topics = 0]]
            /\ UNCHANGED metrics
  BY <1>6, <1>7, <1>10
<1>11. CASE /\ calls' = [calls EXCEPT ![c] = [call EXCEPT !.pc = "limit"]]
            /\ UNCHANGED metrics
  BY <1>6, <1>8, <1>11
<1> QED
  BY <1>5, <1>9, <1>10, <1>11

\* The life-cycle calls leave the sending calls alone.
LEMMA LifeStepLeavesSends ==
    ASSUME NEW l \in LifeCalls, LifeStep(l)
    PROVE  UNCHANGED sending
BY DEF LifeStep, Initialize, Imported, Configure, Up, StopQueue, QueueStopped,
   ShutdownProvider, AppDeleted, Unready, Down

LEMMA SendNext == SendInv /\ [Next]_vars => SendInv'
<1> SUFFICES ASSUME SendInv, [Next]_vars PROVE SendInv'
  OBVIOUS
<1>1. ASSUME UNCHANGED sending PROVE SendInv'
  BY <1>1 DEF SendInv, sending
<1>2. ASSUME NEW c \in SendCalls, SendStep(c) PROVE SendInv'
  BY <1>2, SendBulkKeeps, PermitKeeps, AnswerKeeps, SendToTopicKeeps DEF SendStep
<1>3. ASSUME NEW l \in LifeCalls, LifeStep(l) PROVE SendInv'
  BY <1>1, <1>3, LifeStepLeavesSends
<1> QED
  BY <1>1, <1>2, <1>3 DEF Next, vars

-----------------------------------------------------------------------------

\* Every variable of PushClient has its type, and no call reports more results
\* than it has messages.
THEOREM ClientTypeCorrect == Spec => []TypeOK
<1>1. Init => LifeInv /\ SendInv
  BY LifeInit, SendInit
<1>2. LifeInv /\ SendInv /\ [Next]_vars => (LifeInv /\ SendInv)'
  BY LifeNext, SendNext
<1>3. LifeInv /\ SendInv => TypeOK
  BY DEF LifeInv, Well, SendInv, TypeOK
<1> QED
  BY <1>1, <1>2, <1>3, PTL DEF Spec

\* PushClient.send, sendBulk, sendToTopic and the provider's ensureInitialized:
\* no request goes out after a shutdown, nor before an initialisation.
THEOREM RequestsOnlyWhenUp == Spec => SendsOnlyWhenUp
<1> DEFINE Asks == \A c \in SendCalls :
                      calls'[c].pc = "service" /\ calls'[c] # calls[c]
                         => initialized \/ tasks # <<>>
<1>1. Init => LifeInv /\ SendInv
  BY LifeInit, SendInit
<1>2. LifeInv /\ SendInv /\ [Next]_vars => (LifeInv /\ SendInv)'
  BY LifeNext, SendNext
<1>3. LifeInv /\ SendInv /\ [Next]_vars => [Asks]_vars
  <2> SUFFICES ASSUME LifeInv, SendInv, [Next]_vars, NEW c \in SendCalls,
                      calls'[c].pc = "service", calls'[c] # calls[c]
               PROVE  initialized \/ tasks # <<>>
    OBVIOUS
  <2>1. ready
    BY RequestsNeedProvider DEF SendInv
  <2>2. LifeCycleAgrees
    BY LifeInvMeans
  <2> QED
    BY <2>1, <2>2 DEF LifeCycleAgrees
<1> QED
  BY <1>1, <1>2, <1>3, PTL DEF Spec, SendsOnlyWhenUp

-----------------------------------------------------------------------------
\* The counts.

Sizes == [c \in SendCalls |-> calls[c].size]
Oks == [c \in SendCalls |-> calls[c].ok]

Begun == {c \in SendCalls : calls[c].pc # "none"}
Unresolved == {c \in SendCalls : calls[c].pc \notin {"none", "done"}}

\* The sums that the two balances speak of.
Pending == SumFunctionOnSet(Sizes, InFlight)
Unreported == SumFunctionOnSet(Oks, Unresolved)

\* The inductive invariant of the counts: sums are over finitely many calls, and
\* a call that was not made has no messages.
CountInv ==
    /\ IsFiniteSet(Begun)
    /\ \A c \in SendCalls : calls[c].pc = "none" => calls[c] = NewCall("none", 0)
    /\ metrics.sent = metrics.success + metrics.failure + Pending
    /\ confirmed = metrics.success + Unreported

LEMMA CountsMean == CountInv => MetricsBalance /\ DeliveriesReported
BY DEF CountInv, MetricsBalance, DeliveriesReported, Pending, Unreported, Sizes,
   Oks, Unresolved

LEMMA CountInit == Init => CountInv
<1> SUFFICES ASSUME Init PROVE CountInv
  OBVIOUS
<1>1. /\ \A c \in SendCalls : calls[c] = NewCall("none", 0)
      /\ \A c \in SendCalls : calls[c].pc = "none"
  BY DEF Init, NewCall
<1>2. Begun = {} /\ InFlight = {} /\ Unresolved = {}
  BY <1>1 DEF Begun, InFlight, Unresolved
<1>3. IsFiniteSet(Begun)
  BY <1>2, FS_EmptySet
<1>4. Pending = 0 /\ Unreported = 0
  BY <1>2, SumEmpty DEF Pending, Unreported
<1> QED
  BY <1>1, <1>3, <1>4 DEF Init, CountInv

\* What a call adds to the sums.
Holding(call) == IF call.pc \in {"limit", "service"} THEN call.size ELSE 0
Reporting(call) == IF call.pc \notin {"none", "done"} THEN call.ok ELSE 0

\* One call moves: the sums change by what it adds, before and after.
LEMMA SumsMove ==
    ASSUME SendInv, CountInv, NEW c \in SendCalls, NEW call \in Call,
           call.pc # "none", calls' = [calls EXCEPT ![c] = call]
    PROVE  /\ IsFiniteSet(Begun)'
           /\ \A d \in SendCalls : calls'[d].pc = "none" => calls'[d] = NewCall("none", 0)
           /\ Pending \in Nat /\ Pending' \in Nat
           /\ Pending' + Holding(calls[c]) = Pending + Holding(call)
           /\ Unreported \in Nat /\ Unreported' \in Nat
           /\ Unreported' + Reporting(calls[c]) = Unreported + Reporting(call)
<1>1. /\ calls'[c] = call
      /\ \A d \in SendCalls : d # c => calls'[d] = calls[d]
      /\ \A d \in SendCalls : calls[d] \in Call /\ calls'[d] \in Call
  BY DEF SendInv
<1>2. \A d \in SendCalls :
         calls[d].size \in Nat /\ calls'[d].size \in Nat
         /\ calls[d].ok \in Nat /\ calls'[d].ok \in Nat
  BY <1>1, SizesAssumption DEF Call
<1>3. IsFiniteSet(Begun') /\ IsFiniteSet(InFlight) /\ IsFiniteSet(Unresolved)
  <2>1. Begun' = Begun \cup {c}
    BY <1>1 DEF Begun
  <2>2. IsFiniteSet(Begun \cup {c})
    BY FS_AddElement DEF CountInv
  <2>3. InFlight \subseteq Begun /\ Unresolved \subseteq Begun
    BY DEF InFlight, Unresolved, Begun
  <2> QED
    BY <2>1, <2>2, <2>3, FS_Subset DEF CountInv
<1>4. /\ \A d \in SendCalls : Sizes[d] = calls[d].size /\ Sizes'[d] = calls'[d].size
      /\ \A d \in SendCalls : Oks[d] = calls[d].ok /\ Oks'[d] = calls'[d].ok
  BY DEF Sizes, Oks
<1>5. /\ InFlight \subseteq SendCalls /\ InFlight' \subseteq SendCalls
      /\ InFlight \ {c} = InFlight' \ {c}
      /\ c \in InFlight <=> calls[c].pc \in {"limit", "service"}
      /\ c \in InFlight' <=> call.pc \in {"limit", "service"}
  BY <1>1 DEF InFlight
<1>6. /\ Unresolved \subseteq SendCalls /\ Unresolved' \subseteq SendCalls
      /\ Unresolved \ {c} = Unresolved' \ {c}
      /\ c \in Unresolved <=> calls[c].pc \notin {"none", "done"}
      /\ c \in Unresolved' <=> call.pc # "done"
  BY <1>1 DEF Unresolved
<1>7. /\ \A d \in InFlight : Sizes[d] \in Nat
      /\ \A d \in InFlight' : Sizes'[d] \in Nat
      /\ \A d \in InFlight \ {c} : Sizes[d] = Sizes'[d]
  BY <1>1, <1>2, <1>4, <1>5
<1>8. /\ \A d \in Unresolved : Oks[d] \in Nat
      /\ \A d \in Unresolved' : Oks'[d] \in Nat
      /\ \A d \in Unresolved \ {c} : Oks[d] = Oks'[d]
  BY <1>1, <1>2, <1>4, <1>6
<1>9. /\ Pending \in Nat /\ Pending' \in Nat
      /\ Pending' + (IF c \in InFlight THEN Sizes[c] ELSE 0)
           = Pending + (IF c \in InFlight' THEN Sizes'[c] ELSE 0)
  <2>1. PICK w, v, S, T : w = Sizes /\ v = Sizes' /\ S = InFlight /\ T = InFlight'
    OBVIOUS
  <2>2. /\ SumFunctionOnSet(w, S) \in Nat /\ SumFunctionOnSet(v, T) \in Nat
        /\ SumFunctionOnSet(v, T) + (IF c \in S THEN w[c] ELSE 0)
             = SumFunctionOnSet(w, S) + (IF c \in T THEN v[c] ELSE 0)
    <3>1. IsFiniteSet(S) /\ OneMoves(w, v, S, T, c)
      BY <1>3, <1>5, <1>7, <2>1 DEF OneMoves
    <3> QED
      BY <3>1, SumMoves
  <2>3. Pending = SumFunctionOnSet(w, S) /\ Pending' = SumFunctionOnSet(v, T)
    BY <2>1 DEF Pending
  <2> HIDE DEF Pending
  <2> QED
    BY <2>1, <2>2, <2>3
<1>10. /\ Unreported \in Nat /\ Unreported' \in Nat
       /\ Unreported' + (IF c \in Unresolved THEN Oks[c] ELSE 0)
            = Unreported + (IF c \in Unresolved' THEN Oks'[c] ELSE 0)
  <2>1. PICK w, v, S, T : w = Oks /\ v = Oks' /\ S = Unresolved /\ T = Unresolved'
    OBVIOUS
  <2>2. /\ SumFunctionOnSet(w, S) \in Nat /\ SumFunctionOnSet(v, T) \in Nat
        /\ SumFunctionOnSet(v, T) + (IF c \in S THEN w[c] ELSE 0)
             = SumFunctionOnSet(w, S) + (IF c \in T THEN v[c] ELSE 0)
    <3>1. IsFiniteSet(S) /\ OneMoves(w, v, S, T, c)
      BY <1>3, <1>6, <1>8, <2>1 DEF OneMoves
    <3> QED
      BY <3>1, SumMoves
  <2>3. Unreported = SumFunctionOnSet(w, S) /\ Unreported' = SumFunctionOnSet(v, T)
    BY <2>1 DEF Unreported
  <2> HIDE DEF Unreported
  <2> QED
    BY <2>1, <2>2, <2>3
<1>11. \A d \in SendCalls : calls'[d].pc = "none" => calls'[d] = NewCall("none", 0)
  BY <1>1 DEF CountInv
<1> HIDE DEF Pending, Unreported, Begun
<1>12. Sizes[c] = calls[c].size /\ Sizes'[c] = call.size /\ Oks[c] = calls[c].ok
       /\ Oks'[c] = call.ok
  BY <1>1, <1>4
<1> QED
  BY <1>3, <1>5, <1>6, <1>9, <1>10, <1>11, <1>12 DEF Holding, Reporting

\* The step moves the metrics, and what the service took, by as much.
CountsMove(c, call) ==
    /\ {metrics'.sent, metrics'.success, metrics'.failure, confirmed'} \subseteq Nat
    /\ metrics'.sent + metrics.success + metrics.failure + Holding(calls[c])
         = metrics.sent + metrics'.success + metrics'.failure + Holding(call)
    /\ confirmed' + metrics.success + Reporting(calls[c])
         = confirmed + metrics'.success + Reporting(call)

LEMMA CountsKept ==
    ASSUME SendInv, CountInv, NEW c \in SendCalls, NEW call \in Call,
           call.pc # "none", calls' = [calls EXCEPT ![c] = call], CountsMove(c, call)
    PROVE  CountInv'
<1>1. PICK held, holds, kept, keeps :
         /\ held = Holding(calls[c]) /\ holds = Holding(call)
         /\ kept = Reporting(calls[c]) /\ keeps = Reporting(call)
  OBVIOUS
<1>2. held \in Nat /\ holds \in Nat /\ kept \in Nat /\ keeps \in Nat
  <2>1. calls[c] \in Call
    BY DEF SendInv
  <2> QED
    BY <1>1, <2>1, SizesAssumption DEF Call, Holding, Reporting
<1>3. /\ Pending \in Nat /\ Pending' \in Nat /\ Pending' + held = Pending + holds
      /\ Unreported \in Nat /\ Unreported' \in Nat
      /\ Unreported' + kept = Unreported + keeps
      /\ IsFiniteSet(Begun)'
      /\ \A d \in SendCalls : calls'[d].pc = "none" => calls'[d] = NewCall("none", 0)
  BY <1>1, SumsMove
<1>4. /\ metrics.sent \in Nat /\ metrics.success \in Nat /\ metrics.failure \in Nat
      /\ metrics'.sent \in Nat /\ metrics'.success \in Nat /\ metrics'.failure \in Nat
      /\ metrics'.sent + metrics.success + metrics.failure + held
           = metrics.sent + metrics'.success + metrics'.failure + holds
      /\ confirmed \in Nat /\ confirmed' \in Nat
      /\ confirmed' + metrics.success + kept = confirmed + metrics'.success + keeps
  BY <1>1 DEF SendInv, CountsMove
<1>5. /\ metrics.sent = metrics.success + metrics.failure + Pending
      /\ confirmed = metrics.success + Unreported
  BY DEF CountInv
<1>6. metrics'.sent = metrics'.success + metrics'.failure + Pending'
  <2>1. PICK t, s, f, u, t1, s1, f1, u1 :
           /\ t = metrics.sent /\ s = metrics.success /\ f = metrics.failure /\ u = Pending
           /\ t1 = metrics'.sent /\ s1 = metrics'.success /\ f1 = metrics'.failure
           /\ u1 = Pending'
    OBVIOUS
  <2>2. /\ t \in Nat /\ s \in Nat /\ f \in Nat /\ u \in Nat
        /\ t1 \in Nat /\ s1 \in Nat /\ f1 \in Nat /\ u1 \in Nat
        /\ t = s + f + u /\ u1 + held = u + holds
        /\ t1 + s + f + held = t + s1 + f1 + holds
    BY <1>3, <1>4, <1>5, <2>1
  <2>3. t1 + held = s1 + f1 + u + holds
    BY <1>2, <2>2
  <2>4. t1 = s1 + f1 + u1
    BY <1>2, <2>2, <2>3
  <2> QED
    BY <2>1, <2>4
<1>7. confirmed' = metrics'.success + Unreported'
  <2>1. PICK t, s, u, t1, s1, u1 :
           /\ t = confirmed /\ s = metrics.success /\ u = Unreported
           /\ t1 = confirmed' /\ s1 = metrics'.success /\ u1 = Unreported'
    OBVIOUS
  <2>2. /\ {t, s, u, t1, s1, u1} \subseteq Nat
        /\ t = s + u /\ u1 + kept = u + keeps
        /\ t1 + s + kept = t + s1 + keeps
    BY <1>3, <1>4, <1>5, <2>1
  <2>3. t1 = s1 + u1
    BY <1>2, <2>2
  <2> QED
    BY <2>1, <2>3
<1> QED
  BY <1>3, <1>6, <1>7 DEF CountInv

\* What a call has in each of its fields.
LEMMA Fields ==
    ASSUME NEW call \in Call
    PROVE  /\ call.size \in Nat /\ call.left \in Nat /\ call.topics \in Nat
           /\ call.ok \in Nat /\ call.bad \in Nat
           /\ \A pc : LET moved == [call EXCEPT !.pc = pc]
                      IN  moved.pc = pc /\ moved.size = call.size /\ moved.ok = call.ok
BY SizesAssumption DEF Call

LEMMA MetricsAre ==
    ASSUME SendInv
    PROVE  metrics.sent \in Nat /\ metrics.success \in Nat /\ metrics.failure \in Nat
           /\ confirmed \in Nat
BY DEF SendInv

\* The end of a call that has nothing more to come, and of one that is rejected.
LEMMA ResolveCounts ==
    ASSUME SendInv, CountInv, NEW c \in SendCalls, NEW call \in Call,
           calls[c].pc = "service", Resolve(c, call),
           call.size = calls[c].size, call.size = call.ok + call.bad,
           confirmed' + calls[c].ok = confirmed + call.ok, confirmed' \in Nat
    PROVE  CountInv'
<1>1. PICK next : next = [call EXCEPT !.pc = "done"]
  OBVIOUS
<1>2. next \in Call /\ next.pc = "done" /\ next.size = call.size /\ next.ok = call.ok
  BY <1>1, Fields, PcChanges
<1>3. calls' = [calls EXCEPT ![c] = next]
  BY <1>1 DEF Resolve
<1>4. /\ call.size \in Nat /\ call.ok \in Nat /\ call.bad \in Nat
      /\ calls[c].size \in Nat /\ calls[c].ok \in Nat
  BY Fields DEF SendInv
<1>5. /\ metrics'.sent = metrics.sent
      /\ metrics'.success = metrics.success + call.ok
      /\ metrics'.failure = metrics.failure + call.bad
  BY DEF Resolve, SendInv
<1>6. CountsMove(c, next)
  BY <1>2, <1>3, <1>4, <1>5, MetricsAre DEF CountsMove, Holding, Reporting
<1> QED
  BY <1>2, <1>3, <1>4, <1>5, <1>6, CountsKept

LEMMA RejectCounts ==
    ASSUME SendInv, CountInv, NEW c \in SendCalls, NEW call \in Call,
           calls[c].pc \in {"limit", "service"}, Reject(c, call),
           call.size = calls[c].size,
           confirmed' + calls[c].ok = confirmed + call.ok, confirmed' \in Nat
    PROVE  CountInv'
<1>1. PICK next : next = [call EXCEPT !.pc = "failed"]
  OBVIOUS
<1>2. next \in Call /\ next.pc = "failed" /\ next.size = call.size /\ next.ok = call.ok
  BY <1>1, Fields, PcChanges
<1>3. calls' = [calls EXCEPT ![c] = next]
  BY <1>1 DEF Reject
<1>4. /\ call.size \in Nat /\ call.ok \in Nat
      /\ calls[c].size \in Nat /\ calls[c].ok \in Nat
  BY Fields DEF SendInv
<1>5. /\ metrics'.sent = metrics.sent
      /\ metrics'.success = metrics.success
      /\ metrics'.failure = metrics.failure + call.size
  BY DEF Reject, SendInv
<1>6. CountsMove(c, next)
  BY <1>2, <1>3, <1>4, <1>5, MetricsAre DEF CountsMove, Holding, Reporting
<1> QED
  BY <1>2, <1>3, <1>4, <1>5, <1>6, CountsKept

\* A call goes on.
LEMMA GoesOnCounts ==
    ASSUME SendInv, CountInv, NEW c \in SendCalls, NEW next \in Call,
           calls[c].pc \in {"limit", "service"}, next.pc \in {"limit", "service"},
           calls' = [calls EXCEPT ![c] = next], UNCHANGED metrics,
           next.size = calls[c].size,
           confirmed' + calls[c].ok = confirmed + next.ok, confirmed' \in Nat
    PROVE  CountInv'
<1>1. /\ next.size \in Nat /\ next.ok \in Nat
      /\ calls[c].size \in Nat /\ calls[c].ok \in Nat
  BY Fields DEF SendInv
<1>2. CountsMove(c, next)
  BY <1>1, MetricsAre DEF CountsMove, Holding, Reporting
<1> QED
  BY <1>1, <1>2, CountsKept

LEMMA SendBulkCounts ==
    ASSUME SendInv, CountInv, NEW c \in SendCalls, NEW size \in 1..MaxSize,
           SendBulk(c, size)
    PROVE  CountInv'
<1>1. PICK call : call = NewCall("limit", size)
  OBVIOUS
<1>2. size \in 0..MaxSize /\ size \in Nat /\ 0 \in 0..MaxSize
  BY SizesAssumption
<1>3. call \in Call /\ call.pc = "limit" /\ call.size = size /\ call.ok = 0
  BY <1>1, <1>2 DEF NewCall, Call
<1>4. calls[c].pc = "none" /\ calls' = [calls EXCEPT ![c] = call] /\ confirmed' = confirmed
  BY <1>1 DEF SendBulk
<1>5. /\ metrics'.sent = metrics.sent + size
      /\ metrics'.success = metrics.success
      /\ metrics'.failure = metrics.failure
  BY DEF SendBulk, SendInv
<1>6. CountsMove(c, call)
  BY <1>2, <1>3, <1>4, <1>5, MetricsAre DEF CountsMove, Holding, Reporting
<1> QED
  BY <1>2, <1>3, <1>4, <1>5, <1>6, CountsKept

LEMMA SendToTopicCounts ==
    ASSUME SendInv, CountInv, NEW c \in SendCalls, SendToTopic(c)
    PROVE  CountInv'
<1>1. calls[c] = NewCall("none", 0) /\ calls[c] \in Call
  BY DEF SendToTopic, CountInv, SendInv
<1>2. calls[c].pc = "none" /\ calls[c].size = 0 /\ calls[c].ok = 0
  BY <1>1 DEF NewCall
<1>3. PICK pc \in {"service", "failed"} :
         calls' = [calls EXCEPT ![c] = [calls[c] EXCEPT !.pc = pc]]
  BY DEF SendToTopic, SendInv
<1>4. PICK next : next = [calls[c] EXCEPT !.pc = pc]
  OBVIOUS
<1>5. next \in Call /\ next.pc = pc /\ next.size = 0 /\ next.ok = 0
  BY <1>1, <1>2, <1>3, <1>4, Fields, PcChanges
<1>6. calls' = [calls EXCEPT ![c] = next] /\ UNCHANGED <<metrics, confirmed>>
  BY <1>3, <1>4 DEF SendToTopic
<1>7. CountsMove(c, next)
  BY <1>2, <1>5, <1>6, MetricsAre DEF CountsMove, Holding, Reporting
<1> QED
  BY <1>2, <1>5, <1>6, <1>7, CountsKept

LEMMA PermitCounts ==
    ASSUME SendInv, CountInv, NEW c \in SendCalls, Permit(c)
    PROVE  CountInv'
<1>1. calls[c] \in Call /\ calls[c].pc = "limit" /\ confirmed' = confirmed /\ confirmed \in Nat
      /\ calls[c].ok \in Nat
  BY Fields DEF SendInv, Permit
<1>2. CASE Reject(c, calls[c])
  BY <1>1, <1>2, RejectCounts
<1>3. CASE ~Reject(c, calls[c])
  <2>1. PICK topics \in 0..(Batch(calls[c]) - 1) :
           calls' = [calls EXCEPT ![c] =
                       [calls[c] EXCEPT !.pc = "service", !.topics = topics,
                                        !.left = calls[c].left - Batch(calls[c])]]
    BY <1>3 DEF Permit
  <2>2. PICK next : next = [calls[c] EXCEPT !.pc = "service", !.topics = topics,
                                            !.left = calls[c].left - Batch(calls[c])]
    OBVIOUS
  <2>3. calls' = [calls EXCEPT ![c] = next] /\ UNCHANGED metrics
    BY <1>3, <2>1, <2>2 DEF Permit
  <2>4. next.pc = "service" /\ next.size = calls[c].size /\ next.ok = calls[c].ok
    BY <1>1, <2>2 DEF Call
  <2>5. next \in Call
    <3>1. next = calls'[c]
      BY <2>3 DEF SendInv
    <3>2. SendInv'
      BY PermitKeeps
    <3> QED
      BY <3>1, <3>2 DEF SendInv
  <2> QED
    BY <1>1, <2>3, <2>4, <2>5, GoesOnCounts
<1> QED
  BY <1>2, <1>3

LEMMA AnswerCounts ==
    ASSUME SendInv, CountInv, NEW c \in SendCalls, Answer(c)
    PROVE  CountInv'
<1>1. PICK ok \in 0..Asked(calls[c]) :
         LET call == Answered(calls[c], ok)
         IN  /\ calls[c].pc = "service"
             /\ \/ /\ calls' = [calls EXCEPT ![c] = [call EXCEPT !.topics = 0]]
                   /\ UNCHANGED metrics
                \/ Reject(c, call)
                \/ /\ calls' = [calls EXCEPT ![c] = [call EXCEPT !.pc = "limit"]]
                   /\ UNCHANGED metrics
                \/ call.topics = 0 /\ call.left = 0 /\ Resolve(c, call)
             /\ confirmed' = confirmed + ok
  BY DEF Answer
<1>2. PICK call : call = Answered(calls[c], ok)
  OBVIOUS
<1>3. calls[c] \in Call /\ Asked(calls[c]) \in Nat /\ calls[c].pc = "service"
  BY <1>1 DEF SendInv
<1>4. call \in Call /\ Asked(call) = 0
  BY <1>2, <1>3, AnsweredType
<1>5. call.size = calls[c].size /\ call.ok = calls[c].ok + ok /\ call.pc = "service"
  BY <1>2, <1>3 DEF Answered, Call
<1>6. /\ confirmed' \in Nat /\ confirmed' + calls[c].ok = confirmed + call.ok
      /\ calls[c].ok \in Nat
  <2>1. ok \in Nat /\ confirmed \in Nat /\ calls[c].ok \in Nat /\ confirmed' = confirmed + ok
    BY <1>1, <1>3, Fields DEF SendInv
  <2> QED
    BY <1>5, <2>1
<1>7. CASE Reject(c, call)
  BY <1>3, <1>4, <1>5, <1>6, <1>7, RejectCounts
<1>8. CASE call.topics = 0 /\ call.left = 0 /\ Resolve(c, call)
  <2>1. call.size \in Nat /\ call.ok \in Nat /\ call.bad \in Nat
        /\ call.size - call.ok - call.bad - call.left - call.topics = 0
    BY <1>4, Fields DEF Asked
  <2>2. call.size = call.ok + call.bad
    BY <1>8, <2>1
  <2> QED
    BY <1>3, <1>4, <1>5, <1>6, <1>8, <2>2, ResolveCounts
<1>9. ASSUME NEW next \in {[call EXCEPT !.topics = 0], [call EXCEPT !.pc = "limit"]},
             calls' = [calls EXCEPT ![c] = next], UNCHANGED metrics
      PROVE  CountInv'
  <2>1. next.pc \in {"limit", "service"} /\ next.size = call.size /\ next.ok = call.ok
    BY <1>4, <1>5, <1>9 DEF Call
  <2>2. next = calls'[c]
    BY <1>9 DEF SendInv
  <2>3. SendInv'
    BY AnswerKeeps
  <2>4. next \in Call
    BY <2>2, <2>3 DEF SendInv
  <2> QED
    BY <1>3, <1>5, <1>6, <1>9, <2>1, <2>4, GoesOnCounts
<1> QED
  BY <1>1, <1>2, <1>7, <1>8, <1>9

LEMMA CountNext == SendInv /\ CountInv /\ [Next]_vars => CountInv'
<1> SUFFICES ASSUME SendInv, CountInv, [Next]_vars PROVE CountInv'
  OBVIOUS
<1>1. ASSUME UNCHANGED sending PROVE CountInv'
  <2>1. calls' = calls /\ metrics' = metrics /\ confirmed' = confirmed
    BY <1>1 DEF sending
  <2>2. Pending' = Pending /\ Unreported' = Unreported /\ Begun' = Begun
    BY <2>1 DEF Pending, Unreported, Begun, Sizes, Oks, InFlight, Unresolved
  <2> QED
    BY <2>1, <2>2 DEF CountInv
<1>2. ASSUME NEW c \in SendCalls, SendStep(c) PROVE CountInv'
  BY <1>2, SendBulkCounts, PermitCounts, AnswerCounts, SendToTopicCounts DEF SendStep
<1>3. ASSUME NEW l \in LifeCalls, LifeStep(l) PROVE CountInv'
  BY <1>1, <1>3, LifeStepLeavesSends
<1> QED
  BY <1>1, <1>2, <1>3 DEF Next, vars

\* PushClient with MetricsCollector: at every step the messages counted as sent
\* are those counted as success or failure, and those of the calls under way.
THEOREM CountsBalance == Spec => []MetricsBalance
<1>1. Init => SendInv /\ CountInv
  BY SendInit, CountInit
<1>2. SendInv /\ CountInv /\ [Next]_vars => (SendInv /\ CountInv)'
  BY SendNext, CountNext
<1>3. CountInv => MetricsBalance
  BY CountsMean
<1> QED
  BY <1>1, <1>2, <1>3, PTL DEF Spec

\* What the service took is reported as a success, but for the messages of calls
\* that are under way or were rejected after some of their batches.
THEOREM ServiceReported == Spec => []DeliveriesReported
<1>1. Init => SendInv /\ CountInv
  BY SendInit, CountInit
<1>2. SendInv /\ CountInv /\ [Next]_vars => (SendInv /\ CountInv)'
  BY SendNext, CountNext
<1>3. CountInv => DeliveriesReported
  BY CountsMean
<1> QED
  BY <1>1, <1>2, <1>3, PTL DEF Spec
=============================================================================
