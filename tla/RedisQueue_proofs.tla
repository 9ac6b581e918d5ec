-------------------------- MODULE RedisQueue_proofs --------------------------
(***************************************************************************)
(* What holds of the Redis queue for any number of processes, jobs,        *)
(* attempts, interventions and crashes.  StoreInv is about what the store  *)
(* and the processes may hold at all, JobInv about where each job is, and  *)
(* how often it was run.                                                   *)
(***************************************************************************)
EXTENDS RedisQueue, FiniteSetTheorems, SequenceTheorems, TLAPS

-----------------------------------------------------------------------------
(* The types.                                                              *)

(* A job that enqueue issued, n of them so far, and that has attempts left. *)
Usable(n) == {job \in Job : job.id \in 1..n /\ job.attempts < maxAttempts[job.id]}

PCs == {"idle", "rpush", "zrem", "lpop", "run", "hdel", "unfail", "del"}
           \cup InMemoryOnly

(* What a worker has in hand when it comes to each command.                *)
Fits(pc, job, n) ==
    /\ pc \in {"idle", "rpush", "lpop", "del"} \/ (job \in Job /\ job.id \in 1..n)
    /\ pc \in {"hset", "run"} => job \in Usable(n)
    /\ pc \in {"unfail", "revive"} => job.attempts = 0

WorkerState(n) == [pc : PCs, job : Job \cup {NoJob}, batch : SUBSET Usable(n),
                   keys : SUBSET Keys]

Activity(n) == {c \in WorkerState(n) : Fits(c.pc, c.job, n)}

StoreInv ==
    /\ issued \in 0..MaxJobs
    /\ pending \in Seq(Usable(issued))
    /\ delayed \subseteq Usable(issued) /\ due \subseteq delayed
    /\ processing \subseteq Usable(issued)
    /\ \A a, b \in processing : a.id = b.id => a = b
    /\ completed \subseteq 1..issued /\ failed \subseteq 1..issued
    /\ worker \in [Workers -> Activity(issued)]
    /\ paused \subseteq Workers
    /\ runs \in [Ids -> Nat]
    /\ \A id \in Ids : id > issued => runs[id] = 0

LEMMA Numbers ==
    /\ MaxJobs \in Nat
    /\ \A id \in Ids : id \in Nat /\ id > 0 /\ maxAttempts[id] \in Nat /\ maxAttempts[id] > 0
    /\ \A job \in Job : job.id \in Ids /\ job.attempts \in Nat
                        /\ job.attempts <= maxAttempts[job.id]
  BY RedisBounds, AttemptsAssumption DEF Ids, Job

LEMMA UsableJob == \A n : Usable(n) \subseteq Job
  BY DEF Usable

LEMMA UsableGrows ==
    ASSUME NEW n \in Nat PROVE Usable(n) \subseteq Usable(n + 1)
  BY Numbers DEF Usable, Ids

LEMMA Fresh ==
    ASSUME NEW n \in 0..MaxJobs, NEW id \in 1..n
    PROVE  FreshJob(id) \in Usable(n) /\ FreshJob(id).id = id /\ FreshJob(id).attempts = 0
  <1>1. id \in Ids /\ maxAttempts[id] \in Nat /\ 0 < maxAttempts[id] /\ 0 <= maxAttempts[id]
    BY Numbers DEF Ids
  <1>2. FreshJob(id) \in [id : Ids, attempts : Nat] /\ FreshJob(id).id = id
        /\ FreshJob(id).attempts = 0
    BY <1>1 DEF FreshJob
  <1> QED BY <1>1, <1>2 DEF Usable, Job

(* An entry is one job at most: what TypeOK says with a cardinality.       *)
LEMMA OneEntry ==
    ASSUME \A a, b \in processing : a.id = b.id => a = b, NEW id
    PROVE  Cardinality(Entry(id)) <= 1
  <1>1. CASE Entry(id) = {}
    <2>1. Cardinality({}) = 0
      BY FS_EmptySet
    <2> QED BY <1>1, <2>1
  <1>2. CASE Entry(id) # {}
    <2>1. PICK a : a \in Entry(id)
      BY <1>2
    <2>2. Entry(id) = {a}
      BY <2>1 DEF Entry
    <2>3. Cardinality({a}) = 1
      BY FS_Singleton
    <2> QED BY <2>2, <2>3
  <1> QED BY <1>1, <1>2

LEMMA StoreTypes == StoreInv => TypeOK
  <1> SUFFICES ASSUME StoreInv PROVE TypeOK
    OBVIOUS
  <1> USE DEF StoreInv
  <1>1. Usable(issued) \subseteq Job
    BY UsableJob
  <1>2. pending \in Seq(Job)
    BY <1>1, SeqMonotonic
  <1>3. \A id \in Ids : Cardinality(Entry(id)) <= 1
    BY OneEntry
  <1>4. 1..issued \subseteq Ids
    BY Numbers DEF Ids
  <1>5. worker \in [Workers -> WorkerState(issued)]
    BY DEF Activity
  <1>6. WorkerState(issued) \subseteq [pc : PCs, job : Job \cup {NoJob}, batch : SUBSET Job,
                                       keys : SUBSET Keys]
    BY <1>1 DEF WorkerState
  <1>7. ToSet(pending) \subseteq Usable(issued)
    BY DEF ToSet
  <1>8. \A job \in ToSet(pending) \cup delayed \cup processing :
            job.attempts < maxAttempts[job.id]
    BY <1>7 DEF Usable
  <1> QED BY <1>1, <1>2, <1>3, <1>4, <1>5, <1>6, <1>8 DEF TypeOK, PCs

-----------------------------------------------------------------------------
(* A step of worker w: it comes to the command pc with job in hand, and    *)
(* the other workers stay where they are.                                  *)

Comes(w, pc, job) ==
    /\ worker' \in [Workers -> Activity(issued)]
    /\ worker'[w].pc = pc /\ worker'[w].job = job
    /\ \A u \in Workers \ {w} : worker'[u] = worker[u]

LEMMA WorkerFields ==
    ASSUME StoreInv, NEW w \in Workers
    PROVE  /\ worker[w] \in WorkerState(issued) /\ Fits(worker[w].pc, worker[w].job, issued)
           /\ worker[w].pc \in PCs /\ worker[w].job \in Job \cup {NoJob}
           /\ worker[w].batch \subseteq Usable(issued) /\ worker[w].keys \subseteq Keys
  <1>1. worker[w] \in Activity(issued)
    BY DEF StoreInv
  <1> QED BY <1>1 DEF Activity, WorkerState

LEMMA OneComes ==
    ASSUME StoreInv, NEW w \in Workers, NEW c \in Activity(issued),
           worker' = [worker EXCEPT ![w] = c]
    PROVE  Comes(w, c.pc, c.job)
  BY DEF StoreInv, Comes

LEMMA GoesOn ==
    ASSUME StoreInv, NEW w \in Workers, NEW pc \in PCs, NEW job \in Job \cup {NoJob},
           Fits(pc, job, issued), Goes(w, pc, job)
    PROVE  Comes(w, pc, job)
  <1> DEFINE c == [worker[w] EXCEPT !.pc = pc, !.job = job]
  <1>1. worker[w] \in WorkerState(issued)
    BY WorkerFields
  <1>2. c \in WorkerState(issued) /\ c.pc = pc /\ c.job = job
    BY <1>1 DEF WorkerState
  <1>3. c \in Activity(issued)
    BY <1>2 DEF Activity
  <1>4. worker' = [worker EXCEPT ![w] = c]
    BY <1>1 DEF Goes, StoreInv, WorkerState
  <1> QED BY <1>2, <1>3, <1>4, OneComes

LEMMA RestsNow ==
    ASSUME StoreInv, NEW w \in Workers, Rests(w)
    PROVE  Comes(w, "idle", NoJob)
  <1>1. IdleWorker \in WorkerState(issued) /\ IdleWorker.pc = "idle" /\ IdleWorker.job = NoJob
    BY DEF IdleWorker, WorkerState, PCs, Keys
  <1>2. IdleWorker \in Activity(issued)
    BY <1>1 DEF Activity, Fits
  <1> QED BY <1>1, <1>2, OneComes DEF Rests

(* The list: a job added at its end, or taken from its head.               *)
LEMMA Adding ==
    ASSUME NEW n \in 0..MaxJobs, pending \in Seq(Usable(n)), NEW job \in Usable(n),
           pending' = Append(pending, job)
    PROVE  /\ pending' \in Seq(Usable(n)) /\ Len(pending) \in Nat
           /\ Len(pending') = Len(pending) + 1 /\ pending'[Len(pending) + 1] = job
           /\ \A i \in 1..Len(pending) : pending'[i] = pending[i]
  BY AppendProperties

LEMMA Taking ==
    ASSUME NEW n \in 0..MaxJobs, pending \in Seq(Usable(n)), pending # <<>>,
           pending' = Tail(pending)
    PROVE  /\ pending' \in Seq(Usable(n)) /\ Len(pending) \in Nat /\ 1 \in 1..Len(pending)
           /\ Len(pending') = Len(pending) - 1
           /\ Head(pending) = pending[1] /\ pending[1] \in Usable(n)
           /\ \A i \in 1..Len(pending') : pending'[i] = pending[i + 1]
  BY HeadTailProperties

-----------------------------------------------------------------------------
(* The types, one lemma per action.                                        *)

LEMMA StoreKept ==
    ASSUME StoreInv, UNCHANGED issued, worker' \in [Workers -> Activity(issued)],
           pending' \in Seq(Usable(issued)),
           delayed' \subseteq Usable(issued), due' \subseteq delayed',
           processing' \subseteq Usable(issued),
           \A a, b \in processing' : a.id = b.id => a = b,
           completed' \subseteq 1..issued, failed' \subseteq 1..issued,
           paused' \subseteq Workers, runs' \in [Ids -> Nat],
           \A id \in Ids : id > issued => runs'[id] = 0
    PROVE  StoreInv'
  BY DEF StoreInv

(* When only the worker moves.                                             *)
LEMMA OnlyMoves ==
    ASSUME StoreInv, NEW w \in Workers, NEW pc, NEW job, Comes(w, pc, job),
           UNCHANGED <<issued, store, runs>>, paused' \subseteq Workers
    PROVE  StoreInv'
  BY StoreKept DEF StoreInv, store, Comes

LEMMA MovedTwiceTypes ==
    ASSUME StoreInv, NEW ids, MovedTwice(ids)
    PROVE  /\ runs' \in [Ids -> Nat]
           /\ \A id \in Ids : id > issued => runs'[id] = 0
           /\ \A id \in Ids : runs'[id] = IF id \in ids THEN 0 ELSE runs[id]
  <1>1. \A id \in Ids : runs'[id] = IF id \in ids THEN 0 ELSE runs[id]
    BY DEF MovedTwice
  <1>2. \A id \in Ids : runs[id] \in Nat
    BY DEF StoreInv
  <1>3. runs' \in [Ids -> Nat]
    BY <1>2 DEF MovedTwice
  <1> QED BY <1>1, <1>3 DEF StoreInv

LEMMA EnqueueStore ==
    ASSUME StoreInv, NEW later \in BOOLEAN, Enqueue(later) PROVE StoreInv'
  <1> DEFINE n == issued + 1
  <1>1. n \in 0..MaxJobs /\ issued \in Nat /\ 1..issued \subseteq 1..n /\ n \in 1..n
        /\ issued' = n /\ n \in Ids
    BY Numbers DEF Enqueue, StoreInv, Ids
  <1>2. Usable(issued) \subseteq Usable(n)
    BY <1>1, UsableGrows
  <1>3. FreshJob(n) \in Usable(n)
    BY <1>1, Fresh
  <1>4. pending \in Seq(Usable(n))
    BY <1>2, SeqMonotonic DEF StoreInv
  <1>5. pending' \in Seq(Usable(n)) /\ delayed' \subseteq Usable(n) /\ due' \subseteq delayed'
    <2>1. delayed \subseteq Usable(n) /\ due \subseteq delayed
      BY <1>2 DEF StoreInv
    <2>2. Append(pending, FreshJob(n)) \in Seq(Usable(n))
      BY <1>3, <1>4, AppendProperties
    <2>3. due' = due
      BY DEF Enqueue
    <2> HIDE DEF n
    <2>4. CASE later
      BY <1>3, <1>4, <2>1, <2>3, <2>4 DEF Enqueue, n
    <2>5. CASE ~later
      BY <2>1, <2>2, <2>3, <2>5 DEF Enqueue, n
    <2> QED BY <2>4, <2>5
  <1>6. processing' \subseteq Usable(n) /\ completed' \subseteq 1..n /\ failed' \subseteq 1..n
    BY <1>1, <1>2 DEF Enqueue, StoreInv
  <1>7. WorkerState(issued) \subseteq WorkerState(n)
    BY <1>2 DEF WorkerState
  <1>8. \A c \in WorkerState(issued) : Fits(c.pc, c.job, issued) => Fits(c.pc, c.job, n)
    BY <1>1, <1>2 DEF Fits
  <1>9. Activity(issued) \subseteq Activity(n)
    BY <1>7, <1>8 DEF Activity
  <1>10. worker' \in [Workers -> Activity(n)]
    BY <1>9 DEF Enqueue, StoreInv
  <1>11. \A id \in Ids : id > n => runs'[id] = 0
    BY <1>1, Numbers DEF Enqueue, StoreInv, history
  <1>12. /\ \A a, b \in processing' : a.id = b.id => a = b
         /\ paused' \subseteq Workers /\ runs' \in [Ids -> Nat]
    BY DEF Enqueue, StoreInv, history
  <1> HIDE DEF n
  <1> QED BY <1>1, <1>5, <1>6, <1>10, <1>11, <1>12 DEF StoreInv

LEMMA BecomeDueStore ==
    ASSUME StoreInv, NEW job \in delayed, BecomeDue(job) PROVE StoreInv'
  BY StoreKept DEF StoreInv, BecomeDue, history

LEMMA SetPausedStore ==
    ASSUME StoreInv, NEW w \in Workers, SetPaused(w) PROVE StoreInv'
  BY StoreKept DEF StoreInv, SetPaused, history, store

(* dequeue looks for due jobs: the worker still has none in hand.          *)
LEMMA DequeueComes ==
    ASSUME StoreInv, NEW w \in Workers, Dequeue(w)
    PROVE  \E pc \in {"lpop", "rpush"} : Comes(w, pc, worker[w].job)
  <1> DEFINE pc == IF due = {} THEN "lpop" ELSE "rpush"
             c == [worker[w] EXCEPT !.pc = pc, !.batch = due]
  <1>1. worker[w] \in WorkerState(issued)
    BY WorkerFields
  <1>2. pc \in {"lpop", "rpush"} /\ pc \in PCs /\ due \subseteq Usable(issued)
    BY DEF PCs, StoreInv
  <1> HIDE DEF pc
  <1>3. c \in WorkerState(issued) /\ c.pc = pc /\ c.job = worker[w].job
    BY <1>1, <1>2 DEF WorkerState
  <1>4. Fits(c.pc, c.job, issued)
    BY <1>2, <1>3 DEF Fits
  <1>5. c \in Activity(issued)
    BY <1>3, <1>4 DEF Activity
  <1>6. worker' = [worker EXCEPT ![w] = c]
    BY <1>1 DEF Dequeue, StoreInv, WorkerState, pc
  <1> QED BY <1>2, <1>3, <1>5, <1>6, OneComes

LEMMA DequeueStore ==
    ASSUME StoreInv, NEW w \in Workers, Dequeue(w) PROVE StoreInv'
  <1>1. PICK pc \in {"lpop", "rpush"} : Comes(w, pc, worker[w].job)
    BY DequeueComes
  <1>2. UNCHANGED <<issued, store, runs>> /\ paused' \subseteq Workers
    BY DEF Dequeue, history, StoreInv
  <1> QED BY <1>1, <1>2, OnlyMoves

LEMMA PromoteStore ==
    ASSUME StoreInv, NEW w \in Workers, NEW job \in worker[w].batch, Promote(w, job)
    PROVE  StoreInv' /\ Comes(w, "zrem", job)
  <1>1. job \in Usable(issued)
    BY WorkerFields
  <1>2. job \in Job /\ job.id \in 1..issued
    BY <1>1 DEF Usable
  <1>3. Comes(w, "zrem", job)
    BY <1>2, GoesOn DEF Promote, Fits, PCs
  <1>4. pending' \in Seq(Usable(issued))
    BY <1>1, Adding DEF Promote, StoreInv
  <1>5. /\ runs' \in [Ids -> Nat]
        /\ \A id \in Ids : id > issued => runs'[id] = 0
    BY MovedTwiceTypes DEF Promote
  <1> QED BY <1>3, <1>4, <1>5, StoreKept DEF Promote, StoreInv, Comes

LEMMA UnlistStore ==
    ASSUME StoreInv, NEW w \in Workers, Unlist(w)
    PROVE  StoreInv' /\ \E pc \in {"lpop", "rpush"} : Comes(w, pc, NoJob)
  <1> DEFINE rest == worker[w].batch \ {worker[w].job}
             pc == IF rest = {} THEN "lpop" ELSE "rpush"
             c == [pc |-> pc, job |-> NoJob, batch |-> rest, keys |-> {}]
  <1>1. rest \subseteq Usable(issued)
    BY WorkerFields
  <1>2. pc \in {"lpop", "rpush"} /\ pc \in PCs
    BY DEF PCs
  <1>3. worker' = [worker EXCEPT ![w] = c]
    BY DEF Unlist
  <1> HIDE DEF rest, pc
  <1>4. c \in WorkerState(issued) /\ c.pc = pc /\ c.job = NoJob
    BY <1>1, <1>2 DEF WorkerState
  <1>5. c \in Activity(issued)
    BY <1>2, <1>4 DEF Activity, Fits
  <1>6. Comes(w, pc, NoJob)
    BY <1>3, <1>4, <1>5, OneComes
  <1>7. StoreInv'
    BY <1>6, StoreKept DEF Unlist, StoreInv, Comes, history
  <1> QED BY <1>2, <1>6, <1>7

(* lpop: of an empty list, and of one that is not.                         *)
LEMMA PopNothingStore ==
    ASSUME StoreInv, NEW w \in Workers, Pop(w), pending = <<>>
    PROVE  StoreInv' /\ Comes(w, "idle", NoJob)
  <1>1. Comes(w, "idle", NoJob)
    BY RestsNow DEF Pop
  <1> QED BY <1>1, OnlyMoves DEF Pop, store, history, StoreInv

LEMMA PopStore ==
    ASSUME StoreInv, NEW w \in Workers, Pop(w), pending # <<>>
    PROVE  /\ StoreInv' /\ Comes(w, "hset", pending[1])
           /\ pending[1] \in Usable(issued)
  <1>1. /\ pending' \in Seq(Usable(issued))
        /\ Head(pending) = pending[1] /\ pending[1] \in Usable(issued)
    BY Taking DEF Pop, StoreInv
  <1>2. pending[1] \in Job /\ pending[1].id \in 1..issued
    BY <1>1 DEF Usable
  <1>3. Comes(w, "hset", pending[1])
    BY <1>1, <1>2, GoesOn DEF Pop, Fits, PCs, InMemoryOnly
  <1> QED BY <1>1, <1>3, StoreKept DEF Pop, StoreInv, Comes, history

(* The worker that holds a job has it in hand.                             *)
LEMMA InHand ==
    ASSUME StoreInv, NEW w \in Workers, worker[w].pc \notin {"idle", "rpush", "lpop", "del"}
    PROVE  /\ worker[w].job \in Job /\ worker[w].job.id \in 1..issued
           /\ worker[w].job.id \in Ids /\ worker[w].job.attempts \in Nat
           /\ worker[w].pc \in {"hset", "run"} => worker[w].job \in Usable(issued)
           /\ worker[w].pc \in {"unfail", "revive"} => worker[w].job.attempts = 0
  BY WorkerFields, Numbers DEF Fits

LEMMA RegisterStore ==
    ASSUME StoreInv, NEW w \in Workers, Register(w)
    PROVE  StoreInv' /\ Comes(w, "run", worker[w].job)
  <1> DEFINE job == worker[w].job
  <1>1. job \in Job /\ job.id \in 1..issued /\ job.id \in Ids /\ job \in Usable(issued)
    BY InHand DEF Register, At
  <1> HIDE DEF job
  <1>2. Comes(w, "run", job)
    BY <1>1, GoesOn DEF Register, Fits, PCs, job
  <1>3. processing' = (processing \ Entry(job.id)) \cup {job}
    BY DEF Register, job
  <1>4. \A a, b \in processing' : a.id = b.id => a = b
    BY <1>3 DEF Entry, StoreInv
  <1>5. processing' \subseteq Usable(issued)
    BY <1>1, <1>3 DEF StoreInv
  <1>6. /\ runs' \in [Ids -> Nat]
        /\ \A id \in Ids : id > issued => runs'[id] = 0
    <2>1. runs \in [Ids -> Nat]
      BY DEF StoreInv
    <2>2. runs' = [runs EXCEPT ![job.id] = IF job.id \in doubled THEN 0 ELSE runs[job.id] + 1]
      BY DEF Register, job
    <2>3. \A id \in Ids : id # job.id => runs'[id] = runs[id]
      BY <2>1, <2>2
    <2>4. job.id \in Ids => ~(job.id > issued)
      BY <1>1, Numbers DEF StoreInv
    <2> QED BY <1>1, <2>1, <2>2, <2>3, <2>4 DEF StoreInv
  <1>7. StoreInv'
    BY <1>2, <1>4, <1>5, <1>6, StoreKept DEF Register, StoreInv, Comes
  <1> QED BY <1>2, <1>7 DEF job

(* A job leaves processing and stays with its worker.                      *)
LEMMA Withdrawn ==
    ASSUME StoreInv, NEW w \in Workers, NEW pc, NEW job, Comes(w, pc, job),
           processing' = processing \ Entry(worker[w].job.id),
           UNCHANGED <<pending, delayed, due, completed, failed, issued, paused, history>>
    PROVE  StoreInv'
  BY StoreKept DEF StoreInv, Comes, history

LEMMA CompleteStore ==
    ASSUME StoreInv, NEW w \in Workers, Complete(w)
    PROVE  StoreInv' /\ Comes(w, "sadd", worker[w].job)
  <1>1. Comes(w, "sadd", worker[w].job)
    BY InHand, GoesOn DEF Complete, Fits, PCs, At, InMemoryOnly
  <1> QED BY <1>1, Withdrawn DEF Complete

LEMMA RecordCompletedStore ==
    ASSUME StoreInv, NEW w \in Workers, RecordCompleted(w)
    PROVE  StoreInv' /\ Comes(w, "idle", NoJob)
  <1>1. Comes(w, "idle", NoJob)
    BY RestsNow DEF RecordCompleted
  <1>2. worker[w].job.id \in 1..issued
    BY InHand DEF RecordCompleted, At
  <1> QED BY <1>1, <1>2, StoreKept DEF RecordCompleted, StoreInv, Comes, history

(* fail: without the entry, and with it.                                   *)
LEMMA FailNothingStore ==
    ASSUME StoreInv, NEW w \in Workers, Rests(w),
           UNCHANGED <<store, issued, paused, interventions, history>>
    PROVE  StoreInv' /\ Comes(w, "idle", NoJob)
  <1>1. Comes(w, "idle", NoJob)
    BY RestsNow
  <1> QED BY <1>1, OnlyMoves DEF history, StoreInv

LEMMA FailStore ==
    ASSUME StoreInv, NEW w \in Workers, At(w, "run"), NEW job \in Entry(worker[w].job.id),
           Goes(w, "hdel", [job EXCEPT !.attempts = @ + 1]),
           UNCHANGED <<store, issued, paused, interventions, history>>
    PROVE  /\ StoreInv' /\ Comes(w, "hdel", [job EXCEPT !.attempts = @ + 1])
           /\ [job EXCEPT !.attempts = @ + 1].id = worker[w].job.id
           /\ [job EXCEPT !.attempts = @ + 1].attempts = job.attempts + 1
           /\ job.attempts \in Nat
  <1> DEFINE more == [job EXCEPT !.attempts = job.attempts + 1]
  <1>1. job \in Usable(issued) /\ job.id = worker[w].job.id
    BY DEF Entry, StoreInv
  <1>2. job \in [id : Ids, attempts : Nat] /\ job.attempts < maxAttempts[job.id]
        /\ job.id \in Ids /\ job.id \in 1..issued
    BY <1>1 DEF Usable, Job
  <1>3. more \in [id : Ids, attempts : Nat] /\ more.id = job.id
        /\ more.attempts = job.attempts + 1
    BY <1>2
  <1>4. more.attempts <= maxAttempts[more.id]
    BY <1>2, <1>3, Numbers
  <1> HIDE DEF more
  <1>5. more \in Job
    BY <1>3, <1>4 DEF Job
  <1>6. Comes(w, "hdel", more)
    BY <1>2, <1>3, <1>5, GoesOn DEF Fits, PCs, more
  <1>7. StoreInv'
    BY <1>6, OnlyMoves DEF history, StoreInv
  <1> QED BY <1>1, <1>2, <1>3, <1>6, <1>7 DEF more

LEMMA TakeBackStore ==
    ASSUME StoreInv, NEW w \in Workers, TakeBack(w)
    PROVE  StoreInv' /\ Comes(w, "requeue", worker[w].job)
  <1>1. Comes(w, "requeue", worker[w].job)
    BY InHand, GoesOn DEF TakeBack, Fits, PCs, At, InMemoryOnly
  <1> QED BY <1>1, Withdrawn DEF TakeBack

LEMMA RequeueStore ==
    ASSUME StoreInv, NEW w \in Workers, Requeue(w)
    PROVE  StoreInv' /\ Comes(w, "idle", NoJob)
  <1> DEFINE job == worker[w].job
  <1>1. Comes(w, "idle", NoJob)
    BY RestsNow DEF Requeue
  <1>2. job \in Job /\ job.id \in 1..issued /\ job.id \in Ids /\ job.attempts \in Nat
    BY InHand DEF Requeue, At
  <1>3. UNCHANGED <<pending, processing, completed, issued, paused>>
    BY DEF Requeue
  <1> HIDE DEF job
  <1>4. CASE /\ failed' = failed \cup {job.id}
             /\ UNCHANGED <<delayed, due, runs, doubled>>
    BY <1>1, <1>2, <1>3, <1>4, StoreKept DEF StoreInv, Comes
  <1>5. CASE /\ ~Exhausted(job)
             /\ delayed' = delayed \cup {job} /\ due' = due \ {job}
             /\ MovedTwice(IF Unlisting(job) THEN {job.id} ELSE {})
             /\ UNCHANGED failed
    <2>1. job \in Usable(issued)
      BY <1>2, <1>5, Numbers DEF Exhausted, Usable
    <2>2. /\ runs' \in [Ids -> Nat]
          /\ \A id \in Ids : id > issued => runs'[id] = 0
      BY <1>5, MovedTwiceTypes
    <2> QED BY <1>1, <1>3, <1>5, <2>1, <2>2, StoreKept DEF StoreInv, Comes
  <1> QED BY <1>1, <1>4, <1>5 DEF Requeue, job

LEMMA RetryStore ==
    ASSUME StoreInv, NEW w \in Workers, NEW id \in failed, Retry(w, id)
    PROVE  StoreInv' /\ Comes(w, "unfail", FreshJob(id))
  <1>1. id \in 1..issued
    BY DEF StoreInv
  <1>2. /\ FreshJob(id) \in Job /\ FreshJob(id).id \in 1..issued
        /\ FreshJob(id).attempts = 0
    BY <1>1, Fresh, UsableJob DEF StoreInv
  <1>3. Comes(w, "unfail", FreshJob(id))
    BY <1>2, GoesOn DEF Retry, Fits, PCs
  <1> QED BY <1>3, OnlyMoves DEF Retry, history, StoreInv

LEMMA UnfailStore ==
    ASSUME StoreInv, NEW w \in Workers, Unfail(w)
    PROVE  StoreInv' /\ Comes(w, "revive", worker[w].job)
  <1>1. /\ worker[w].job \in Job /\ worker[w].job.id \in 1..issued
        /\ worker[w].job.attempts = 0
    BY InHand DEF Unfail, At
  <1>2. Comes(w, "revive", worker[w].job)
    BY <1>1, GoesOn DEF Unfail, Fits, PCs, At, InMemoryOnly
  <1>3. /\ runs' \in [Ids -> Nat]
        /\ \A id \in Ids : id > issued => runs'[id] = 0
    BY DEF StoreInv, Unfail
  <1> QED BY <1>2, <1>3, StoreKept DEF Unfail, StoreInv, Comes

LEMMA ReviveStore ==
    ASSUME StoreInv, NEW w \in Workers, Revive(w)
    PROVE  StoreInv' /\ Comes(w, "idle", NoJob) /\ worker[w].job \in Usable(issued)
  <1> DEFINE job == worker[w].job
  <1>1. job \in Job /\ job.id \in 1..issued /\ job.id \in Ids /\ job.attempts = 0
    BY InHand DEF Revive, At
  <1>2. job \in Usable(issued)
    BY <1>1, Numbers DEF Usable
  <1>3. Comes(w, "idle", NoJob)
    BY RestsNow DEF Revive
  <1>4. pending' \in Seq(Usable(issued))
    BY <1>2, Adding DEF Revive, StoreInv
  <1> QED BY <1>2, <1>3, <1>4, StoreKept DEF Revive, StoreInv, Comes, history

LEMMA ListKeysStore ==
    ASSUME StoreInv, NEW w \in Workers, ListKeys(w)
    PROVE  StoreInv' /\ Comes(w, "del", worker[w].job)
  <1> DEFINE present == {key \in Keys : Under(key) # {}}
             c == [worker[w] EXCEPT !.pc = "del", !.keys = present]
  <1>1. worker[w] \in WorkerState(issued)
    BY WorkerFields
  <1>2. present \subseteq Keys
    OBVIOUS
  <1>3. worker' = [worker EXCEPT ![w].pc = "del", ![w].keys = present]
    BY DEF ListKeys
  <1> HIDE DEF present
  <1>4. c \in WorkerState(issued) /\ c.pc = "del" /\ c.job = worker[w].job
    BY <1>1, <1>2 DEF WorkerState, PCs
  <1>5. c \in Activity(issued)
    BY <1>4 DEF Activity, Fits
  <1>6. worker' = [worker EXCEPT ![w] = c]
    BY <1>1, <1>3 DEF StoreInv, WorkerState
  <1>7. Comes(w, "del", worker[w].job)
    BY <1>4, <1>5, <1>6, OneComes
  <1> QED BY <1>7, OnlyMoves DEF ListKeys, history, StoreInv

LEMMA DeleteKeysStore ==
    ASSUME StoreInv, NEW w \in Workers, DeleteKeys(w)
    PROVE  StoreInv' /\ Comes(w, "idle", NoJob)
  <1>1. Comes(w, "idle", NoJob)
    BY RestsNow DEF DeleteKeys
  <1>2. pending' \in {pending, <<>>} /\ pending' \in Seq(Usable(issued))
    BY DEF DeleteKeys, StoreInv
  <1>3. /\ delayed' \subseteq Usable(issued) /\ due' \subseteq delayed'
        /\ processing' \subseteq processing
        /\ completed' \subseteq 1..issued /\ failed' \subseteq 1..issued
    BY DEF DeleteKeys, StoreInv
  <1> QED BY <1>1, <1>2, <1>3, StoreKept DEF DeleteKeys, StoreInv, Comes

LEMMA CrashStore ==
    ASSUME StoreInv, NEW w \in Workers, Crash(w)
    PROVE  StoreInv' /\ Comes(w, "idle", NoJob)
  <1>1. Comes(w, "idle", NoJob)
    BY RestsNow DEF Crash
  <1>2. /\ runs' \in [Ids -> Nat]
        /\ \A id \in Ids : id > issued => runs'[id] = 0
    BY MovedTwiceTypes DEF Crash
  <1> QED BY <1>1, <1>2, StoreKept DEF Crash, StoreInv, Comes, store

LEMMA StoreInit == Init => StoreInv
  <1> SUFFICES ASSUME Init PROVE StoreInv
    OBVIOUS
  <1>1. 0 \in 0..MaxJobs /\ issued = 0
    BY Numbers DEF Init
  <1>2. IdleWorker \in WorkerState(0) /\ IdleWorker.pc = "idle"
    BY DEF IdleWorker, WorkerState, PCs, Keys
  <1>3. IdleWorker \in Activity(0)
    BY <1>2 DEF Activity, Fits
  <1>4. pending \in Seq(Usable(0))
    BY DEF Init
  <1> QED BY <1>1, <1>3, <1>4 DEF Init, StoreInv

LEMMA StoreStep == StoreInv /\ [Next]_vars => StoreInv'
  <1> SUFFICES ASSUME StoreInv, [Next]_vars PROVE StoreInv'
    OBVIOUS
  <1>1. CASE UNCHANGED vars
    BY <1>1, StoreKept DEF vars, store, history, StoreInv
  <1>2. ASSUME NEW later \in BOOLEAN, Enqueue(later) PROVE StoreInv'
    BY <1>2, EnqueueStore
  <1>3. ASSUME NEW job \in delayed, BecomeDue(job) PROVE StoreInv'
    BY <1>3, BecomeDueStore
  <1>4. ASSUME NEW w \in Workers, Step(w) PROVE StoreInv'
    <2>1. CASE Dequeue(w) BY <2>1, DequeueStore
    <2>2. CASE \E job \in worker[w].batch : Promote(w, job) BY <2>2, PromoteStore
    <2>3. CASE Unlist(w) BY <2>3, UnlistStore
    <2>4. CASE Pop(w) BY <2>4, PopStore, PopNothingStore
    <2>5. CASE Register(w) BY <2>5, RegisterStore
    <2>6. CASE Complete(w) BY <2>6, CompleteStore
    <2>7. CASE RecordCompleted(w) BY <2>7, RecordCompletedStore
    <2>8. CASE Fail(w) BY <2>8, FailStore, FailNothingStore DEF Fail
    <2>9. CASE TakeBack(w) BY <2>9, TakeBackStore
    <2>10. CASE Requeue(w) BY <2>10, RequeueStore
    <2>11. CASE \E id \in failed : Retry(w, id) BY <2>11, RetryStore
    <2>12. CASE Unfail(w) BY <2>12, UnfailStore
    <2>13. CASE Revive(w) BY <2>13, ReviveStore
    <2>14. CASE ListKeys(w) BY <2>14, ListKeysStore
    <2>15. CASE DeleteKeys(w) BY <2>15, DeleteKeysStore
    <2>16. CASE SetPaused(w) BY <2>16, SetPausedStore
    <2> QED BY <1>4, <2>1, <2>2, <2>3, <2>4, <2>5, <2>6, <2>7, <2>8, <2>9, <2>10,
               <2>11, <2>12, <2>13, <2>14, <2>15, <2>16 DEF Step
  <1>5. ASSUME NEW w \in Workers, Crash(w) PROVE StoreInv'
    BY <1>5, CrashStore
  <1> QED BY <1>1, <1>2, <1>3, <1>4, <1>5 DEF Next

(* The store and the processes hold what their declarations say, no id has *)
(* two entries in processing, and no job in the store has used up its      *)
(* attempts.                                                               *)
THEOREM RedisTypes == Spec => []TypeOK
  <1>1. Spec => []StoreInv
    BY StoreInit, StoreStep, PTL DEF Spec
  <1> QED BY <1>1, StoreTypes, PTL

-----------------------------------------------------------------------------
(* Where a job is.                                                         *)

HoldPCs == {"run", "hdel"} \cup InMemoryOnly

Single(S) == \A a, b \in S : a = b

Waits(id) == {i \in 1..Len(pending) : pending[i].id = id}

(* Delayed, and not being taken out.                                       *)
Delayed(id) == {job \in delayed : job.id = id /\ ~Unlisting(job)}

(* At most one of five places.                                             *)
AtMostOne(p, d, h, f, c) ==
    /\ p => ~d /\ ~h /\ ~f /\ ~c
    /\ d => ~h /\ ~f /\ ~c
    /\ h => ~f /\ ~c
    /\ ~(f /\ c)

Sole(id) ==
    /\ Single(Waits(id)) /\ Single(Delayed(id)) /\ Single(Holders(id))
    /\ AtMostOne(Waits(id) # {}, Delayed(id) # {}, Holders(id) # {},
                 id \in failed, id \in completed)

(* The runs since the job was enqueued or retried are those its attempts   *)
(* count, and the one of a worker that has not reported it yet.            *)
HolderCounts(id, c) ==
    /\ c.pc \in {"hset", "hdel", "requeue", "revive"} => runs[id] <= c.job.attempts
    /\ c.pc = "run" => runs[id] <= c.job.attempts + 1 /\ Entry(id) \subseteq {c.job}

Counts(id) ==
    /\ runs[id] <= maxAttempts[id]
    /\ \A i \in Waits(id) : runs[id] <= pending[i].attempts
    /\ \A job \in Delayed(id) : runs[id] <= job.attempts
    /\ \A w \in Holders(id) : HolderCounts(id, worker[w])

(* Whoever runs a job finds it in processing, until it is cleared.         *)
Backed(id) == \A w \in Holders(id) : worker[w].pc \in {"run", "hdel"} => Entry(id) # {}

Kept(id) == \/ Waits(id) # {} \/ Delayed(id) # {} \/ Holders(id) # {}
            \/ id \in failed \/ id \in completed \/ Entry(id) # {}

JobOK(id) ==
    id \notin doubled =>
        /\ Sole(id) /\ Counts(id)
        /\ id \notin cleared => Backed(id)
        /\ id <= issued /\ id \notin cleared \cup orphaned => Kept(id)

JobInv == \A id \in Ids : JobOK(id)

-----------------------------------------------------------------------------
(* What a step of worker w does to the places.                             *)

LEMMA HolderJoins ==
    ASSUME NEW w \in Workers, NEW pc \in HoldPCs, NEW job, Comes(w, pc, job)
    PROVE  Holders(job.id)' = Holders(job.id) \cup {w}
  BY DEF Holders, Comes, HoldPCs, InMemoryOnly

LEMMA HolderLeaves ==
    ASSUME NEW w \in Workers, NEW pc, NEW job, Comes(w, pc, job), NEW id,
           pc \notin HoldPCs \/ job.id # id
    PROVE  Holders(id)' = Holders(id) \ {w}
  BY DEF Holders, Comes, HoldPCs, InMemoryOnly

LEMMA HolderOf ==
    ASSUME NEW w \in Workers, NEW id
    PROVE  w \in Holders(id) <=> worker[w].job.id = id /\ worker[w].pc \in HoldPCs
  BY DEF Holders, HoldPCs

(* A worker that neither leaves nor comes to zrem.                         *)
LEMMA UnlistingStays ==
    ASSUME NEW w \in Workers, NEW pc, NEW job, Comes(w, pc, job),
           ~At(w, "zrem"), pc # "zrem", NEW j
    PROVE  Unlisting(j)' <=> Unlisting(j)
  BY DEF Unlisting, At, Comes

LEMMA UnlistingEnds ==
    ASSUME NEW w \in Workers, NEW pc, NEW job, Comes(w, pc, job), pc # "zrem",
           NEW j, j # worker[w].job
    PROVE  Unlisting(j)' <=> Unlisting(j)
  BY DEF Unlisting, At, Comes

LEMMA UnlistingBegins ==
    ASSUME NEW w \in Workers, NEW job, Comes(w, "zrem", job), ~At(w, "zrem"), NEW j
    PROVE  Unlisting(j)' <=> Unlisting(j) \/ j = job
  BY DEF Unlisting, At, Comes

LEMMA DelayedStays ==
    ASSUME NEW w \in Workers, NEW pc, NEW job, Comes(w, pc, job), NEW id,
           ~At(w, "zrem"), pc # "zrem", UNCHANGED delayed
    PROVE  Delayed(id)' = Delayed(id)
  BY UnlistingStays DEF Delayed

(* A job added to the list, and the head taken.                            *)
LEMMA WaitsMore ==
    ASSUME StoreInv, NEW job \in Usable(issued), pending' = Append(pending, job), NEW id
    PROVE  /\ Waits(id)' = IF job.id = id THEN Waits(id) \cup {Len(pending) + 1} ELSE Waits(id)
           /\ pending'[Len(pending) + 1] = job
           /\ \A i \in Waits(id) : pending'[i] = pending[i]
  <1>1. /\ Len(pending) \in Nat /\ Len(pending') = Len(pending) + 1
        /\ pending'[Len(pending) + 1] = job
        /\ \A i \in 1..Len(pending) : pending'[i] = pending[i]
    BY Adding DEF StoreInv
  <1>2. 1..(Len(pending) + 1) = 1..Len(pending) \cup {Len(pending) + 1}
        /\ Len(pending) + 1 \notin 1..Len(pending)
    BY <1>1
  <1> QED BY <1>1, <1>2 DEF Waits

LEMMA WaitsLess ==
    ASSUME StoreInv, pending # <<>>, pending' = Tail(pending), NEW id
    PROVE  /\ \A i \in Waits(id)' : i + 1 \in Waits(id) /\ pending'[i] = pending[i + 1]
                                    /\ i \in Nat /\ i + 1 # 1
           /\ Single(Waits(id)) => Single(Waits(id)')
           /\ pending[1].id # id /\ Waits(id) # {} => Waits(id)' # {}
           /\ pending[1].id = id => 1 \in Waits(id)
           /\ pending[1].id = id /\ Single(Waits(id)) => Waits(id)' = {}
  <1>1. /\ Len(pending) \in Nat /\ 1 \in 1..Len(pending)
        /\ Len(pending') = Len(pending) - 1
        /\ \A i \in 1..Len(pending') : pending'[i] = pending[i + 1]
    BY Taking DEF StoreInv
  <1>2. \A i \in 1..Len(pending') : i \in Nat /\ i + 1 \in 1..Len(pending) /\ i + 1 # 1
    BY <1>1
  <1>3. \A i \in Waits(id)' : i + 1 \in Waits(id) /\ pending'[i] = pending[i + 1]
                              /\ i \in Nat /\ i + 1 # 1
    BY <1>1, <1>2 DEF Waits
  <1>4. Single(Waits(id)) => Single(Waits(id)')
    BY <1>3 DEF Single
  <1>5. ASSUME pending[1].id # id, Waits(id) # {} PROVE Waits(id)' # {}
    <2>1. PICK i \in 1..Len(pending) : pending[i].id = id
      BY <1>5 DEF Waits
    <2>2. i # 1
      BY <1>5, <2>1
    <2>3. i - 1 \in 1..Len(pending') /\ (i - 1) + 1 = i
      BY <1>1, <2>1, <2>2
    <2>4. pending'[i - 1].id = id
      BY <1>1, <2>1, <2>3
    <2> QED BY <2>3, <2>4 DEF Waits
  <1>6. pending[1].id = id => 1 \in Waits(id)
    BY <1>1 DEF Waits
  <1> QED BY <1>3, <1>4, <1>5, <1>6 DEF Single

-----------------------------------------------------------------------------
(* A step that leaves a job where it is.                                   *)

Untouched(id) ==
    /\ \A i \in Waits(id)' : \E j \in Waits(id) : pending'[i] = pending[j]
    /\ Waits(id) # {} => Waits(id)' # {}
    /\ Single(Waits(id)) => Single(Waits(id)')
    /\ Delayed(id)' = Delayed(id)
    /\ Holders(id)' = Holders(id) /\ \A u \in Holders(id) : worker'[u] = worker[u]
    /\ id \in failed' <=> id \in failed
    /\ id \in completed' <=> id \in completed
    /\ Entry(id)' = Entry(id)
    /\ runs'[id] = runs[id]
    /\ id <= issued' => id <= issued

(* What was noted in a history stays there.                                *)
Noted == doubled \subseteq doubled' /\ cleared \subseteq cleared' /\ orphaned \subseteq orphaned'

LEMMA SoleFewer ==
    ASSUME NEW id, Sole(id), Single(Waits(id)'), Waits(id)' # {} => Waits(id) # {},
           Delayed(id)' \subseteq Delayed(id), Holders(id)' \subseteq Holders(id),
           id \in failed' => id \in failed, id \in completed' => id \in completed
    PROVE  Sole(id)'
  <1>1. Single(Delayed(id)') /\ Single(Holders(id)')
    BY DEF Sole, Single
  <1>2. AtMostOne(Waits(id) # {}, Delayed(id) # {}, Holders(id) # {},
                  id \in failed, id \in completed)
    BY DEF Sole
  <1>3. AtMostOne(Waits(id)' # {}, Delayed(id)' # {}, Holders(id)' # {},
                  id \in failed', id \in completed')
    BY <1>2 DEF AtMostOne
  <1> QED BY <1>1, <1>3 DEF Sole

LEMMA UntouchedKeeps ==
    ASSUME NEW id, JobOK(id), Untouched(id), Noted PROVE JobOK(id)'
  <1> SUFFICES ASSUME id \notin doubled'
               PROVE  /\ Sole(id)' /\ Counts(id)'
                      /\ id \notin cleared' => Backed(id)'
                      /\ id <= issued' /\ id \notin cleared' \cup orphaned' => Kept(id)'
    BY DEF JobOK
  <1>1. /\ Sole(id) /\ Counts(id)
        /\ id \notin cleared' => Backed(id)
        /\ id <= issued' /\ id \notin cleared' \cup orphaned' => Kept(id)
    BY DEF JobOK, Noted, Untouched
  <1>2. Waits(id)' # {} => Waits(id) # {}
    BY DEF Untouched
  <1>3. Sole(id)'
    BY <1>1, <1>2, SoleFewer DEF Untouched, Sole
  <1>4. Counts(id)'
    BY <1>1 DEF Counts, HolderCounts, Untouched
  <1>5. id \notin cleared' => Backed(id)'
    BY <1>1 DEF Backed, Untouched
  <1>6. id <= issued' /\ id \notin cleared' \cup orphaned' => Kept(id)'
    BY <1>1 DEF Kept, Untouched
  <1> QED BY <1>3, <1>4, <1>5, <1>6

LEMMA WaitsStay ==
    ASSUME NEW id, UNCHANGED pending
    PROVE  /\ \A i \in Waits(id)' : \E j \in Waits(id) : pending'[i] = pending[j]
           /\ Waits(id)' = Waits(id)
  BY DEF Waits

LEMMA HoldersStay ==
    ASSUME NEW w \in Workers, NEW pc, NEW job, Comes(w, pc, job), NEW id,
           w \notin Holders(id), pc \notin HoldPCs \/ job.id # id
    PROVE  Holders(id)' = Holders(id) /\ \A u \in Holders(id) : worker'[u] = worker[u]
  <1>1. Holders(id)' = Holders(id) \ {w}
    BY HolderLeaves
  <1> QED BY <1>1 DEF Comes, Holders

(* A worker that had no job in hand gets none, and the store stays.        *)
LEMMA NothingMoves ==
    ASSUME StoreInv, JobInv, NEW w \in Workers, NEW pc, NEW job, Comes(w, pc, job),
           ~At(w, "zrem"), pc # "zrem", worker[w].pc \notin HoldPCs, pc \notin HoldPCs,
           UNCHANGED <<pending, delayed, processing, completed, failed, issued, history>>
    PROVE  JobInv'
  <1> SUFFICES ASSUME NEW id \in Ids PROVE JobOK(id)'
    BY DEF JobInv
  <1>1. JobOK(id) /\ Noted
    BY DEF JobInv, Noted, history
  <1>2. Delayed(id)' = Delayed(id)
    BY DelayedStays
  <1>3. Holders(id)' = Holders(id) /\ \A u \in Holders(id) : worker'[u] = worker[u]
    BY HolderOf, HoldersStay
  <1>4. Untouched(id)
    BY <1>2, <1>3, WaitsStay DEF Untouched, Entry, history
  <1> QED BY <1>1, <1>4, UntouchedKeeps

(* An id that was not issued yet is nowhere.                               *)
LEMMA Unissued ==
    ASSUME StoreInv, NEW id \in Ids, id > issued
    PROVE  /\ Waits(id) = {} /\ Holders(id) = {} /\ {job \in delayed : job.id = id} = {}
           /\ id \notin failed /\ id \notin completed /\ Entry(id) = {} /\ runs[id] = 0
  <1>1. id \notin 1..issued /\ id # 0 /\ id \in Nat
    BY Numbers DEF StoreInv, Ids
  <1>2. \A job \in Usable(issued) : job.id # id
    BY <1>1 DEF Usable
  <1>3. Waits(id) = {} /\ {job \in delayed : job.id = id} = {} /\ Entry(id) = {}
    BY <1>2 DEF StoreInv, Waits, Entry
  <1>4. \A w \in Workers : worker[w].pc \in HoldPCs => worker[w].job.id \in 1..issued
    BY InHand DEF HoldPCs, InMemoryOnly
  <1>5. Holders(id) = {}
    BY <1>1, <1>4 DEF Holders, HoldPCs
  <1> QED BY <1>1, <1>3, <1>5 DEF StoreInv

LEMMA EnqueueJobs ==
    ASSUME StoreInv, JobInv, NEW later \in BOOLEAN, Enqueue(later) PROVE JobInv'
  <1>0. PICK n, job : n = issued + 1 /\ job = FreshJob(n)
    OBVIOUS
  <1>1. n \in Ids /\ n > issued /\ issued' = n /\ n \in 0..MaxJobs /\ n \in 1..n
        /\ \A id \in Ids : id # n /\ id <= n => id <= issued
    BY <1>0, Numbers DEF Enqueue, StoreInv, Ids
  <1>2. job \in Usable(n) /\ job.id = n /\ job.attempts = 0
    BY <1>0, <1>1, Fresh
  <1>3. UNCHANGED <<worker, processing, completed, failed, history>> /\ Noted
    BY DEF Enqueue, history, Noted
  <1>4. \A j : Unlisting(j)' <=> Unlisting(j)
    BY <1>3 DEF Unlisting, At
  <1>5. \/ pending' = Append(pending, job) /\ UNCHANGED delayed
        \/ delayed' = delayed \cup {job} /\ UNCHANGED pending
    BY <1>0 DEF Enqueue
  <1>6. StoreInv' /\ pending \in Seq(Usable(n)) /\ Len(pending) \in Nat
    <2>1. Usable(issued) \subseteq Usable(n)
      BY <1>0, UsableGrows DEF StoreInv
    <2> QED BY <2>1, EnqueueStore, SeqMonotonic DEF StoreInv
  <1>7. /\ pending' = Append(pending, job) =>
              /\ Len(pending') = Len(pending) + 1 /\ pending'[Len(pending) + 1] = job
              /\ \A i \in 1..Len(pending) : pending'[i] = pending[i]
    BY <1>1, <1>2, <1>6, Adding
  <1>8. \A i \in 1..(Len(pending) + 1) : i \in 1..Len(pending) \/ i = Len(pending) + 1
    BY <1>6
  <1> SUFFICES ASSUME NEW id \in Ids PROVE JobOK(id)'
    BY DEF JobInv
  <1>9. CASE id # n
    <2>1. Waits(id)' = Waits(id) /\ \A i \in Waits(id) : pending'[i] = pending[i]
      <3>1. CASE UNCHANGED pending
        BY <3>1 DEF Waits
      <3>2. CASE pending' = Append(pending, job)
        BY <1>2, <1>6, <1>7, <1>8, <1>9, <3>2 DEF Waits
      <3> QED BY <1>5, <3>1, <3>2
    <2>2. Delayed(id)' = Delayed(id)
      BY <1>2, <1>4, <1>5, <1>9 DEF Delayed
    <2>3. Holders(id)' = Holders(id)
      BY <1>3 DEF Holders
    <2>4. Untouched(id)
      BY <1>1, <1>3, <1>9, <2>1, <2>2, <2>3 DEF Untouched, Entry, history
    <2> QED BY <1>3, <2>4, UntouchedKeeps DEF JobInv
  <1>10. CASE id = n
    <2>1. /\ Waits(id) = {} /\ Holders(id) = {} /\ {j \in delayed : j.id = id} = {}
          /\ id \notin failed /\ id \notin completed /\ runs[id] = 0
      BY <1>1, <1>10, Unissued
    <2>2. Holders(id)' = {} /\ id \notin failed' /\ id \notin completed' /\ runs'[id] = 0
      BY <1>3, <2>1 DEF Holders, history
    <2>3. 0 <= maxAttempts[id] /\ job.id = id
      BY <1>2, <1>10, Numbers
    <2>4. ~Unlisting(job)'
      <3>1. \A w \in Workers : At(w, "zrem") => worker[w].job.id \in 1..issued
        BY InHand DEF At
      <3>2. n \notin 1..issued
        BY <1>1 DEF StoreInv
      <3>3. ~Unlisting(job)
        BY <1>2, <3>1, <3>2 DEF Unlisting
      <3> QED BY <1>4, <3>3
    <2>5. CASE pending' = Append(pending, job) /\ UNCHANGED delayed
      <3>1. Waits(id)' = {Len(pending) + 1}
        BY <1>2, <1>6, <1>7, <1>8, <1>10, <2>1, <2>5 DEF Waits
      <3>2. Delayed(id)' = {}
        BY <2>1, <2>5 DEF Delayed
      <3>3. Sole(id)'
        BY <2>2, <3>1, <3>2 DEF Sole, Single, AtMostOne
      <3>4. Counts(id)'
        BY <1>2, <1>7, <2>2, <2>3, <2>5, <3>1, <3>2, <1>3 DEF Counts, history
      <3> QED BY <2>2, <3>1, <3>3, <3>4 DEF JobOK, Backed, Kept
    <2>6. CASE delayed' = delayed \cup {job} /\ UNCHANGED pending
      <3>1. Waits(id)' = {}
        BY <2>1, <2>6 DEF Waits
      <3>2. Delayed(id)' = {job}
        BY <2>1, <2>3, <2>4, <2>6 DEF Delayed
      <3>3. Sole(id)'
        BY <2>2, <3>1, <3>2 DEF Sole, Single, AtMostOne
      <3>4. Counts(id)'
        BY <1>2, <2>2, <2>3, <3>1, <3>2, <1>3 DEF Counts, history
      <3> QED BY <2>2, <3>2, <3>3, <3>4 DEF JobOK, Backed, Kept
    <2> QED BY <1>5, <2>5, <2>6
  <1> QED BY <1>9, <1>10

-----------------------------------------------------------------------------
(* The jobs, one lemma per action.                                         *)

LEMMA PromoteJobs ==
    ASSUME StoreInv, JobInv, NEW w \in Workers, NEW job \in worker[w].batch, Promote(w, job)
    PROVE  JobInv'
  <1>1. Comes(w, "zrem", job) /\ job \in Usable(issued) /\ ~At(w, "zrem")
        /\ worker[w].pc \notin HoldPCs /\ "zrem" \notin HoldPCs
    BY PromoteStore, WorkerFields DEF Promote, At, HoldPCs, InMemoryOnly
  <1>2. pending' = Append(pending, job)
        /\ UNCHANGED <<delayed, processing, completed, failed, issued, cleared, orphaned>>
    BY DEF Promote
  <1> DEFINE twice == IF job \notin delayed \/ Unlisting(job) THEN {job.id} ELSE {}
  <1>3. /\ doubled' = doubled \cup twice
        /\ \A id \in Ids : runs'[id] = IF id \in twice THEN 0 ELSE runs[id]
    BY MovedTwiceTypes DEF Promote, MovedTwice
  <1>4. Noted
    BY <1>2, <1>3 DEF Noted
  <1> SUFFICES ASSUME NEW id \in Ids PROVE JobOK(id)'
    BY DEF JobInv
  <1>5. /\ Waits(id)' = IF job.id = id THEN Waits(id) \cup {Len(pending) + 1} ELSE Waits(id)
        /\ pending'[Len(pending) + 1] = job
        /\ \A i \in Waits(id) : pending'[i] = pending[i]
    BY <1>1, <1>2, WaitsMore
  <1>6. \A j : Unlisting(j)' <=> Unlisting(j) \/ j = job
    BY <1>1, UnlistingBegins
  <1>7. Holders(id)' = Holders(id) /\ \A u \in Holders(id) : worker'[u] = worker[u]
    BY <1>1, HolderOf, HoldersStay
  <1>8. CASE id # job.id
    <2>1. Delayed(id)' = Delayed(id)
      BY <1>2, <1>6, <1>8 DEF Delayed
    <2>2. Untouched(id)
      BY <1>2, <1>3, <1>5, <1>7, <1>8, <2>1 DEF Untouched, Entry
    <2> QED BY <1>4, <2>2, UntouchedKeeps DEF JobInv
  <1>9. CASE id = job.id
    <2> SUFFICES ASSUME id \notin doubled' PROVE JobOK(id)'
      BY DEF JobOK
    <2>1. id \notin doubled /\ job \in delayed /\ ~Unlisting(job) /\ runs'[id] = runs[id]
      BY <1>3, <1>9
    <2>2. job \in Delayed(id) /\ Sole(id) /\ Counts(id)
      BY <1>9, <2>1 DEF Delayed, JobInv, JobOK
    <2>3. Delayed(id) = {job} /\ Waits(id) = {} /\ Holders(id) = {}
          /\ id \notin failed /\ id \notin completed
      BY <2>2 DEF Sole, Single, AtMostOne
    <2>4. Delayed(id)' = {}
      BY <1>2, <1>6, <2>3 DEF Delayed
    <2>5. Waits(id)' = {Len(pending) + 1} /\ Holders(id)' = {}
          /\ id \notin failed' /\ id \notin completed'
      BY <1>2, <1>5, <1>7, <1>9, <2>3
    <2>6. Sole(id)'
      BY <2>4, <2>5 DEF Sole, Single, AtMostOne
    <2>7. Counts(id)'
      BY <1>5, <2>1, <2>2, <2>4, <2>5 DEF Counts
    <2> QED BY <2>5, <2>6, <2>7 DEF JobOK, Backed, Kept
  <1> QED BY <1>8, <1>9

LEMMA UnlistJobs ==
    ASSUME StoreInv, JobInv, NEW w \in Workers, Unlist(w) PROVE JobInv'
  <1>1. PICK pc \in {"lpop", "rpush"} : Comes(w, pc, NoJob)
    BY UnlistStore
  <1>2. worker[w].pc = "zrem" /\ worker[w].pc \notin HoldPCs /\ pc \notin HoldPCs /\ pc # "zrem"
    BY <1>1 DEF Unlist, At, HoldPCs, InMemoryOnly
  <1>3. PICK job : job = worker[w].job
    OBVIOUS
  <1>4. /\ delayed' = delayed \ {job} /\ Unlisting(job)
        /\ UNCHANGED <<pending, processing, completed, failed, issued, history>>
    BY <1>2, <1>3 DEF Unlist, Unlisting, At
  <1> SUFFICES ASSUME NEW id \in Ids PROVE JobOK(id)'
    BY DEF JobInv
  <1>5. \A j : j # job => (Unlisting(j)' <=> Unlisting(j))
    BY <1>1, <1>2, <1>3, UnlistingEnds
  <1>6. Delayed(id)' = Delayed(id)
    BY <1>4, <1>5 DEF Delayed
  <1>7. Holders(id)' = Holders(id) /\ \A u \in Holders(id) : worker'[u] = worker[u]
    BY <1>1, <1>2, HolderOf, HoldersStay
  <1>8. Untouched(id) /\ Noted
    BY <1>4, <1>6, <1>7, WaitsStay DEF Untouched, Entry, history, Noted
  <1> QED BY <1>8, UntouchedKeeps DEF JobInv

LEMMA PopJobs ==
    ASSUME StoreInv, JobInv, NEW w \in Workers, Pop(w), pending # <<>> PROVE JobInv'
  <1>1. PICK job : job = pending[1]
    OBVIOUS
  <1>2. Comes(w, "hset", job) /\ job \in Usable(issued) /\ ~At(w, "zrem")
        /\ worker[w].pc \notin HoldPCs /\ "hset" \in HoldPCs
    BY <1>1, PopStore DEF Pop, At, HoldPCs, InMemoryOnly
  <1>3. /\ pending' = Tail(pending) /\ Noted
        /\ UNCHANGED <<delayed, processing, completed, failed, issued, history>>
    BY DEF Pop, history, Noted
  <1> SUFFICES ASSUME NEW id \in Ids PROVE JobOK(id)'
    BY DEF JobInv
  <1>4. /\ \A i \in Waits(id)' : i + 1 \in Waits(id) /\ pending'[i] = pending[i + 1]
        /\ Single(Waits(id)) => Single(Waits(id)')
        /\ job.id # id /\ Waits(id) # {} => Waits(id)' # {}
        /\ job.id = id => 1 \in Waits(id)
        /\ job.id = id /\ Single(Waits(id)) => Waits(id)' = {}
    BY <1>1, <1>3, WaitsLess
  <1>5. Delayed(id)' = Delayed(id)
    BY <1>2, <1>3, DelayedStays
  <1>6. CASE id # job.id
    <2>1. Holders(id)' = Holders(id) /\ \A u \in Holders(id) : worker'[u] = worker[u]
      BY <1>2, <1>6, HolderOf, HoldersStay
    <2>2. Untouched(id)
      BY <1>3, <1>4, <1>5, <1>6, <2>1 DEF Untouched, Entry, history
    <2> QED BY <1>3, <2>2, UntouchedKeeps DEF JobInv
  <1>7. CASE id = job.id
    <2> SUFFICES ASSUME id \notin doubled' PROVE JobOK(id)'
      BY DEF JobOK
    <2>1. Sole(id) /\ Counts(id) /\ runs'[id] = runs[id]
      BY <1>3 DEF history, JobInv, JobOK
    <2>2. 1 \in Waits(id) /\ Waits(id)' = {}
      BY <1>4, <1>7, <2>1 DEF Sole
    <2>3. Delayed(id) = {} /\ Holders(id) = {} /\ id \notin failed /\ id \notin completed
      BY <2>1, <2>2 DEF Sole, AtMostOne
    <2>4. Holders(id)' = {w}
      BY <1>2, <1>7, <2>3, HolderJoins
    <2>5. Sole(id)'
      BY <1>3, <1>5, <2>2, <2>3, <2>4 DEF Sole, Single, AtMostOne
    <2>6. worker'[w].pc = "hset" /\ worker'[w].job = job
      BY <1>2 DEF Comes
    <2>7. runs[id] <= job.attempts
      BY <1>1, <2>1, <2>2 DEF Counts
    <2>8. Counts(id)'
      BY <1>5, <2>1, <2>2, <2>3, <2>4, <2>6, <2>7 DEF Counts, HolderCounts
    <2> QED BY <2>4, <2>5, <2>6, <2>8 DEF JobOK, Backed, Kept
  <1> QED BY <1>6, <1>7

(* A worker that goes on with the job it holds, and stays its holder.      *)
LEMMA HolderGoesOn ==
    ASSUME NEW w \in Workers, NEW pc \in HoldPCs, NEW job, Comes(w, pc, job),
           worker[w].job.id = job.id, worker[w].pc \in HoldPCs, NEW id
    PROVE  /\ Holders(id)' = Holders(id)
           /\ \A u \in Holders(id) : u # w => worker'[u] = worker[u]
           /\ w \in Holders(id) <=> id = job.id
           /\ worker'[w].pc = pc /\ worker'[w].job = job
  <1>1. w \in Holders(id) <=> id = job.id
    BY HolderOf
  <1>2. CASE id = job.id
    BY <1>1, <1>2, HolderJoins DEF Comes, Holders
  <1>3. CASE id # job.id
    BY <1>1, <1>3, HolderLeaves DEF Comes, Holders
  <1> QED BY <1>1, <1>2, <1>3

(* The jobs such a step does not concern, when processing changes for its  *)
(* job only.                                                               *)
LEMMA OthersStay ==
    ASSUME StoreInv, JobInv, NEW w \in Workers, NEW pc \in HoldPCs, NEW job, Comes(w, pc, job),
           worker[w].job.id = job.id, worker[w].pc \in HoldPCs, NEW id \in Ids, id # job.id,
           UNCHANGED <<pending, delayed, completed, failed, issued>>, Noted,
           Entry(id)' = Entry(id), runs'[id] = runs[id]
    PROVE  JobOK(id)'
  <1>1. ~At(w, "zrem") /\ pc # "zrem"
    BY DEF At, HoldPCs, InMemoryOnly
  <1>2. Delayed(id)' = Delayed(id)
    BY <1>1, DelayedStays
  <1>3. Holders(id)' = Holders(id) /\ \A u \in Holders(id) : worker'[u] = worker[u]
    BY HolderGoesOn
  <1>4. Untouched(id)
    BY <1>2, <1>3, WaitsStay DEF Untouched
  <1> QED BY <1>4, UntouchedKeeps DEF JobInv

(* And its own job, which is held by this worker alone.                    *)
LEMMA OwnJob ==
    ASSUME StoreInv, JobInv, NEW w \in Workers, NEW pc \in HoldPCs, NEW job, Comes(w, pc, job),
           NEW id \in Ids, id = job.id, worker[w].job.id = job.id, worker[w].pc \in HoldPCs,
           UNCHANGED <<pending, delayed, completed, failed, issued>>, Noted,
           id \notin doubled'
    PROVE  /\ Holders(id) = {w} /\ Holders(id)' = {w}
           /\ Waits(id) = {} /\ Delayed(id) = {} /\ Waits(id)' = {} /\ Delayed(id)' = {}
           /\ worker'[w].pc = pc /\ worker'[w].job = job
           /\ Sole(id)' /\ Kept(id)' /\ Counts(id)
           /\ id \notin cleared' => Backed(id)
  <1>1. Sole(id) /\ Counts(id) /\ (id \notin cleared' => Backed(id))
    BY DEF Noted, JobInv, JobOK
  <1>2. Holders(id)' = Holders(id) /\ w \in Holders(id)
        /\ worker'[w].pc = pc /\ worker'[w].job = job
    BY HolderGoesOn
  <1>3. Holders(id) = {w} /\ Waits(id) = {} /\ Delayed(id) = {}
        /\ id \notin failed /\ id \notin completed
    BY <1>1, <1>2 DEF Sole, Single, AtMostOne
  <1>4. ~At(w, "zrem") /\ pc # "zrem"
    BY DEF At, HoldPCs, InMemoryOnly
  <1>5. Delayed(id)' = {} /\ Waits(id)' = {}
    BY <1>3, <1>4, DelayedStays, WaitsStay
  <1>6. Sole(id)'
    BY <1>2, <1>3, <1>5 DEF Sole, Single, AtMostOne
  <1> QED BY <1>1, <1>2, <1>3, <1>5, <1>6 DEF Kept

LEMMA RegisterJobs ==
    ASSUME StoreInv, JobInv, NEW w \in Workers, Register(w) PROVE JobInv'
  <1>1. PICK job : job = worker[w].job
    OBVIOUS
  <1>2. /\ Comes(w, "run", job) /\ job \in Usable(issued)
        /\ worker[w].pc = "hset" /\ worker[w].pc \in HoldPCs /\ "run" \in HoldPCs
    BY <1>1, RegisterStore, InHand DEF Register, At, HoldPCs, InMemoryOnly
  <1>3. job.id \in Ids /\ job.attempts \in Nat /\ job.attempts < maxAttempts[job.id]
        /\ maxAttempts[job.id] \in Nat
    BY <1>2, Numbers DEF Usable
  <1>4. /\ processing' = (processing \ Entry(job.id)) \cup {job}
        /\ UNCHANGED <<pending, delayed, completed, failed, issued, cleared, orphaned, doubled>>
    BY <1>1 DEF Register
  <1>5. /\ \A id \in Ids : id # job.id => runs'[id] = runs[id]
        /\ job.id \notin doubled => runs'[job.id] = runs[job.id] + 1
        /\ runs[job.id] \in Nat
    <2>1. runs' = [runs EXCEPT ![job.id] = IF job.id \in doubled THEN 0 ELSE runs[job.id] + 1]
      BY <1>1 DEF Register
    <2> QED BY <1>3, <2>1 DEF StoreInv
  <1> SUFFICES ASSUME NEW id \in Ids PROVE JobOK(id)'
    BY DEF JobInv
  <1>6. Noted
    BY <1>4 DEF Noted
  <1>7. CASE id # job.id
    <2>1. Entry(id)' = Entry(id)
      BY <1>4, <1>7 DEF Entry
    <2> QED BY <1>1, <1>2, <1>4, <1>5, <1>6, <1>7, <2>1, OthersStay
  <1>8. CASE id = job.id
    <2> SUFFICES ASSUME id \notin doubled' PROVE JobOK(id)'
      BY DEF JobOK
    <2>1. /\ Holders(id) = {w} /\ Holders(id)' = {w}
          /\ Waits(id)' = {} /\ Delayed(id)' = {}
          /\ worker'[w].pc = "run" /\ worker'[w].job = job
          /\ Sole(id)' /\ Kept(id)' /\ Counts(id)
      BY <1>1, <1>2, <1>4, <1>6, <1>8, OwnJob
    <2>2. Entry(id)' = {job}
      BY <1>4, <1>8 DEF Entry
    <2>3. runs[id] <= job.attempts
      BY <1>1, <1>2, <2>1 DEF Counts, HolderCounts
    <2>4. runs'[id] <= job.attempts + 1 /\ runs'[id] <= maxAttempts[id]
      BY <1>3, <1>4, <1>5, <1>8, <2>3
    <2>5. Counts(id)'
      BY <2>1, <2>2, <2>4 DEF Counts, HolderCounts
    <2> QED BY <2>1, <2>2, <2>5 DEF JobOK, Backed
  <1> QED BY <1>7, <1>8

(* Out of processing, for complete and for fail.                           *)
LEMMA WithdrawnJobs ==
    ASSUME StoreInv, JobInv, NEW w \in Workers, NEW pc \in {"sadd", "requeue"},
           Comes(w, pc, worker[w].job), worker[w].pc \in {"run", "hdel"},
           pc = "requeue" => worker[w].pc = "hdel",
           processing' = processing \ Entry(worker[w].job.id),
           UNCHANGED <<pending, delayed, completed, failed, issued, history>>
    PROVE  JobInv'
  <1>1. PICK job : job = worker[w].job
    OBVIOUS
  <1>2. Comes(w, pc, job) /\ worker[w].pc \in HoldPCs /\ pc \in HoldPCs /\ Noted
    BY <1>1 DEF HoldPCs, InMemoryOnly, Noted, history
  <1> SUFFICES ASSUME NEW id \in Ids PROVE JobOK(id)'
    BY DEF JobInv
  <1>3. runs' = runs /\ doubled' = doubled
    BY DEF history
  <1>4. CASE id # job.id
    <2>1. Entry(id)' = Entry(id)
      BY <1>1, <1>4 DEF Entry
    <2> QED BY <1>1, <1>2, <1>3, <1>4, <2>1, OthersStay
  <1>5. CASE id = job.id
    <2> SUFFICES ASSUME id \notin doubled' PROVE JobOK(id)'
      BY DEF JobOK
    <2>1. /\ Holders(id) = {w} /\ Holders(id)' = {w}
          /\ Waits(id)' = {} /\ Delayed(id)' = {}
          /\ worker'[w].pc = pc /\ worker'[w].job = job
          /\ Sole(id)' /\ Kept(id)' /\ Counts(id)
      BY <1>1, <1>2, <1>5, OwnJob
    <2>2. HolderCounts(id, worker[w])
      BY <2>1 DEF Counts
    <2>3. pc = "requeue" => runs[id] <= job.attempts
      BY <1>1, <2>2 DEF HolderCounts
    <2>4. Counts(id)'
      BY <1>3, <2>1, <2>3 DEF Counts, HolderCounts
    <2>5. Backed(id)'
      BY <2>1 DEF Backed
    <2> QED BY <2>1, <2>4, <2>5 DEF JobOK
  <1> QED BY <1>4, <1>5

LEMMA FailJobs ==
    ASSUME StoreInv, JobInv, NEW w \in Workers, At(w, "run"), NEW found \in Entry(worker[w].job.id),
           Goes(w, "hdel", [found EXCEPT !.attempts = @ + 1]),
           UNCHANGED <<store, issued, paused, interventions, history>>
    PROVE  JobInv'
  <1>1. PICK job : job = [found EXCEPT !.attempts = @ + 1]
    OBVIOUS
  <1>2. /\ Comes(w, "hdel", job) /\ job.id = worker[w].job.id
        /\ job.attempts = found.attempts + 1
    BY <1>1, FailStore
  <1>3. worker[w].pc = "run" /\ worker[w].pc \in HoldPCs /\ "hdel" \in HoldPCs /\ Noted
        /\ UNCHANGED <<pending, delayed, processing, completed, failed, issued, runs, doubled, cleared>>
    BY DEF At, HoldPCs, InMemoryOnly, Noted, history, store
  <1> SUFFICES ASSUME NEW id \in Ids PROVE JobOK(id)'
    BY DEF JobInv
  <1>4. Entry(id)' = Entry(id)
    BY <1>3 DEF Entry
  <1>5. CASE id # job.id
    BY <1>2, <1>3, <1>4, <1>5, OthersStay
  <1>6. CASE id = job.id
    <2> SUFFICES ASSUME id \notin doubled' PROVE JobOK(id)'
      BY DEF JobOK
    <2>1. /\ Holders(id) = {w} /\ Holders(id)' = {w}
          /\ Waits(id)' = {} /\ Delayed(id)' = {}
          /\ worker'[w].pc = "hdel" /\ worker'[w].job = job
          /\ Sole(id)' /\ Kept(id)' /\ Counts(id)
      BY <1>2, <1>3, <1>6, OwnJob
    <2>2. runs[id] <= worker[w].job.attempts + 1 /\ Entry(id) \subseteq {worker[w].job}
      BY <1>3, <2>1 DEF Counts, HolderCounts
    <2>3. found = worker[w].job
      BY <1>2, <1>6, <2>2
    <2>4. runs[id] <= job.attempts
      BY <1>2, <2>2, <2>3
    <2>5. Counts(id)'
      BY <1>3, <2>1, <2>4 DEF Counts, HolderCounts
    <2>6. Backed(id)'
      BY <1>2, <1>4, <1>6 DEF Backed
    <2> QED BY <2>1, <2>5, <2>6 DEF JobOK
  <1> QED BY <1>5, <1>6

(* A worker that is done with the job it held: the other jobs, when what   *)
(* it leaves behind is of its own job only, and its own job.               *)
LEMMA OthersRest ==
    ASSUME StoreInv, JobInv, NEW w \in Workers, Comes(w, "idle", NoJob),
           worker[w].pc \in HoldPCs, NEW id \in Ids, id # worker[w].job.id,
           Waits(id)' = Waits(id), \A i \in Waits(id) : pending'[i] = pending[i],
           \A j : j.id = id => (j \in delayed' <=> j \in delayed),
           id \in failed' <=> id \in failed, id \in completed' <=> id \in completed,
           Entry(id)' = Entry(id), runs'[id] = runs[id], UNCHANGED issued, Noted
    PROVE  JobOK(id)'
  <1>1. ~At(w, "zrem") /\ "idle" \notin HoldPCs /\ "idle" # "zrem"
    BY DEF At, HoldPCs, InMemoryOnly
  <1>2. \A j : Unlisting(j)' <=> Unlisting(j)
    BY <1>1, UnlistingStays
  <1>3. Delayed(id)' = Delayed(id)
    BY <1>2 DEF Delayed
  <1>4. Holders(id)' = Holders(id) /\ \A u \in Holders(id) : worker'[u] = worker[u]
    BY <1>1, HolderOf, HoldersStay
  <1>5. Untouched(id)
    BY <1>3, <1>4 DEF Untouched
  <1> QED BY <1>5, UntouchedKeeps DEF JobInv

LEMMA OwnRests ==
    ASSUME StoreInv, JobInv, NEW w \in Workers, Comes(w, "idle", NoJob),
           worker[w].pc \in HoldPCs, NEW id \in Ids, id = worker[w].job.id,
           id \notin doubled
    PROVE  /\ Holders(id) = {w} /\ Holders(id)' = {}
           /\ Waits(id) = {} /\ Delayed(id) = {}
           /\ id \notin failed /\ id \notin completed
           /\ \A j : Unlisting(j)' <=> Unlisting(j)
           /\ Counts(id) /\ runs[id] <= maxAttempts[id] /\ HolderCounts(id, worker[w])
           /\ id \notin cleared => Backed(id)
  <1>1. Sole(id) /\ Counts(id) /\ (id \notin cleared => Backed(id))
    BY DEF JobInv, JobOK
  <1>2. w \in Holders(id) /\ "idle" \notin HoldPCs /\ ~At(w, "zrem")
    BY HolderOf DEF HoldPCs, At, InMemoryOnly
  <1>3. Holders(id) = {w} /\ Waits(id) = {} /\ Delayed(id) = {}
        /\ id \notin failed /\ id \notin completed
    BY <1>1, <1>2 DEF Sole, Single, AtMostOne
  <1>4. Holders(id)' = {}
    BY <1>2, <1>3, HolderLeaves
  <1>5. \A j : Unlisting(j)' <=> Unlisting(j)
    BY <1>2, UnlistingStays
  <1> QED BY <1>1, <1>3, <1>4, <1>5 DEF Counts

LEMMA FailNothingJobs ==
    ASSUME StoreInv, JobInv, NEW w \in Workers, At(w, "run"), Rests(w),
           Entry(worker[w].job.id) = {},
           UNCHANGED <<store, issued, paused, interventions, history>>
    PROVE  JobInv'
  <1>1. Comes(w, "idle", NoJob) /\ worker[w].pc = "run" /\ worker[w].pc \in HoldPCs /\ Noted
        /\ UNCHANGED <<pending, delayed, processing, completed, failed, runs, doubled, cleared>>
    BY FailNothingStore DEF At, HoldPCs, Noted, history, store
  <1> SUFFICES ASSUME NEW id \in Ids PROVE JobOK(id)'
    BY DEF JobInv
  <1>2. Waits(id)' = Waits(id) /\ Entry(id)' = Entry(id)
    BY <1>1, WaitsStay DEF Entry
  <1>3. CASE id # worker[w].job.id
    BY <1>1, <1>2, <1>3, OthersRest
  <1>4. CASE id = worker[w].job.id
    <2> SUFFICES ASSUME id \notin doubled PROVE JobOK(id)'
      BY <1>1 DEF JobOK
    <2>1. /\ Holders(id) = {w} /\ Holders(id)' = {} /\ Waits(id) = {} /\ Delayed(id) = {}
          /\ id \notin failed /\ id \notin completed
          /\ \A j : Unlisting(j)' <=> Unlisting(j)
          /\ runs[id] <= maxAttempts[id]
          /\ id \notin cleared => Backed(id)
      BY <1>1, <1>4, OwnRests
    <2>2. Waits(id)' = {} /\ Delayed(id)' = {} /\ id \notin failed' /\ id \notin completed'
      BY <1>1, <1>2, <2>1 DEF Delayed
    <2>3. id \in cleared
      BY <1>1, <1>4, <2>1 DEF Backed
    <2>4. Sole(id)' /\ Counts(id)'
      BY <1>1, <2>1, <2>2 DEF Sole, Single, AtMostOne, Counts
    <2> QED BY <1>1, <2>3, <2>4 DEF JobOK
  <1> QED BY <1>3, <1>4

LEMMA RecordCompletedJobs ==
    ASSUME StoreInv, JobInv, NEW w \in Workers, RecordCompleted(w) PROVE JobInv'
  <1>1. Comes(w, "idle", NoJob) /\ worker[w].pc \in HoldPCs
    BY RecordCompletedStore DEF RecordCompleted, At, HoldPCs, InMemoryOnly
  <1>2. /\ completed' = completed \cup {worker[w].job.id} /\ Noted
        /\ UNCHANGED <<pending, delayed, processing, failed, issued, runs, doubled, cleared, orphaned>>
    BY DEF RecordCompleted, history, Noted
  <1> SUFFICES ASSUME NEW id \in Ids PROVE JobOK(id)'
    BY DEF JobInv
  <1>3. Waits(id)' = Waits(id) /\ Entry(id)' = Entry(id)
    BY <1>2, WaitsStay DEF Entry
  <1>4. CASE id # worker[w].job.id
    BY <1>1, <1>2, <1>3, <1>4, OthersRest
  <1>5. CASE id = worker[w].job.id
    <2> SUFFICES ASSUME id \notin doubled PROVE JobOK(id)'
      BY <1>2 DEF JobOK
    <2>1. /\ Holders(id)' = {} /\ Waits(id) = {} /\ Delayed(id) = {}
          /\ id \notin failed
          /\ \A j : Unlisting(j)' <=> Unlisting(j)
          /\ runs[id] <= maxAttempts[id]
      BY <1>1, <1>5, OwnRests
    <2>2. Waits(id)' = {} /\ Delayed(id)' = {} /\ id \notin failed' /\ id \in completed'
      BY <1>2, <1>3, <1>5, <2>1 DEF Delayed
    <2>3. Sole(id)' /\ Counts(id)'
      BY <1>2, <2>1, <2>2 DEF Sole, Single, AtMostOne, Counts
    <2> QED BY <2>1, <2>2, <2>3 DEF JobOK, Backed, Kept
  <1> QED BY <1>4, <1>5

LEMMA RequeueJobs ==
    ASSUME StoreInv, JobInv, NEW w \in Workers, Requeue(w) PROVE JobInv'
  <1>0. PICK job : job = worker[w].job
    OBVIOUS
  <1>1. Comes(w, "idle", NoJob) /\ worker[w].pc = "requeue" /\ worker[w].pc \in HoldPCs
        /\ job.id \in Ids /\ job.attempts \in Nat
    BY <1>0, RequeueStore, InHand DEF Requeue, At, HoldPCs, InMemoryOnly
  <1>2. UNCHANGED <<pending, processing, completed, issued, cleared, orphaned>>
    BY DEF Requeue
  <1>3. \/ /\ failed' = failed \cup {job.id}
           /\ UNCHANGED <<delayed, runs, doubled>>
        \/ /\ delayed' = delayed \cup {job}
           /\ MovedTwice(IF Unlisting(job) THEN {job.id} ELSE {})
           /\ UNCHANGED failed
    BY <1>0 DEF Requeue
  <1>4. Noted /\ \A id \in Ids : id # job.id => runs'[id] = runs[id]
    <2>1. MovedTwice(IF Unlisting(job) THEN {job.id} ELSE {})
          => \A id \in Ids : id # job.id => runs'[id] = runs[id]
      BY MovedTwiceTypes
    <2> QED BY <1>2, <1>3, <2>1 DEF Noted, MovedTwice
  <1> SUFFICES ASSUME NEW id \in Ids PROVE JobOK(id)'
    BY DEF JobInv
  <1>5. Waits(id)' = Waits(id) /\ Entry(id)' = Entry(id)
    BY <1>2, WaitsStay DEF Entry
  <1>6. CASE id # job.id
    <2>1. \A j : j.id = id => (j \in delayed' <=> j \in delayed)
      BY <1>3, <1>6
    <2>2. id \in failed' <=> id \in failed
      BY <1>3, <1>6
    <2> QED BY <1>0, <1>1, <1>2, <1>4, <1>5, <1>6, <2>1, <2>2, OthersRest
  <1>7. CASE id = job.id
    <2> SUFFICES ASSUME id \notin doubled' PROVE JobOK(id)'
      BY DEF JobOK
    <2>1. id \notin doubled
      BY <1>4 DEF Noted
    <2>2. /\ Holders(id)' = {} /\ Waits(id) = {} /\ Delayed(id) = {}
          /\ id \notin failed /\ id \notin completed
          /\ \A j : Unlisting(j)' <=> Unlisting(j)
          /\ runs[id] <= maxAttempts[id] /\ HolderCounts(id, worker[w])
      BY <1>0, <1>1, <1>7, <2>1, OwnRests
    <2>3. Waits(id)' = {} /\ id \notin completed' /\ runs[id] <= job.attempts
      BY <1>0, <1>1, <1>2, <1>5, <2>2 DEF HolderCounts
    <2>4. CASE failed' = failed \cup {job.id} /\ UNCHANGED <<delayed, runs, doubled>>
      <3>1. Delayed(id)' = {} /\ id \in failed'
        BY <1>7, <2>2, <2>4 DEF Delayed
      <3>2. Sole(id)' /\ Counts(id)'
        BY <2>2, <2>3, <2>4, <3>1 DEF Sole, Single, AtMostOne, Counts
      <3> QED BY <2>2, <3>1, <3>2 DEF JobOK, Backed, Kept
    <2>5. CASE /\ delayed' = delayed \cup {job}
               /\ MovedTwice(IF Unlisting(job) THEN {job.id} ELSE {})
               /\ UNCHANGED failed
      <3>1. ~Unlisting(job)
        BY <1>7, <2>5 DEF MovedTwice
      <3>2. runs'[id] = runs[id]
        BY <2>5, <3>1, MovedTwiceTypes
      <3>3. Delayed(id)' = {job}
        BY <1>7, <2>2, <2>5, <3>1 DEF Delayed
      <3>4. Sole(id)' /\ Counts(id)'
        BY <2>2, <2>3, <2>5, <3>2, <3>3 DEF Sole, Single, AtMostOne, Counts
      <3> QED BY <2>2, <3>3, <3>4 DEF JobOK, Backed, Kept
    <2> QED BY <1>3, <2>4, <2>5
  <1> QED BY <1>6, <1>7

LEMMA UnfailJobs ==
    ASSUME StoreInv, JobInv, NEW w \in Workers, Unfail(w) PROVE JobInv'
  <1>1. PICK job : job = worker[w].job
    OBVIOUS
  <1>2. /\ Comes(w, "revive", job) /\ worker[w].pc = "unfail" /\ worker[w].pc \notin HoldPCs
        /\ "revive" \in HoldPCs /\ ~At(w, "zrem")
        /\ job.id \in Ids /\ job.attempts = 0
    BY <1>1, UnfailStore, InHand DEF Unfail, At, HoldPCs, InMemoryOnly
  <1>3. /\ failed' = failed \ {job.id}
        /\ doubled' = IF job.id \notin failed /\ (Stored(job.id) \/ Holders(job.id) # {})
                      THEN doubled \cup {job.id} ELSE doubled
        /\ UNCHANGED <<pending, delayed, processing, completed, issued, cleared, orphaned>>
        /\ \A id \in Ids : runs'[id] = IF id = job.id THEN 0 ELSE runs[id]
    BY <1>1, <1>2 DEF Unfail, StoreInv
  <1>4. Noted
    BY <1>3 DEF Noted
  <1> SUFFICES ASSUME NEW id \in Ids PROVE JobOK(id)'
    BY DEF JobInv
  <1>5. Delayed(id)' = Delayed(id) /\ Waits(id)' = Waits(id) /\ Entry(id)' = Entry(id)
    BY <1>2, <1>3, DelayedStays, WaitsStay DEF Entry
  <1>6. CASE id # job.id
    <2>1. Holders(id)' = Holders(id) /\ \A u \in Holders(id) : worker'[u] = worker[u]
      BY <1>2, <1>6, HolderOf, HoldersStay
    <2>2. Untouched(id)
      BY <1>3, <1>5, <1>6, <2>1 DEF Untouched
    <2> QED BY <1>4, <2>2, UntouchedKeeps DEF JobInv
  <1>7. CASE id = job.id
    <2> SUFFICES ASSUME id \notin doubled' PROVE JobOK(id)'
      BY DEF JobOK
    <2>1. /\ id \notin doubled /\ Sole(id)
          /\ id \in failed \/ (~Stored(id) /\ Holders(id) = {})
      BY <1>3, <1>7 DEF JobInv, JobOK
    <2>2. Waits(id) = {} /\ Delayed(id) = {} /\ Holders(id) = {} /\ id \notin completed
      <3>1. CASE id \in failed
        BY <2>1, <3>1 DEF Sole, AtMostOne
      <3>2. CASE ~Stored(id) /\ Holders(id) = {}
        <4>1. /\ id \notin Under("pending") /\ id \notin Under("delayed")
              /\ id \notin Under("completed")
          BY <3>2 DEF Stored, Keys
        <4> QED BY <3>2, <4>1 DEF Under, Waits, Delayed
      <3> QED BY <2>1, <3>1, <3>2
    <2>3. Holders(id)' = {w}
      BY <1>2, <1>7, <2>2, HolderJoins
    <2>4. worker'[w].pc = "revive" /\ worker'[w].job = job
      BY <1>2 DEF Comes
    <2>5. Sole(id)'
      BY <1>3, <1>5, <1>7, <2>2, <2>3 DEF Sole, Single, AtMostOne
    <2>6. runs'[id] = 0 /\ maxAttempts[id] \in Nat
      BY <1>3, <1>7, Numbers
    <2>7. Counts(id)'
      BY <1>2, <1>5, <2>2, <2>3, <2>4, <2>6 DEF Counts, HolderCounts
    <2> QED BY <2>3, <2>4, <2>5, <2>7 DEF JobOK, Backed, Kept
  <1> QED BY <1>6, <1>7

LEMMA ReviveJobs ==
    ASSUME StoreInv, JobInv, NEW w \in Workers, Revive(w) PROVE JobInv'
  <1>1. PICK job : job = worker[w].job
    OBVIOUS
  <1>2. /\ Comes(w, "idle", NoJob) /\ job \in Usable(issued) /\ job.id \in Ids
        /\ worker[w].pc = "revive" /\ worker[w].pc \in HoldPCs
    BY <1>1, ReviveStore, InHand DEF Revive, At, HoldPCs, InMemoryOnly
  <1>3. /\ pending' = Append(pending, job) /\ Noted
        /\ UNCHANGED <<delayed, processing, completed, failed, issued, runs, doubled, cleared, orphaned>>
    BY <1>1 DEF Revive, history, Noted
  <1> SUFFICES ASSUME NEW id \in Ids PROVE JobOK(id)'
    BY DEF JobInv
  <1>4. /\ Waits(id)' = IF job.id = id THEN Waits(id) \cup {Len(pending) + 1} ELSE Waits(id)
        /\ pending'[Len(pending) + 1] = job
        /\ \A i \in Waits(id) : pending'[i] = pending[i]
    BY <1>2, <1>3, WaitsMore
  <1>5. Entry(id)' = Entry(id)
    BY <1>3 DEF Entry
  <1>6. CASE id # job.id
    BY <1>1, <1>2, <1>3, <1>4, <1>5, <1>6, OthersRest
  <1>7. CASE id = job.id
    <2> SUFFICES ASSUME id \notin doubled PROVE JobOK(id)'
      BY <1>3 DEF JobOK
    <2>1. /\ Holders(id)' = {} /\ Waits(id) = {} /\ Delayed(id) = {}
          /\ id \notin failed /\ id \notin completed
          /\ \A j : Unlisting(j)' <=> Unlisting(j)
          /\ runs[id] <= maxAttempts[id] /\ HolderCounts(id, worker[w])
      BY <1>1, <1>2, <1>7, OwnRests
    <2>2. Waits(id)' = {Len(pending) + 1} /\ runs[id] <= job.attempts
      BY <1>1, <1>2, <1>4, <1>7, <2>1 DEF HolderCounts
    <2>3. Delayed(id)' = {} /\ id \notin failed' /\ id \notin completed'
      BY <1>3, <2>1 DEF Delayed
    <2>4. Sole(id)'
      BY <2>1, <2>2, <2>3 DEF Sole, Single, AtMostOne
    <2>5. Counts(id)'
      BY <1>3, <1>4, <2>1, <2>2, <2>3 DEF Counts
    <2> QED BY <2>1, <2>2, <2>4, <2>5 DEF JobOK, Backed, Kept
  <1> QED BY <1>6, <1>7

(* clear.  A job it leaves somewhere is noted, unless nothing of it went.  *)
LEMMA DeleteKeysJobs ==
    ASSUME StoreInv, JobInv, NEW w \in Workers, DeleteKeys(w) PROVE JobInv'
  <1>1. /\ Comes(w, "idle", NoJob) /\ worker[w].pc \notin HoldPCs /\ "idle" \notin HoldPCs
        /\ ~At(w, "zrem") /\ worker[w].keys \subseteq Keys
    BY DeleteKeysStore, WorkerFields DEF DeleteKeys, At, HoldPCs, InMemoryOnly
  <1>2. PICK keys : keys = worker[w].keys
    OBVIOUS
  <1>3. /\ pending' = IF "pending" \in keys THEN <<>> ELSE pending
        /\ delayed' = IF "delayed" \in keys THEN {} ELSE delayed
        /\ processing' = IF "processing" \in keys THEN {} ELSE processing
        /\ completed' = IF "completed" \in keys THEN {} ELSE completed
        /\ failed' = IF "failed" \in keys THEN {} ELSE failed
        /\ UNCHANGED <<issued, runs, orphaned, doubled>>
    BY <1>2 DEF DeleteKeys
  <1>4. cleared \subseteq cleared' /\ \A key \in keys : Under(key) \subseteq cleared'
    BY <1>2 DEF DeleteKeys
  <1> SUFFICES ASSUME NEW id \in Ids, id \notin doubled PROVE JobOK(id)'
    BY <1>3 DEF JobInv, JobOK
  <1>5. JobOK(id) /\ Sole(id) /\ Counts(id)
    BY DEF JobInv, JobOK
  <1>6. Holders(id)' = Holders(id) /\ \A u \in Holders(id) : worker'[u] = worker[u]
    BY <1>1, HolderOf, HoldersStay
  <1>7. \A j : Unlisting(j)' <=> Unlisting(j)
    BY <1>1, UnlistingStays
  <1>8. /\ Waits(id)' \subseteq Waits(id) /\ \A i \in Waits(id)' : pending'[i] = pending[i]
        /\ id \notin cleared' => Waits(id)' = Waits(id)
    <2>1. CASE "pending" \in keys
      <3>1. Waits(id)' = {}
        BY <1>3, <2>1 DEF Waits
      <3>2. id \notin cleared' => Waits(id) = {}
        BY <1>4, <2>1 DEF Under, Waits
      <3> QED BY <3>1, <3>2
    <2>2. CASE "pending" \notin keys
      BY <1>3, <2>2 DEF Waits
    <2> QED BY <2>1, <2>2
  <1>9. /\ Delayed(id)' \subseteq Delayed(id)
        /\ id \notin cleared' => Delayed(id)' = Delayed(id)
    <2>1. "delayed" \in keys /\ id \notin cleared' => {j \in delayed : j.id = id} = {}
      BY <1>4 DEF Under
    <2> QED BY <1>3, <1>7, <2>1 DEF Delayed
  <1>10. /\ Entry(id)' \subseteq Entry(id)
         /\ id \notin cleared' => Entry(id)' = Entry(id)
    <2>1. "processing" \in keys /\ id \notin cleared' => Entry(id) = {}
      BY <1>4 DEF Under, Entry
    <2> QED BY <1>3, <2>1 DEF Entry
  <1>11. /\ id \in failed' => id \in failed
         /\ id \in completed' => id \in completed
         /\ id \notin cleared' => (id \in failed' <=> id \in failed)
                                  /\ (id \in completed' <=> id \in completed)
    BY <1>3, <1>4 DEF Under
  <1>12. Sole(id)'
    BY <1>5, <1>6, <1>8, <1>9, <1>11, SoleFewer DEF Sole, Single
  <1>13. Counts(id)'
    BY <1>3, <1>5, <1>6, <1>8, <1>9, <1>10 DEF Counts, HolderCounts
  <1>14. ASSUME id \notin cleared'
         PROVE  Backed(id)' /\ (id <= issued' /\ id \notin orphaned' => Kept(id)')
    <2>1. Backed(id) /\ (id <= issued /\ id \notin orphaned => Kept(id))
      BY <1>4, <1>5, <1>14 DEF JobOK
    <2>2. Backed(id)'
      BY <1>6, <1>10, <1>14, <2>1 DEF Backed
    <2> QED BY <1>3, <1>6, <1>8, <1>9, <1>10, <1>11, <1>14, <2>1, <2>2 DEF Kept
  <1> QED BY <1>12, <1>13, <1>14 DEF JobOK

(* A crash.  The job of a worker that runs it is in processing still; what *)
(* was in the memory of the worker only is noted.                          *)
LEMMA CrashJobs ==
    ASSUME StoreInv, JobInv, NEW w \in Workers, Crash(w) PROVE JobInv'
  <1>1. PICK job : job = worker[w].job
    OBVIOUS
  <1>2. Comes(w, "idle", NoJob) /\ "idle" \notin HoldPCs /\ "idle" # "zrem"
    BY CrashStore DEF HoldPCs, InMemoryOnly
  <1>3. /\ UNCHANGED <<pending, delayed, processing, completed, failed, issued, cleared>>
        /\ worker[w].pc \in InMemoryOnly => job.id \in orphaned'
        /\ orphaned \subseteq orphaned'
    BY <1>1 DEF Crash, store
  <1> DEFINE twice == IF At(w, "zrem") THEN {worker[w].job.id} ELSE {}
  <1>4. /\ doubled' = doubled \cup twice
        /\ \A id \in Ids : runs'[id] = IF id \in twice THEN 0 ELSE runs[id]
    BY MovedTwiceTypes DEF Crash, MovedTwice
  <1>5. Noted
    BY <1>3, <1>4 DEF Noted
  <1> SUFFICES ASSUME NEW id \in Ids, id \notin doubled' PROVE JobOK(id)'
    BY DEF JobInv, JobOK
  <1>6. /\ id \notin doubled /\ runs'[id] = runs[id]
        /\ At(w, "zrem") => id # job.id
    BY <1>1, <1>4
  <1>7. \A j : j.id = id => (Unlisting(j)' <=> Unlisting(j))
    BY <1>1, <1>2, <1>6, UnlistingEnds, UnlistingStays
  <1>8. Waits(id)' = Waits(id) /\ Delayed(id)' = Delayed(id) /\ Entry(id)' = Entry(id)
    BY <1>3, <1>7, WaitsStay DEF Delayed, Entry
  <1>9. CASE w \notin Holders(id)
    <2>1. Holders(id)' = Holders(id) /\ \A u \in Holders(id) : worker'[u] = worker[u]
      BY <1>2, <1>9, HoldersStay
    <2>2. Untouched(id)
      BY <1>3, <1>6, <1>8, <2>1 DEF Untouched
    <2> QED BY <1>5, <2>2, UntouchedKeeps DEF JobInv
  <1>10. CASE w \in Holders(id)
    <2>1. worker[w].pc \in HoldPCs /\ id = job.id
      BY <1>1, <1>10, HolderOf
    <2>2. /\ Holders(id)' = {} /\ Waits(id) = {} /\ Delayed(id) = {}
          /\ id \notin failed /\ id \notin completed
          /\ runs[id] <= maxAttempts[id]
          /\ id \notin cleared => Backed(id)
      BY <1>1, <1>2, <1>6, <2>1, OwnRests
    <2>3. Sole(id)' /\ Counts(id)'
      BY <1>3, <1>6, <1>8, <2>2 DEF Sole, Single, AtMostOne, Counts
    <2>4. Backed(id)'
      BY <2>2 DEF Backed
    <2>5. ASSUME id \notin cleared', id \notin orphaned' PROVE Kept(id)'
      <3>1. worker[w].pc \in {"run", "hdel"}
        BY <1>3, <2>1, <2>5 DEF HoldPCs
      <3>2. Entry(id) # {}
        BY <1>3, <1>10, <2>2, <2>5, <3>1 DEF Backed
      <3> QED BY <1>8, <3>2 DEF Kept
    <2> QED BY <2>3, <2>4, <2>5 DEF JobOK
  <1> QED BY <1>9, <1>10

(* Steps that touch no worker.                                             *)
LEMMA StoreStays ==
    ASSUME StoreInv, JobInv,
           UNCHANGED <<pending, delayed, processing, completed, failed, issued, worker, history>>
    PROVE  JobInv'
  <1> SUFFICES ASSUME NEW id \in Ids PROVE JobOK(id)'
    BY DEF JobInv
  <1>1. \A j : Unlisting(j)' <=> Unlisting(j)
    BY DEF Unlisting, At
  <1>2. Delayed(id)' = Delayed(id) /\ Holders(id)' = Holders(id) /\ Entry(id)' = Entry(id)
    BY <1>1 DEF Delayed, Holders, Entry
  <1>3. Untouched(id) /\ Noted
    BY <1>2, WaitsStay DEF Untouched, history, Noted
  <1> QED BY <1>3, UntouchedKeeps DEF JobInv

(* dequeue, lpop of an empty list, retry and clear, each before its first  *)
(* change of the store.                                                    *)
LEMMA FirstReads ==
    ASSUME StoreInv, JobInv, NEW w \in Workers,
           \/ Dequeue(w) \/ ListKeys(w)
           \/ Pop(w) /\ pending = <<>>
           \/ \E id \in failed : Retry(w, id)
    PROVE  JobInv'
  <1>1. PICK pc \in {"lpop", "rpush", "del", "idle", "unfail"} :
            \E job : Comes(w, pc, job)
    BY DequeueComes, ListKeysStore, PopNothingStore, RetryStore
  <1>2. PICK job : Comes(w, pc, job)
    BY <1>1
  <1>3. pc # "zrem" /\ pc \notin HoldPCs
    BY DEF HoldPCs, InMemoryOnly
  <1>4. ~At(w, "zrem") /\ worker[w].pc \notin HoldPCs
    BY DEF Dequeue, ListKeys, Pop, Retry, At, HoldPCs, InMemoryOnly
  <1>5. UNCHANGED <<pending, delayed, processing, completed, failed, issued, history>>
    BY DEF Dequeue, ListKeys, Pop, Retry, store
  <1> QED BY <1>2, <1>3, <1>4, <1>5, NothingMoves

LEMMA JobInit == Init => JobInv
  <1> SUFFICES ASSUME Init, NEW id \in Ids PROVE JobOK(id)
    BY DEF JobInv
  <1>1. id # 0 /\ maxAttempts[id] \in Nat /\ runs[id] = 0 /\ ~(id <= issued)
    BY Numbers DEF Init, Ids
  <1>2. Waits(id) = {} /\ Delayed(id) = {}
    BY DEF Init, Waits, Delayed
  <1>3. Holders(id) = {}
    BY <1>1 DEF Init, Holders, IdleWorker, NoJob, InMemoryOnly
  <1>4. id \notin failed /\ id \notin completed
    BY DEF Init
  <1>5. Sole(id)
    BY <1>2, <1>3, <1>4 DEF Sole, Single, AtMostOne
  <1>6. Counts(id) /\ Backed(id)
    BY <1>1, <1>2, <1>3 DEF Counts, Backed
  <1> QED BY <1>1, <1>5, <1>6 DEF JobOK

LEMMA JobStep == StoreInv /\ JobInv /\ [Next]_vars => JobInv'
  <1> SUFFICES ASSUME StoreInv, JobInv, [Next]_vars PROVE JobInv'
    OBVIOUS
  <1>1. CASE UNCHANGED vars
    BY <1>1, StoreStays DEF vars, store
  <1>2. ASSUME NEW later \in BOOLEAN, Enqueue(later) PROVE JobInv'
    BY <1>2, EnqueueJobs
  <1>3. ASSUME NEW job \in delayed, BecomeDue(job) PROVE JobInv'
    BY <1>3, StoreStays DEF BecomeDue
  <1>4. ASSUME NEW w \in Workers, Step(w) PROVE JobInv'
    <2>1. CASE Dequeue(w) BY <2>1, FirstReads
    <2>2. CASE \E job \in worker[w].batch : Promote(w, job) BY <2>2, PromoteJobs
    <2>3. CASE Unlist(w) BY <2>3, UnlistJobs
    <2>4. CASE Pop(w) BY <2>4, PopJobs, FirstReads
    <2>5. CASE Register(w) BY <2>5, RegisterJobs
    <2>6. CASE Complete(w)
      BY <2>6, CompleteStore, WithdrawnJobs DEF Complete, At
    <2>7. CASE RecordCompleted(w) BY <2>7, RecordCompletedJobs
    <2>8. CASE Fail(w) BY <2>8, FailJobs, FailNothingJobs DEF Fail
    <2>9. CASE TakeBack(w)
      BY <2>9, TakeBackStore, WithdrawnJobs DEF TakeBack, At
    <2>10. CASE Requeue(w) BY <2>10, RequeueJobs
    <2>11. CASE \E id \in failed : Retry(w, id) BY <2>11, FirstReads
    <2>12. CASE Unfail(w) BY <2>12, UnfailJobs
    <2>13. CASE Revive(w) BY <2>13, ReviveJobs
    <2>14. CASE ListKeys(w) BY <2>14, FirstReads
    <2>15. CASE DeleteKeys(w) BY <2>15, DeleteKeysJobs
    <2>16. CASE SetPaused(w) BY <2>16, StoreStays DEF SetPaused, store
    <2> QED BY <1>4, <2>1, <2>2, <2>3, <2>4, <2>5, <2>6, <2>7, <2>8, <2>9, <2>10,
               <2>11, <2>12, <2>13, <2>14, <2>15, <2>16 DEF Step
  <1>5. ASSUME NEW w \in Workers, Crash(w) PROVE JobInv'
    BY <1>5, CrashJobs
  <1> QED BY <1>1, <1>2, <1>3, <1>4, <1>5 DEF Next

(* At every step each job is where the invariants say: in one place, with   *)
(* its runs counted, backed by processing and kept somewhere.              *)
THEOREM RedisJobs == Spec => [](StoreInv /\ JobInv)
  BY StoreInit, StoreStep, JobInit, JobStep, PTL DEF Spec

-----------------------------------------------------------------------------
(* What the invariants say of a job that was not moved twice.              *)

LEMMA SmallCount ==
    ASSUME NEW S, Single(S)
    PROVE  Cardinality(S) = IF S = {} THEN 0 ELSE 1
  <1>1. CASE S = {}
    BY <1>1, FS_EmptySet
  <1>2. CASE S # {}
    <2>1. PICK a : a \in S
      BY <1>2
    <2>2. S = {a}
      BY <2>1 DEF Single
    <2> QED BY <1>2, <2>2, FS_Singleton
  <1> QED BY <1>1, <1>2

LEMMA OnePlaceFollows == StoreInv /\ JobInv => OnePlace
  <1> SUFFICES ASSUME StoreInv, JobInv, NEW id \in 1..issued \ doubled
               PROVE  Pendings(id) + Delays(id) + Cardinality(Holders(id))
                        + (IF id \in failed THEN 1 ELSE 0)
                        + (IF id \in completed THEN 1 ELSE 0) <= 1
    BY DEF OnePlace
  <1>1. id \in Ids
    BY Numbers DEF StoreInv, Ids
  <1>2. Sole(id)
    BY <1>1 DEF JobInv, JobOK
  <1>3. Pendings(id) = IF Waits(id) = {} THEN 0 ELSE 1
    BY <1>2, SmallCount DEF Sole, Pendings, Waits
  <1>4. Delays(id) = IF Delayed(id) = {} THEN 0 ELSE 1
    BY <1>2, SmallCount DEF Sole, Delays, Delayed, Unlisting
  <1>5. Cardinality(Holders(id)) = IF Holders(id) = {} THEN 0 ELSE 1
    BY <1>2, SmallCount DEF Sole
  <1>6. AtMostOne(Waits(id) # {}, Delayed(id) # {}, Holders(id) # {},
                  id \in failed, id \in completed)
    BY <1>2 DEF Sole
  <1> QED BY <1>3, <1>4, <1>5, <1>6 DEF AtMostOne

LEMMA NothingLostFollows == StoreInv /\ JobInv => NothingLost
  <1> SUFFICES ASSUME StoreInv, JobInv,
                      NEW id \in 1..issued \ (cleared \cup doubled \cup orphaned)
               PROVE  Stored(id) \/ Holders(id) # {}
    BY DEF NothingLost
  <1>1. id \in Ids /\ id <= issued
    BY Numbers DEF StoreInv, Ids
  <1>2. Kept(id)
    BY <1>1 DEF JobInv, JobOK
  <1>3. Waits(id) # {} => id \in Under("pending")
    BY DEF Waits, Under
  <1>4. Delayed(id) # {} => id \in Under("delayed")
    BY DEF Delayed, Under
  <1>5. Entry(id) # {} => id \in Under("processing")
    BY DEF Entry, Under
  <1>6. /\ id \in failed => id \in Under("failed")
        /\ id \in completed => id \in Under("completed")
    BY DEF Under
  <1> QED BY <1>2, <1>3, <1>4, <1>5, <1>6 DEF Kept, Stored, Keys

LEMMA RunsBoundedFollows == StoreInv /\ JobInv => RunsBounded
  <1> SUFFICES ASSUME StoreInv, JobInv, NEW id \in 1..issued \ doubled
               PROVE  runs[id] <= maxAttempts[id]
    BY DEF RunsBounded
  <1>1. id \in Ids
    BY Numbers DEF StoreInv, Ids
  <1> QED BY <1>1 DEF JobInv, JobOK, Counts

(* A job that was not moved twice is in one place at most, whatever the    *)
(* interleaving of the commands, whatever was cleared and whoever crashed: *)
(* it waits once, or one worker has it in hand, or it has ended.           *)
THEOREM RedisOnePlace == Spec => []OnePlace
  BY RedisJobs, OnePlaceFollows, PTL

(* A job that enqueue issued is in the store or in hand, unless clear      *)
(* deleted it, it was moved twice, or a worker crashed between the two     *)
(* commands that move it.                                                  *)
THEOREM RedisNothingLost == Spec => []NothingLost
  BY RedisJobs, NothingLostFollows, PTL

(* A job is run at most maxAttempts times before somebody retries it by    *)
(* hand, crashes of its workers included, unless it was moved twice.       *)
THEOREM RedisRunsBounded == Spec => []RunsBounded
  BY RedisJobs, RunsBoundedFollows, PTL
=============================================================================
