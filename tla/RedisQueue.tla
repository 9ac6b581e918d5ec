----------------------------- MODULE RedisQueue -----------------------------
(***************************************************************************)
(* src/queue/adapters/RedisQueueAdapter.ts: a job queue in Redis that any  *)
(* number of processes share.  A method is a chain of Redis commands with  *)
(* an await after each: an action is one command, with the code up to the  *)
(* next one, and the commands of different callers interleave freely.  A   *)
(* pipeline is no transaction: its commands are actions of their own.      *)
(*                                                                         *)
(* A worker is a process that makes one call of the adapter at a time, and *)
(* runs the job that dequeue gave it before it reports complete or fail.   *)
(* It may crash between any two commands, and starts again with nothing in *)
(* hand.  Its pc names the command that comes next:                        *)
(*    idle      none: the worker makes a call                              *)
(*    rpush     promote a due job of the batch it read to pending ...      *)
(*    zrem      ... and take it out of delayed                             *)
(*    lpop      take the first pending job                                 *)
(*    hset      enter it in the processing hash                            *)
(*    run       none: the caller works on the job                          *)
(*    sadd      complete: the job is out of processing                     *)
(*    hdel      fail: the job was read from processing                     *)
(*    requeue   fail: out of processing, back to delayed or to failed      *)
(*    unfail    retry: the job was read from failed                        *)
(*    revive    retry: out of failed, back to pending                      *)
(*    del       clear: the keys were listed                                *)
(* Priorities have no effect in the code.  The metrics kept in the process *)
(* decide nothing.  When a delayed job becomes due is left open.           *)
(***************************************************************************)
EXTENDS SequencesExt

CONSTANTS Workers,       \* bound: the processes that use the queue
          maxAttempts,   \* maxAttempts of each job, by its id
          MaxJobs,       \* bound: how many jobs a behaviour enqueues
          MaxInterventions \* bound: how many pauses, resumptions, retries by
                         \*   hand, clears and crashes a behaviour has

ASSUME RedisBounds == MaxJobs \in Nat /\ MaxInterventions \in Nat

Ids == 1..MaxJobs

ASSUME AttemptsAssumption == maxAttempts \in [Ids -> Nat \ {0}]

Job == {job \in [id : Ids, attempts : Nat] :
            job.attempts <= maxAttempts[job.id]}

NoJob == [id |-> 0, attempts |-> 0]

\* The job as enqueue writes it, and as retry writes it back.
FreshJob(id) == [id |-> id, attempts |-> 0]

Keys == {"pending", "delayed", "processing", "completed", "failed"}

VARIABLES pending,       \* Redis list: jobs to run
          delayed,       \* Redis sorted set: jobs to run later
          due,           \*   those of them whose time has come
          processing,    \* Redis hash: jobs that are being run
          completed,     \* Redis set of ids
          failed,        \* Redis hash, by its ids: the job in it is not read
                         \*   but for its id
          issued,        \* ids handed out by enqueue so far
          worker,        \* what each worker does next, and what it holds
          paused,        \* the workers whose adapter is paused
          interventions, \* how many of those there were
          runs,          \* history: how often each job was handed out to run,
                         \*   since it was enqueued or retried
          cleared,       \* history: jobs that clear deleted somewhere
          orphaned,      \* history: jobs that a crash took out of the store
          doubled        \* history: jobs moved twice: by two workers at a time,
                         \*   or by one that crashed between push and remove

store == <<pending, delayed, due, processing, completed, failed>>

history == <<runs, cleared, orphaned, doubled>>

vars == <<store, issued, worker, paused, interventions, history>>

IdleWorker == [pc |-> "idle", job |-> NoJob, batch |-> {}, keys |-> {}]

Init ==
    /\ pending = <<>> /\ delayed = {} /\ due = {}
    /\ processing = {} /\ completed = {} /\ failed = {}
    /\ issued = 0
    /\ worker = [w \in Workers |-> IdleWorker]
    /\ paused = {}
    /\ interventions = 0
    /\ runs = [id \in Ids |-> 0]
    /\ cleared = {} /\ orphaned = {} /\ doubled = {}

At(w, pc) == worker[w].pc = pc

\* The worker goes on to the command pc with this job in hand.
Goes(w, pc, job) ==
    worker' = [worker EXCEPT ![w].pc = pc, ![w].job = job]

Rests(w) == worker' = [worker EXCEPT ![w] = IdleWorker]

Intervene ==
    /\ interventions < MaxInterventions
    /\ interventions' = interventions + 1

\* These jobs were moved twice: their runs are not counted any longer.
MovedTwice(ids) ==
    /\ doubled' = doubled \cup ids
    /\ runs' = [id \in Ids |-> IF id \in ids THEN 0 ELSE runs[id]]

\* Some worker has pushed the job and will take it out of delayed.
Unlisting(job) == \E w \in Workers : At(w, "zrem") /\ worker[w].job = job

\* The entry of an id in the processing hash, as a set of at most one job.
Entry(id) == {job \in processing : job.id = id}

\* The ids of the jobs under a key.
Under(key) ==
    CASE key = "pending"    -> {pending[i].id : i \in 1..Len(pending)}
      [] key = "delayed"    -> {job.id : job \in delayed}
      [] key = "processing" -> {job.id : job \in processing}
      [] key = "completed"  -> completed
      [] key = "failed"     -> failed

\* Between these commands the job is in the memory of its worker only.
InMemoryOnly == {"hset", "sadd", "requeue", "revive"}

\* The workers that have the job in hand and answer for it.
Holders(id) ==
    {w \in Workers : /\ worker[w].job.id = id
                     /\ worker[w].pc \in {"run", "hdel"} \cup InMemoryOnly}

Stored(id) == \E key \in Keys : id \in Under(key)

-----------------------------------------------------------------------------
(* enqueue and the clock.                                                  *)

\* Without a delay the job goes to the end of the list, with one to the set.
Enqueue(later) ==
    /\ issued < MaxJobs
    /\ issued' = issued + 1
    /\ IF later
       THEN delayed' = delayed \cup {FreshJob(issued + 1)} /\ UNCHANGED pending
       ELSE /\ pending' = Append(pending, FreshJob(issued + 1))
            /\ UNCHANGED delayed
    /\ UNCHANGED <<due, processing, completed, failed, worker, paused,
                   interventions, history>>

\* The score of a delayed job is in the past from now on.
BecomeDue(job) ==
    /\ job \in delayed \ due
    /\ due' = due \cup {job}
    /\ UNCHANGED <<pending, delayed, processing, completed, failed, issued,
                   worker, paused, interventions, history>>

SetPaused(w) ==
    /\ At(w, "idle")
    /\ Intervene
    /\ paused' = IF w \in paused THEN paused \ {w} ELSE paused \cup {w}
    /\ UNCHANGED <<store, issued, worker, history>>

-----------------------------------------------------------------------------
(* dequeue.                                                                *)

\* moveDelayedJobs reads the jobs that are due.
Dequeue(w) ==
    /\ At(w, "idle")
    /\ w \notin paused
    /\ worker' = [worker EXCEPT ![w].pc = IF due = {} THEN "lpop" ELSE "rpush",
                                ![w].batch = due]
    /\ UNCHANGED <<store, issued, paused, interventions, history>>

\* A job that another worker has moved since it was read is moved twice.
Promote(w, job) ==
    /\ At(w, "rpush")
    /\ job \in worker[w].batch
    /\ pending' = Append(pending, job)
    /\ Goes(w, "zrem", job)
    /\ MovedTwice(IF job \notin delayed \/ Unlisting(job) THEN {job.id} ELSE {})
    /\ UNCHANGED <<delayed, due, processing, completed, failed, issued, paused,
                   interventions, cleared, orphaned>>

\* Mutant: the job is not taken out of the delayed jobs.
Unlist_Kept(w) ==
    LET rest == worker[w].batch \ {worker[w].job}
    IN  /\ At(w, "zrem")
        /\ worker' = [worker EXCEPT ![w] =
                [pc |-> IF rest = {} THEN "lpop" ELSE "rpush", job |-> NoJob,
                 batch |-> rest, keys |-> {}]]
        /\ UNCHANGED <<store, issued, paused, interventions, history>>

Unlist(w) ==
    LET rest == worker[w].batch \ {worker[w].job}
    IN  /\ At(w, "zrem")
        /\ delayed' = delayed \ {worker[w].job}
        /\ due' = due \ {worker[w].job}
        /\ worker' = [worker EXCEPT ![w] =
                [pc |-> IF rest = {} THEN "lpop" ELSE "rpush", job |-> NoJob,
                 batch |-> rest, keys |-> {}]]
        /\ UNCHANGED <<pending, processing, completed, failed, issued, paused,
                       interventions, history>>

\* The head of the list, or nothing, and dequeue returns null.
Pop(w) ==
    /\ At(w, "lpop")
    /\ IF pending = <<>> THEN Rests(w) /\ UNCHANGED pending
       ELSE /\ Goes(w, "hset", Head(pending))
            /\ pending' = Tail(pending)
    /\ UNCHANGED <<delayed, due, processing, completed, failed, issued, paused,
                   interventions, history>>

\* Mutant: the job is handed out without an entry in processing.
Register_Skipped(w) ==
    /\ At(w, "hset")
    /\ Goes(w, "run", worker[w].job)
    /\ runs' = [runs EXCEPT ![worker[w].job.id] = @ + 1]
    /\ UNCHANGED <<store, issued, paused, interventions, cleared, orphaned,
                   doubled>>

\* Enter the job and hand it out.
Register(w) ==
    LET job == worker[w].job
    IN  /\ At(w, "hset")
        /\ processing' = (processing \ Entry(job.id)) \cup {job}
        /\ Goes(w, "run", job)
        /\ runs' = [runs EXCEPT ![job.id] = IF job.id \in doubled THEN 0 ELSE @ + 1]
        /\ UNCHANGED <<pending, delayed, due, completed, failed, issued, paused,
                       interventions, cleared, orphaned, doubled>>

-----------------------------------------------------------------------------
(* complete, fail, retry.                                                  *)

Complete(w) ==
    /\ At(w, "run")
    /\ processing' = processing \ Entry(worker[w].job.id)
    /\ Goes(w, "sadd", worker[w].job)
    /\ UNCHANGED <<pending, delayed, due, completed, failed, issued, paused,
                   interventions, history>>

RecordCompleted(w) ==
    /\ At(w, "sadd")
    /\ completed' = completed \cup {worker[w].job.id}
    /\ Rests(w)
    /\ UNCHANGED <<pending, delayed, due, processing, failed, issued, paused,
                   interventions, history>>

\* Mutant: the failed attempt is not counted.
Fail_Uncounted(w) ==
    /\ At(w, "run")
    /\ \/ Entry(worker[w].job.id) = {} /\ Rests(w)
       \/ \E job \in Entry(worker[w].job.id) : Goes(w, "hdel", job)
    /\ UNCHANGED <<store, issued, paused, interventions, history>>

\* fail reads the job back from processing, and does nothing without it.
Fail(w) ==
    /\ At(w, "run")
    /\ \/ Entry(worker[w].job.id) = {} /\ Rests(w)
       \/ \E job \in Entry(worker[w].job.id) :
             Goes(w, "hdel", [job EXCEPT !.attempts = @ + 1])
    /\ UNCHANGED <<store, issued, paused, interventions, history>>

TakeBack(w) ==
    /\ At(w, "hdel")
    /\ processing' = processing \ Entry(worker[w].job.id)
    /\ Goes(w, "requeue", worker[w].job)
    /\ UNCHANGED <<pending, delayed, due, completed, failed, issued, paused,
                   interventions, history>>

\* Mutant: the last attempt is not recognised.
Exhausted_Late(job) == job.attempts > maxAttempts[job.id]

Exhausted(job) == job.attempts >= maxAttempts[job.id]

\* Attempts left: back to the delayed jobs.  None left: to the failed ones.  A
\* worker that is yet to unlist the job's last stay there unlists this one.
Requeue(w) ==
    LET job == worker[w].job
    IN  /\ At(w, "requeue")
        /\ \/ /\ Exhausted(job)
              /\ failed' = failed \cup {job.id}
              /\ UNCHANGED <<delayed, due, runs, doubled>>
           \/ /\ ~Exhausted(job)
              /\ delayed' = delayed \cup {job}
              /\ due' = due \ {job}
              /\ MovedTwice(IF Unlisting(job) THEN {job.id} ELSE {})
              /\ UNCHANGED failed
        /\ Rests(w)
        /\ UNCHANGED <<pending, processing, completed, issued, paused,
                       interventions, cleared, orphaned>>

\* retry, of a job in the failed hash.
Retry(w, id) ==
    /\ At(w, "idle")
    /\ id \in failed
    /\ Intervene
    /\ Goes(w, "unfail", FreshJob(id))
    /\ UNCHANGED <<store, issued, paused, history>>

\* A job that is elsewhere by now, since another retry took it, is put back twice.
Unfail(w) ==
    LET id == worker[w].job.id
    IN  /\ At(w, "unfail")
        /\ failed' = failed \ {id}
        /\ Goes(w, "revive", worker[w].job)
        /\ doubled' = IF id \notin failed /\ (Stored(id) \/ Holders(id) # {})
                      THEN doubled \cup {id} ELSE doubled
        /\ runs' = [runs EXCEPT ![id] = 0]
        /\ UNCHANGED <<pending, delayed, due, processing, completed, issued,
                       paused, interventions, cleared, orphaned>>

Revive(w) ==
    /\ At(w, "revive")
    /\ pending' = Append(pending, worker[w].job)
    /\ Rests(w)
    /\ UNCHANGED <<delayed, due, processing, completed, failed, issued, paused,
                   interventions, history>>

-----------------------------------------------------------------------------
(* clear, and crashes.                                                     *)

\* An empty collection has no key in Redis.
ListKeys(w) ==
    LET present == {key \in Keys : Under(key) # {}}
    IN  /\ At(w, "idle")
        /\ present # {}
        /\ Intervene
        /\ worker' = [worker EXCEPT ![w].pc = "del", ![w].keys = present]
        /\ UNCHANGED <<store, issued, paused, history>>

\* Everything under the keys listed goes, what came under them since included.
DeleteKeys(w) ==
    LET Kept(key, content, none) ==
            IF key \in worker[w].keys THEN none ELSE content
    IN  /\ At(w, "del")
        /\ pending' = Kept("pending", pending, <<>>)
        /\ delayed' = Kept("delayed", delayed, {})
        /\ due' = Kept("delayed", due, {})
        /\ processing' = Kept("processing", processing, {})
        /\ completed' = Kept("completed", completed, {})
        /\ failed' = Kept("failed", failed, {})
        /\ cleared' = cleared \cup UNION {Under(key) : key \in worker[w].keys}
        /\ Rests(w)
        /\ UNCHANGED <<issued, paused, interventions, runs, orphaned, doubled>>

\* The process dies.  Redis keeps what it has.
Crash(w) ==
    /\ ~At(w, "idle")
    /\ Intervene
    /\ Rests(w)
    /\ paused' = paused \ {w}
    /\ orphaned' = IF worker[w].pc \in InMemoryOnly
                   THEN orphaned \cup {worker[w].job.id} ELSE orphaned
    /\ MovedTwice(IF At(w, "zrem") THEN {worker[w].job.id} ELSE {})
    /\ UNCHANGED <<store, issued, cleared>>

Step(w) ==
    \/ Dequeue(w)
    \/ \E job \in worker[w].batch : Promote(w, job)
    \/ Unlist(w) \/ Pop(w) \/ Register(w)
    \/ Complete(w) \/ RecordCompleted(w)
    \/ Fail(w) \/ TakeBack(w) \/ Requeue(w)
    \/ \E id \in failed : Retry(w, id)
    \/ Unfail(w) \/ Revive(w)
    \/ ListKeys(w) \/ DeleteKeys(w)
    \/ SetPaused(w)

Next ==
    \/ \E later \in BOOLEAN : Enqueue(later)
    \/ \E job \in delayed : BecomeDue(job)
    \/ \E w \in Workers : Step(w) \/ Crash(w)

Spec == Init /\ [][Next]_vars

-----------------------------------------------------------------------------
(* Properties.                                                             *)

\* Every variable holds what its declaration says, and no job in the store
\* has used up its attempts.
TypeOK ==
    /\ pending \in Seq(Job) /\ delayed \subseteq Job /\ due \subseteq delayed
    /\ processing \subseteq Job
    /\ \A id \in Ids : Cardinality(Entry(id)) <= 1
    /\ completed \subseteq Ids /\ failed \subseteq Ids
    /\ issued \in 0..MaxJobs
    /\ worker \in [Workers -> [pc : {"idle", "rpush", "zrem", "lpop", "run",
                                     "hdel", "unfail", "del"} \cup InMemoryOnly,
                               job : Job \cup {NoJob}, batch : SUBSET Job,
                               keys : SUBSET Keys]]
    /\ paused \subseteq Workers
    /\ \A job \in ToSet(pending) \cup delayed \cup processing :
          job.attempts < maxAttempts[job.id]

\* No job is lost, however the commands interleave, but for these reasons:
\* clear deleted it, it was moved twice, or a worker crashed between the two
\* commands that move it out of one place and into another.
NothingLost ==
    \A id \in 1..issued \ (cleared \cup doubled \cup orphaned) :
        Stored(id) \/ Holders(id) # {}

\* Times the id is in the list, copies promoted but not yet unlisted aside.
Pendings(id) == Cardinality({i \in 1..Len(pending) : pending[i].id = id})

Delays(id) ==
    Cardinality({job \in delayed :
        /\ job.id = id
        /\ ~\E w \in Workers : At(w, "zrem") /\ worker[w].job = job})

\* A job that was not moved twice is in one place at most, whatever crashed or
\* was cleared: it waits once, or one worker has it in hand, or it has ended; so
\* no two workers run it, and it is not run again after it was completed.
OnePlace ==
    \A id \in 1..issued \ doubled :
        Pendings(id) + Delays(id) + Cardinality(Holders(id))
          + (IF id \in failed THEN 1 ELSE 0)
          + (IF id \in completed THEN 1 ELSE 0) <= 1

\* A job is handed out to run at most maxAttempts times before somebody
\* retries it by hand.
RunsBounded == \A id \in 1..issued \ doubled : runs[id] <= maxAttempts[id]
=============================================================================
