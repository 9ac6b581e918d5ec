------------------------------- MODULE BullMQ -------------------------------
(***************************************************************************)
(* The BullMQ adapter (src/queue/adapters/BullMQAdapter.ts) and the        *)
(* AdapterRegistry that loads it.  Every instance listens to the events of *)
(* the queue of its configuration and counts them; a caller of complete()  *)
(* or fail() counts once more.                                             *)
(*                                                                         *)
(* BullMQ is external: jobs in Redis, workers that take, retry and end     *)
(* them, and events that reach each listener some time later, in any       *)
(* order.  The queue of an instance is its configuration.  A worker, of    *)
(* this process (createWorker) or another, may take a job at any moment,   *)
(* or take its time: delays, priorities and pauses, which only make it     *)
(* wait, are left out, as are the average time and the counts getMetrics   *)
(* asks Redis for, which decide nothing.                                   *)
(***************************************************************************)
EXTENDS Registry, Functions

CONSTANTS Jobs, Attempts,
          MaxManual  \* bound: calls of complete, fail, retry and clear

ASSUME BullMQAssumption == "bullmq" \in Types /\ Attempts \in Nat \ {0} /\ MaxManual \in Nat

VARIABLES job,        \* the jobs as Redis has them
          connecting, \* instances whose QueueEvents has no connection yet
          listening,  \* instances that receive events
          events,     \* events on their way to each instance
          metrics,    \* totalProcessed and totalFailed of each instance
          manual,     \* history: how often complete() and fail() counted
          base,       \* history: jobs ended in the queue before the instance listened
          op,         \* the call of each caller that awaits something
          manuals, wiped  \* history: number of such calls, queues obliterated

queueVars == <<job, connecting, listening, events, metrics, manual, base, op, manuals, wiped>>
vars == <<registryVars, queueVars>>

Counts == [completed : Nat, failed : Nat]
Zero == [completed |-> 0, failed |-> 0]
Slots == 1..MaxMade
NoJob == [state |-> "none", queue |-> Default, tries |-> 0, fails |-> 0]
States == {"none", "waiting", "active", "completed", "failed"}
NoOp == [kind |-> "none", on |-> 0, job |-> 0]

Init == /\ RegistryInit
        /\ job = [j \in Jobs |-> NoJob]
        /\ connecting = {} /\ listening = {}
        /\ events = [i \in Slots |-> Zero] /\ metrics = [i \in Slots |-> Zero]
        /\ manual = [i \in Slots |-> Zero] /\ base = [i \in Slots |-> Zero]
        /\ op = [p \in Callers |-> NoOp] /\ manuals = 0 /\ wiped = {}

In(q) == {j \in Jobs : job[j].state # "none" /\ job[j].queue = q}
Failures(q) == SumFunctionOnSet([j \in Jobs |-> job[j].fails], In(q))
Ends(q) == [completed |-> Cardinality({j \in In(q) : job[j].state = "completed"}),
            failed |-> Failures(q)]

\* What an attempt that fails makes of a job, with attempts left or without.
TriedAgain(j) == [job[j] EXCEPT !.state = "waiting", !.tries = @ + 1]
Failed(j) == [job[j] EXCEPT !.state = "failed", !.fails = @ + 1]

Bump(counts, kind) == [counts EXCEPT ![kind] = @ + 1]

\* An event of queue q is on its way to every instance that listens to it.
Emit(q, kind) == events' = [i \in Slots |->
    IF i \in listening /\ made[i].config = q THEN Bump(events[i], kind) ELSE events[i]]

-----------------------------------------------------------------------------
(* The registry, of queue adapters. *)

GetAdapter(p, config) == op[p] = NoOp /\ Get(p, "bullmq", config, FALSE) /\ UNCHANGED queueVars
IsAvailable(p) == op[p] = NoOp /\ Get(p, "bullmq", Default, TRUE) /\ UNCHANGED queueVars
ClearCache == Clear /\ UNCHANGED queueVars
LoaderFails(p) == LoadFails(p) /\ UNCHANGED queueVars

\* new BullMQAdapter(config).
LoadAdapter(p) ==
    /\ Loaded(p)
    /\ connecting' = connecting \cup {Len(made')}
    /\ UNCHANGED <<job, listening, events, metrics, manual, base, op, manuals, wiped>>

\* Its QueueEvents is connected: it hears the events of its queue from now on.
Connected(i) ==
    /\ i \in connecting
    /\ connecting' = connecting \ {i} /\ listening' = listening \cup {i}
    /\ base' = [base EXCEPT ![i] = Ends(made[i].config)]
    /\ UNCHANGED <<registryVars, job, events, metrics, manual, op, manuals, wiped>>

-----------------------------------------------------------------------------
(* The adapter that caller p holds. *)

Mine(p) == ask[p].got
Queue(p) == made[Mine(p)].config
Free(p) == Mine(p) # 0 /\ op[p] = NoOp /\ ask[p].load = Quiet
Calls(p) == Free(p) /\ manuals < MaxManual /\ manuals' = manuals + 1

Enqueue(p) ==
    /\ Free(p)
    /\ \E j \in Jobs : /\ job[j].state = "none"
                       /\ job' = [job EXCEPT ![j] = [NoJob EXCEPT !.state = "waiting",
                                                                  !.queue = Queue(p)]]
    /\ UNCHANGED <<registryVars, connecting, listening, events, metrics, manual, base,
                   op, manuals, wiped>>

Counted(i, kind) == /\ metrics' = [metrics EXCEPT ![i] = Bump(@, kind)]
                    /\ manual' = [manual EXCEPT ![i] = Bump(@, kind)]

Complete(p) ==
    /\ Calls(p) /\ Counted(Mine(p), "completed")
    /\ UNCHANGED <<registryVars, job, connecting, listening, events, base, op, wiped>>

\* fail(): the job, if the queue has it, is moved to failed; then it is counted.
Fail(p) ==
    /\ Calls(p)
    /\ \E j \in Jobs : op' = [op EXCEPT ![p] =
          [kind |-> IF j \in In(Queue(p)) THEN "move" ELSE "count", on |-> Mine(p), job |-> j]]
    /\ UNCHANGED <<registryVars, job, connecting, listening, events, metrics, manual,
                   base, wiped>>

\* What BullMQ makes of an attempt that fails: it reschedules the job, without
\* an event, as long as it has attempts left.
AttemptFails(j) ==
    /\ job[j].state = "active"
    /\ IF job[j].tries + 1 < Attempts
       THEN job' = [job EXCEPT ![j] = TriedAgain(j)] /\ UNCHANGED events
       ELSE job' = [job EXCEPT ![j] = Failed(j)] /\ Emit(job[j].queue, "failed")

\* moveToFailed ends the attempt, or throws: it is not the worker of the job.
FailMoved(p) ==
    /\ op[p].kind = "move"
    /\ \/ AttemptFails(op[p].job) /\ op' = [op EXCEPT ![p].kind = "count"]
       \/ op' = [op EXCEPT ![p] = NoOp] /\ UNCHANGED <<job, events>>
    /\ UNCHANGED <<registryVars, connecting, listening, metrics, manual, base, manuals, wiped>>

FailCounted(p) ==
    /\ op[p].kind = "count"
    /\ Counted(op[p].on, "failed")
    /\ op' = [op EXCEPT ![p] = NoOp]
    /\ UNCHANGED <<registryVars, job, connecting, listening, events, base, manuals, wiped>>

Retry(p) ==
    /\ Calls(p)
    /\ \E j \in In(Queue(p)) :
          job[j].state = "failed" /\ job' = [job EXCEPT ![j].state = "waiting"]
    /\ UNCHANGED <<registryVars, connecting, listening, events, metrics, manual, base,
                   op, wiped>>

\* clear(): the queue is obliterated, then the totals of this instance are reset.
Obliterate(p) ==
    /\ Calls(p)
    /\ job' = [j \in Jobs |-> IF j \in In(Queue(p)) THEN NoJob ELSE job[j]]
    /\ wiped' = wiped \cup {Queue(p)}
    /\ op' = [op EXCEPT ![p] = [kind |-> "clear", on |-> Mine(p), job |-> 0]]
    /\ UNCHANGED <<registryVars, connecting, listening, events, metrics, manual, base>>

MetricsReset(p) ==
    /\ op[p].kind = "clear"
    /\ metrics' = [metrics EXCEPT ![op[p].on] = Zero]
    /\ op' = [op EXCEPT ![p] = NoOp]
    /\ UNCHANGED <<registryVars, job, connecting, listening, events, manual, base,
                   manuals, wiped>>

Close(p) ==
    /\ Free(p)
    /\ connecting' = connecting \ {Mine(p)} /\ listening' = listening \ {Mine(p)}
    /\ events' = [events EXCEPT ![Mine(p)] = Zero]
    /\ UNCHANGED <<registryVars, job, metrics, manual, base,
                   op, manuals, wiped>>

-----------------------------------------------------------------------------
(* BullMQ: a worker takes a job, its processor ends; events arrive. *)

Take(j) ==
    /\ job[j].state = "waiting"
    /\ job' = [job EXCEPT ![j].state = "active"]
    /\ UNCHANGED <<registryVars, connecting, listening, events, metrics, manual, base,
                   op, manuals, wiped>>

Processed(j) ==
    /\ \/ /\ job[j].state = "active"
          /\ job' = [job EXCEPT ![j].state = "completed"]
          /\ Emit(job[j].queue, "completed")
       \/ AttemptFails(j)
    /\ UNCHANGED <<registryVars, connecting, listening, metrics, manual, base, op,
                   manuals, wiped>>

Heard_Mixed(i, kind) ==
    /\ i \in listening /\ events[i][kind] > 0
    /\ events' = [events EXCEPT ![i][kind] = @ - 1]
    /\ metrics' = [metrics EXCEPT ![i] = Bump(@, "completed")]
    /\ UNCHANGED <<registryVars, job, connecting, listening, manual, base, op, manuals, wiped>>

\* The listener of instance i for 'completed' or 'failed'.
Heard(i, kind) ==
    /\ i \in listening /\ events[i][kind] > 0
    /\ events' = [events EXCEPT ![i][kind] = @ - 1]
    /\ metrics' = [metrics EXCEPT ![i] = Bump(@, kind)]
    /\ UNCHANGED <<registryVars, job, connecting, listening, manual, base, op, manuals, wiped>>

Next == \/ \E p \in Callers :
              \/ \E c \in Configs : GetAdapter(p, c)
              \/ IsAvailable(p) \/ LoadAdapter(p) \/ LoaderFails(p)
              \/ Enqueue(p) \/ Complete(p) \/ Fail(p) \/ FailMoved(p) \/ FailCounted(p)
              \/ Retry(p) \/ Obliterate(p) \/ MetricsReset(p)
              \/ Close(p)
        \/ ClearCache
        \/ \E j \in Jobs : Take(j) \/ Processed(j)
        \/ \E i \in Slots : Connected(i)
        \/ \E i \in Slots, kind \in {"completed", "failed"} : Heard(i, kind)

Spec == Init /\ [][Next]_vars

-----------------------------------------------------------------------------
(* The jobs, counts and calls are well formed, and only instances that     *)
(* were made listen.                                                       *)
TypeOK == /\ RegistryTypeOK
          /\ job \in [Jobs -> [state : States, queue : Configs \cup {Default},
                               tries : 0..(Attempts - 1), fails : Nat]]
          /\ connecting \cup listening \subseteq DOMAIN made
          /\ {events, metrics, manual, base} \subseteq [Slots -> Counts]
          /\ manuals \in 0..MaxManual /\ wiped \subseteq Configs \cup {Default}

(* An instance counts the events of its queue and, once more, the calls of *)
(* complete() and fail().  As long as it is open and nobody obliterated    *)
(* the queue, what it has counted and the events on their way add up to    *)
(* the jobs that ended since it heard of any, whichever instance they were *)
(* enqueued, worked on or failed through, and one for each such call: the  *)
(* totals of getMetrics are right only where nobody makes these calls.     *)
TotalsBalance == \A i \in listening : made[i].config \notin wiped =>
    \A kind \in {"completed", "failed"} :
       metrics[i][kind] + events[i][kind] + base[i][kind]
          = Ends(made[i].config)[kind] + manual[i][kind]
=============================================================================
