----------------------------- MODULE PushClient -----------------------------
(***************************************************************************)
(* src/client/PushClient.ts with the life cycle of the provider it owns    *)
(* (src/providers/): initialize, shutdown, and the calls that send without *)
(* the queue.                                                              *)
(*                                                                         *)
(* JavaScript runs one piece of code at a time, up to its next await.  An  *)
(* await of a promise that one of these methods settles goes on in the     *)
(* order in which the promises were settled: tasks is that queue.  An      *)
(* await of anything else (a module to load, the workers of the queue, an  *)
(* app to delete, the service) ends at some time, and callers call at any  *)
(* time, also between two tasks.                                           *)
(*                                                                         *)
(* A life-cycle call has a pc that names what it awaits, or, once it is in *)
(* tasks, the code it runs next:                                           *)
(*    import     the provider's SDK                                        *)
(*    configure  the rest of the provider's initialize()                   *)
(*    up         the rest of the client's initialize()                     *)
(*    stop       the queue manager's stop()                                *)
(*    stopped    the client's call of the provider's shutdown()            *)
(*    delete     the deletion of the Firebase app                          *)
(*    deleted    the rest of the provider's shutdown()                     *)
(*    down       the rest of the client's shutdown()                       *)
(* A sending call waits at the limiter (pc limit) and on the service (pc   *)
(* service), batch by batch.  Providers report what fails at the service   *)
(* as a result; they throw when they are not initialised, and that is no   *)
(* error to retry: so RetryEngine makes one attempt of each batch.         *)
(*                                                                         *)
(* Every message has one destination, a token or a topic.  Calls that      *)
(* ensureInitialized refuses, initialize() of an initialised client and a  *)
(* bulk of no messages change nothing and are left out.                    *)
(***************************************************************************)
EXTENDS SequencesExt

CONSTANTS LifeCalls,   \* bound: calls of initialize and shutdown
          SendCalls,   \* bound: calls of send, sendBulk and sendToTopic
          MaxSize,     \* bound: messages in a bulk
          BatchSize,   \* defaultBatchSize, or the provider's limit
          Capacity     \* the most permits the limiter can grant at once

ASSUME SizesAssumption ==
    MaxSize \in Nat /\ BatchSize \in Nat \ {0} /\ Capacity \in Nat

VARIABLES setup,         \* which provider, and whether there is a queue
          initialized,   \* the client's flag
          ready,         \* the provider's flag
          app,           \* whether the provider has made its app or Expo client
          life,          \* pc of each life-cycle call
          tasks,         \* the continuations to run next, by call
          calls,         \* the sending calls
          metrics,       \* totals of MetricsCollector
          confirmed      \* history: messages the service took

lifeCycle == <<initialized, ready, app, life, tasks>>

sending == <<calls, metrics, confirmed>>

vars == <<setup, lifeCycle, sending>>

Setup == [provider : {"fcm", "expo"}, queue : BOOLEAN]

\* size: messages given; left: those in batches to come; topics: those of this
\* batch that go to a topic, after the tokens; ok, bad: results so far.
NewCall(pc, size) ==
    [pc |-> pc, size |-> size, left |-> size, topics |-> 0, ok |-> 0, bad |-> 0]

Init ==
    /\ setup \in Setup
    /\ initialized = FALSE /\ ready = FALSE /\ app = FALSE
    /\ life = [l \in LifeCalls |-> "none"]
    /\ tasks = <<>>
    /\ calls = [c \in SendCalls |-> NewCall("none", 0)]
    /\ metrics = [sent |-> 0, success |-> 0, failure |-> 0]
    /\ confirmed = 0

-----------------------------------------------------------------------------
(* initialize and shutdown.                                                *)

\* The call awaits something external.
Awaits(l, pc) == life' = [life EXCEPT ![l] = pc] /\ tasks' = tasks

\* What the call awaits is settled: it goes on after the tasks before it.
Queues(l, pc) == life' = [life EXCEPT ![l] = pc] /\ tasks' = Append(tasks, l)

\* The call is the next task, and runs the code named pc.
Runs(l, pc) == tasks # <<>> /\ Head(tasks) = l /\ life[l] = pc

\* The task ends in an await of something external, or by settling a promise
\* that another task awaits, or for good.
ThenAwaits(l, pc) == life' = [life EXCEPT ![l] = pc] /\ tasks' = Tail(tasks)
ThenQueues(l, pc) ==
    life' = [life EXCEPT ![l] = pc] /\ tasks' = Append(Tail(tasks), l)
Ends(l) == ThenAwaits(l, "done")

\* Mutant: the flag is raised before the provider is initialised.
Initialize_Early(l) ==
    /\ life[l] = "none"
    /\ ~initialized
    /\ initialized' = TRUE
    /\ Awaits(l, "import")
    /\ UNCHANGED <<setup, ready, app, sending>>

Initialize(l) ==
    /\ life[l] = "none"
    /\ ~initialized
    /\ Awaits(l, "import")
    /\ UNCHANGED <<setup, initialized, ready, app, sending>>

Imported(l) ==
    /\ life[l] = "import"
    /\ Queues(l, "configure")
    /\ UNCHANGED <<setup, initialized, ready, app, sending>>

\* The provider makes its app (or its Expo client), or throws: the module is
\* missing, the credentials are bad, or the app exists already.
Configure(l) ==
    /\ Runs(l, "configure")
    /\ \/ ready' = TRUE /\ app' = TRUE /\ ThenQueues(l, "up")
       \/ Ends(l) /\ UNCHANGED <<ready, app>>
    /\ UNCHANGED <<setup, initialized, sending>>

Up(l) ==
    /\ Runs(l, "up")
    /\ initialized' = TRUE
    /\ Ends(l)
    /\ UNCHANGED <<setup, ready, app, sending>>

\* The stop() of a queue manager that is not processing returns at once.
StopQueue(l) ==
    /\ life[l] = "none"
    /\ setup.queue
    /\ Awaits(l, "stop") \/ Queues(l, "stopped")
    /\ UNCHANGED <<setup, initialized, ready, app, sending>>

QueueStopped(l) ==
    /\ life[l] = "stop"
    /\ Queues(l, "stopped")
    /\ UNCHANGED <<setup, initialized, ready, app, sending>>

\* The Expo provider drops its flag, the FCM provider deletes its app first, if
\* it has one; this is called as a task, or, without a queue, by shutdown.
ShutdownProvider(l) ==
    /\ \/ Runs(l, "stopped")
       \/ life[l] = "none" /\ ~setup.queue
    /\ LET others == IF life[l] = "none" THEN tasks ELSE Tail(tasks)
           waits  == setup.provider = "fcm" /\ app
       IN  /\ life' = [life EXCEPT ![l] = IF waits THEN "delete" ELSE "down"]
           /\ tasks' = IF waits THEN others ELSE Append(others, l)
    /\ ready' = (ready /\ setup.provider = "fcm")
    /\ UNCHANGED <<setup, initialized, app, sending>>

\* The app is deleted, or the deletion fails, and shutdown() with it.
AppDeleted(l) ==
    /\ life[l] = "delete"
    /\ Queues(l, "deleted") \/ Awaits(l, "done")
    /\ UNCHANGED <<setup, initialized, ready, app, sending>>

Unready(l) ==
    /\ Runs(l, "deleted")
    /\ ready' = FALSE
    /\ ThenQueues(l, "down")
    /\ UNCHANGED <<setup, initialized, app, sending>>

Down(l) ==
    /\ Runs(l, "down")
    /\ initialized' = FALSE
    /\ Ends(l)
    /\ UNCHANGED <<setup, ready, app, sending>>

-----------------------------------------------------------------------------
(* send, sendBulk and sendToTopic.                                         *)

\* Messages of the batch that are with the service now.
Asked(call) == call.size - call.ok - call.bad - call.left - call.topics

InFlight == {c \in SendCalls : calls[c].pc \in {"limit", "service"}}

\* Mutant: the last batch is as large as the others.
Batch_Full(call) == BatchSize

Batch(call) == IF BatchSize < call.left THEN BatchSize ELSE call.left

\* send is sendBulk of one message, as far as this goes.
SendBulk(c, size) ==
    /\ calls[c].pc = "none"
    /\ initialized
    /\ calls' = [calls EXCEPT ![c] = NewCall("limit", size)]
    /\ metrics' = [metrics EXCEPT !.sent = @ + size]
    /\ UNCHANGED <<setup, lifeCycle, confirmed>>

\* All results are there: they are counted.
Resolve(c, call) ==
    /\ calls' = [calls EXCEPT ![c] = [call EXCEPT !.pc = "done"]]
    /\ metrics' = [metrics EXCEPT !.success = @ + call.ok,
                                  !.failure = @ + call.bad]

\* Mutant: only what has no result yet is counted as failed.
Reject_Rest(c, call) ==
    /\ calls' = [calls EXCEPT ![c] = [call EXCEPT !.pc = "failed"]]
    /\ metrics' = [metrics EXCEPT !.failure = @ + call.left + call.topics]

\* The provider throws: all messages are counted as failed.
Reject(c, call) ==
    /\ calls' = [calls EXCEPT ![c] = [call EXCEPT !.pc = "failed"]]
    /\ metrics' = [metrics EXCEPT !.failure = @ + call.size]

\* Mutant: the provider takes calls in any state.
EnsureInitialized_Not == TRUE

\* The provider's test, which throws when it fails.
EnsureInitialized == ready

\* The permits for the next batch are there, and the provider gets it.  FCM
\* sends the tokens first and the topics after that; a batch of topics alone
\* goes out at once, like one of tokens.
Permit(c) ==
    LET call == calls[c]
    IN  /\ call.pc = "limit"
        /\ Batch(call) <= Capacity
        /\ \/ /\ EnsureInitialized
              /\ \E topics \in 0..(Batch(call) - 1) :
                    /\ topics > 0 => setup.provider = "fcm"
                    /\ calls' = [calls EXCEPT ![c] =
                           [call EXCEPT !.pc = "service", !.topics = topics,
                                        !.left = @ - Batch(call)]]
              /\ UNCHANGED metrics
           \/ ~EnsureInitialized /\ Reject(c, call)
        /\ UNCHANGED <<setup, lifeCycle, confirmed>>

\* FCM only.  No permit, no metrics: a call of no messages that is with the
\* service.
SendToTopic(c) ==
    /\ calls[c].pc = "none"
    /\ initialized
    /\ setup.provider = "fcm"
    /\ calls' = [calls EXCEPT ![c].pc =
                    IF EnsureInitialized THEN "service" ELSE "failed"]
    /\ UNCHANGED <<setup, lifeCycle, metrics, confirmed>>

\* Mutant: the results of a batch replace those before it.
Answered_Last(call, ok) == [call EXCEPT !.ok = ok, !.bad = @ + Asked(call) - ok]

\* The call with the results for what was asked.
Answered(call, ok) == [call EXCEPT !.ok = @ + ok, !.bad = @ + Asked(call) - ok]

\* The service answers for each message asked.  The topics of the batch are
\* next, by then the provider may be down; or the next batch; or that was all.
Answer(c) ==
    \E ok \in 0..Asked(calls[c]) :
        LET call == Answered(calls[c], ok)
        IN  /\ calls[c].pc = "service"
            /\ \/ /\ call.topics > 0
                  /\ EnsureInitialized
                  /\ calls' = [calls EXCEPT ![c] = [call EXCEPT !.topics = 0]]
                  /\ UNCHANGED metrics
               \/ call.topics > 0 /\ ~EnsureInitialized /\ Reject(c, call)
               \/ /\ call.topics = 0 /\ call.left > 0
                  /\ calls' = [calls EXCEPT ![c] = [call EXCEPT !.pc = "limit"]]
                  /\ UNCHANGED metrics
               \/ call.topics = 0 /\ call.left = 0 /\ Resolve(c, call)
            /\ confirmed' = confirmed + ok
            /\ UNCHANGED <<setup, lifeCycle>>

LifeStep(l) ==
    \/ Initialize(l) \/ Imported(l) \/ Configure(l) \/ Up(l)
    \/ StopQueue(l) \/ QueueStopped(l) \/ ShutdownProvider(l)
    \/ AppDeleted(l) \/ Unready(l) \/ Down(l)

SendStep(c) ==
    \/ \E size \in 1..MaxSize : SendBulk(c, size)
    \/ Permit(c) \/ Answer(c) \/ SendToTopic(c)

Next ==
    \/ \E l \in LifeCalls : LifeStep(l)
    \/ \E c \in SendCalls : SendStep(c)

Spec == Init /\ [][Next]_vars

\* Permits come, where the limiter can grant them, and the service answers.
FairSpec ==
    Spec /\ \A c \in SendCalls : WF_vars(Permit(c)) /\ WF_vars(Answer(c))

-----------------------------------------------------------------------------
(* Properties.                                                             *)

\* The states of a life-cycle call, those in which it is in tasks first.
TaskPCs == {"configure", "up", "stopped", "deleted", "down"}

LifePCs == TaskPCs \cup {"none", "import", "stop", "delete", "done"}

Call == [pc : {"none", "limit", "service", "done", "failed"},
         size : 0..MaxSize, left : 0..MaxSize, topics : 0..MaxSize,
         ok : 0..MaxSize, bad : 0..MaxSize]

\* Every variable holds what its declaration says, and no call has more
\* results than messages.
TypeOK ==
    /\ setup \in Setup
    /\ initialized \in BOOLEAN /\ ready \in BOOLEAN /\ app \in BOOLEAN
    /\ life \in [LifeCalls -> LifePCs]
    /\ tasks \in Seq(LifeCalls)
    /\ calls \in [SendCalls -> Call]
    /\ \A c \in SendCalls : Asked(calls[c]) >= 0
    /\ metrics \in [sent : Nat, success : Nat, failure : Nat]
    /\ confirmed \in Nat

\* Whenever no task is left to run, the client says it is initialised exactly
\* when its provider does, whatever calls of initialize and shutdown overlap
\* and fail: so a client that accepts a message can send it.
LifeCycleAgrees == tasks = <<>> => initialized = ready

\* A request goes out to the service only while the client is initialised, or
\* in the moment in which it becomes so or ceases to be: no batch and no topic
\* of a call that was under way goes out after a shutdown.
SendsOnlyWhenUp ==
    [][\A c \in SendCalls :
          calls'[c].pc = "service" /\ calls'[c] # calls[c]
             => initialized \/ tasks # <<>>]_vars

\* Every message of send and sendBulk is counted as sent, and once as success
\* or failure when its call ends.
MetricsBalance ==
    metrics.sent = metrics.success + metrics.failure
        + SumFunctionOnSet([c \in SendCalls |-> calls[c].size], InFlight)

\* Every message the service took is counted as a success, unless its call is
\* under way, or was rejected in the middle.
DeliveriesReported ==
    confirmed = metrics.success
        + SumFunctionOnSet([c \in SendCalls |-> calls[c].ok],
                           {c \in SendCalls : calls[c].pc \notin {"none", "done"}})

\* docs/marketing/dev-to-draft.md: "Send 10,000 messages? We split them into
\* optimal chunks (500 for FCM, 100 for Expo) automatically."  Refuted, where such
\* a chunk is more than the limiter can ever grant: the call waits for ever.
BulkEnds == \A c \in SendCalls : (c \in InFlight) ~> (c \notin InFlight)
=============================================================================
