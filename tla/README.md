# A verification development of jxpush

jxpush is a TypeScript library that sends push notifications through FCM, Expo
and Web Push. Its own logic is what stands between a caller and a provider: a
priority queue with a pool of workers, a rate limiter, a retry engine, and the
client that ties them together; beside it stand queue adapters for Redis and
BullMQ, a RabbitMQ publisher, the registries that load them, a message builder,
and engines for templates and translations. This directory models that logic in
TLA+, checks it with TLC and proves its safety properties with TLAPS. Paths below are relative to
the repository.

## 1. The system

JavaScript runs one piece of code at a time, up to its next `await`. What makes
this code hard is what happens *between* two awaits of one call: other calls of
the same objects, timers, and callers that stop, clear or reconfigure them.

| Component | Source | State | Operations | Talks to |
|---|---|---|---|---|
| InMemoryQueue | `src/queue/InMemoryQueue.ts` | the array, an id counter | enqueue (push and sort), dequeue, dequeueBatch, remove, incrementAttempts, clear | QueueManager calls it |
| QueueManager | `src/queue/QueueManager.ts` | `processing` flag, set of worker promises, its queue | enqueue (auto-start), start, stop, clear, processWorker, processItem | RateLimiter, RetryEngine, provider, hooks |
| RateLimiter | `src/rateLimit/RateLimiter.ts` | two token buckets with a time of last refill | acquire, waitAndAcquire, getStatus, reset | called by client and workers |
| RetryEngine | `src/retry/RetryEngine.ts` | its configuration, shared by all calls | execute, executeWithConfig, updateConfig | calls the provider through a closure |
| PushClient | `src/client/PushClient.ts` | `initialized`, the components above, metrics | initialize, send, sendBulk, sendToTopic, queue, shutdown | everything above |
| Metrics, hooks | `src/analytics/` | counters, callbacks | record*, trigger* | written by PushClient and QueueManager |
| Providers | `src/providers/` | SDK handle, `initialized` | initialize, send, sendBulk, sendToTopic, shutdown | the external services |
| Redis adapter | `src/queue/adapters/RedisQueueAdapter.ts` | Redis lists, hashes and sets; a local processing set | enqueue, dequeue, complete, fail, retry, clear, moveDelayedJobs | Redis, shared with other processes |
| BullMQ adapter | `src/queue/adapters/BullMQAdapter.ts` | metrics | forwards to BullMQ, counts its events | BullMQ |
| RabbitMQ adapter | `src/adapters/messaging/RabbitMQAdapter.ts` | connection, channel, `connected` | connect, publish, publishBatch, close | RabbitMQ |
| Registries | `src/core/` | cached instances, loaders | getAdapter / getProvider, isAvailable, clearCache | adapters, providers |
| MessageBuilder, validation | `src/builder/`, `src/validation/` | a message object, shared with whoever it was handed to | token, topic, title, data, addData, build, reset, clone | providers read its messages |
| Templates | `src/templates/` | compiled and raw templates of each engine; one table of helpers for all engines | registerTemplate, registerHelper, render, hasTemplate, clearCache, directory loader | Handlebars, file system |
| Localization | `src/localization/` | a table of texts per locale | registerLocale, translate, translateBatch, clearLocales, directory loader | file system |
| Backoff, chunk | `src/utils/` | none | calculateBackoff, withBackoff, chunk, chunkIntoN | RetryEngine, PushClient, providers |
| Errors, email, CLI, integrations | `src/errors/`, `src/adapters/email/`, `src/cli/`, `integrations/` | none that interleaves | | |

What is hard in each, and what makes it correct:

- **InMemoryQueue.** Order rests on sorting the whole array after each push with
  a comparator that knows priorities only. Correct: ordered by priority, then by
  arrival, whatever else was removed or counted in between; never over its limit.
- **QueueManager.** `start`, `stop`, `clear` and `enqueue` arrive while workers
  are in the middle of an item; `enqueue` starts a stopped manager, also one that
  is still stopping. Correct: no message is lost or sent by two workers, it ends
  once, workers are neither forgotten nor doubled, a stop that returned left
  nothing running, and what is queued is served.
- **RateLimiter.** Two buckets charged one after the other, callers that sleep
  and try again while others take tokens. Correct: no more permits in a window
  than the buckets allow, waits that are long enough, nobody starved for ever.
- **RetryEngine.** One configuration read afresh on each round of each call,
  overridden and restored by others meanwhile. Correct: attempts bounded, no call
  gives up early, overrides undone, every call ends.
- **PushClient.** Initialisation and shutdown overlap and race with sends; a bulk
  send can fail in the middle. Correct: client and provider agree on whether they are
  initialised, nothing is sent after a shutdown, every message is counted once.
- **Redis adapter.** Several processes and crashes between any two commands: jobs
  lost, run twice, or left in the processing hash.
- **RabbitMQ adapter.** `connect()` tests a flag that it sets four awaits later; `close()` drops channel,
  connection and flag one await after another. Correct: no connection is lost sight of, the flag
  tells the truth, and a publish reports what became of its message.
- **Registries, BullMQ adapter.** A registry looks into its cache before an await and fills it afterwards, and a probe
  leaves an instance behind; every instance of the adapter counts the events of its queue, and some calls count
  again. Correct: one instance per type, and totals that add up.
- **Builder and providers.** A bulk request is read from the message objects when it goes out, several
  awaits after the call, and the builder may have gone on changing them. Correct: one result
  per recipient, in order, and for each recipient the content that was built for it (which FCM does not give where
  a batch mixes messages, see section 3).
- **Templates, localization.** Compiled and raw templates are two maps that are cleared apart, engines share a
  table of helpers that the last of them wrote, directories register many files at once. Correct: what was registered last is what is rendered.

`PROJECT.json` lists these hazards at their lines, with the properties that cover
them, and for those without one why nothing covers them.

## 2. Modules

```
 PriorityOrder            operators on the array (push, sort, shift)
   |- InMemoryQueue       state machine   --implements-->  PriorityFifo
   |- QueueManager        state machine   --implements-->  Delivery
 RateLimiter              state machine
 RetryEngine              state machine
 RedisQueue               state machine
 PushClient               state machine, with the life cycle of its provider
 RabbitMQ                 state machine
 Registry                 state machine
   |- BullMQ              the registry of queue adapters, and the adapter it loads
 MessageBuilder           operations on message objects
   |- Providers           bulk and single calls of the providers, beside the builders
 Templates, Localization  state machines
   |- Texts               both together
 MC<X>.tla, MC<X>*.cfg    instances for TLC
 <X>_proofs.tla           theorems and proofs: of QueueManager, PushClient, RedisQueue, RabbitMQ, BullMQ (with Registry)
   Parts_proofs           of InMemoryQueue, RateLimiter and RetryEngine
   Messages_proofs        of MessageBuilder, Providers, Templates, Localization and Texts
   Data_proofs            lemmas on arrays, sums, flattened sequences and maps folded from lists
```

**PriorityOrder / InMemoryQueue** (`InMemoryQueue.ts`). The array is a sequence of
items (number of the id, priority, attempts); every method is synchronous and so
one action. The array order after a sort is given by what a stable sort by
descending priority does (`Place`), not by re-implementing one. **PriorityFifo**
says what a priority queue is with no array: a set of numbered messages, from which
a consumer is served those in front, in their order. What the consumer was handed is
visible (`handed`, in the array's module the history `served`), so that a dequeue of the
wrong message cannot pass for a removal: only `remove` takes a message from anywhere
(`Withdraw`), and hands it to nobody. `InMemoryQueue!Fifo` is the refinement mapping, which
forgets the array's order, so the implementation must earn it.

**QueueManager** (`QueueManager.ts`, and the loop of `RetryEngine.execute` that its
workers run). A worker is one async call of `processWorker`; its `pc` names what it
awaits (`poll` the timer, `limit` the permit, `send` the provider, `backoff` the
next attempt, `loop` the turn in which it tests the flag, `off` nothing). An action
is the code between two awaits. `start` runs each new worker up to its first
await synchronously, so the crew takes the first items of the queue within the call
that started it (`StartOn`), also inside `Enqueue`. `stop` remembers the workers alive
when it was called: `workers` of the source is a Set that later starts add to, while
`Promise.all` awaits only those it was given. The module uses the
same operators on the array as InMemoryQueue, and takes its initial state and
size test from an instance of it. `outcome` and `sends` are history. **Delivery** states
what queueing promises with no queue in it; `QueueManager!D` is the mapping.

**RateLimiter** (`RateLimiter.ts`). Time is a millisecond `Tick`; a bucket counts in
parts of a token so that a millisecond adds a whole number of them. `elapsed` is the
time since `lastRefill`, and the refill is done where the code does it, lazily. A
caller of `waitAndAcquire` is a record with what is left of its timer; a due timer
may fire late. `window` and `undisturbed` are history.

**RetryEngine** (`RetryEngine.ts`). A call is a record with its attempt; `maxAttempts`
is the engine's, read afresh wherever the code reads it, and `enabled` is read when a call
begins: a call of a disabled engine runs its function once (`pc` is `once`). Overrides and
updates set both. The `finally` block of
`executeWithConfig` runs a turn after the call has settled, as promises do.
`base`, `baseEnabled`, `seen` and `tangled` are history.

**RedisQueue** (`RedisQueueAdapter.ts`, `BaseQueueAdapter.ts`). Each Redis command is an
action, with the code up to the next one, because every command is followed by an await and other processes
use the same keys; a pipeline is not a transaction, so its commands are actions too. A
worker is a process that makes one call at a time and reports each job it got once; its `pc` names the
command that comes next, its `job` what it holds in memory meanwhile. A crash forgets both and leaves Redis
as it is. Of the three histories, `orphaned` names the jobs in memory only when their process
crashed, `cleared` those that `clear` deleted, and `doubled` those moved twice: by two
processes that read the same due or failed job, by one that crashed between the push and the
removal, or put back while another was about to remove an equal value. A job that `retry` fails to take out of
the failed hash, because `clear` deleted the hash meanwhile, counts as doubled only if it is somewhere else too.

**PushClient** (`PushClient.ts`, `Provider.ts`, and `initialize`, `shutdown` and the order of tokens and
topics of `FCMProvider.ts` and `ExpoProvider.ts`). Client and provider each keep a flag, and set it in
different turns. So the order in which turns run matters: `tasks` is the queue of continuations whose
promise one of these methods has settled, first in, first out, and a task that settles a promise puts the
one that awaits it at the end. What is awaited from outside (a module, the workers of the queue,
the deletion of an app, the service) settles at any time, and callers call at any time. A sending call is a
record with what is left of its batches and its results; `Permit` is the granting of permits together with
the provider's call, whose test of its flag it contains. Every state of `setup` is an initial state: FCM or Expo, with or
without a queue. `confirmed` is history.

**RabbitMQ** (`RabbitMQAdapter.ts`). Calls of publish, publishBatch, enableConfirms and close share one
`connection`, `channel` and `connected`. The `pc` of a call names what it awaits, and each await may fail; a
batch awaits a publish for each message, so another call can come between two of them. `conns` and `chans` are what the
broker has open, which may end by itself (`Lose`): the adapter does not listen. A call keeps in `out` what `publish()` of the channel
answered for each message, and in `res` what it reported; an answer false is a full write buffer, which the adapter
reports as a failure although amqplib sends the message later. `mishaps` is history: two connects or closes overlapped, or one failed half-way.

**Registry / BullMQ** (`ProviderRegistry.ts`, `AdapterRegistry.ts`, `BullMQAdapter.ts`). A caller that finds the
cache empty is `Loading` until its loader returns (`Loaded`) or throws; `isAvailable` is such a call with
the configuration `Default`, whose instance nobody receives. `beside` and `probe` are written into an
instance: it was loaded beside another load, or by a probe. BullMQ adds the jobs as Redis has them, the workers that take
them, and the events on their way to each instance that is `listening`: its `QueueEvents` connects some time after its constructor (`connecting`, then `Connected`), and
what ended before is not heard. An attempt that fails, in a worker or because `fail()` moved the job, reschedules a job with
attempts left without an event (`AttemptFails`). An instance uses the queue its configuration names. `complete` and `fail` count in `metrics` themselves, and an event counts too. `manual`, `base` and
`wiped` are history: such calls, what had ended before the instance listened, queues that were obliterated.

**MessageBuilder / Providers** (`MessageBuilder.ts`, `messageValidator.ts`, `FCMProvider.ts`, `ExpoProvider.ts`,
`WebPushProvider.ts`). A builder is a number in a `heap` of message objects, which refer to `data` objects:
`build()` hands the object itself out, `data()` keeps the object of its caller, `addData` changes it in place. A bulk call lists its recipients
first; a batch is converted when it is sent, from the objects as they are by then. A `group` is a list of
`send()`s awaited with `Promise.all`. `built` (the content at the time of build) and `touched` (the messages that were
changed after they were handed out, by a setter of their builder or an `addData` to the data object they use) are history.

**Templates, Localization / Texts** (`TemplateEngine.ts`, `TemplateLoader.ts`, `LocalizationEngine.ts`,
`LocaleLoader.ts`). Each method is synchronous. A directory is a sequence of files; `Register` and `RegisterLocale` fold the
registration over those the loader takes. Rendering is Handlebars, external; what is kept of it is which content is
taken (`Render`) and whose function its shared table holds (`helpers`: the last to write it wins, about which nothing is
promised, so no property is about it). A text asked for without a locale is looked up in the default one. `log` and `told` are the calls so far.
The properties compare every engine with the log, not with a second copy of its maps.

Mutants: operators named after a definition, with a suffix, are plausible bugs, never
part of a specification. Each property of a passing run is falsified when the
definition named in `PROJECT.json` is replaced by its mutant.

## 3. Runs

| Run | Configuration | Checks | Result |
|---|---|---|---|
| queue | 3 priorities, 5 items, room for 4, batches of any size | TypeOK, Ordered, ServesInOrder | holds, 118 578 states |
| manager | concurrency 2, 4 worker slots, 2 stops, 3 messages, room for 2, 2 attempts, auto-start | TypeOK, Conservation, CrewAccounting, QuietAfterStop, ImplementsDelivery | holds, 138 826 states |
| manager_live | concurrency 2, 3 worker slots, 1 stop, 3 messages, no size limit, 2 attempts, no auto-start, fairness | InFlightEnds, StopReturnsOrRestarted, Served | holds, 77 812 states |
| limiter | buckets of 3 and 4 tokens refilled at 2 per 3 ms and 3 per 5 ms, 2 callers, counts 1 and 2, window of 2 ms | LimiterTypeOK, WindowLimit, FirstWakeSucceeds, SinglesServed | holds, 183 462 states |
| retry | 2 calls, maxAttempts 0 and 3, enabled or not, fairness | RetryTypeOK, AttemptsBounded, RestoredWhenAlone, NoEarlyExit, CallsEnd | holds, 135 914 states |
| redis | 2 processes, 2 jobs with 2 and 1 attempts, 2 interventions (pause, resume, retry, clear, crash) | TypeOK, NothingLost, OnePlace, RunsBounded | holds, 3 545 849 states |
| client | 4 calls of initialize and shutdown, 2 sending calls of up to 4 messages in batches of 2, FCM and Expo, with and without a queue | TypeOK, LifeCycleAgrees, MetricsBalance, DeliveriesReported, SendsOnlyWhenUp | holds, 1 658 078 states |
| client_flood | 1 sending call of up to 3 messages in one batch, 2 permits at most, fairness | BulkEnds | **violated** |
| rabbit | 3 calls on one adapter, batches of up to 2, 3 connections | NothingLeaks, UsableWhenConnected, ReportsOutcomes | holds, 3 163 413 states |
| adapters | 2 callers, the configuration of the application and the default, 2 instances at most, 1 job with 2 attempts, 1 clearCache, 1 call of complete, fail, retry or clear | OneInstance, TotalsBalance | holds, 3 152 224 states |
| messages | 2 builders, 2 message objects of two tokens, 2 data objects of up to 2 entries, bulks of 2, FCM batches of 3, Expo batches of 2; or 2 template engines, 1 id, 2 locales, 2 contents, 2 keys, up to 4 calls and directories | ResultsMatchTargets, OwnContent, RendersLatest, TranslatesLatest | holds, 1 949 189 states |
| fcm_bulk | 2 builders, 2 messages of one token or two and two bodies, bulks of 2, FCM batches of 3 | EachItsOwn | **violated** |

Why the bounds are enough. Five items overfill a queue of four and give two equals in
each priority class and an odd one. Twice the concurrency in worker slots is what
a start inside a stop needs; two stops, so that one is called while another waits;
three messages, so that both workers hold one and the queue holds one, which `Served` needs too: a message
then waits behind others that keep all workers busy. The bucket
rates share no period, so both are the scarcer one somewhere, and every wait needs
rounding; the larger counts come close to a capacity. Two calls are enough
for overrides to overlap, and 0 and 3 are no attempt at all and a limit of several, so it can fall below the
attempts already made and be raised again. Two processes are what it takes to move one job
twice, two jobs what it takes for a batch to be promoted half; one job is tried again and fails,
the other fails at once; two interventions let a retry meet a retry, a clear or a crash. Four life-cycle calls are an initialisation with two shutdowns and
a second initialisation overlapping in any way; bulks of three and four messages have a whole and a short last batch,
and fail in the first, the last, or the topics of one. Three calls on the RabbitMQ adapter are two that
connect while one closes, and three connections let each dial. In `adapters`, two callers are what it takes for loads to
overlap, instances of both configurations or of the same one listen to the events of one job, and the job can fail, be
retried by hand and fail again. In `messages`, two messages of two tokens
make four recipients, so FCM splits off a last batch of one, in the middle of a message, and Expo sends two batches; the objects
let a builder reset, clone, or share its data while the second batch waits. A behaviour of this run either makes and sends
messages or registers texts, which share nothing. Of the texts, four calls are a registration, a clear, a
registration and a call of the other engine, in any order; one directory has two files of one
key, and files the loader skips. Deadlock checking is off
because the bounded counters make the system stop.

Symmetry is used in safety runs only (manager, redis, client, rabbit, adapters, messages), on worker slots,
calls, processes, callers and builders, which differ in name only; the bounds of every run are CONSTANTS with a
comment that says "bound".

### Where the code and what is said of it disagree

Two runs are expected to find a violation, `client_flood` and `fcm_bulk`:

- **BulkEnds.** `docs/marketing/dev-to-draft.md:46`: "Send 10,000 messages? We split them into optimal chunks
  (500 for FCM, 100 for Expo) automatically.", and `README.md:205` says the same of it. `sendBulk` asks the limiter for a whole chunk of permits at once, and
  by default a bucket holds 150: a chunk of more than 150 messages for FCM waits for ever.
- **EachItsOwn.** `tests/integration/send-notification.mock.test.ts:117,124,131` gives the three messages of one bulk call
  a body each. `FCMProvider.ts:224` makes the request of a batch from its first message, so the recipients of the others
  are sent the notification and the data of that one. `OwnContent`, of the passing run, leaves out just these recipients.

The others are behaviours of the models; the properties of the passing runs are stated so that they say what does hold.

- `config.types.ts:71` calls `concurrency` the "Maximum number of
  concurrent workers processing the queue". An `enqueue` while `stop()` awaits a
  worker starts a second crew, and the first, seeing the flag up again, works on.
  `CrewAccounting` states what does hold: the extra workers are those a pending stop waits for.
- `acquire` charges both buckets before it knows whether both
  have enough, and keeps what it took when one refuses. Three callers of
  `waitAndAcquire(3)` on buckets of 3 and 4 keep each other waiting for ever. `SinglesServed` states what
  does hold for counts of one.
- The last line of `execute` "should never be reached"
  (`RetryEngine.ts:126`). It is when `maxAttempts` is 0, with `undefined` thrown and the
  function never called, and when the limit falls while a call sleeps.
- `reliability-test-plan.md:26` expects of a process killed mid-queue that
  "Pending messages remain in store". `dequeue` takes a job out of the pending list before it
  enters it in the processing hash, and a process killed in between takes it along.
  `NothingLost` names every way in which a job can be lost.
- `tests/unit/templates/TemplateEngine.test.ts:204` says of `clearCache` "Templates are still registered, just cache is
  cleared". `hasTemplate` agrees, but `render` reads the compiled templates only, and throws until each
  template is registered again. `RendersLatest` states both.
- RabbitMQ: `publish()` of a channel answers false when its write buffer is full, and has kept the message. The adapter
  reports it as failed (`RabbitMQAdapter.ts:70`). `ReportsOutcomes` says that the report is what the channel answered.

## 4. Fairness

- QueueManager: weak fairness of each worker's turn (timers fire, permits come,
  the provider settles, promises resolve) and of each pending stop's return. None for
  callers: nobody has to start, stop or enqueue. Which of a provider's answers comes
  is not subject to fairness.
- RateLimiter: the clock ticks and due timers fire. None for new calls; in particular
  `SinglesServed` allows an endless stream of new demand to starve a caller.
- RetryEngine: what a call awaits ends (the function settles, the delay is over, the
  finally block runs). None for new calls and updates.
- RabbitMQ, Registry, BullMQ, Providers, Templates and Localization have safety properties only: no fairness is
  assumed of a broker, a service or Redis.
- PushClient, in `client_flood` only: permits come where the capacity allows, and the service answers. The
  violation is a call that fairness cannot help.

## 5. Proofs

Every safety property of the runs, action properties and refinements included, is a theorem of the
specification: it holds for every value of the constants under the named assumptions of the modules
(`ConfigAssumption`, `PrioritiesAssumption`, `LimiterAssumption`, `AttemptsAssumption`, `TemplateAssumption`, ...).
These say what the code's types and defaults say: priorities are integers, sizes natural numbers, limits and periods
positive, the set of worker slots is finite, and what a directory or a token field holds is a sequence.

**Data_proofs** is about operators on data, and knows no state.
- The array: `Sorted` says that `Place` numbers the elements 1..n without gap, so sorting is a permutation in
  order. `InOrder` and `WellKept` say that an array is in order, that its ids were issued, and that later ids came
  later; `PushedKept`, `ShiftedKept` say that pushing and shifting keep it. `PushInserts` says that a push into an
  ordered array puts the new item in one place and moves nobody else.
- Sums (`SumFunctionOnSet`): adding an element, taking one away and changing the value of one change the sum by
  that value (`SumWith`, `SumWithout`, `SumMoves`). The fold takes the elements in an order nobody knows, so the lemmas
  rest on `SumUnique`: whatever the order, there is one result.
- `FlattenKeeps`: `FlattenSeq` of sequences over a set is a sequence over that set.
- Maps folded from lists: `Overridden` is the map that entries of a list, put into it one after the other, leave behind,
  each key with its last entry (`OverExists`, `OverUnique`). `HoldsLast(map, K, V, S)` says that a map holds, of
  each key, the last of the positions S of a log; it survives a longer log (`LatestGrows`, `LatestSame`), and
  `LatestAt` reads it.

The library's induction theorems take an operator, which the provers cannot instantiate; the inductions here are on
finite sets and natural numbers, by a smallest counterexample (`SmallestNumber`, and the well-founded order of
subsets).

**Parts_proofs, the queue.** The inductive invariant `QueueInv` is `WellKept` with the size
limit. `Ordered` alone is not inductive: that a push puts its item *behind*
its equals needs that queued ids were issued before. Proved: `QueueTypeCorrect`,
`QueueOrdered`, and `QueueServesInOrder`, the refinement of PriorityFifo: what `dequeue` and `dequeueBatch`
return is the front of the array (`HandedIsFront`), and so, the array being ordered, overtakes all that stays and is handed
over in order (`DequeueBatchServes`); a removal hands over nothing (`RemoveByIdWithdraws`).

**Parts_proofs, the limiter.** `Flow` strengthens `WindowLimit` by what the buckets still hold: granted permits and
present tokens together are at most the capacity and the inflow of the window. `PermitsDue` is what the first wake needs: of
a caller nobody got in the way of, the tokens that are there, those that flowed in since and those that will until the
timer fires make up its permits. It survives a refill and the cap of a bucket only for counts that the bucket can hold, and
it begins to hold because the wait is rounded up (`RoundedUp`) and computed from what the failed attempt left. Proved:
`LimiterTypeCorrect`, `LimiterWindowLimit`, `LimiterFirstWake`.

**Parts_proofs, the retries.** `RetryInv` says which fields a call has at each stage
(`Stages`), that a running call has seen the value in force (`Watching`), and
that while nothing is tangled at most one override exists and remembers what `base` and `baseEnabled` say (`OneOverride`).
Proved: `RetryTypeCorrect`, `RetryAttemptsBounded`, `OverrideRestored`,
`RetriesExhausted`.

**QueueManager_proofs.** `ManagerInv` adds to the type and `WellKept` that each message is in
one place (`Accounted`), that a worker holds an item exactly in the states that need
one (`Turns`), that a message nobody took has not been tried (`Untried`), that a
stop awaits live workers only (`Stops`), and `CrewAccounting`. Without
`Untried` the refinement fails at `Clear`; without `Stops` the count fails at
`Retire`. Proved: `ManagerTypeCorrect`, `MessagesConserved`, `CrewsAccounted`,
`QuietWhenStopped`, `ManagerDelivers`.

**PushClient_proofs.** `LifeInv` looks ahead: the flag the client will have when all tasks in the queue
have run is the flag the provider has now (`Well`). It holds because a provider changes its flag in the very
turn in which it queues the client's matching change at the end; when the queue is empty it is
`LifeCycleAgrees`. `SendInv` bounds the results of each call. `CountInv` states the two balances as sums over the
calls in flight, together with what keeps the sums finite and a call that was not made empty. Proved: `FlagsAgree`,
`ClientTypeCorrect`, `RequestsOnlyWhenUp`, from `LifeInv`: a provider that takes a request is up, and so is the
client, or it has a task left to run; `CountsBalance` and `ServiceReported`.

**RedisQueue_proofs.** `StoreInv` says what the store and the processes may hold: jobs that were issued and have
attempts left, one processing entry per job, and at each command the job it needs. `JobInv` is about each job that
was not moved twice. `Sole`: it is in one place - the pending list, the delayed set, the hands of one worker, or
among the ended. `Counts`: its runs since it was enqueued or retried are those its attempts count and the one not reported
yet, wherever it is. `Backed`: whoever runs it finds it in the processing hash, until it is cleared. `Kept`: it is
somewhere, unless it was cleared or its worker crashed with it in memory. None is inductive alone: a worker that puts a job back
has removed it from the hash one command ago, so the count must be known of the worker's copy. Proved: `RedisTypes`,
`RedisNothingLost`, `RedisOnePlace`, `RedisRunsBounded`.

**RabbitMQ_proofs.** `CallsInv` is the type and, for each stage of a call, what it has published and what it may
still report (`Shape`): `ReportsOutcomes` is about calls that are done, and needs to know of a batch in its loop that it
has one outcome per message so far. `LifeInv` is about what the calls share. As long as no connect or close overlapped another,
one call at a time is in either, and connects only while the flag is down (`Alone`); if besides no connect failed half-way, what is open
at the broker is what the adapter holds (`Held`); if no close failed half-way, the flag stands for the channel of the
connection, and so does each stage of a connect on its way to it (`Ready`). Neither property is inductive without the
stages: a connect that is one await from raising the flag must be known to have set the channel. Proved:
`RabbitTypes`, `RabbitReports`, `RabbitHoldsConnection`, `RabbitUsable`.

**BullMQ_proofs.** `LoadsInv` counts the loads of a type that began alone, `Solo`: one more than the clears of the cache at most, and no more
than the clears while the cache is empty or while such a load is in progress, of which there is only one. The counting rests on the
library's facts on cardinality. `JobsInv` says that jobs stay jobs. `ConnectingInv` is about an instance that has made no connection yet: it has
heard no event, so it has counted the calls of complete and fail only, and starts to listen with a balance. `TotalsInv` adds to `TotalsBalance` that an instance not made yet has counted nothing, that
a call in progress is on an instance there is, and that one which clears has its queue marked as wiped. Proved:
`RegistrySingletons` (of the registry alone), `AdapterSingletons`, `TotalsAddUp`.

**Messages_proofs.** `BuilderInv`: every message handed out that was not touched itself is what it was
when it was built (`Fresh`) - while builders go on changing objects that are not handed out, other messages, and data
objects this message does not use. `CallInv` is a balance: the results so far, the recipients of the request in flight, those not
asked yet and those of the group awaited, in this order, are the targets (`AddUp`); and each recipient in flight is sent the
content `FlightOwn` says. Proved: `ProvidersInv`, `ResultsInOrder`, `ContentAsBuilt`. For the texts, `EngineInv` and
`TableInv` say that the compiled templates, the raw ones and the tables are each the last of their calls in the log (`HoldsLast`):
compiled templates of the registrations that no clear followed, raw ones of all of them, tables of those since the last
clear. Proved: `TextsInv`, `RenderedLatest`, `TranslatedLatest`, the latter for a given locale and for none.

Only model-checked is what needs fairness and ENABLED, and so is beyond the prover: InFlightEnds,
StopReturnsOrRestarted, Served, SinglesServed, CallsEnd (and BulkEnds and EachItsOwn, which are violated).

## 6. Not modelled

- In the modelled components: logging, hooks (`safeExecuteHook` keeps their exceptions
  from the caller), floating-point rounding in the buckets, a disabled queue or
  limiter (then PushClient builds none; a disabled retry engine is part of RetryEngine), `concurrency` as anything but a number, a queue manager whose retry engine has
  `maxAttempts` 0 (RetryEngine covers it). The permit in QueueManager comes at some time;
  when is RateLimiter's subject.
- A stream of urgent messages can starve the others for ever: a consequence of strict
  priorities, outside the bound on messages.
- In RedisQueue: priorities, which the adapter stores and never reads, its metrics, the time at which a
  delayed job becomes due (any), a second report of one job by its worker, lost connections.
- In PushClient: calls that are refused or do nothing, messages with no destination or several, hooks, latencies;
  a retry engine with `maxAttempts` 0 (RetryEngine covers it). Providers report a failure of the service as a result
  and throw only when they are not initialised, which is no retryable error: so of the retry
  engine one attempt is left, and a failed `send` is never retried. `queue()` hands its message to the
  QueueManager; how a second `shutdown()`, or `queue()` during one, meets it is the next composition.
- In RabbitMQ: topics, payloads, headers and routing; the broker answers or fails, and redelivery is not the adapter's.
- In BullMQ: delays, priorities and pauses, which only make a job wait; the average and last times; the counts `getMetrics` asks Redis
  for; a connection to Redis that is lost. An unknown type throws before a registry reads any state.
- In the builder: the plain options (priority, ttl, sound, ...), copied and never looked at, and messages that have
  nothing but `contentAvailable` or an empty notification; the token formats of `tokenValidator`.
- In Providers: the wire formats, the classification of an answer, VAPID keys and the life cycle of Web Push; whether a recipient
  was reached is the service's answer. One call is followed at a time, since overlapping calls share nothing but the builders.
- In Templates and Localization: the text a template renders to, what a helper returns, `cacheTemplates: false` (nothing is kept then),
  replacing variables, directories that cannot be read.
- The length of a backoff delay, jitter included, which decides no outcome.
- Email adapters (each method forwards one call), errors (classification), CLI (prompts and printing around one call), framework
  integrations, logger, types: I/O and declarations, no state of their own.

## 7. Plan

In order of what matters most to a user:

1. The composition of **PushClient** with **QueueManager**: a second `shutdown()` returns from `stop()`
   while workers still send, and `queue()` during a shutdown starts the manager again under a provider that goes down.
   Then messages with no destination or several, which break the count of results.
2. **RedisQueue**: an abstract specification of a job store, which `OnePlace` and `RunsBounded` are parts of,
   and the proof that the adapter implements it, crashes and double moves apart.
3. The life cycle of **Web Push**, and overlapping calls of one provider together with its shutdown.
