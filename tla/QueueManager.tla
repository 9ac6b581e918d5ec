---------------------------- MODULE QueueManager ----------------------------
(***************************************************************************)
(* src/queue/QueueManager.ts with the RetryEngine loop its workers run.    *)
(* JavaScript runs one piece of code at a time, up to its next await: an   *)
(* action is the code between two awaits of one worker, or one call of a   *)
(* method by the client, and the actions of different workers and callers  *)
(* interleave freely.                                                      *)
(*                                                                         *)
(* A worker is an async call of processWorker.  Its pc says what it is     *)
(* awaiting:                                                               *)
(*    off      not running (never started, or its while loop has ended)    *)
(*    loop     about to test `while (this.processing)` again               *)
(*    poll     the 100 ms timer of an empty queue                          *)
(*    limit    the rate limiter's permit for the item it holds             *)
(*    send     the provider's answer                                       *)
(*    backoff  the retry engine's delay before the next attempt            *)
(*                                                                         *)
(* When the permit comes is the RateLimiter module's subject: here it      *)
(* comes eventually.  The provider is set, as PushClient's constructor     *)
(* does before anything else.                                              *)
(***************************************************************************)
EXTENDS PriorityOrder

CONSTANTS Priorities,    \* the priorities callers pass to enqueue
          MaxSize,       \* config.maxSize, 0 for no limit
          Concurrency,   \* config.concurrency
          AutoStart,     \* config.autoStart
          MaxAttempts,   \* maxAttempts of the retry engine, 1 without one
          MaxMessages,   \* bound: how many messages a behaviour enqueues
          Workers,       \* bound: the worker calls that can be alive at once
          StopCalls      \* bound: the stop() calls that can be pending at once

ASSUME ConfigAssumption ==
    /\ Priorities \subseteq Int
    /\ MaxSize \in Nat
    /\ Concurrency \in Nat
    /\ AutoStart \in BOOLEAN
    /\ MaxAttempts \in Nat \ {0}

ASSUME BoundAssumption == MaxMessages \in Nat /\ IsFiniteSet(Workers)

Messages == 1..MaxMessages

VARIABLES queue,         \* the array of the InMemoryQueue
          idCounter,     \* its id counter: a message is named by its number
          processing,    \* the flag the workers' loops test
          worker,        \* what each worker awaits, holds, and its attempt
          stop,          \* the pending stop() calls and the workers they await
          outcome,       \* history: how each message ended
          sends          \* history: provider.send calls for each message

vars == <<queue, idCounter, processing, worker, stop, outcome, sends>>

Q == INSTANCE InMemoryQueue
        WITH MaxIds <- MaxMessages, AttemptBound <- 0, served <- <<>>

PCs == {"off", "loop", "poll", "limit", "send", "backoff"}

WorkerState == [pc : PCs, item : 0..MaxMessages, attempt : 0..(MaxAttempts - 1)]

Without(pc) == [pc |-> pc, item |-> 0, attempt |-> 0]

Holding(m) == [pc |-> "limit", item |-> m, attempt |-> 0]

Active == {w \in Workers : worker[w].pc # "off"}

Idle == Workers \ Active

Init ==
    /\ Q!Init
    /\ processing = FALSE
    /\ worker = [w \in Workers |-> Without("off")]
    /\ stop = [s \in StopCalls |-> [waiting |-> FALSE, workers |-> {}]]
    /\ outcome = [m \in Messages |-> "none"]
    /\ sends = [m \in Messages |-> 0]

-----------------------------------------------------------------------------
(* The client's calls.                                                     *)

\* start() calls processWorker once per worker, and each call runs up to its
\* first await: the i-th takes the i-th item of the queue, or sets its timer.
FirstTurn(q, i) == IF i <= Len(q) THEN Holding(q[i].id) ELSE Without("poll")

StartOn(q) ==
    /\ processing' = TRUE
    /\ \E crew \in SUBSET Idle : \E turn \in Bijection(crew, 1..Concurrency) :
          worker' = [w \in Workers |->
                        IF w \in crew THEN FirstTurn(q, turn[w]) ELSE worker[w]]
    /\ queue' = Shifted(q, Concurrency)

\* Mutant: start() without its test that processing has already started.
Start_Again ==
    /\ StartOn(queue)
    /\ UNCHANGED <<idCounter, stop, outcome, sends>>

Start ==
    /\ ~processing
    /\ StartOn(queue)
    /\ UNCHANGED <<idCounter, stop, outcome, sends>>

\* A call that finds the queue full throws before it changes anything.
Enqueue(p) ==
    LET pushed == Pushed(queue, NewItem(idCounter + 1, p))
    IN  /\ ~Q!Full
        /\ idCounter < MaxMessages
        /\ idCounter' = idCounter + 1
        /\ IF AutoStart /\ ~processing
           THEN StartOn(pushed)
           ELSE queue' = pushed /\ UNCHANGED <<processing, worker>>
        /\ UNCHANGED <<stop, outcome, sends>>

\* stop() lowers the flag and awaits the workers alive at that moment.  A call
\* that finds the flag down returns at once and changes nothing.
Stop(s) ==
    /\ processing
    /\ ~stop[s].waiting
    /\ processing' = FALSE
    /\ stop' = [stop EXCEPT ![s] = [waiting |-> TRUE, workers |-> Active]]
    /\ UNCHANGED <<queue, idCounter, worker, outcome, sends>>

\* Mutant: stop() does not await the workers.
StopReturns_AtOnce(s) ==
    /\ stop[s].waiting
    /\ stop' = [stop EXCEPT ![s].waiting = FALSE]
    /\ UNCHANGED <<queue, idCounter, processing, worker, outcome, sends>>

StopReturns(s) ==
    /\ stop[s].waiting
    /\ stop[s].workers = {}
    /\ stop' = [stop EXCEPT ![s].waiting = FALSE]
    /\ UNCHANGED <<queue, idCounter, processing, worker, outcome, sends>>

Clear ==
    /\ queue # <<>>
    /\ queue' = <<>>
    /\ outcome' = [m \in Messages |->
                      IF m \in IdsOf(queue) THEN "cleared" ELSE outcome[m]]
    /\ UNCHANGED <<idCounter, processing, worker, stop, sends>>

-----------------------------------------------------------------------------
(* The turns of a worker.                                                  *)

\* The loop ends: the worker leaves the set, and whoever awaits it goes on.
Retire(w) ==
    /\ worker[w].pc = "loop"
    /\ ~processing
    /\ worker' = [worker EXCEPT ![w] = Without("off")]
    /\ stop' = [s \in StopCalls |-> [stop[s] EXCEPT !.workers = @ \ {w}]]
    /\ UNCHANGED <<queue, idCounter, processing, outcome, sends>>

Poll(w) ==
    /\ worker[w].pc = "loop"
    /\ processing
    /\ queue = <<>>
    /\ worker' = [worker EXCEPT ![w] = Without("poll")]
    /\ UNCHANGED <<queue, idCounter, processing, stop, outcome, sends>>

\* Mutant: stop() clears the polling timers, and nothing resolves them.
Wake_WhileProcessing(w) ==
    /\ worker[w].pc = "poll"
    /\ processing
    /\ worker' = [worker EXCEPT ![w] = Without("loop")]
    /\ UNCHANGED <<queue, idCounter, processing, stop, outcome, sends>>

Wake(w) ==
    /\ worker[w].pc = "poll"
    /\ worker' = [worker EXCEPT ![w] = Without("loop")]
    /\ UNCHANGED <<queue, idCounter, processing, stop, outcome, sends>>

\* Mutant: the worker peeks at the head and leaves it in the queue.
Take_Peek(w) ==
    /\ worker[w].pc = "loop"
    /\ processing
    /\ queue # <<>>
    /\ worker' = [worker EXCEPT ![w] = Holding(Head(queue).id)]
    /\ UNCHANGED <<queue, idCounter, processing, stop, outcome, sends>>

Take(w) ==
    /\ worker[w].pc = "loop"
    /\ processing
    /\ queue # <<>>
    /\ worker' = [worker EXCEPT ![w] = Holding(Head(queue).id)]
    /\ queue' = Shifted(queue, 1)
    /\ UNCHANGED <<idCounter, processing, stop, outcome, sends>>

\* The permit is there: the first attempt hands the item to the provider.
Send(w) ==
    /\ worker[w].pc = "limit"
    /\ worker' = [worker EXCEPT ![w].pc = "send"]
    /\ sends' = [sends EXCEPT ![worker[w].item] = @ + 1]
    /\ UNCHANGED <<queue, idCounter, processing, stop, outcome>>

\* Mutant: one attempt too many, `attempt === maxAttempts` for the last one.
Backoff_OneMore(w) ==
    /\ worker[w].pc = "send"
    /\ worker[w].attempt < MaxAttempts
    /\ worker' = [worker EXCEPT ![w].pc = "backoff"]
    /\ UNCHANGED <<queue, idCounter, processing, stop, outcome, sends>>

\* A retryable failure, and the loop of execute has attempts left.
Backoff(w) ==
    /\ worker[w].pc = "send"
    /\ worker[w].attempt < MaxAttempts - 1
    /\ worker' = [worker EXCEPT ![w].pc = "backoff"]
    /\ UNCHANGED <<queue, idCounter, processing, stop, outcome, sends>>

\* Mutant: a stopped manager abandons the retries under way.
Resend_WhileProcessing(w) ==
    /\ worker[w].pc = "backoff"
    /\ processing
    /\ worker' = [worker EXCEPT ![w].pc = "send", ![w].attempt = @ + 1]
    /\ sends' = [sends EXCEPT ![worker[w].item] = @ + 1]
    /\ UNCHANGED <<queue, idCounter, processing, stop, outcome>>

Resend(w) ==
    /\ worker[w].pc = "backoff"
    /\ worker' = [worker EXCEPT ![w].pc = "send", ![w].attempt = @ + 1]
    /\ sends' = [sends EXCEPT ![worker[w].item] = @ + 1]
    /\ UNCHANGED <<queue, idCounter, processing, stop, outcome>>

\* Mutant: processWorker without its loop, the worker returns after one item.
Finish_Quits(w, how) ==
    /\ worker[w].pc = "send"
    /\ worker' = [worker EXCEPT ![w] = Without("off")]
    /\ outcome' = [outcome EXCEPT ![worker[w].item] = how]
    /\ stop' = [s \in StopCalls |-> [stop[s] EXCEPT !.workers = @ \ {w}]]
    /\ UNCHANGED <<queue, idCounter, processing, sends>>

\* The end of processItem: the provider accepted the message, or execute threw
\* (the error was not retryable, or this was the last attempt) and the catch
\* reports the message as dropped.  Either way the worker loops.
Finish(w, how) ==
    /\ worker[w].pc = "send"
    /\ worker' = [worker EXCEPT ![w] = Without("loop")]
    /\ outcome' = [outcome EXCEPT ![worker[w].item] = how]
    /\ UNCHANGED <<queue, idCounter, processing, stop, sends>>

Turn(w) ==
    \/ Retire(w) \/ Poll(w) \/ Wake(w) \/ Take(w)
    \/ Send(w) \/ Backoff(w) \/ Resend(w)
    \/ Finish(w, "delivered") \/ Finish(w, "dropped")

Next ==
    \/ \E p \in Priorities : Enqueue(p)
    \/ Start
    \/ \E s \in StopCalls : Stop(s) \/ StopReturns(s)
    \/ Clear
    \/ \E w \in Workers : Turn(w)

Spec == Init /\ [][Next]_vars

\* Timers fire, permits come, the provider answers and promises resolve.
Fairness ==
    /\ \A w \in Workers : WF_vars(Turn(w))
    /\ \A s \in StopCalls : WF_vars(StopReturns(s))

FairSpec == Spec /\ Fairness
-----------------------------------------------------------------------------
(* Properties.                                                             *)

\* Every variable holds what its declaration says, queued items are ones
\* enqueue issued, and the queue respects config.maxSize.
TypeOK ==
    /\ queue \in Seq(Item)
    /\ idCounter \in 0..MaxMessages
    /\ processing \in BOOLEAN
    /\ worker \in [Workers -> WorkerState]
    /\ stop \in [StopCalls -> [waiting : BOOLEAN, workers : SUBSET Workers]]
    /\ outcome \in [Messages -> {"none", "delivered", "dropped", "cleared"}]
    /\ sends \in [Messages -> 0..MaxAttempts]
    /\ MaxSize > 0 => Len(queue) <= MaxSize

Queued(m) == \E i \in 1..Len(queue) : queue[i].id = m

Held(m) == \E w \in Workers : worker[w].item = m

\* No accepted message is lost or doubled on its way through the workers: at
\* every moment it is in one place of the queue, or held by one worker, or
\* has ended, and only one of the three.
Conservation ==
    /\ \A m \in Messages :
          /\ m <= idCounter <=> Queued(m) \/ Held(m) \/ outcome[m] # "none"
          /\ ~(Queued(m) /\ Held(m))
          /\ outcome[m] # "none" => ~Queued(m) /\ ~Held(m)
    /\ \A i, j \in 1..Len(queue) : queue[i].id = queue[j].id => i = j
    /\ \A v, w \in Workers :
          worker[v].item = worker[w].item /\ worker[v].item # 0 => v = w

\* The workers that a pending stop() call still waits for.
Awaited == UNION {stop[s].workers : s \in {x \in StopCalls : stop[x].waiting}}

\* Exactly config.concurrency workers run besides those that a pending stop()
\* waits for while the manager processes, and none when it does not.  A start
\* in the middle of a stop leaves the old workers running, so more than
\* config.concurrency messages can be in progress at once.
CrewAccounting ==
    Cardinality(Active \ Awaited) = IF processing THEN Concurrency ELSE 0

\* What PushClient.shutdown relies on before it shuts the provider down: when
\* processing is off and no stop() call is pending, no worker is alive, so no
\* message is waiting for its permit, its answer or its next attempt.
QuietAfterStop ==
    ~processing /\ (\A s \in StopCalls : ~stop[s].waiting) =>
        /\ Active = {}
        /\ \A m \in Messages : ~Held(m)

\* A message is tried at most MaxAttempts times, is delivered or dropped only
\* after a try, ends once, and is beyond clear() once a worker tried it.
Status(m) ==
    IF outcome[m] # "none" THEN outcome[m]
    ELSE IF m <= idCounter THEN "accepted" ELSE "new"

D == INSTANCE Delivery
        WITH Messages <- Messages, MaxTries <- MaxAttempts, tries <- sends,
             status <- [m \in Messages |-> Status(m)]

ImplementsDelivery == D!DeliverySpec

\* A worker never abandons the message it holds, not even when stop() or
\* clear() is called meanwhile: it ends delivered or dropped.
InFlightEnds ==
    \A m \in Messages : Held(m) ~> outcome[m] \in {"delivered", "dropped"}

\* Every stop() call returns, unless the manager is started again meanwhile.
StopReturnsOrRestarted ==
    \A s \in StopCalls : stop[s].waiting ~> ~stop[s].waiting \/ processing

\* While the manager processes, a queued message is taken sooner or later, or
\* it is cleared: also one that waits while every worker is busy with others,
\* behind messages that came after it and have a higher priority.
Served == \A m \in Messages : Queued(m) ~> ~Queued(m) \/ ~processing
=============================================================================
