---------------------------- MODULE RateLimiter ----------------------------
(***************************************************************************)
(* src/rateLimit/RateLimiter.ts: two token buckets, one per second and one *)
(* per minute, and the callers that wait for permits.  acquire runs to its *)
(* end without yielding, so it is one action; a caller of waitAndAcquire   *)
(* sleeps on a timer between attempts, and others acquire meanwhile.       *)
(*                                                                         *)
(* Time is counted in milliseconds.  The code refills max/period tokens    *)
(* per millisecond, a fraction; here a bucket counts in parts of which     *)
(* Period[b] make one token, so that a millisecond adds exactly MaxPer[b]  *)
(* parts.  (The code's floating-point rounding is not modelled.)           *)
(***************************************************************************)
EXTENDS Integers, FiniteSets

CONSTANTS MaxPer,         \* maxPerSecond and maxPerMinute, by bucket
          Period,         \* the milliseconds of a bucket's period: 1000, 60000
          AllowBurst,     \* config.allowBurst
          BurstPercent,   \* config.burstMultiplier in percent
          Callers,        \* bound: concurrent calls of waitAndAcquire
          Counts,         \* the permits asked for in one call
          MaxSpan         \* bound: how long an observed window is

Buckets == {"second", "minute"}

ASSUME LimiterAssumption ==
    /\ MaxPer \in [Buckets -> Nat \ {0}]
    /\ Period \in [Buckets -> Nat \ {0}]
    /\ AllowBurst \in BOOLEAN
    /\ BurstPercent \in Nat
    /\ Counts \subseteq Nat \ {0}

ASSUME SpanAssumption == MaxSpan \in Nat

VARIABLES tokens,         \* the parts of tokens in each bucket at lastRefill
          elapsed,        \* the milliseconds since each bucket's lastRefill
          capacity,       \* the tokens each bucket holds at most
          caller,         \* each call of waitAndAcquire: waiting, for how many
                          \*   permits, and what is left of its timer
          window,         \* history: permits granted, and time passed, since an
                          \*   arbitrary moment
          undisturbed     \* history: the waiting callers since whose last
                          \*   attempt nobody else took tokens

limiterVars == <<tokens, elapsed, capacity, caller, window, undisturbed>>

Floor(b) == (MaxPer[b] * BurstPercent) \div 100

\* The capacity the constructor gives a bucket.
Capacity(b) == IF AllowBurst THEN Floor(b) ELSE MaxPer[b]

Idle == [waiting |-> FALSE, count |-> 0, timer |-> 0]

FreshWindow == [granted |-> 0, span |-> 0]

LimiterInit ==
    /\ capacity = [b \in Buckets |-> Capacity(b)]
    /\ tokens = [b \in Buckets |-> Capacity(b) * Period[b]]
    /\ elapsed = [b \in Buckets |-> 0]
    /\ caller = [c \in Callers |-> Idle]
    /\ window = FreshWindow
    /\ undisturbed = {}

-----------------------------------------------------------------------------

AtMost(x, y) == IF x <= y THEN x ELSE y

AtLeast(x, y) == IF x <= y THEN y ELSE x

\* Mutant: the refill forgets the capacity of the bucket.
Refilled_Uncapped(b) == tokens[b] + elapsed[b] * MaxPer[b]

\* Mutant: the refill adds whole tokens only, and forgets the rest.
Refilled_Whole(b) ==
    AtMost(capacity[b] * Period[b],
           tokens[b] + ((elapsed[b] * MaxPer[b]) \div Period[b]) * Period[b])

\* refill(): what has trickled in since lastRefill, up to the capacity.
Refilled(b) == AtMost(capacity[b] * Period[b], tokens[b] + elapsed[b] * MaxPer[b])

CanConsume(b, n) == Refilled(b) >= n * Period[b]

\* tryConsume on both buckets: each takes its share if it has it, and keeps
\* what it took when the other one does not.
Consumed(n) ==
    [b \in Buckets |-> IF CanConsume(b, n) THEN Refilled(b) - n * Period[b]
                                           ELSE Refilled(b)]

\* Mutant: a permit is granted when one of the two buckets has it.
Granted_Either(n) == \E b \in Buckets : CanConsume(b, n)

Granted(n) == \A b \in Buckets : CanConsume(b, n)

\* Mutant: the wait rounded down.
WaitTime_Floor(b, left, n) ==
    IF left >= n * Period[b] THEN 0 ELSE (n * Period[b] - left) \div MaxPer[b]

\* getWaitTime on a bucket with `left` parts: ceil((n - tokens) / refillRate).
WaitTime(b, left, n) ==
    IF left >= n * Period[b] THEN 0
    ELSE (n * Period[b] - left + MaxPer[b] - 1) \div MaxPer[b]

\* The wait for each bucket once the attempt has taken what it could.
Waits(n) == [b \in Buckets |-> WaitTime(b, Consumed(n)[b], n)]

\* The wait acquire reports, for the bucket that is ready last.
WaitMs(n) == AtLeast(Waits(n)["second"], Waits(n)["minute"])

\* acquire(n): what it does to the buckets and, if it grants, to the window.
AcquireEffect(n) ==
    /\ tokens' = Consumed(n)
    /\ elapsed' = [b \in Buckets |-> 0]
    /\ window' = IF Granted(n) THEN [window EXCEPT !.granted = @ + n] ELSE window
    /\ UNCHANGED capacity

-----------------------------------------------------------------------------

\* A bare acquire(n), as QueueManager.processItem makes before it waits.
Acquire(n) ==
    /\ AcquireEffect(n)
    /\ undisturbed' = {}
    /\ UNCHANGED caller

\* One round of waitAndAcquire: an attempt and, if it fails, a timer.
Attempt(c, n) ==
    /\ AcquireEffect(n)
    /\ caller' = [caller EXCEPT ![c] =
          IF Granted(n) THEN Idle
          ELSE [waiting |-> TRUE, count |-> n, timer |-> WaitMs(n)]]
    /\ undisturbed' = IF Granted(n) THEN {} ELSE {c}

WaitAndAcquire(c, n) == ~caller[c].waiting /\ Attempt(c, n)

\* The timer has fired: try again.
Wake(c) ==
    /\ caller[c].waiting
    /\ caller[c].timer = 0
    /\ Attempt(c, caller[c].count)

\* getStatus refills both buckets and takes nothing.
GetStatus ==
    /\ tokens' = [b \in Buckets |-> Refilled(b)]
    /\ elapsed' = [b \in Buckets |-> 0]
    /\ UNCHANGED <<capacity, caller, window, undisturbed>>

\* reset() makes new buckets, which hold maxPerSecond and maxPerMinute tokens
\* whatever the burst setting.  The observed window starts anew.
Reset ==
    /\ capacity' = MaxPer
    /\ tokens' = [b \in Buckets |-> MaxPer[b] * Period[b]]
    /\ elapsed' = [b \in Buckets |-> 0]
    /\ window' = FreshWindow
    /\ undisturbed' = {}
    /\ UNCHANGED caller

\* A millisecond passes.  elapsed stops where the bucket is full in any case.
FillTime(b) == (capacity[b] * Period[b]) \div MaxPer[b] + 1

Tick ==
    /\ elapsed' = [b \in Buckets |-> AtMost(elapsed[b] + 1, FillTime(b))]
    /\ caller' = [c \in Callers |->
                     [caller[c] EXCEPT !.timer = IF @ > 0 THEN @ - 1 ELSE 0]]
    /\ window' = IF window.span < MaxSpan THEN [window EXCEPT !.span = @ + 1]
                                          ELSE FreshWindow
    /\ UNCHANGED <<tokens, capacity, undisturbed>>

\* The observer looks at another window, from now on.
Observe ==
    /\ window' = FreshWindow
    /\ UNCHANGED <<tokens, elapsed, capacity, caller, undisturbed>>

LimiterNext ==
    \/ \E n \in Counts : Acquire(n)
    \/ \E c \in Callers, n \in Counts : WaitAndAcquire(c, n)
    \/ \E c \in Callers : Wake(c)
    \/ GetStatus
    \/ Reset
    \/ Tick
    \/ Observe

LimiterSpec == LimiterInit /\ [][LimiterNext]_limiterVars

\* The clock goes on and timers fire.
Fairness == WF_limiterVars(Tick) /\ \A c \in Callers : WF_limiterVars(Wake(c))

LimiterFairSpec == LimiterSpec /\ Fairness

-----------------------------------------------------------------------------
(* Properties.                                                             *)

\* Every variable holds what its declaration says, and no bucket ever holds
\* less than nothing or more than its capacity.
LimiterTypeOK ==
    /\ capacity \in [Buckets -> Nat]
    /\ tokens \in [Buckets -> Nat]
    /\ elapsed \in [Buckets -> Nat]
    /\ caller \in [Callers -> [waiting : BOOLEAN, count : Nat, timer : Nat]]
    /\ window \in [granted : Nat, span : 0..MaxSpan]
    /\ undisturbed \subseteq Callers
    /\ \A b \in Buckets : tokens[b] <= capacity[b] * Period[b]

\* The limit the two buckets really enforce: in any window of time, however
\* the callers interleave, no more permits than the capacity of each bucket
\* and what flows into it during the window.
WindowLimit ==
    \A b \in Buckets :
        window.granted * Period[b] <= capacity[b] * Period[b] + window.span * MaxPer[b]

\* The wait that acquire reports is long enough: a caller that nobody else
\* got in the way of, and whose count the buckets can hold, gets its permits
\* when its timer fires the first time, the tokens its failed attempt took
\* from one bucket included.
FirstWakeSucceeds ==
    [][\A c \in undisturbed :
          /\ Wake(c)
          /\ \A b \in Buckets : caller[c].count <= capacity[b]
          => ~caller'[c].waiting]_limiterVars

\* A call that may take tokens from those already waiting, or a reset.
NewDemand ==
    \/ \E n \in Counts : Acquire(n)
    \/ \E c \in Callers, n \in Counts : WaitAndAcquire(c, n)
    \/ Reset

\* Callers that want one permit each, as the queue workers and send do, are
\* starved only by an endless stream of new calls: when calls cease and no
\* larger request is left waiting, all that wait are served.
SinglesServed ==
    \/ []<>(\A c \in Callers : ~caller[c].waiting)
    \/ []<>(\E c \in Callers : caller[c].count > 1)
    \/ []<><<NewDemand>>_limiterVars
=============================================================================
