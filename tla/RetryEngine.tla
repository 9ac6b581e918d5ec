---------------------------- MODULE RetryEngine ----------------------------
(***************************************************************************)
(* src/retry/RetryEngine.ts: one engine shared by every send of a client.  *)
(* Calls of execute overlap: each awaits the function it retries, or the   *)
(* delay before its next attempt, while others run, update the engine's    *)
(* configuration, or override it for the length of a call with             *)
(* executeWithConfig.  The loop reads the configuration afresh on every    *)
(* round, so a call sees what others make of it.                           *)
(*                                                                         *)
(* Of the configuration maxAttempts and enabled decide what a call does;   *)
(* delays decide when, and the onRetry hook decides nothing.               *)
(***************************************************************************)
EXTENDS Integers

CONSTANTS Calls,          \* bound: the calls of the engine alive at once
          AttemptValues   \* the values of maxAttempts that callers configure

ASSUME RetryAssumption == AttemptValues \subseteq Nat

VARIABLES maxAttempts,    \* this.config.maxAttempts
          enabled,        \* this.config.enabled
          call,           \* each call: what it awaits, its attempt (counted
                          \*   from 0), whether it overrode the configuration,
                          \*   and the values it will restore
          result,         \* how the call last made in each slot ended
          base,           \* history: what the constructor or updateConfig set
          baseEnabled,
          seen,           \* history: the values of maxAttempts in force, from
                          \*   the start of a call on
          tangled         \* history: an override and another override or an
                          \*   update overlapped since base was last in force

retryVars == <<maxAttempts, enabled, call, result, base, baseEnabled, seen, tangled>>

config == <<maxAttempts, enabled>>
baseConfig == <<base, baseEnabled>>

\* What a call awaits: fn() itself, in the loop or (once) in a disabled engine,
\* the delay before the next attempt, or, already settled, the turn in which
\* its finally block restores.
PCs == {"idle", "fn", "once", "sleep", "settled"}

\* How a call ended: the value or the error of fn, or because its attempts
\* were used up, in the last of them or on the last line of execute.
Results == {"none", "value", "error", "exhausted", "fellThrough"}

NoCall == [pc |-> "idle", attempt |-> 0, custom |-> FALSE,
           original |-> 0, wasEnabled |-> FALSE]

CallState == [pc : PCs, attempt : Nat, custom : BOOLEAN,
              original : AttemptValues \cup {0}, wasEnabled : BOOLEAN]

Running == {c \in Calls : call[c].pc # "idle"}

Overriding == {c \in Calls : call[c].custom}

RetryInit ==
    /\ maxAttempts \in AttemptValues
    /\ enabled \in BOOLEAN
    /\ base = maxAttempts /\ baseEnabled = enabled
    /\ call = [c \in Calls |-> NoCall]
    /\ result = [c \in Calls |-> "none"]
    /\ seen = [c \in Calls |-> {}]
    /\ tangled = FALSE

-----------------------------------------------------------------------------

\* Where a call stands once its execute has settled: executeWithConfig has its
\* finally block to run, in a later turn, and execute has nothing left to do.
Settled(c) ==
    IF call[c].custom THEN [call[c] EXCEPT !.pc = "settled"] ELSE NoCall

\* A disabled engine runs fn once.  The test of the for loop lets no attempt
\* through when maxAttempts is 0: the call never runs fn and comes to the last
\* line of execute at once.
Begin(c, custom, limit, on) ==
    LET started == [pc |-> IF ~on THEN "once" ELSE IF limit > 0 THEN "fn"
                           ELSE IF custom THEN "settled" ELSE "idle",
                    attempt |-> 0, custom |-> custom,
                    original |-> IF custom THEN maxAttempts ELSE 0,
                    wasEnabled |-> custom /\ enabled]
    IN  /\ call[c].pc = "idle"
        /\ call' = [call EXCEPT ![c] = started]
        /\ result' = [result EXCEPT ![c] = IF on /\ ~(limit > 0) THEN "fellThrough"
                                                              ELSE "none"]

\* Running calls see a new value; a call that begins sees only its own.
Observed(n) ==
    [c \in Calls |-> IF c \in Running THEN seen[c] \cup {n} ELSE seen[c]]

Execute(c) ==
    /\ Begin(c, FALSE, maxAttempts, enabled)
    /\ seen' = [seen EXCEPT ![c] = {maxAttempts}]
    /\ UNCHANGED <<config, baseConfig, tangled>>

\* Override, and run execute up to its first await.
ExecuteWithConfig(c, n, on) ==
    /\ Begin(c, TRUE, n, on)
    /\ maxAttempts' = n /\ enabled' = on
    /\ seen' = [Observed(n) EXCEPT ![c] = {n}]
    /\ tangled' = (tangled \/ Overriding # {})
    /\ UNCHANGED baseConfig

\* Mutant: the update replaces the configuration instead of merging into it,
\* and leaves maxAttempts undefined (here -1).
UpdateConfig_NoMerge(n, on) ==
    /\ maxAttempts' = -1 /\ enabled' = on
    /\ base' = n /\ baseEnabled' = on
    /\ seen' = Observed(n)
    /\ tangled' = (Overriding # {})
    /\ UNCHANGED <<call, result>>

UpdateConfig(n, on) ==
    /\ maxAttempts' = n /\ enabled' = on
    /\ base' = n /\ baseEnabled' = on
    /\ seen' = Observed(n)
    /\ tangled' = (Overriding # {})
    /\ UNCHANGED <<call, result>>

\* fn resolved.
Succeed(c) ==
    /\ call[c].pc \in {"fn", "once"}
    /\ call' = [call EXCEPT ![c] = Settled(c)]
    /\ result' = [result EXCEPT ![c] = "value"]
    /\ UNCHANGED <<config, baseConfig, seen, tangled>>

\* fn rejected in a disabled engine, which makes no second attempt.
RejectOnce(c) ==
    /\ call[c].pc = "once"
    /\ call' = [call EXCEPT ![c] = Settled(c)]
    /\ result' = [result EXCEPT ![c] = "error"]
    /\ UNCHANGED <<config, baseConfig, seen, tangled>>

\* Mutant: the last attempt counted as if attempts started from 1.
LastAttempt_Early(c) == call[c].attempt >= maxAttempts - 2

\* fn rejected, in the attempt that is the last one by now.
LastAttempt(c) == call[c].attempt = maxAttempts - 1

\* fn rejected with an error that is not retryable, or in the last attempt.
Reject(c, retryable) ==
    /\ call[c].pc = "fn"
    /\ LastAttempt(c) \/ ~retryable
    /\ call' = [call EXCEPT ![c] = Settled(c)]
    /\ result' = [result EXCEPT ![c] = IF retryable THEN "exhausted" ELSE "error"]
    /\ UNCHANGED <<config, baseConfig, seen, tangled>>

\* fn rejected with a retryable error before the last attempt: wait.
Retry(c) ==
    /\ call[c].pc = "fn"
    /\ ~LastAttempt(c)
    /\ call' = [call EXCEPT ![c].pc = "sleep"]
    /\ UNCHANGED <<config, result, baseConfig, seen, tangled>>

\* Mutant: the loop goes round once too often, `attempt <= maxAttempts`.
AttemptsLeft_OneMore(c) == call[c].attempt + 1 <= maxAttempts

\* The delay is over and the loop goes round, if there are attempts left.
AttemptsLeft(c) == call[c].attempt + 1 < maxAttempts

\* Mutant: the attempt is not counted.
WakeAndTry_Uncounted(c) ==
    /\ call[c].pc = "sleep"
    /\ AttemptsLeft(c)
    /\ call' = [call EXCEPT ![c].pc = "fn"]
    /\ UNCHANGED <<config, result, baseConfig, seen, tangled>>

WakeAndTry(c) ==
    /\ call[c].pc = "sleep"
    /\ AttemptsLeft(c)
    /\ call' = [call EXCEPT ![c].pc = "fn", ![c].attempt = @ + 1]
    /\ UNCHANGED <<config, result, baseConfig, seen, tangled>>

\* It does not: maxAttempts fell meanwhile, and the last line of execute throws.
FallThrough(c) ==
    /\ call[c].pc = "sleep"
    /\ ~AttemptsLeft(c)
    /\ call' = [call EXCEPT ![c] = Settled(c)]
    /\ result' = [result EXCEPT ![c] = "fellThrough"]
    /\ UNCHANGED <<config, baseConfig, seen, tangled>>

\* Mutant: no finally block, the override stays when execute throws.
Restore_OnSuccess(c) ==
    /\ call[c].pc = "settled"
    /\ IF result[c] = "value"
       THEN maxAttempts' = call[c].original /\ enabled' = call[c].wasEnabled
       ELSE UNCHANGED config
    /\ call' = [call EXCEPT ![c] = NoCall]
    /\ seen' = Observed(maxAttempts')
    /\ UNCHANGED <<result, baseConfig, tangled>>

\* The finally block of executeWithConfig.
Restore(c) ==
    /\ call[c].pc = "settled"
    /\ maxAttempts' = call[c].original /\ enabled' = call[c].wasEnabled
    /\ call' = [call EXCEPT ![c] = NoCall]
    /\ seen' = Observed(call[c].original)
    /\ UNCHANGED <<result, baseConfig, tangled>>

Proceed(c) ==
    \/ Succeed(c) \/ RejectOnce(c)
    \/ \E retryable \in BOOLEAN : Reject(c, retryable)
    \/ Retry(c)
    \/ WakeAndTry(c)
    \/ FallThrough(c)
    \/ Restore(c)

RetryNext ==
    \/ \E c \in Calls :
          \/ Execute(c)
          \/ \E n \in AttemptValues, on \in BOOLEAN : ExecuteWithConfig(c, n, on)
          \/ Proceed(c)
    \/ \E n \in AttemptValues, on \in BOOLEAN : UpdateConfig(n, on)

RetrySpec == RetryInit /\ [][RetryNext]_retryVars

\* fn settles, delays end, finally blocks run.
RetryFairSpec == RetrySpec /\ \A c \in Calls : WF_retryVars(Proceed(c))

-----------------------------------------------------------------------------
(* Properties.                                                             *)

\* Every variable holds what its declaration says; an override remembers a
\* value somebody configured.
RetryTypeOK ==
    /\ maxAttempts \in AttemptValues /\ enabled \in BOOLEAN
    /\ call \in [Calls -> CallState]
    /\ result \in [Calls -> Results]
    /\ base \in AttemptValues /\ baseEnabled \in BOOLEAN
    /\ seen \in [Calls -> SUBSET AttemptValues]
    /\ tangled \in BOOLEAN
    /\ \A c \in Calls : call[c].custom => call[c].original \in AttemptValues

\* However the configuration changes under a call of an enabled engine, it makes
\* no attempt beyond the largest maxAttempts it has seen.
AttemptsBounded ==
    \A c \in Calls : call[c].pc \in {"fn", "sleep"} =>
        \E n \in seen[c] : call[c].attempt < n

\* A call that keeps failing retryably does not give up before it has made as
\* many attempts as the smallest maxAttempts it has seen.
NoEarlyExit ==
    [][\A c \in Calls :
          /\ call[c].pc \in {"fn", "sleep"}
          /\ call'[c].pc \notin {"fn", "sleep"}
          /\ result'[c] \in {"exhausted", "fellThrough"}
          => \E n \in seen[c] : n <= call[c].attempt + 1]_retryVars

\* An override whose call overlaps no other override and no update leaves the
\* engine configured as it was, whether the call succeeds or throws.
RestoredWhenAlone ==
    ~tangled /\ Overriding = {} => maxAttempts = base /\ enabled = baseEnabled

\* Every call ends, even while others keep changing the configuration.
CallsEnd == \A c \in Calls : call[c].pc # "idle" ~> call[c].pc = "idle"
=============================================================================
