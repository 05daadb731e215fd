----------------------------- MODULE RetryDelays -----------------------------
(***************************************************************************)
(* How long a task that keeps failing waits before the worker tries it     *)
(* again: the delay functions the repository gives to asynq, in the 64-bit *)
(* arithmetic of time.Duration.                                            *)
(*                                                                         *)
(* asynq counts the retries and asks the function for each.  The official  *)
(* strategy leaves the delay to the library and has no part here.          *)
(* math.Pow is exact for a power of two (or infinite); what the conversion *)
(* to an integer makes of one beyond the range depends on the processor.   *)
(*                                                                         *)
(* CountedFromZero is a slip: the factor of the retry before.              *)
(***************************************************************************)
EXTENDS Integers

CONSTANTS HalfRange,     \* of a duration, 2^63
          RetryTimes,    \* configured durations, 0 if there is none
          Second,
          MaxRetries,    \* max_retry of the task
          NoDelay

\* RetryDelayConfig.validate, and what an int and an int64 can hold.
ASSUME RetryAssumption ==
    /\ HalfRange \in Nat /\ RetryTimes \subseteq 0..HalfRange - 1
    /\ Second \in 1..HalfRange - 1
    /\ MaxRetries \in 0..HalfRange - 1
    /\ NoDelay \notin Int

Durations  == -HalfRange..HalfRange - 1
Strategies == {"fixed", "linear", "exponential"}

VARIABLES
    retry,    \* the configuration: strategy, interval, maxInterval
    retried,  \* of the task, so far
    power,    \* 2 ^ retried
    delay     \* the last one

retryVars == <<retry, retried, power, delay>>

\* normalizeRetryConfig
RetryConfigs == {[strategy |-> s, interval |-> IF i = 0 THEN Second ELSE i, maxInterval |-> m] :
                    s \in Strategies, i \in RetryTimes, m \in RetryTimes}

NewTask == retried' = 0 /\ power' = 1 /\ delay' = NoDelay

RetryInit == retry \in RetryConfigs /\ retried = 0 /\ power = 1 /\ delay = NoDelay

-----------------------------------------------------------------------------
\* What is left of a product in 64 bits.
Wrapped(d) == ((d + HalfRange) % (2 * HalfRange)) - HalfRange

\* amd64 has one value for what is out of range, arm64 the nearest in range.
Converted(x) == IF x < HalfRange THEN {x} ELSE {-HalfRange, HalfRange - 1}

capRetryDelay(d) == IF retry.maxInterval > 0 /\ d > retry.maxInterval
                    THEN retry.maxInterval ELSE d

CountedFromZero == retried
LinearFactor == retried + 1

\* retryDelayFunc: what it may answer for the retry that is due.
RetryDelay ==
    CASE retry.strategy = "fixed"       -> {retry.interval}
      [] retry.strategy = "linear"      -> {capRetryDelay(Wrapped(LinearFactor * retry.interval))}
      [] retry.strategy = "exponential" ->
            {capRetryDelay(Wrapped(f * retry.interval)) : f \in Converted(power)}

TaskFails ==
    /\ retried < MaxRetries
    /\ delay' \in RetryDelay
    /\ retried' = retried + 1 /\ power' = 2 * power
    /\ UNCHANGED retry

\* It succeeds or has used up its retries; the worker has another.
TaskEnds == delay # NoDelay /\ NewTask /\ UNCHANGED retry

RetryNext == TaskFails \/ TaskEnds
RetrySpec == RetryInit /\ [][RetryNext]_retryVars

-----------------------------------------------------------------------------
\* The variables hold a configuration, a count and what a duration can be.
RetryTypeOK ==
    /\ retry \in RetryConfigs
    /\ retried \in 0..MaxRetries /\ power \in Nat \ {0}
    /\ delay \in Durations \cup {NoDelay}

\* The delay that was asked for leaves the range of a duration.
OutOfRange ==
    \/ retry.strategy = "linear" /\ (retried + 1) * retry.interval >= HalfRange
    \/ retry.strategy = "exponential" /\ power * retry.interval >= HalfRange

\* A task that fails again and again is tried again less and less often, never
\* sooner than the first interval (or the cap, if that is less), unless the delay
\* it asks for overflows, and no later than the cap, which holds even then.  The
\* fixed strategy is exempt from the cap, since retryDelayFunc answers its interval
\* without it.  The overflow is excused, not ruled out: OutOfRange is the exact
\* product, so the property says that nothing else breaks the order.
RetriesBackOff ==
    [][TaskFails =>
          /\ retry.strategy # "fixed" /\ retry.maxInterval > 0 => delay' <= retry.maxInterval
          /\ \/ OutOfRange
             \/ /\ delay' >= retry.interval \/ delay' = retry.maxInterval
                /\ delay # NoDelay => delay' >= delay]_retryVars
=============================================================================
