------------------------------ MODULE LoginGuard ------------------------------
(***************************************************************************)
(* The protection of logins against guessing: fixed-window rate counters   *)
(* per account and per source address, the counter of consecutive failures *)
(* and the lock it leads to, and the logins that pass between them         *)
(* (auth.service Login).  The guard keeps all of it in Redis, for every    *)
(* instance, or in the memory of the one process there is in development.  *)
(*                                                                         *)
(* Check, RecordFailure and Reset are one Lua script, one command or one   *)
(* locked section each, so one step; between them other logins run.        *)
(* Abort(r) is every error return.  A key that expires is a timer that     *)
(* counts down to 0; the guard in memory keeps what is over until it meets *)
(* it again, and treats it as gone.  A login that passes ends by issuing   *)
(* the pair of Session's IssueTokenPair.                                   *)
(*                                                                         *)
(* A login names an account; whether the account exists, is enabled and    *)
(* has the offered password comes down to one bit, compared in one step.   *)
(*                                                                         *)
(* CountedSliding, UnlockedAlways, ReachesMore, Relocked and RatesForgotten*)
(* are slips the scripts could have made, each right before the definition *)
(* it distorts; no behaviour of Spec uses one.                             *)
(***************************************************************************)
EXTENDS Naturals, FiniteSets

CONSTANTS Accounts, Addresses, Requests,
          MaxAttempts, AccountWindow,        \* account_rate_limit
          MaxFromAddress, AddressWindow,     \* ip_rate_limit
          MaxFailures, FailureWindow, LockDuration,  \* lockout
          None

\* LoginProtectionConfig.Validate.
ASSUME LoginGuardAssumption ==
    /\ {MaxAttempts, AccountWindow, MaxFromAddress, AddressWindow,
        MaxFailures, FailureWindow, LockDuration} \subseteq Nat \ {0}
    /\ Accounts \cap Addresses = {}
    /\ None \notin Accounts
    /\ IsFiniteSet(Requests)

Keys      == Accounts \cup Addresses
Limit(k)  == IF k \in Accounts THEN MaxAttempts ELSE MaxFromAddress
Window(k) == IF k \in Accounts THEN AccountWindow ELSE AddressWindow

VARIABLES
    guard,     \* which of the two guards the process was started with
    rate,      \* key -> attempts in the current window, and what is left of it
    failure,   \* account -> failures in a row, and how long they count
    lock,      \* account -> what is left of its lock
    pc, who,   \* the logins, and the account each is for
    admitted,  \* history: key -> logins let through in the current window
    missed     \* history: account -> wrong passwords answered since its lock
               \* last opened or its count last ran out

vars == <<guard, rate, failure, lock, pc, who, admitted, missed>>

\* A count is compared with a limit only, and one past it is all the same.
Counter == [count: Nat, left: Nat]
Zero    == [count |-> 0, left |-> 0]
Steps   == {"idle", "compare", "record", "reset"}

Guards  == {"redis", "memory"}

Init ==
    /\ guard \in Guards
    /\ rate = [k \in Keys |-> Zero]
    /\ failure = [a \in Accounts |-> Zero]
    /\ lock = [a \in Accounts |-> 0]
    /\ pc = [r \in Requests |-> "idle"]
    /\ who = [r \in Requests |-> None]
    /\ admitted = [k \in Keys |-> 0]
    /\ missed = [a \in Accounts |-> 0]

-----------------------------------------------------------------------------
\* INCR, then PEXPIRE for the one that created the key.
CountedSliding(c, window) == [count |-> c.count + 1, left |-> window]
Counted(c, window) ==
    IF c.count = 0 THEN [count |-> 1, left |-> window]
                   ELSE [c EXCEPT !.count = @ + 1]

UnlockedAlways(a) == TRUE
Unlocked(a) == lock[a] = 0

\* One more attempt for a key, saturated one past the limit.
Attempted(k) ==
    IF rate[k].count > Limit(k)
    THEN [Counted(rate[k], Window(k)) EXCEPT !.count = rate[k].count]
    ELSE Counted(rate[k], Window(k))

End(r) == /\ pc' = [pc EXCEPT ![r] = "idle"]
          /\ who' = [who EXCEPT ![r] = None]

\* checkLoginScriptSource: the lock first, which leaves the rates alone, then
\* both counters, even if the first of them is over its limit.
Check(r, a, i) ==
    /\ pc[r] = "idle"
    /\ Unlocked(a)
    /\ rate' = [k \in Keys |-> IF k \in {a, i} THEN Attempted(k) ELSE rate[k]]
    /\ IF \A k \in {a, i} : rate'[k].count <= Limit(k)
       THEN /\ pc' = [pc EXCEPT ![r] = "compare"]
            /\ who' = [who EXCEPT ![r] = a]
            /\ admitted' = [k \in Keys |-> admitted[k] + IF k \in {a, i} THEN 1 ELSE 0]
       ELSE UNCHANGED <<pc, who, admitted>>
    /\ UNCHANGED <<guard, failure, lock, missed>>

\* The row is read and the password compared.
Compare(r) ==
    /\ pc[r] = "compare"
    /\ \E step \in {"record", "reset"} : pc' = [pc EXCEPT ![r] = step]
    /\ UNCHANGED <<guard, rate, failure, lock, who, admitted, missed>>

ReachesMore(count) == count > MaxFailures
Reaches(count) == count >= MaxFailures

\* A failure that comes after the lock leaves it as it is, in Redis; the guard
\* in memory does not look, and counts on.
Relocked(a) == [lock EXCEPT ![a] = LockDuration]
StillLocked(a) == lock

RecordFailure(r) ==
    /\ pc[r] = "record"
    /\ LET a == who[r]
           c == Counted(failure[a], FailureWindow)
       IN /\ missed' = [missed EXCEPT ![a] = @ + 1]
          /\ IF guard = "redis" /\ lock[a] > 0
             THEN lock' = StillLocked(a) /\ UNCHANGED failure
             ELSE IF Reaches(c.count)
             THEN /\ lock' = [lock EXCEPT ![a] = LockDuration]
                  /\ failure' = [failure EXCEPT ![a] = Zero]
             ELSE failure' = [failure EXCEPT ![a] = c] /\ UNCHANGED lock
    /\ End(r)
    /\ UNCHANGED <<guard, rate, admitted>>

\* The rates stay: a success does not open their windows again.
RatesForgotten(a) == [rate EXCEPT ![a] = Zero]
RatesKept(a) == rate

Reset(r) ==
    /\ pc[r] = "reset"
    /\ LET a == who[r] IN
       /\ failure' = [failure EXCEPT ![a] = Zero]
       /\ lock' = [lock EXCEPT ![a] = 0]
       /\ rate' = RatesKept(a)
       /\ missed' = [missed EXCEPT ![a] = 0]
    /\ End(r)
    /\ UNCHANGED <<guard, admitted>>

\* The client goes away, the database fails or Redis does not take the call.
Abort(r) ==
    /\ pc[r] # "idle"
    /\ End(r)
    /\ UNCHANGED <<guard, rate, failure, lock, admitted, missed>>

\* The process ends and starts again: what was in its memory is gone.
Restart ==
    /\ guard = "memory"
    /\ rate' = [k \in Keys |-> Zero]
    /\ failure' = [a \in Accounts |-> Zero]
    /\ lock' = [a \in Accounts |-> 0]
    /\ pc' = [r \in Requests |-> "idle"]
    /\ who' = [r \in Requests |-> None]
    /\ admitted' = [k \in Keys |-> 0]
    /\ missed' = [a \in Accounts |-> 0]
    /\ UNCHANGED guard

\* A unit of time: the keys whose time is over are gone.
Older(c) == IF c.left <= 1 THEN Zero ELSE [c EXCEPT !.left = @ - 1]
Tick ==
    /\ \/ \E k \in Keys : rate[k].left > 0
       \/ \E a \in Accounts : failure[a].left > 0 \/ lock[a] > 0
    /\ rate' = [k \in Keys |-> Older(rate[k])]
    /\ failure' = [a \in Accounts |-> Older(failure[a])]
    /\ lock' = [a \in Accounts |-> IF lock[a] = 0 THEN 0 ELSE lock[a] - 1]
    /\ admitted' = [k \in Keys |-> IF rate[k].left <= 1 THEN 0 ELSE admitted[k]]
    /\ missed' = [a \in Accounts |->
          IF lock[a] = 1 \/ (lock[a] = 0 /\ failure[a].left <= 1) THEN 0 ELSE missed[a]]
    /\ UNCHANGED <<guard, pc, who>>

-----------------------------------------------------------------------------
Next ==
    \/ Tick \/ Restart
    \/ \E r \in Requests :
          \/ \E a \in Accounts, i \in Addresses : Check(r, a, i)
          \/ Compare(r) \/ RecordFailure(r) \/ Reset(r) \/ Abort(r)

Spec == Init /\ [][Next]_vars

\* Time goes on; nobody has to log in, and nothing hurries a login.
FairSpec == Spec /\ WF_vars(Tick)
-----------------------------------------------------------------------------
(* Properties *)

\* The variables hold what the keys hold: a counter exists while its window
\* lasts, failures stay below the limit, and a lock replaces the failures; the
\* guard in memory can have both.
TypeOK ==
    /\ guard \in Guards
    /\ rate \in [Keys -> Counter] /\ failure \in [Accounts -> Counter]
    /\ \A k \in Keys : /\ rate[k].count <= Limit(k) + 1
                       /\ rate[k].left <= Window(k)
                       /\ rate[k].count = 0 <=> rate[k].left = 0
    /\ \A a \in Accounts : /\ failure[a].count < MaxFailures
                           /\ failure[a].left <= FailureWindow
                           /\ failure[a].count = 0 <=> failure[a].left = 0
                           /\ guard = "redis" /\ lock[a] > 0 => failure[a] = Zero
    /\ lock \in [Accounts -> 0..LockDuration]
    /\ pc \in [Requests -> Steps]
    /\ who \in [Requests -> Accounts \cup {None}]
    /\ \A r \in Requests : pc[r] = "idle" <=> who[r] = None
    /\ admitted \in [Keys -> Nat] /\ missed \in [Accounts -> Nat]

\* However many logins run side by side, and though each looks at the lock only
\* before it compares: from the time an account's lock opens or its failures run
\* out until it is so again, no more wrong passwords are answered than lead to the
\* lock, and one for each other login that was under way then.
GuessesAreBounded ==
    \A a \in Accounts : missed[a] <= MaxFailures + Cardinality(Requests) - 1

\* In a window of an account or of an address no more logins are let through
\* than its limit; login_guard.go: "the rate window is not bypassed by
\* successful requests".
AdmittedWithinLimit == \A k \in Keys : admitted[k] <= Limit(k)

\* The guard in memory can lock what is locked already, by as many more failures
\* as lead to a lock, all of logins let in before.
LockedAgain(a) ==
    /\ guard = "memory" /\ lock'[a] = LockDuration
    /\ failure[a].count = MaxFailures - 1
    /\ \E r \in Requests : pc[r] = "record" /\ who[r] = a

\* A lock runs for lock_duration: failures still under way do not renew it, but
\* for LockedAgain, and only a success that was under way, or the end of the
\* process that remembers it, ends it before its time.
LockKeepsItsTerm ==
    [][\A a \in Accounts : lock[a] > 0 =>
          \/ lock'[a] \in {lock[a], lock[a] - 1}
          \/ lock'[a] = 0 /\ \E r \in Requests : pc[r] = "reset" /\ who[r] = a
          \/ LockedAgain(a) \/ Restart]_vars

\* An account or address over its limit gets a new window, even if the attempts
\* never stop.
WindowsEnd == \A k \in Keys : rate[k].count > Limit(k) ~> rate[k].count = 0
=============================================================================
