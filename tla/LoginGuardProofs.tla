--------------------------- MODULE LoginGuardProofs --------------------------
(***************************************************************************)
(* For any number of accounts, addresses and concurrent logins and any     *)
(* limits, and for both guards: wrong guesses are bounded, rates are       *)
(* respected by successes too, and a lock runs for its time.               *)
(***************************************************************************)
EXTENDS LoginGuard, FiniteSetTheorems, TLAPS

\* The logins of an account that are past Check.
InFlight(a) == {r \in Requests : who[r] = a}

\* Open, the account has had no more wrong answers than failures are counted;
\* locked, every login still under way can add one.
MissesCounted(a) ==
    IF lock[a] = 0
    THEN missed[a] <= failure[a].count
    ELSE missed[a] + Cardinality(InFlight(a))
            <= MaxFailures + Cardinality(Requests) - 1

\* Who was let through was counted.
AdmissionsCounted(k) == admitted[k] <= rate[k].count /\ admitted[k] <= Limit(k)

IInv ==
    /\ TypeOK
    /\ \A a \in Accounts : MissesCounted(a)
    /\ \A k \in Keys : AdmissionsCounted(k)

USE LoginGuardAssumption DEF vars

\* The configured numbers are positive, one by one.
LEMMA Durations ==
    /\ MaxAttempts \in Nat \ {0} /\ AccountWindow \in Nat \ {0}
    /\ MaxFromAddress \in Nat \ {0} /\ AddressWindow \in Nat \ {0}
    /\ MaxFailures \in Nat \ {0} /\ FailureWindow \in Nat \ {0}
    /\ LockDuration \in Nat \ {0}
    /\ \A k \in Keys : Limit(k) \in Nat \ {0} /\ Window(k) \in Nat \ {0}
BY DEF Limit, Window

\* The in-flight logins of an account are finitely many.
LEMMA InFlightFinite ==
    ASSUME NEW a \in Accounts
    PROVE  /\ IsFiniteSet(InFlight(a)) /\ Cardinality(InFlight(a)) \in Nat
           /\ Cardinality(Requests) \in Nat
           /\ Cardinality(InFlight(a)) <= Cardinality(Requests)
<1>1. InFlight(a) \subseteq Requests
  BY DEF InFlight
<1> QED
  BY <1>1, FS_Subset, FS_CardinalityType

\* A login that ends is in flight no more; nothing changes for other accounts.
LEMMA EndFacts ==
    ASSUME TypeOK, NEW r \in Requests, pc[r] # "idle", End(r)
    PROVE  /\ who[r] \in Accounts
           /\ pc' \in [Requests -> Steps] /\ who' \in [Requests -> Accounts \cup {None}]
           /\ \A s \in Requests : pc'[s] = "idle" <=> who'[s] = None
           /\ \A a \in Accounts : IF a = who[r]
                 THEN Cardinality(InFlight(a))' = Cardinality(InFlight(a)) - 1
                 ELSE InFlight(a)' = InFlight(a)
<1>1. /\ who[r] \in Accounts
      /\ pc' \in [Requests -> Steps] /\ who' \in [Requests -> Accounts \cup {None}]
      /\ \A s \in Requests : pc'[s] = "idle" <=> who'[s] = None
  BY DEF End, TypeOK, Steps
<1>2. who' = [who EXCEPT ![r] = None] /\ who \in [Requests -> Accounts \cup {None}]
  BY DEF End, TypeOK
<1>3. ASSUME NEW a \in Accounts, a = who[r]
      PROVE  Cardinality(InFlight(a))' = Cardinality(InFlight(a)) - 1
  <2>1. InFlight(a)' = InFlight(a) \ {r} /\ r \in InFlight(a)
    BY <1>2, <1>3 DEF InFlight
  <2>2. Cardinality(InFlight(a) \ {r}) = Cardinality(InFlight(a)) - 1
    BY <2>1, InFlightFinite, FS_RemoveElement
  <2> QED
    BY <2>1, <2>2
<1>4. ASSUME NEW a \in Accounts, a # who[r] PROVE InFlight(a)' = InFlight(a)
  BY <1>2, <1>4 DEF InFlight
<1> QED
  BY <1>1, <1>3, <1>4

\* Every initial state satisfies the inductive invariant.
LEMMA InitIInv == Init => IInv
<1> SUFFICES ASSUME Init PROVE IInv
  OBVIOUS
<1>1. TypeOK
  BY Durations DEF Init, TypeOK, Zero, Counter, Steps
<1> QED
  BY <1>1, Durations DEF Init, IInv, MissesCounted, AdmissionsCounted, Zero

\* So does the state a process starts in that forgot everything.
LEMMA RestartInv == ASSUME IInv, Restart PROVE IInv'
<1>1. TypeOK'
  BY Durations DEF Restart, IInv, TypeOK, Zero, Counter, Steps, Limit, Window
<1> QED
  BY <1>1, Durations DEF Restart, IInv, MissesCounted, AdmissionsCounted, Zero, Limit

\* Counting one more keeps a counter in its bounds.
LEMMA CountedFacts ==
    ASSUME NEW c \in Counter, NEW window \in Nat \ {0}, c.left <= window,
           c.count = 0 <=> c.left = 0
    PROVE  /\ Counted(c, window) \in Counter
           /\ Counted(c, window).count = c.count + 1
           /\ Counted(c, window).left <= window /\ Counted(c, window).left # 0
BY DEF Counted, Counter

\* So does one more attempt, saturated or not.
LEMMA AttemptedFacts ==
    ASSUME TypeOK, NEW k \in Keys
    PROVE  /\ Attempted(k) \in Counter
           /\ Attempted(k).count <= Limit(k) + 1 /\ Attempted(k).count >= rate[k].count
           /\ Attempted(k).count <= Limit(k) => Attempted(k).count = rate[k].count + 1
           /\ Attempted(k).left <= Window(k)
           /\ Attempted(k).count = 0 <=> Attempted(k).left = 0
<1> DEFINE c == Counted(rate[k], Window(k))
<1>1. /\ rate[k] \in Counter /\ rate[k].left <= Window(k)
      /\ rate[k].count = 0 <=> rate[k].left = 0
      /\ rate[k].count <= Limit(k) + 1
      /\ Window(k) \in Nat \ {0} /\ Limit(k) \in Nat \ {0}
  BY Durations DEF TypeOK
<1>2. /\ c \in Counter /\ c.count = rate[k].count + 1
      /\ c.left <= Window(k) /\ c.left # 0
  BY <1>1, CountedFacts
<1>3. Attempted(k) = IF rate[k].count > Limit(k)
                     THEN [c EXCEPT !.count = rate[k].count] ELSE c
  BY DEF Attempted
<1> HIDE DEF c
<1> QED
  BY <1>1, <1>2, <1>3 DEF Counter

\* Check counts before it lets through, and lets nobody through who is locked.
LEMMA CheckInv ==
    ASSUME IInv, NEW r \in Requests, NEW a \in Accounts, NEW i \in Addresses,
           Check(r, a, i)
    PROVE  IInv'
<1>1. /\ lock[a] = 0 /\ pc[r] = "idle" /\ UNCHANGED <<guard, failure, lock, missed>>
      /\ \A k \in Keys : rate'[k] = IF k \in {a, i} THEN Attempted(k) ELSE rate[k]
      /\ rate' = [k \in Keys |-> IF k \in {a, i} THEN Attempted(k) ELSE rate[k]]
  BY DEF Check, Unlocked
<1>2. /\ rate' \in [Keys -> Counter]
      /\ \A k \in Keys : /\ rate'[k].count <= Limit(k) + 1
                         /\ rate'[k].left <= Window(k)
                         /\ rate'[k].count = 0 <=> rate'[k].left = 0
                         /\ rate'[k].count >= rate[k].count
  BY <1>1, AttemptedFacts, Durations DEF IInv, TypeOK, Counter
<1>3. CASE \A k \in {a, i} : rate'[k].count <= Limit(k)
  <2>1. /\ pc' = [pc EXCEPT ![r] = "compare"] /\ who' = [who EXCEPT ![r] = a]
        /\ admitted' = [k \in Keys |-> admitted[k] + IF k \in {a, i} THEN 1 ELSE 0]
    BY <1>3 DEF Check
  <2>2. admitted' \in [Keys -> Nat] /\ \A k \in Keys : AdmissionsCounted(k)'
    <3> SUFFICES ASSUME NEW k \in Keys
                 PROVE  admitted'[k] \in Nat /\ AdmissionsCounted(k)'
      BY <2>1
    <3>1. /\ admitted[k] \in Nat /\ admitted[k] <= rate[k].count
          /\ admitted[k] <= Limit(k) /\ rate[k].count \in Nat /\ Limit(k) \in Nat
      BY Durations DEF IInv, AdmissionsCounted, TypeOK, Counter
    <3>2. CASE k \in {a, i}
      <4>1. rate'[k].count = rate[k].count + 1 /\ rate'[k].count <= Limit(k)
        BY <1>1, <1>3, <3>2, AttemptedFacts DEF IInv
      <4> QED
        BY <2>1, <3>1, <3>2, <4>1 DEF AdmissionsCounted, Limit
    <3>3. CASE k \notin {a, i}
      BY <1>1, <2>1, <3>1, <3>3 DEF AdmissionsCounted, Limit
    <3> QED
      BY <3>2, <3>3
  <2>3. /\ pc' \in [Requests -> Steps] /\ who' \in [Requests -> Accounts \cup {None}]
        /\ \A s \in Requests : pc'[s] = "idle" <=> who'[s] = None
    BY <2>1 DEF IInv, TypeOK, Steps
  <2>4. TypeOK'
    BY <1>1, <1>2, <2>2, <2>3 DEF IInv, TypeOK, Limit, Window
  <2>5. ASSUME NEW b \in Accounts PROVE MissesCounted(b)'
    <3>1. CASE b = a
      BY <1>1, <3>1 DEF IInv, MissesCounted
    <3>2. CASE b # a
      <4>1. InFlight(b)' = InFlight(b)
        BY <1>1, <2>1, <3>2 DEF InFlight, IInv, TypeOK
      <4> QED
        BY <1>1, <4>1 DEF IInv, MissesCounted
    <3> QED
      BY <3>1, <3>2
  <2> QED
    BY <2>2, <2>4, <2>5 DEF IInv
<1>4. CASE ~(\A k \in {a, i} : rate'[k].count <= Limit(k))
  <2>1. UNCHANGED <<pc, who, admitted>>
    BY <1>4 DEF Check
  <2>2. TypeOK'
    BY <1>1, <1>2, <2>1 DEF IInv, TypeOK, Limit, Window
  <2>3. \A b \in Accounts : MissesCounted(b)'
    BY <1>1, <2>1 DEF IInv, MissesCounted, InFlight
  <2>4. ASSUME NEW k \in Keys PROVE AdmissionsCounted(k)'
    <3>1. /\ admitted[k] \in Nat /\ admitted[k] <= rate[k].count
          /\ admitted[k] <= Limit(k) /\ rate[k].count \in Nat /\ rate'[k].count \in Nat
      BY <1>2 DEF IInv, AdmissionsCounted, TypeOK, Counter
    <3> QED
      BY <1>2, <2>1, <3>1 DEF AdmissionsCounted, Limit
  <2> QED
    BY <2>2, <2>3, <2>4 DEF IInv
<1> QED
  BY <1>3, <1>4

\* Comparing a password counts nothing.
LEMMA CompareInv == ASSUME IInv, NEW r \in Requests, Compare(r) PROVE IInv'
<1>1. /\ UNCHANGED <<guard, rate, failure, lock, who, admitted, missed>>
      /\ pc' \in [Requests -> Steps]
      /\ \A s \in Requests : pc'[s] = "idle" <=> pc[s] = "idle"
  BY DEF Compare, IInv, TypeOK, Steps
<1>2. TypeOK'
  BY <1>1 DEF IInv, TypeOK, Limit, Window
<1> QED
  BY <1>1, <1>2 DEF IInv, MissesCounted, InFlight, AdmissionsCounted, Limit

\* A login that gives up leaves less to count.
LEMMA AbortInv == ASSUME IInv, NEW r \in Requests, Abort(r) PROVE IInv'
<1>1. /\ UNCHANGED <<guard, rate, failure, lock, admitted, missed>>
      /\ pc[r] # "idle" /\ End(r) /\ TypeOK
  BY DEF Abort, IInv
<1>2. TypeOK'
  BY <1>1, EndFacts DEF TypeOK, Limit, Window
<1>3. ASSUME NEW b \in Accounts PROVE MissesCounted(b)'
  <2>1. \/ Cardinality(InFlight(b))' = Cardinality(InFlight(b)) - 1
        \/ InFlight(b)' = InFlight(b)
    BY <1>1, EndFacts
  <2>2. /\ Cardinality(InFlight(b)) \in Nat /\ Cardinality(Requests) \in Nat
        /\ missed[b] \in Nat /\ MaxFailures \in Nat
    BY <1>1, InFlightFinite, Durations DEF TypeOK
  <2> QED
    BY <1>1, <2>1, <2>2 DEF IInv, MissesCounted
<1> QED
  BY <1>1, <1>2, <1>3 DEF IInv, AdmissionsCounted, Limit

\* A success starts the account afresh and leaves the rates alone.
LEMMA ResetInv == ASSUME IInv, NEW r \in Requests, Reset(r) PROVE IInv'
<1>a. PICK a \in Accounts : a = who[r]
  BY EndFacts DEF Reset, IInv
<1>1. /\ failure' = [failure EXCEPT ![a] = Zero] /\ lock' = [lock EXCEPT ![a] = 0]
      /\ missed' = [missed EXCEPT ![a] = 0] /\ UNCHANGED <<guard, rate, admitted>>
      /\ pc[r] # "idle" /\ End(r) /\ TypeOK
  BY <1>a DEF Reset, RatesKept, IInv
<1>3. TypeOK'
  BY <1>1, EndFacts, Durations DEF TypeOK, Limit, Window, Zero, Counter
<1>4. ASSUME NEW b \in Accounts PROVE MissesCounted(b)'
  <2>1. CASE b = a
    BY <1>1, <2>1 DEF MissesCounted, TypeOK, Zero
  <2>2. CASE b # a
    <3>1. InFlight(b)' = InFlight(b)
      BY <1>a, <1>1, <2>2, EndFacts
    <3> QED
      BY <1>1, <2>2, <3>1 DEF IInv, MissesCounted, TypeOK
  <2> QED
    BY <2>1, <2>2
<1> QED
  BY <1>1, <1>3, <1>4 DEF IInv, AdmissionsCounted, Limit

\* A wrong password is counted as a failure, sets the lock, or comes too late.
LEMMA RecordFailureInv ==
    ASSUME IInv, NEW r \in Requests, RecordFailure(r) PROVE IInv'
<1>a. PICK a \in Accounts : a = who[r]
  BY EndFacts DEF RecordFailure, IInv
<1> DEFINE c == Counted(failure[a], FailureWindow)
<1>1. /\ missed' = [missed EXCEPT ![a] = @ + 1] /\ UNCHANGED <<guard, rate, admitted>>
      /\ pc[r] # "idle" /\ End(r) /\ TypeOK
  BY <1>a DEF RecordFailure, IInv
<1>2. missed[a] \in Nat /\ lock[a] \in Nat
  BY <1>1 DEF TypeOK
<1>3. /\ failure[a] \in Counter /\ failure[a].count < MaxFailures
      /\ c \in Counter /\ c.count = failure[a].count + 1
      /\ c.left <= FailureWindow /\ c.left # 0
      /\ MaxFailures \in Nat \ {0} /\ FailureWindow \in Nat \ {0} /\ LockDuration \in Nat \ {0}
  BY <1>1, <1>2, CountedFacts, Durations DEF TypeOK
<1>4. /\ Cardinality(InFlight(a))' = Cardinality(InFlight(a)) - 1
      /\ Cardinality(InFlight(a)) \in Nat /\ Cardinality(Requests) \in Nat
      /\ Cardinality(InFlight(a)) <= Cardinality(Requests)
  BY <1>a, <1>1, EndFacts, InFlightFinite
<1>5. ASSUME NEW b \in Accounts \ {a}, failure'[b] = failure[b], lock'[b] = lock[b]
      PROVE  MissesCounted(b)'
  <2>1. InFlight(b)' = InFlight(b) /\ missed'[b] = missed[b]
    BY <1>a, <1>1, <1>5, EndFacts DEF TypeOK
  <2> QED
    BY <1>5, <2>1 DEF IInv, MissesCounted
<1>6. missed' \in [Accounts -> Nat] /\ missed'[a] = missed[a] + 1
  BY <1>1, <1>2 DEF TypeOK
<1>7. \A k \in Keys : AdmissionsCounted(k)'
  BY <1>1 DEF IInv, AdmissionsCounted, Limit
<1> HIDE DEF c
<1>8. CASE guard = "redis" /\ lock[a] > 0
  <2>1. UNCHANGED <<failure, lock>>
    BY <1>a, <1>8 DEF RecordFailure, StillLocked
  <2>2. TypeOK'
    BY <1>1, <1>6, <2>1, EndFacts DEF TypeOK, Limit, Window
  <2>3. MissesCounted(a)'
    <3>1. missed[a] + Cardinality(InFlight(a)) <= MaxFailures + Cardinality(Requests) - 1
      BY <1>2, <1>8 DEF IInv, MissesCounted
    <3> QED
      BY <1>2, <1>3, <1>4, <1>6, <1>8, <2>1, <3>1 DEF MissesCounted
  <2> QED
    BY <1>5, <1>7, <2>1, <2>2, <2>3 DEF IInv
<1>9. CASE ~(guard = "redis" /\ lock[a] > 0) /\ c.count >= MaxFailures
  <2>1. lock' = [lock EXCEPT ![a] = LockDuration] /\ failure' = [failure EXCEPT ![a] = Zero]
    BY <1>a, <1>9 DEF RecordFailure, Reaches, c
  <2>2. TypeOK'
    BY <1>1, <1>2, <1>3, <1>6, <2>1, EndFacts DEF TypeOK, Limit, Window, Zero, Counter
  <2>3. missed[a] + Cardinality(InFlight(a)) <= MaxFailures + Cardinality(Requests) - 1
    <3>1. CASE lock[a] = 0
      <4>1. missed[a] <= failure[a].count /\ failure[a].count \in Nat
        BY <1>3, <3>1 DEF IInv, MissesCounted, Counter
      <4> QED
        BY <1>2, <1>3, <1>4, <4>1
    <3>2. CASE lock[a] # 0
      BY <3>2 DEF IInv, MissesCounted
    <3> QED
      BY <3>1, <3>2
  <2>4. lock'[a] = LockDuration
    BY <1>1, <1>2, <2>1 DEF TypeOK
  <2>5. MissesCounted(a)'
    BY <1>2, <1>3, <1>4, <1>6, <2>3, <2>4 DEF MissesCounted
  <2>6. \A b \in Accounts \ {a} : failure'[b] = failure[b] /\ lock'[b] = lock[b]
    BY <1>1, <2>1 DEF TypeOK
  <2> QED
    BY <1>5, <1>7, <2>2, <2>5, <2>6 DEF IInv
<1>10. CASE ~(guard = "redis" /\ lock[a] > 0) /\ ~(c.count >= MaxFailures)
  <2>1. UNCHANGED lock /\ failure' = [failure EXCEPT ![a] = c]
    BY <1>a, <1>10 DEF RecordFailure, Reaches, c
  <2>2. TypeOK'
    BY <1>1, <1>2, <1>3, <1>6, <1>10, <2>1, EndFacts
       DEF TypeOK, Limit, Window, Zero, Counter
  <2>3. MissesCounted(a)'
    <3>1. CASE lock[a] = 0
      <4>1. missed[a] <= failure[a].count /\ failure[a].count \in Nat
        BY <1>3, <3>1 DEF IInv, MissesCounted, Counter
      <4>2. failure'[a] = c
        BY <1>1, <2>1 DEF TypeOK
      <4> QED
        BY <1>2, <1>3, <1>6, <2>1, <3>1, <4>1, <4>2 DEF MissesCounted
    <3>2. CASE lock[a] # 0
      <4>1. missed[a] + Cardinality(InFlight(a)) <= MaxFailures + Cardinality(Requests) - 1
        BY <3>2 DEF IInv, MissesCounted
      <4> QED
        BY <1>2, <1>3, <1>4, <1>6, <2>1, <3>2, <4>1 DEF MissesCounted
    <3> QED
      BY <3>1, <3>2
  <2>4. \A b \in Accounts \ {a} : failure'[b] = failure[b] /\ lock'[b] = lock[b]
    BY <1>1, <2>1 DEF TypeOK
  <2> QED
    BY <1>5, <1>7, <2>2, <2>3, <2>4 DEF IInv
<1> QED
  BY <1>8, <1>9, <1>10

\* An older counter is a counter.
LEMMA OlderFacts ==
    ASSUME NEW c \in Counter, c.count = 0 <=> c.left = 0
    PROVE  /\ Older(c) \in Counter /\ Older(c).left <= c.left
           /\ Older(c).count <= c.count
           /\ Older(c).count = 0 <=> Older(c).left = 0
           /\ IF c.left <= 1 THEN Older(c) = Zero ELSE Older(c).count = c.count
BY DEF Older, Counter, Zero

\* Time ends windows, failures and locks, and their histories with them.
LEMMA TickInv == ASSUME IInv, Tick PROVE IInv'
<1>1. UNCHANGED <<guard, pc, who>> /\ TypeOK
  BY DEF Tick, IInv
<1>2. /\ rate' \in [Keys -> Counter]
      /\ \A k \in Keys : /\ rate'[k].count <= Limit(k) + 1
                         /\ rate'[k].left <= Window(k)
                         /\ rate'[k].count = 0 <=> rate'[k].left = 0
  <2>1. rate' = [k \in Keys |-> Older(rate[k])]
    BY DEF Tick
  <2>2. ASSUME NEW k \in Keys
        PROVE  /\ Older(rate[k]) \in Counter
               /\ Older(rate[k]).count <= Limit(k) + 1
               /\ Older(rate[k]).left <= Window(k)
               /\ Older(rate[k]).count = 0 <=> Older(rate[k]).left = 0
    <3>1. /\ rate[k] \in Counter /\ rate[k].count <= Limit(k) + 1
          /\ rate[k].left <= Window(k) /\ (rate[k].count = 0 <=> rate[k].left = 0)
          /\ Limit(k) \in Nat /\ Window(k) \in Nat
      BY <1>1, Durations DEF TypeOK
    <3>2. /\ Older(rate[k]) \in Counter /\ Older(rate[k]).left <= rate[k].left
          /\ Older(rate[k]).count <= rate[k].count
          /\ Older(rate[k]).count = 0 <=> Older(rate[k]).left = 0
      BY <3>1, OlderFacts
    <3> QED
      BY <3>1, <3>2 DEF Counter
  <2> QED
    BY <2>1, <2>2
<1>3. /\ failure' \in [Accounts -> Counter]
      /\ lock' \in [Accounts -> 0..LockDuration]
      /\ \A a \in Accounts : /\ failure'[a].count < MaxFailures
                             /\ failure'[a].left <= FailureWindow
                             /\ failure'[a].count = 0 <=> failure'[a].left = 0
                             /\ guard = "redis" /\ lock'[a] > 0 => failure'[a] = Zero
  <2>1. /\ failure' = [a \in Accounts |-> Older(failure[a])]
        /\ lock' = [a \in Accounts |-> IF lock[a] = 0 THEN 0 ELSE lock[a] - 1]
    BY DEF Tick
  <2>2. ASSUME NEW a \in Accounts
        PROVE  /\ Older(failure[a]) \in Counter
               /\ Older(failure[a]).count < MaxFailures
               /\ Older(failure[a]).left <= FailureWindow
               /\ Older(failure[a]).count = 0 <=> Older(failure[a]).left = 0
               /\ (IF lock[a] = 0 THEN 0 ELSE lock[a] - 1) \in 0..LockDuration
               /\ guard = "redis" /\ (IF lock[a] = 0 THEN 0 ELSE lock[a] - 1) > 0
                     => Older(failure[a]) = Zero
    <3>1. /\ failure[a] \in Counter /\ failure[a].count < MaxFailures
          /\ failure[a].left <= FailureWindow /\ (failure[a].count = 0 <=> failure[a].left = 0)
          /\ lock[a] \in 0..LockDuration /\ (guard = "redis" /\ lock[a] > 0 => failure[a] = Zero)
          /\ MaxFailures \in Nat /\ FailureWindow \in Nat /\ LockDuration \in Nat
      BY <1>1, Durations DEF TypeOK
    <3>2. /\ Older(failure[a]) \in Counter /\ Older(failure[a]).left <= failure[a].left
          /\ Older(failure[a]).count <= failure[a].count
          /\ Older(failure[a]).count = 0 <=> Older(failure[a]).left = 0
          /\ failure[a].left <= 1 => Older(failure[a]) = Zero
      BY <3>1, OlderFacts
    <3> QED
      BY <3>1, <3>2 DEF Counter, Zero
  <2> QED
    BY <2>1, <2>2
<1>4. ASSUME NEW k \in Keys PROVE admitted'[k] \in Nat /\ AdmissionsCounted(k)'
  <2>1. /\ rate'[k] = Older(rate[k])
        /\ admitted'[k] = IF rate[k].left <= 1 THEN 0 ELSE admitted[k]
    BY DEF Tick
  <2>2. /\ rate[k] \in Counter /\ (rate[k].count = 0 <=> rate[k].left = 0)
        /\ admitted[k] \in Nat /\ admitted[k] <= rate[k].count /\ admitted[k] <= Limit(k)
        /\ Limit(k) \in Nat
    BY <1>1, Durations DEF IInv, TypeOK, AdmissionsCounted
  <2>3. IF rate[k].left <= 1 THEN Older(rate[k]) = Zero
                             ELSE Older(rate[k]).count = rate[k].count
    BY <2>2, OlderFacts
  <2>4. Limit(k)' = Limit(k)
    BY DEF Limit
  <2> QED
    BY <2>1, <2>2, <2>3, <2>4 DEF AdmissionsCounted, Zero
<1>5. ASSUME NEW a \in Accounts PROVE missed'[a] \in Nat /\ MissesCounted(a)'
  <2>1. /\ failure'[a] = Older(failure[a])
        /\ lock'[a] = IF lock[a] = 0 THEN 0 ELSE lock[a] - 1
        /\ missed'[a] = IF lock[a] = 1 \/ (lock[a] = 0 /\ failure[a].left <= 1)
                        THEN 0 ELSE missed[a]
        /\ InFlight(a)' = InFlight(a)
    BY <1>1 DEF Tick, InFlight
  <2>2. /\ failure[a] \in Counter /\ (failure[a].count = 0 <=> failure[a].left = 0)
        /\ lock[a] \in Nat /\ missed[a] \in Nat
        /\ MissesCounted(a)
    BY <1>1 DEF IInv, TypeOK
  <2>3. IF failure[a].left <= 1 THEN Older(failure[a]) = Zero
                                ELSE Older(failure[a]).count = failure[a].count
    BY <2>2, OlderFacts
  <2> QED
    BY <2>1, <2>2, <2>3 DEF MissesCounted, Zero, Counter
<1>6. admitted' \in [Keys -> Nat] /\ missed' \in [Accounts -> Nat]
  BY <1>4, <1>5 DEF Tick
<1>7. TypeOK'
  BY <1>1, <1>2, <1>3, <1>6 DEF TypeOK, Limit, Window
<1> QED
  BY <1>4, <1>5, <1>7 DEF IInv

-----------------------------------------------------------------------------
\* Every step of the scripts, of the logins and of time keeps the inductive
\* invariant.
THEOREM StepIInv == IInv /\ [Next]_vars => IInv'
<1> SUFFICES ASSUME IInv, [Next]_vars PROVE IInv'
  OBVIOUS
<1>1. CASE Tick \/ Restart
  BY <1>1, TickInv, RestartInv
<1>2. ASSUME NEW r \in Requests, NEW a \in Accounts, NEW i \in Addresses, Check(r, a, i)
      PROVE  IInv'
  BY <1>2, CheckInv
<1>3. ASSUME NEW r \in Requests, Compare(r) PROVE IInv'
  BY <1>3, CompareInv
<1>4. ASSUME NEW r \in Requests, RecordFailure(r) PROVE IInv'
  BY <1>4, RecordFailureInv
<1>5. ASSUME NEW r \in Requests, Reset(r) PROVE IInv'
  BY <1>5, ResetInv
<1>6. ASSUME NEW r \in Requests, Abort(r) PROVE IInv'
  BY <1>6, AbortInv
<1>7. CASE UNCHANGED vars
  BY <1>7 DEF IInv, TypeOK, MissesCounted, InFlight, AdmissionsCounted, Limit, Window
<1> QED
  BY <1>1, <1>2, <1>3, <1>4, <1>5, <1>6, <1>7 DEF Next

\* The inductive invariant holds throughout.
THEOREM Invariance == Spec => []IInv
BY InitIInv, StepIInv, PTL DEF Spec

\* For all limits and any number of logins, counters, failures and locks stay
\* within what the scripts may leave in Redis.
THEOREM TypeCorrect == Spec => []TypeOK
<1>1. IInv => TypeOK
  BY DEF IInv
<1> QED
  BY <1>1, Invariance, PTL

\* However many logins race, wrong answers are bounded by max_failures and the
\* number of logins at a time (RecordFailure, Check).
THEOREM GuessesBounded == Spec => []GuessesAreBounded
<1>1. ASSUME IInv PROVE GuessesAreBounded
  <2> SUFFICES ASSUME NEW a \in Accounts
               PROVE  missed[a] <= MaxFailures + Cardinality(Requests) - 1
    BY DEF GuessesAreBounded
  <2>1. /\ Cardinality(InFlight(a)) \in Nat /\ Cardinality(Requests) \in Nat
        /\ missed[a] \in Nat /\ failure[a].count \in Nat /\ failure[a].count < MaxFailures
        /\ MissesCounted(a) /\ MaxFailures \in Nat
    BY <1>1, InFlightFinite, Durations DEF IInv, TypeOK, Counter
  <2> QED
    BY <2>1 DEF MissesCounted
<1> QED
  BY <1>1, Invariance, PTL

\* No window lets more logins through than its limit, successes included.
THEOREM RatesRespected == Spec => []AdmittedWithinLimit
<1>1. IInv => AdmittedWithinLimit
  BY DEF IInv, AdmittedWithinLimit, AdmissionsCounted
<1> QED
  BY <1>1, Invariance, PTL

\* A lock is neither renewed by late failures nor ended before its time but by a
\* success that was under way; the guard in memory can renew it by as many late
\* failures as lead to a lock, and forgets it with its process.
THEOREM LockTerm == Spec => LockKeepsItsTerm
<1> DEFINE InTerm(a) == \/ lock'[a] \in {lock[a], lock[a] - 1}
                        \/ lock'[a] = 0 /\ \E r \in Requests : pc[r] = "reset" /\ who[r] = a
                        \/ LockedAgain(a) \/ Restart
           Kept == \A a \in Accounts : lock[a] > 0 => InTerm(a)
<1>1. ASSUME IInv, [Next]_vars PROVE Kept
  <2> SUFFICES ASSUME NEW a \in Accounts, lock[a] > 0 PROVE InTerm(a)
    OBVIOUS
  <2>1. lock \in [Accounts -> 0..LockDuration]
    BY <1>1 DEF IInv, TypeOK
  <2>2. CASE Tick
    BY <2>1, <2>2 DEF Tick
  <2>3. ASSUME NEW r \in Requests, NEW b \in Accounts, NEW i \in Addresses, Check(r, b, i)
        PROVE  lock'[a] = lock[a]
    BY <2>3 DEF Check
  <2>4. ASSUME NEW r \in Requests, Compare(r) \/ Abort(r) PROVE lock'[a] = lock[a]
    BY <2>4 DEF Compare, Abort
  <2>5. ASSUME NEW r \in Requests, RecordFailure(r)
        PROVE  lock'[a] = lock[a] \/ LockedAgain(a)
    <3>1. CASE who[r] # a
      BY <2>1, <2>5, <3>1 DEF RecordFailure, StillLocked
    <3>2. CASE who[r] = a /\ guard = "redis"
      BY <2>5, <3>2 DEF RecordFailure, StillLocked
    <3>3. CASE who[r] = a /\ guard = "memory"
      <4> DEFINE c == Counted(failure[a], FailureWindow)
      <4>1. \/ c.count >= MaxFailures /\ lock' = [lock EXCEPT ![a] = LockDuration]
            \/ UNCHANGED lock
        BY <2>5, <3>3 DEF RecordFailure, Reaches
      <4>2. /\ failure[a].count \in Nat /\ failure[a].count < MaxFailures
            /\ c.count = failure[a].count + 1 /\ MaxFailures \in Nat
        <5>1. /\ failure[a] \in Counter /\ failure[a].left <= FailureWindow
              /\ failure[a].count < MaxFailures
              /\ failure[a].count = 0 <=> failure[a].left = 0
          BY <1>1 DEF IInv, TypeOK
        <5> QED
          BY <5>1, CountedFacts, Durations DEF Counter
      <4>3. pc[r] = "record"
        BY <2>5 DEF RecordFailure
      <4> HIDE DEF c
      <4> QED
        BY <2>1, <3>3, <4>1, <4>2, <4>3 DEF LockedAgain
    <3> QED
      BY <1>1, <3>1, <3>2, <3>3 DEF IInv, TypeOK, Guards
  <2>6. ASSUME NEW r \in Requests, Reset(r)
        PROVE  \/ lock'[a] = lock[a]
               \/ lock'[a] = 0 /\ pc[r] = "reset" /\ who[r] = a
    BY <2>1, <2>6 DEF Reset
  <2>7. CASE UNCHANGED vars
    BY <2>7
  <2> QED
    BY <1>1, <2>2, <2>3, <2>4, <2>5, <2>6, <2>7 DEF Next
<1>2. IInv /\ [Next]_vars => [Kept]_vars
  BY <1>1
<1> QED
  BY <1>2, Invariance, PTL DEF Spec, LockKeepsItsTerm
=============================================================================
