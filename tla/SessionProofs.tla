---------------------------- MODULE SessionProofs ----------------------------
(***************************************************************************)
(* The safety properties of Session for every number of users, pairs,      *)
(* requests and versions.                                                  *)
(***************************************************************************)
EXTENDS Session, TLAPS

Row(p) == account[claims[p].user]

SameSession(p, q) == claims[p].session = claims[q].session

\* The session of p is over: nothing of it can be rotated or presented.
Over(p) == \A q \in issued :
    SameSession(p, q) => q \notin live /\ q \in blacklist \cup expired

(* The parts of the inductive invariant. *)

\* A session is named by a pair of its own, and its pairs share their account.
SessionsOK ==
    \A p \in issued :
        /\ claims[p].session \in issued
        /\ \A q \in issued : SameSession(p, q) =>
              claims[p].user = claims[q].user /\ claims[p].version = claims[q].version

\* No version is ahead of the account, and the version of a disabled account
\* belongs to nobody: disabling moved past it.
VersionsOK ==
    \A p \in issued :
        /\ claims[p].version <= Row(p).version
        /\ Row(p).status = "disabled" => claims[p].version # Row(p).version

\* Of a session with a refresh record, every other pair is spent.
LiveIsLast ==
    \A p \in live, q \in issued :
        SameSession(p, q) /\ q # p => q \notin live /\ q \in blacklist \cup expired

ParentsSpent ==
    \A q \in issued :
        LET p == claims[q].parent IN
        p # None => p \in issued \ live /\ p \in blacklist \cup expired

Revocations ==
    \A p \in revoked : Current(p) => Over(p)

\* What a request holds, at each of its steps.
JobOK(r) ==
    LET j == job[r] IN
    /\ pc[r] = "issue" =>
          /\ j.user \in Users /\ j.password \in Passwords
          /\ j.view.version <= account[j.user].version
          /\ account[j.user].status = "disabled"
                => j.view.version # account[j.user].version
          /\ j.view.version = account[j.user].version
                => j.password = account[j.user].password
    /\ pc[r] \in {"identity", "rotate"} => j.refresh \in issued
    /\ pc[r] \in {"check", "resolve", "load", "fill", "handler", "consume", "revoke"} =>
          /\ j.access \in issued /\ j.user = claims[j.access].user
          /\ j.op = "logout" => j.refresh \in issued
    /\ pc[r] \in {"consume", "revoke"} => j.op = "logout"
    /\ pc[r] = "revoke" =>
          /\ j.refresh \notin live
          /\ \A q \in issued : SameSession(j.refresh, q) /\ q # j.refresh
                => q \notin live /\ q \in blacklist \cup expired
    /\ pc[r] = "notify" => j.user \in Users

JobsOK == \A r \in Requests : JobOK(r)

Core ==
    /\ SessionsOK /\ VersionsOK /\ LiveIsLast /\ ParentsSpent
    /\ RotatedOnce /\ CurrentPairsKnowPassword /\ Revocations

IInv == TypeOK /\ Core /\ JobsOK

-----------------------------------------------------------------------------
USE SessionAssumption DEF store, ghosts, vars, Versions, Statuses, Ops, Steps, Miss,
    Rotatable, Rotation, PairedAccess, Rehashed, Unlinked

\* Every initial state satisfies the inductive invariant.
THEOREM InitIInv == Init => IInv
<1> SUFFICES ASSUME Init PROVE IInv
  OBVIOUS
<1>1. issued = {}
  BY DEF Init, issued
<1>2. TypeOK
  BY <1>1 DEF Init, TypeOK, Account, Claims, Identity, Job, NoJob, Unknown, issued
<1>3. Core
  BY <1>1 DEF Init, Core, SessionsOK, VersionsOK, LiveIsLast, ParentsSpent,
              RotatedOnce, CurrentPairsKnowPassword, Revocations
<1>4. JobsOK
  BY DEF Init, JobsOK, JobOK
<1> QED
  BY <1>2, <1>3, <1>4 DEF IInv

\* A step of r that leaves accounts, tokens and histories alone keeps the
\* session invariants and what the other requests hold.
LEMMA QuietStep ==
    ASSUME IInv, NEW r \in Requests, UNCHANGED <<account, store, revoked>>,
           \A s \in Requests \ {r} : pc'[s] = pc[s] /\ job'[s] = job[s]
    PROVE  Core' /\ \A s \in Requests \ {r} : JobOK(s)'
<1>1. Core'
  BY DEF IInv, Core, SessionsOK, VersionsOK, LiveIsLast, ParentsSpent, RotatedOnce,
         CurrentPairsKnowPassword, Revocations, Current, Over, SameSession, Row, issued
<1>2. \A s \in Requests \ {r} : JobOK(s)'
  BY DEF IInv, JobsOK, JobOK, SameSession, issued
<1> QED
  BY <1>1, <1>2

\* The row a request reads types as an identity and is its account's.
LEMMA IdentityType ==
    ASSUME TypeOK, NEW u \in Users
    PROVE  IdentityOf(u) \in Identity
BY DEF TypeOK, IdentityOf, Identity, Account, Unknown

\* The job of an idle request types.
LEMMA NoJobType == NoJob \in Job
<1>1. Unknown \in Identity
  BY DEF Unknown, Identity
<1> QED
  BY <1>1 DEF NoJob, Job

\* Reading the account of a login keeps the invariant (auth.service Login).
LEMMA FindByUsernameInv ==
    ASSUME IInv, NEW r \in Requests, NEW u \in Users, FindByUsername(r, u)
    PROVE  IInv'
<1> USE DEF FindByUsername, Begin
<1>0. /\ account[u] \in Account /\ IdentityOf(u) \in Identity
      /\ pc[r] \in Steps /\ pc \in [Requests -> Steps] /\ job \in [Requests -> Job]
  BY IdentityType DEF IInv, TypeOK
<1>1. job'[r] \in Job /\ job' \in [Requests -> Job] /\ pc' \in [Requests -> Steps]
  BY <1>0 DEF NoJob, Job, Identity, Unknown, Account
<1>2. TypeOK'
  BY <1>1 DEF IInv, TypeOK, issued
<1>3. JobOK(r)'
  BY <1>0 DEF JobOK, IInv, TypeOK, IdentityOf, NoJob, Account
<1>4. \A s \in Requests \ {r} : pc'[s] = pc[s] /\ job'[s] = job[s]
  BY <1>0
<1> QED
  BY <1>2, <1>3, <1>4, QuietStep DEF IInv, JobsOK

\* Finding a refresh record keeps the invariant (JWTManager.ValidateRefreshToken).
LEMMA ValidateRefreshTokenInv ==
    ASSUME IInv, NEW r \in Requests, NEW p \in Pairs, ValidateRefreshToken(r, p)
    PROVE  IInv'
<1> USE DEF ValidateRefreshToken, Begin
<1>0. pc \in [Requests -> Steps] /\ job \in [Requests -> Job]
  BY DEF IInv, TypeOK
<1>1. job' \in [Requests -> Job] /\ pc' \in [Requests -> Steps]
  <2>1. [NoJob EXCEPT !.op = "refresh", !.refresh = p] \in Job
    BY NoJobType DEF Job
  <2> QED
    BY <1>0, <2>1
<1>2. TypeOK'
  BY <1>1 DEF IInv, TypeOK, issued
<1>3. JobOK(r)'
  BY <1>0 DEF JobOK, IInv, TypeOK, NoJob, issued
<1>4. \A s \in Requests \ {r} : pc'[s] = pc[s] /\ job'[s] = job[s]
  BY <1>0
<1> QED
  BY <1>2, <1>3, <1>4, QuietStep DEF IInv, JobsOK

\* An arriving access token keeps the invariant (JWTMiddleware).
LEMMA ParseAccessTokenInv ==
    ASSUME IInv, NEW r \in Requests, NEW op \in Offered, NEW a \in Pairs,
           NEW p \in Pairs \cup {None}, ParseAccessToken(r, op, a, p)
    PROVE  IInv'
<1> USE DEF ParseAccessToken, Begin
<1>0. /\ pc \in [Requests -> Steps] /\ job \in [Requests -> Job]
      /\ a \in issued /\ claims[a] \in Claims
      /\ op = "logout" => p \in issued
  BY DEF IInv, TypeOK
<1>1. job' \in [Requests -> Job] /\ pc' \in [Requests -> Steps]
  <2>1. \A t \in {"live", "dead", "revoked"} :
          [NoJob EXCEPT !.op = op, !.user = claims[a].user, !.access = a,
                        !.refresh = p, !.token = t] \in Job
    BY <1>0, NoJobType DEF Job, Claims
  <2> QED
    BY <1>0, <2>1
<1>2. TypeOK'
  BY <1>1 DEF IInv, TypeOK, issued
<1>3. JobOK(r)'
  BY <1>0 DEF JobOK, NoJob, issued
<1>4. \A s \in Requests \ {r} : pc'[s] = pc[s] /\ job'[s] = job[s]
  BY <1>0
<1> QED
  BY <1>2, <1>3, <1>4, QuietStep DEF IInv, JobsOK

\* The steps of a running request that change nothing but its own position.
Reading(r) == \/ FindByID(r) \/ IsAccessTokenBlacklisted(r)
              \/ ResolvePrincipal(r) \/ LoadPrincipal(r)
              \/ FillCache(r) \/ AnsweredCall(r) \/ LogoutValidate(r)
              \/ Abort(r)

\* A step that only moves its own request keeps the invariant.
LEMMA ReadingInv ==
    ASSUME IInv, NEW r \in Requests, Reading(r)
    PROVE  IInv'
<1> USE DEF Goto, GotoIf, Finish, Admit, Handling
<1>0. /\ pc \in [Requests -> Steps] /\ job \in [Requests -> Job]
      /\ NoJob \in Job /\ JobOK(r)
  BY DEF IInv, TypeOK, JobsOK, NoJob, Job, Identity, Unknown
<1>1. pc[r] \in {"load", "fill"} => job[r].user \in Users
  BY <1>0 DEF JobOK, IInv, TypeOK, Claims
<1>2. /\ pc' \in [Requests -> Steps] /\ job' \in [Requests -> Job]
      /\ cache' \in [Users -> Identity \cup {Miss}]
      /\ raced' \subseteq Users
      /\ UNCHANGED <<account, store, revoked>>
      /\ JobOK(r)'
      /\ \A s \in Requests \ {r} : pc'[s] = pc[s] /\ job'[s] = job[s]
  <2>0. cache \in [Users -> Identity \cup {Miss}] /\ raced \subseteq Users
    BY DEF IInv, TypeOK
  <2>1. CASE FindByID(r)
    BY <1>0, <2>0, <2>1 DEF FindByID, JobOK, NoJob, issued
  <2>2. CASE ResolvePrincipal(r)
    BY <1>0, <2>0, <2>2 DEF ResolvePrincipal, JobOK, NoJob, issued
  <2>3. CASE LoadPrincipal(r)
    <3>1. IdentityOf(job[r].user) \in Identity
      BY <1>1, <2>3, IdentityType DEF LoadPrincipal, IInv
    <3>2. pc' \in [Requests -> Steps] /\ job' \in [Requests -> Job]
      BY <1>0, <2>3, <3>1 DEF LoadPrincipal, Job
    <3> QED
      BY <1>0, <2>0, <2>3, <3>2 DEF LoadPrincipal, JobOK, NoJob, issued, Job
  <2>4. CASE FillCache(r)
    <3>1. job[r].view \in Identity
      BY <1>0 DEF Job
    <3> QED
      BY <1>0, <1>1, <2>0, <2>4, <3>1 DEF FillCache, JobOK, NoJob, issued
  <2>5. CASE AnsweredCall(r)
    BY <1>0, <2>0, <2>5 DEF AnsweredCall, JobOK, NoJob, issued
  <2>6. CASE LogoutValidate(r)
    BY <1>0, <2>0, <2>6 DEF LogoutValidate, JobOK, NoJob, issued
  <2>7. CASE Abort(r)
    BY <1>0, <2>0, <2>7 DEF Abort, JobOK, NoJob, issued
  <2>8. CASE IsAccessTokenBlacklisted(r)
    BY <1>0, <2>0, <2>8 DEF IsAccessTokenBlacklisted, JobOK, NoJob, issued
  <2> QED
    BY <2>1, <2>2, <2>3, <2>4, <2>5, <2>6, <2>7, <2>8 DEF Reading
<1>3. TypeOK'
  BY <1>2 DEF IInv, TypeOK, issued
<1> QED
  BY <1>2, <1>3, QuietStep DEF IInv, JobsOK
\* Minting adds one pair and leaves the others as they were.
LEMMA MintFacts ==
    ASSUME TypeOK, NEW q, NEW c \in Claims, Mint(q, c)
    PROVE  /\ q \in Pairs \ issued
           /\ issued' = issued \cup {q}
           /\ claims' \in [issued' -> Claims]
           /\ \A p \in issued : claims'[p] = claims[p] /\ p # q
           /\ claims'[q] = c
           /\ held' \subseteq issued' /\ issued' \subseteq Pairs
BY DEF Mint, TypeOK, issued

\* A login's fresh pair keeps the invariant (JWTManager.IssueTokenPair).
LEMMA IssueTokenPairInv ==
    ASSUME IInv, NEW r \in Requests, NEW q \in Pairs, IssueTokenPair(r, q)
    PROVE  IInv'
<1> DEFINE c == [user |-> job[r].user, session |-> q,
                 version |-> job[r].view.version,
                 parent |-> None, password |-> job[r].password]
<1>0. /\ TypeOK /\ JobOK(r) /\ job[r] \in Job /\ pc[r] = "issue" /\ NoJob \in Job
      /\ pc' = [pc EXCEPT ![r] = "idle"] /\ job' = [job EXCEPT ![r] = NoJob]
      /\ UNCHANGED <<account, blacklist, expired, cache, revoked, raced>>
      /\ live' = live \cup {q}
  BY NoJobType DEF IInv, JobsOK, TypeOK, IssueTokenPair, Finish
<1>1. c \in Claims
  BY <1>0 DEF JobOK, Job, Identity, Claims
<1>2. Mint(q, c)
  BY DEF IssueTokenPair
<1>3. /\ q \in Pairs \ issued /\ issued' = issued \cup {q}
      /\ claims' \in [issued' -> Claims]
      /\ \A p \in issued : claims'[p] = claims[p] /\ p # q
      /\ claims'[q] = c
      /\ held' \subseteq issued' /\ issued' \subseteq Pairs
  BY <1>0, <1>1, <1>2, MintFacts
<1> HIDE DEF c
<1>4. TypeOK'
  BY <1>0, <1>3 DEF TypeOK
<1>5. /\ claims'[q].session = q /\ claims'[q].parent = None
      /\ claims'[q].user = job[r].user
      /\ claims'[q].version = job[r].view.version
      /\ claims'[q].password = job[r].password
  BY <1>3 DEF c
<1>6. \A p \in issued : claims[p].session # q
  BY <1>3 DEF IInv, Core, SessionsOK
<1>7. live \subseteq issued /\ revoked \subseteq issued
  BY <1>0 DEF TypeOK
<1>8. SessionsOK'
  BY <1>3, <1>5, <1>6 DEF IInv, Core, SessionsOK, SameSession
<1>9. VersionsOK' /\ CurrentPairsKnowPassword'
  BY <1>0, <1>3, <1>5 DEF IInv, Core, VersionsOK, CurrentPairsKnowPassword, Row, JobOK
<1>10. LiveIsLast'
  BY <1>0, <1>3, <1>5, <1>6, <1>7 DEF IInv, Core, LiveIsLast, SameSession
<1>11. ParentsSpent' /\ RotatedOnce'
  BY <1>0, <1>3, <1>5 DEF IInv, Core, ParentsSpent, RotatedOnce
<1>12. Revocations'
  BY <1>0, <1>3, <1>5, <1>6, <1>7
  DEF IInv, Core, Revocations, Current, Over, SameSession
<1>13. \A s \in Requests : JobOK(s)'
  <2>1. JobOK(r)'
    BY <1>0 DEF JobOK, NoJob, TypeOK
  <2>2. ASSUME NEW s \in Requests \ {r} PROVE JobOK(s)'
    <3>1. JobOK(s) /\ pc'[s] = pc[s] /\ job'[s] = job[s]
      BY <1>0 DEF IInv, JobsOK, TypeOK
    <3>2. pc[s] = "revoke" => job[s].refresh \in issued
      BY <3>1 DEF JobOK
    <3> QED
      BY <1>0, <1>3, <1>5, <1>6, <3>1, <3>2 DEF JobOK, SameSession
  <2> QED
    BY <2>1, <2>2
<1> QED
  BY <1>4, <1>8, <1>9, <1>10, <1>11, <1>12, <1>13 DEF IInv, Core, JobsOK

\* The rotation script keeps the invariant (TokenStore.RotateRefreshToken).
LEMMA RotateRefreshTokenInv ==
    ASSUME IInv, NEW r \in Requests, NEW q \in Pairs, RotateRefreshToken(r, q)
    PROVE  IInv'
<1> DEFINE p == job[r].refresh
<1>0. /\ TypeOK /\ JobOK(r) /\ job[r] \in Job /\ NoJob \in Job /\ p \in issued
      /\ pc' = [pc EXCEPT ![r] = "idle"] /\ job' = [job EXCEPT ![r] = NoJob]
      /\ UNCHANGED <<account, expired, cache, revoked, raced>>
  BY NoJobType DEF IInv, JobsOK, JobOK, TypeOK, RotateRefreshToken, Finish
<1>j. JobOK(r)'
  BY <1>0 DEF JobOK, NoJob, TypeOK
<1>s. \A s \in Requests \ {r} : JobOK(s) /\ pc'[s] = pc[s] /\ job'[s] = job[s]
  BY <1>0 DEF IInv, JobsOK, TypeOK
<1>a. CASE p \notin live
  <2>1. UNCHANGED <<account, store, revoked>>
    BY <1>0, <1>a DEF RotateRefreshToken
  <2>2. TypeOK'
    BY <1>0, <2>1 DEF TypeOK, issued
  <2> QED
    BY <1>j, <1>s, <2>1, <2>2, QuietStep DEF IInv, JobsOK
<1>b. CASE p \in live
  <2> DEFINE c == [claims[p] EXCEPT !.parent = p]
  <2>1. claims[p] \in Claims /\ p \in Pairs
    BY <1>0 DEF TypeOK
  <2>2. c \in Claims
    BY <2>1 DEF Claims
  <2>3. /\ Mint(q, c)
        /\ live' = (live \cup {q}) \ {p}
        /\ blacklist' = blacklist \cup ({p} \ expired)
    BY <1>b DEF RotateRefreshToken
  <2>4. /\ q \in Pairs \ issued /\ issued' = issued \cup {q}
        /\ claims' \in [issued' -> Claims]
        /\ \A x \in issued : claims'[x] = claims[x] /\ x # q
        /\ claims'[q] = c
        /\ held' \subseteq issued' /\ issued' \subseteq Pairs
    BY <1>0, <2>2, <2>3, MintFacts
  <2>5. /\ claims'[q].session = claims[p].session /\ claims'[q].parent = p
        /\ claims'[q].user = claims[p].user
        /\ claims'[q].version = claims[p].version
        /\ claims'[q].password = claims[p].password
    BY <2>1, <2>4 DEF Claims
  <2> HIDE DEF c
  <2>6. /\ live \subseteq issued /\ revoked \subseteq issued
        /\ blacklist \cup expired \subseteq (blacklist \cup expired)'
        /\ p \in (blacklist \cup expired)' /\ p \notin live'
        /\ \A x \in issued : x \in live' => x \in live
        /\ p # None /\ None \notin Pairs
    BY <1>0, <2>1, <2>3, <2>4 DEF TypeOK
  <2>7. TypeOK'
    BY <1>0, <2>3, <2>4 DEF TypeOK
  <2>8. SessionsOK'
    BY <1>0, <2>4, <2>5 DEF IInv, Core, SessionsOK, SameSession
  <2>9. VersionsOK' /\ CurrentPairsKnowPassword'
    BY <1>0, <2>4, <2>5 DEF IInv, Core, VersionsOK, CurrentPairsKnowPassword, Row
  <2>10. LiveIsLast'
    <3>1. \A x \in issued : SameSession(p, x) /\ x # p
             => x \notin live /\ x \in blacklist \cup expired
      BY <1>b DEF IInv, Core, LiveIsLast
    <3>2. ASSUME NEW x \in live', NEW y \in issued', SameSession(x, y)', y # x
          PROVE  y \notin live' /\ y \in (blacklist \cup expired)'
      <4>1. CASE x = q
        BY <2>4, <2>5, <2>6, <3>1, <3>2, <4>1 DEF SameSession
      <4>2. CASE x # q
        <5>1. x \in live /\ x # p /\ x \in issued
          BY <2>3, <2>6, <4>2
        <5>2. ~SameSession(p, x)
          BY <3>1, <5>1
        <5>3. y # q
          BY <2>4, <2>5, <3>2, <5>1, <5>2 DEF SameSession
        <5>4. y \in issued /\ SameSession(x, y)
          BY <2>4, <3>2, <5>1, <5>3 DEF SameSession
        <5> QED
          BY <2>6, <3>2, <5>1, <5>4 DEF IInv, Core, LiveIsLast
      <4> QED
        BY <4>1, <4>2
    <3> QED
      BY <3>2 DEF LiveIsLast
  <2>11. ParentsSpent'
    BY <1>0, <2>4, <2>5, <2>6 DEF IInv, Core, ParentsSpent
  <2>12. RotatedOnce'
    <3>1. \A x \in issued : claims[x].parent # p
      BY <1>b, <2>6 DEF IInv, Core, ParentsSpent
    <3> QED
      BY <2>4, <2>5, <3>1 DEF IInv, Core, RotatedOnce
  <2>13. Revocations'
    <3>1. ASSUME NEW x \in revoked, Current(x), NEW y \in issued', SameSession(x, y)'
          PROVE  y \notin live' /\ y \in (blacklist \cup expired)'
      <4>1. x \in issued /\ Over(x)
        BY <2>6, <3>1 DEF IInv, Core, Revocations
      <4>2. ~SameSession(x, p)
        BY <1>0, <1>b, <4>1 DEF Over
      <4>3. y \in issued /\ SameSession(x, y)
        BY <2>4, <2>5, <3>1, <4>1, <4>2 DEF SameSession
      <4> QED
        BY <2>6, <4>1, <4>3 DEF Over
    <3>2. \A x \in revoked : Current(x)' => Current(x)
      BY <1>0, <2>4, <2>6 DEF Current
    <3> QED
      BY <1>0, <3>1, <3>2 DEF Revocations, Over
  <2>14. ASSUME NEW s \in Requests \ {r} PROVE JobOK(s)'
    <3>1. pc[s] = "revoke" =>
            /\ job[s].refresh \in issued /\ ~SameSession(job[s].refresh, p)
      BY <1>0, <1>b, <1>s, <2>14 DEF JobOK
    <3>2. JobOK(s) /\ pc'[s] = pc[s] /\ job'[s] = job[s] /\ account' = account
      BY <1>0, <1>s, <2>14
    <3>3. /\ issued \subseteq issued' /\ \A x \in issued : claims'[x] = claims[x]
          /\ \A x \in issued : x \in blacklist \cup expired => x \in (blacklist \cup expired)'
      BY <2>4, <2>6
    <3>4. \A x \in issued, y \in issued' :
             ~SameSession(x, p) /\ SameSession(x, y)' => y \in issued /\ SameSession(x, y)
      BY <2>4, <2>5, <3>3 DEF SameSession
    <3> QED
      BY <2>6, <3>1, <3>2, <3>3, <3>4 DEF JobOK
  <2> QED
    BY <1>j, <2>7, <2>8, <2>9, <2>10, <2>11, <2>12, <2>13, <2>14
    DEF IInv, Core, JobsOK
<1> QED
  BY <1>a, <1>b
\* Steps that only take refresh records away or add revocations: no pair is
\* minted and no account changes.
Spending == /\ UNCHANGED <<account, claims, held>>
            /\ live' \subseteq live
            /\ blacklist' \cup expired' \subseteq issued
            /\ blacklist \cup expired \subseteq blacklist' \cup expired'

\* What such a step keeps of the session invariants.
LEMMA SpendingCore ==
    ASSUME IInv, Spending
    PROVE  /\ SessionsOK' /\ VersionsOK' /\ LiveIsLast' /\ ParentsSpent'
           /\ RotatedOnce' /\ CurrentPairsKnowPassword'
           /\ \A p \in issued : Over(p) => Over(p)'
           /\ \A p \in issued : Current(p)' <=> Current(p)
           /\ issued' = issued
           /\ \A s \in Requests : JobOK(s) /\ pc'[s] = pc[s] /\ job'[s] = job[s]
                => JobOK(s)'
<1>0. live \subseteq issued /\ live' \subseteq issued /\ issued' = issued /\ claims' = claims
      /\ account' = account
  BY DEF IInv, TypeOK, Spending, issued
<1>1. SessionsOK' /\ VersionsOK' /\ RotatedOnce' /\ CurrentPairsKnowPassword'
  BY <1>0 DEF IInv, Core, SessionsOK, VersionsOK, RotatedOnce,
              CurrentPairsKnowPassword, SameSession, Row
<1>2. LiveIsLast'
  BY <1>0 DEF Spending, IInv, Core, LiveIsLast, SameSession
<1>3. ParentsSpent'
  BY <1>0 DEF Spending, IInv, Core, ParentsSpent
<1>4. \A p \in issued : (Over(p) => Over(p)') /\ (Current(p)' <=> Current(p))
  BY <1>0 DEF Spending, Over, SameSession, Current
<1>5. \A s \in Requests : JobOK(s) /\ pc'[s] = pc[s] /\ job'[s] = job[s] => JobOK(s)'
  BY <1>0 DEF Spending, JobOK, SameSession
<1> QED
  BY <1>0, <1>1, <1>2, <1>3, <1>4, <1>5

\* Consuming a refresh record keeps the invariant (TokenStore.ConsumeRefreshToken).
LEMMA ConsumeRefreshTokenInv ==
    ASSUME IInv, NEW r \in Requests, ConsumeRefreshToken(r)
    PROVE  IInv'
<1> USE DEF ConsumeRefreshToken, GotoIf, Goto, Finish
<1> DEFINE p == job[r].refresh
<1>0. /\ TypeOK /\ JobOK(r) /\ NoJob \in Job /\ p \in issued /\ job[r].op = "logout"
      /\ pc \in [Requests -> Steps] /\ job \in [Requests -> Job]
  BY NoJobType DEF IInv, JobsOK, JobOK, TypeOK
<1>1. Spending
  BY <1>0 DEF TypeOK, Spending
<1>2. TypeOK'
  BY <1>0 DEF TypeOK, issued
<1>3. Revocations'
  BY <1>0, <1>1, SpendingCore DEF TypeOK, IInv, Core, Revocations
<1>4. JobOK(r)'
  <2>1. CASE p \in live
    <3>1. \A q \in issued : SameSession(p, q) /\ q # p
             => q \notin live /\ q \in blacklist \cup expired
      BY <2>1 DEF IInv, Core, LiveIsLast
    <3> QED
      BY <1>0, <2>1, <3>1 DEF JobOK, SameSession, issued
  <2>2. CASE p \notin live
    BY <1>0, <2>2 DEF JobOK, NoJob
  <2> QED
    BY <2>1, <2>2
<1>5. \A s \in Requests \ {r} : JobOK(s)'
  BY <1>0, <1>1, SpendingCore DEF IInv, JobsOK
<1> QED
  BY <1>1, <1>2, <1>3, <1>4, <1>5, SpendingCore DEF IInv, Core, JobsOK

\* The end of a logout keeps the invariant (TokenStore.BlacklistAccessToken).
LEMMA BlacklistAccessTokenInv ==
    ASSUME IInv, NEW r \in Requests, BlacklistAccessToken(r)
    PROVE  IInv'
<1> USE DEF BlacklistAccessToken, Finish
<1> DEFINE p == job[r].refresh
<1>0. /\ TypeOK /\ JobOK(r) /\ NoJob \in Job /\ p \in issued
      /\ pc \in [Requests -> Steps] /\ job \in [Requests -> Job]
  BY NoJobType DEF IInv, JobsOK, JobOK, TypeOK
<1>1. Spending
  BY <1>0 DEF TypeOK, Spending
<1>2. TypeOK'
  BY <1>0 DEF TypeOK, issued
<1>3. \A q \in issued : SameSession(p, q)
        => q \notin live' /\ q \in (blacklist \cup expired)'
  BY <1>0 DEF JobOK
<1>4. Revocations'
  <2>1. \A x \in issued : claims[x].session = claims[p].session => Over(x)'
    BY <1>1, <1>3 DEF Over, SameSession, Spending, issued
  <2>2. \A x \in revoked' \ revoked : Over(x)'
    BY <2>1
  <2>3. revoked \subseteq issued
    BY <1>0 DEF TypeOK
  <2> QED
    BY <1>1, <2>2, <2>3, SpendingCore DEF IInv, Core, Revocations
<1>5. JobOK(r)'
  BY <1>0 DEF JobOK, NoJob
<1>6. \A s \in Requests \ {r} : JobOK(s)'
  BY <1>0, <1>1, SpendingCore DEF IInv, JobsOK
<1> QED
  BY <1>1, <1>2, <1>4, <1>5, <1>6, SpendingCore DEF IInv, Core, JobsOK

\* Expirations keep the invariant.
LEMMA TimeInv == ASSUME IInv, Time PROVE IInv'
<1> USE DEF Time, ExpireAccess, ExpireBlacklist, ExpireRefresh, ExpireCache
<1>1. Spending
  BY DEF IInv, TypeOK, Spending
<1>2. TypeOK'
  BY DEF IInv, TypeOK, issued
<1>3. UNCHANGED <<pc, job, revoked>> /\ revoked \subseteq issued
  BY DEF IInv, TypeOK
<1>4. Revocations'
  BY <1>1, <1>3, SpendingCore DEF IInv, Core, Revocations
<1>5. JobsOK'
  BY <1>1, <1>3, SpendingCore DEF IInv, JobsOK
<1> QED
  BY <1>1, <1>2, <1>4, <1>5, SpendingCore DEF IInv, Core

\* An acknowledged account change keeps the invariant (Control.NotifyChanged).
LEMMA NotifyChangedInv ==
    ASSUME IInv, NEW r \in Requests, NotifyChanged(r)
    PROVE  IInv'
<1> USE DEF NotifyChanged, Finish
<1>0. /\ TypeOK /\ JobOK(r) /\ NoJob \in Job /\ job[r].user \in Users
      /\ pc \in [Requests -> Steps] /\ job \in [Requests -> Job]
      /\ issued' = issued
  BY NoJobType DEF IInv, JobsOK, JobOK, TypeOK, issued
<1>1. Spending
  BY <1>0 DEF TypeOK, Spending
<1>2. TypeOK'
  BY <1>0 DEF TypeOK
<1>3. Revocations'
  BY <1>0, <1>1, SpendingCore DEF TypeOK, IInv, Core, Revocations
<1>4. JobOK(r)'
  BY <1>0 DEF JobOK, NoJob
<1>5. \A s \in Requests \ {r} : JobOK(s)'
  BY <1>0, <1>1, SpendingCore DEF IInv, JobsOK
<1> QED
  BY <1>1, <1>2, <1>3, <1>4, <1>5, SpendingCore DEF IInv, Core, JobsOK
\* What every change of an account respects: the version never goes back, it
\* moves when the account is disabled and when the password changes.
Lawful(u, row) ==
    /\ row \in Account
    /\ account[u].status # "deleted"
    /\ row.version >= account[u].version
    /\ row.status = "disabled" /\ account[u].status = "enabled"
         => row.version # account[u].version
    /\ row.version = account[u].version => row.password = account[u].password

\* A committed row that respects the version keeps the invariant.
LEMMA CommitInv ==
    ASSUME IInv, NEW r \in Requests, NEW u \in Users, NEW row,
           Lawful(u, row), Commit(r, u, row),
           job' \in [Requests -> Job], job'[r].user \in Users,
           \A s \in Requests \ {r} : job'[s] = job[s]
    PROVE  IInv' /\ \A p \in issued : ~Current(p) => ~Current(p)'
<1> USE DEF Commit
<1>0. /\ TypeOK /\ issued' = issued /\ claims' = claims
      /\ account \in [Users -> Account] /\ row \in Account
      /\ account' \in [Users -> Account]
      /\ account'[u] = row /\ \A v \in Users \ {u} : account'[v] = account[v]
      /\ \A p \in issued : claims[p] \in Claims
  BY DEF IInv, TypeOK, issued, Lawful
<1>1. \A v \in Users :
        /\ account[v].version \in Nat /\ account'[v].version \in Nat
        /\ account'[v].version >= account[v].version
        /\ account'[v].status = "disabled" /\ account'[v].version = account[v].version
             => account[v].status = "disabled"
        /\ account'[v].status = "enabled" => account[v].status \in {"enabled", "disabled"}
        /\ account'[v].version = account[v].version
             => account'[v].password = account[v].password
  <2>1. ASSUME NEW v \in Users, v # u
        PROVE  account'[v] = account[v] /\ account[v] \in Account
    BY <1>0, <2>1
  <2>2. account[u] \in Account /\ account'[u] \in Account
    BY <1>0
  <2> QED
    BY <1>0, <2>1, <2>2 DEF Lawful, Account
<1>2. TypeOK'
  BY <1>0 DEF TypeOK
<1>3. SessionsOK' /\ LiveIsLast' /\ ParentsSpent' /\ RotatedOnce'
  BY <1>0 DEF IInv, Core, SessionsOK, LiveIsLast, ParentsSpent, RotatedOnce, SameSession, store
<1>4. VersionsOK'
  BY <1>0, <1>1 DEF IInv, Core, VersionsOK, Row, Claims
<1>5. CurrentPairsKnowPassword'
  BY <1>0, <1>1 DEF IInv, Core, VersionsOK, CurrentPairsKnowPassword, Row, Claims
<1>6. \A p \in issued : ~Current(p) => ~Current(p)'
  BY <1>0, <1>1 DEF IInv, Core, VersionsOK, Row, Claims, Current
<1>7. Revocations'
  BY <1>0, <1>6 DEF IInv, Core, Revocations, Over, SameSession, TypeOK, store
<1>8. JobOK(r)'
  BY <1>0 DEF JobOK, TypeOK
<1>9. ASSUME NEW s \in Requests \ {r} PROVE JobOK(s)'
  <2>1. /\ JobOK(s) /\ pc'[s] = pc[s] /\ job'[s] = job[s]
        /\ job[s].view.version \in Nat
    BY <1>0 DEF IInv, JobsOK, TypeOK, Job, Identity
  <2> QED
    BY <1>0, <1>1, <2>1 DEF JobOK, SameSession, store
<1> QED
  BY <1>2, <1>3, <1>4, <1>5, <1>6, <1>7, <1>8, <1>9 DEF IInv, Core, JobsOK

\* The fields of the rows that the four account operations write.
LEMMA RowFields ==
    ASSUME NEW a \in Account
    PROVE  /\ a.status \in Statuses /\ a.version \in Nat
           /\ a.version \in Versions \ {0} /\ a.password \in Passwords
           /\ a.version < MaxSessionVersion => a.version + 1 \in Versions \ {0}
BY DEF Account

\* The four operations that change an account.
Changing(r) ==
    \/ LogoutAll(r)
    \/ \E new \in Passwords : ChangePassword(r, new)
    \/ \E u \in Users, on \in BOOLEAN : UpdateUser(r, u, on)
    \/ \E u \in Users : DeleteUser(r, u)

\* The four operations that write a sys_user row keep the invariant.
LEMMA ChangingInv ==
    ASSUME IInv, NEW r \in Requests, Changing(r)
    PROVE  IInv' /\ \A p \in issued : ~Current(p) => ~Current(p)'
<1>0. /\ TypeOK /\ JobOK(r) /\ job \in [Requests -> Job]
      /\ \A u \in Users : account[u] \in Account
      /\ \A u \in Users : [NoJob EXCEPT !.op = "admin", !.user = u] \in Job
  BY NoJobType DEF IInv, JobsOK, TypeOK, Job
<1>1. ASSUME pc[r] = "handler" PROVE job[r].user \in Users
  BY <1>0, <1>1 DEF JobOK, TypeOK, Claims
<1>2. CASE LogoutAll(r)
  <2> DEFINE u == job[r].user
             row == [account[u] EXCEPT !.version = @ + 1]
  <2>1. u \in Users /\ Commit(r, u, row) /\ job' = job /\ Bumpable(u)
        /\ account[u].status = "enabled"
    BY <1>1, <1>2 DEF LogoutAll, Handling
  <2>2. Lawful(u, row)
    <3>1. account[u] \in Account /\ account[u].version + 1 \in Versions \ {0}
      BY <1>0, <2>1, RowFields DEF Bumpable
    <3>2. row \in Account
      BY <3>1 DEF Account
    <3>3. row.version = account[u].version + 1 /\ account[u].version \in Nat
      BY <3>1, RowFields DEF Account
    <3> HIDE DEF row
    <3> QED
      BY <2>1, <3>2, <3>3 DEF Lawful
  <2> HIDE DEF row
  <2> QED
    BY <1>0, <2>1, <2>2, CommitInv
<1>3. ASSUME NEW new \in Passwords, ChangePassword(r, new)
      PROVE  IInv' /\ \A p \in issued : ~Current(p) => ~Current(p)'
  <2> DEFINE u == job[r].user
             row == [account[u] EXCEPT !.version = @ + 1, !.password = new]
  <2>1. u \in Users /\ Commit(r, u, row) /\ job' = job /\ Bumpable(u)
        /\ account[u].status = "enabled"
    BY <1>1, <1>3 DEF ChangePassword, Handling
  <2>2. Lawful(u, row)
    <3>1. account[u] \in Account /\ account[u].version + 1 \in Versions \ {0}
      BY <1>0, <2>1, RowFields DEF Bumpable
    <3>2. row \in Account
      BY <3>1 DEF Account
    <3>3. row.version = account[u].version + 1 /\ account[u].version \in Nat
      BY <3>1, RowFields DEF Account
    <3> HIDE DEF row
    <3> QED
      BY <2>1, <3>2, <3>3 DEF Lawful
  <2> HIDE DEF row
  <2> QED
    BY <1>0, <2>1, <2>2, CommitInv
<1>4. ASSUME NEW u \in Users, NEW on \in BOOLEAN, UpdateUser(r, u, on)
      PROVE  IInv' /\ \A p \in issued : ~Current(p) => ~Current(p)'
  <2> DEFINE row == Switched(account[u], on)
  <2>1. /\ Commit(r, u, row)
        /\ job' = [job EXCEPT ![r] = [NoJob EXCEPT !.op = "admin", !.user = u]]
        /\ account[u].status # "deleted"
        /\ account[u].status = "enabled" /\ ~on => Bumpable(u)
    BY <1>4 DEF UpdateUser
  <2>2. Lawful(u, row)
    <3>1. /\ row \in Account
          /\ row.version = IF account[u].status = "enabled" /\ ~on
                           THEN account[u].version + 1 ELSE account[u].version
          /\ row.status = IF on THEN "enabled" ELSE "disabled"
          /\ row.password = account[u].password
      BY <1>0, <2>1, RowFields DEF Account, Bumpable, Switched
    <3>2. account[u].version \in Nat
      BY <1>0, <2>1, RowFields
    <3> HIDE DEF row
    <3> QED
      BY <2>1, <3>1, <3>2 DEF Lawful
  <2>3. [NoJob EXCEPT !.op = "admin", !.user = u].user = u
    BY DEF NoJob
  <2> HIDE DEF row
  <2> QED
    BY <1>0, <2>1, <2>2, <2>3, CommitInv
<1>5. ASSUME NEW u \in Users, DeleteUser(r, u)
      PROVE  IInv' /\ \A p \in issued : ~Current(p) => ~Current(p)'
  <2> DEFINE row == [account[u] EXCEPT !.status = "deleted"]
  <2>1. /\ Commit(r, u, row)
        /\ job' = [job EXCEPT ![r] = [NoJob EXCEPT !.op = "admin", !.user = u]]
        /\ account[u].status # "deleted"
    BY <1>5 DEF DeleteUser
  <2>2. Lawful(u, row)
    <3>1. /\ row \in Account
          /\ row.version = account[u].version /\ row.status = "deleted"
          /\ row.password = account[u].password
      BY <1>0, <2>1, RowFields DEF Account, Bumpable
    <3>2. account[u].version \in Nat
      BY <1>0, <2>1, RowFields
    <3> HIDE DEF row
    <3> QED
      BY <2>1, <3>1, <3>2 DEF Lawful
  <2>3. [NoJob EXCEPT !.op = "admin", !.user = u].user = u
    BY DEF NoJob
  <2> HIDE DEF row
  <2> QED
    BY <1>0, <2>1, <2>2, <2>3, CommitInv
<1> QED
  BY <1>2, <1>3, <1>4, <1>5 DEF Changing

-----------------------------------------------------------------------------
\* Every step keeps the invariant, and none gives a pair its account back.
THEOREM StepIInv == IInv /\ [Next]_vars => IInv'
<1> SUFFICES ASSUME IInv, [Next]_vars PROVE IInv'
  OBVIOUS
<1>1. CASE Time
  BY <1>1, TimeInv
<1>2. ASSUME NEW r \in Requests, Arrive(r) PROVE IInv'
  BY <1>2, FindByUsernameInv, ValidateRefreshTokenInv, ParseAccessTokenInv, ChangingInv
  DEF Arrive, Changing
<1>3. ASSUME NEW r \in Requests, Progress(r) PROVE IInv'
  BY <1>3, IssueTokenPairInv, RotateRefreshTokenInv, ReadingInv, ConsumeRefreshTokenInv,
     BlacklistAccessTokenInv, ChangingInv, NotifyChangedInv
  DEF Progress, Reading, Changing
<1>4. ASSUME NEW r \in Requests, Abort(r) PROVE IInv'
  BY <1>4, ReadingInv DEF Reading
<1>5. CASE UNCHANGED vars
  BY <1>5 DEF IInv, TypeOK, Core, SessionsOK, VersionsOK, LiveIsLast, ParentsSpent,
              RotatedOnce, CurrentPairsKnowPassword, Revocations, JobsOK, JobOK,
              SameSession, Row, Over, Current, issued
<1> QED
  BY <1>1, <1>2, <1>3, <1>4, <1>5 DEF Next

\* The inductive invariant holds throughout every behaviour.
THEOREM Invariance == Spec => []IInv
BY InitIInv, StepIInv, PTL DEF Spec

\* The variables always hold what the code stores in them (TypeOK).
THEOREM TypeCorrect == Spec => []TypeOK
BY Invariance, PTL DEF IInv

\* At most one refresh record per session, and no refresh token with two
\* successors (SessionIsAChain).
THEOREM SessionsAreChains == Spec => []SessionIsAChain
<1>1. IInv => OneLiveRefreshPerSession
  BY DEF IInv, TypeOK, Core, LiveIsLast, OneLiveRefreshPerSession, SameSession
<1>2. IInv => RotatedOnce
  BY DEF IInv, Core
<1> QED
  BY <1>1, <1>2, Invariance, PTL DEF SessionIsAChain

\* The access token of a rotated pair is refused (RotatedAccessIsRefused).
THEOREM RotationRevokes == Spec => []RotatedAccessIsRefused
<1>1. IInv => RotatedAccessIsRefused
  BY DEF IInv, Core, ParentsSpent, RotatedAccessIsRefused
<1> QED
  BY <1>1, Invariance, PTL

\* A pair at the account's version was opened with the password in force
\* (CurrentPairsKnowPassword).
THEOREM PasswordBinding == Spec => []CurrentPairsKnowPassword
BY Invariance, PTL DEF IInv, Core

\* The inductive invariant excludes a usable pair in a revoked session.
LEMMA RevokedDead == IInv => RevokedSessionStaysDead
<1>1. ASSUME IInv, NEW p \in revoked, NEW q \in issued, SameSession(q, p)
      PROVE  ~AccessLive(q) /\ ~RefreshLive(q)
  <2>1. p \in issued
    BY <1>1 DEF IInv, TypeOK
  <2>2. CASE Current(p)
    BY <1>1, <2>1, <2>2 DEF IInv, Core, Revocations, Over, SameSession,
                            AccessLive, RefreshLive
  <2>3. CASE ~Current(p)
    <3>1. ~Current(q)
      BY <1>1, <2>1, <2>3 DEF IInv, Core, SessionsOK, SameSession, Current
    <3> QED
      BY <3>1 DEF AccessLive, RefreshLive
  <2> QED
    BY <2>2, <2>3
<1> QED
  BY <1>1 DEF RevokedSessionStaysDead, SameSession

\* An acknowledged revocation holds for the whole session, for good
\* (RevokedSessionStaysDead).
THEOREM RevocationTotal == Spec => []RevokedSessionStaysDead
BY RevokedDead, Invariance, PTL

\* Minted pairs aside, the claims of a pair are never rewritten.
LEMMA ClaimsStable ==
    ASSUME IInv, [Next]_vars
    PROVE  /\ issued \subseteq issued'
           /\ \A p \in issued : claims'[p] = claims[p]
<1>0. \A q, c : Mint(q, c) => /\ issued \subseteq issued'
                             /\ \A p \in issued : claims'[p] = claims[p]
  BY DEF Mint, issued
<1>1. ASSUME NEW r \in Requests, NEW q \in Pairs,
             IssueTokenPair(r, q) \/ RotateRefreshToken(r, q)
      PROVE  claims' = claims \/ \E c : Mint(q, c)
  BY <1>1 DEF IssueTokenPair, RotateRefreshToken
<1>2. \/ claims' = claims
      \/ \E r \in Requests, q \in Pairs : IssueTokenPair(r, q) \/ RotateRefreshToken(r, q)
  <2>1. ASSUME Time PROVE claims' = claims
    BY <2>1 DEF Time, ExpireAccess, ExpireBlacklist, ExpireRefresh, ExpireCache
  <2>2. ASSUME NEW r \in Requests, Arrive(r) PROVE claims' = claims
    BY <2>2 DEF Arrive, FindByUsername, DeleteUser, ValidateRefreshToken, ParseAccessToken,
                UpdateUser, Commit
  <2>3. ASSUME NEW r \in Requests, Progress(r)
        PROVE  claims' = claims \/ \E q \in Pairs : IssueTokenPair(r, q) \/ RotateRefreshToken(r, q)
    BY <2>3 DEF Progress, FindByID, IsAccessTokenBlacklisted, ResolvePrincipal, LoadPrincipal,
                FillCache, AnsweredCall, LogoutValidate, ConsumeRefreshToken,
                BlacklistAccessToken, LogoutAll, ChangePassword, NotifyChanged, Commit
  <2>4. ASSUME NEW r \in Requests, Abort(r) PROVE claims' = claims
    BY <2>4 DEF Abort
  <2>5. CASE UNCHANGED vars
    BY <2>5 DEF vars
  <2> QED BY <2>1, <2>2, <2>3, <2>4, <2>5 DEF Next
<1> QED
  BY <1>0, <1>1, <1>2 DEF issued

\* An account is written by the four operations alone.
LEMMA AccountMoves ==
    ASSUME [Next]_vars
    PROVE  account' = account \/ \E r \in Requests : Changing(r)
<1>1. ASSUME Time PROVE account' = account
  BY <1>1 DEF Time, ExpireAccess, ExpireBlacklist, ExpireRefresh, ExpireCache
<1>2. ASSUME NEW r \in Requests, Arrive(r) PROVE account' = account \/ Changing(r)
  BY <1>2 DEF Arrive, Changing, FindByUsername, ValidateRefreshToken, ParseAccessToken
<1>3. ASSUME NEW r \in Requests, Progress(r) PROVE account' = account \/ Changing(r)
  BY <1>3 DEF Progress, Changing, IssueTokenPair, RotateRefreshToken, FindByID,
              IsAccessTokenBlacklisted, ResolvePrincipal, LoadPrincipal, FillCache, AnsweredCall,
              LogoutValidate, ConsumeRefreshToken, BlacklistAccessToken, NotifyChanged
<1>4. ASSUME NEW r \in Requests, Abort(r) PROVE account' = account
  BY <1>4 DEF Abort
<1>5. CASE UNCHANGED vars
  BY <1>5 DEF vars
<1> QED BY <1>1, <1>2, <1>3, <1>4, <1>5 DEF Next

\* No step makes a pair current that was not.
LEMMA CurrentStable ==
    ASSUME IInv, [Next]_vars
    PROVE  \A p \in issued : ~Current(p) => ~Current(p)'
<1>1. CASE \E r \in Requests : Changing(r)
  BY <1>1, ChangingInv
<1>2. CASE account' = account
  BY <1>2, ClaimsStable DEF Current
<1>3. account' = account \/ \E r \in Requests : Changing(r)
  BY AccountMoves
<1> QED
  BY <1>1, <1>2, <1>3

\* A pair that lost its account's consent never regains it (RevocationIsFinal).
THEOREM RevocationPermanent == Spec => RevocationIsFinal
BY CurrentStable, Invariance, PTL DEF Spec, RevocationIsFinal

-----------------------------------------------------------------------------
(* The token store implements the ledger. *)

\* With one record per session, the head of a session is that record.
LEMMA HeadValue ==
    ASSUME NEW l, NEW c, \A p, q \in l : c[p].session = c[q].session => p = q
    PROVE  /\ \A p \in l : c[p].session \in Pairs => HeadOf(l, c)[c[p].session] = p
           /\ \A s \in Pairs : (\A p \in l : c[p].session # s) => HeadOf(l, c)[s] = None
           /\ HeadOf(l, c) = [s \in Pairs |-> HeadOf(l, c)[s]]
BY DEF HeadOf

\* What the invariant says of a refresh record.
LEMMA LiveFacts ==
    ASSUME IInv
    PROVE  /\ live \subseteq issued /\ issued \subseteq Pairs /\ None \notin Pairs
           /\ \A p \in issued : claims[p].session \in Pairs /\ claims[p].session \in issued
           /\ \A p, q \in live : claims[p].session = claims[q].session => p = q
BY DEF IInv, TypeOK, Core, SessionsOK, LiveIsLast, SameSession, Claims

\* Removing the record of p closes its session and moves no other head.
LEMMA CloseStep ==
    ASSUME IInv, NEW p \in live, live' = live \ {p}, claims' = claims
    PROVE  Ledger!Close(claims[p].session)
<1> DEFINE H == HeadOf(live, claims)
           G == HeadOf(live', claims')
           s == claims[p].session
<1>1. /\ H[s] = p /\ p # None /\ s \in Pairs
      /\ H = [x \in Pairs |-> H[x]] /\ G = [x \in Pairs |-> G[x]]
      /\ G[s] = None
  BY LiveFacts, HeadValue
<1>2. ASSUME NEW x \in Pairs, x # s PROVE G[x] = H[x]
  <2>1. CASE \E q \in live : claims[q].session = x
    BY <1>2, <2>1, LiveFacts, HeadValue
  <2>2. CASE \A q \in live : claims[q].session # x
    BY <1>2, <2>2, LiveFacts, HeadValue
  <2> QED
    BY <2>1, <2>2
<1> HIDE DEF H, G, s
<1>3. G = [H EXCEPT ![s] = None]
  BY <1>1, <1>2
<1> QED
  BY <1>1, <1>3 DEF Ledger!Close, H, G, s, issued

\* Minting q in a session of its own, or in that of the record it replaces.
LEMMA MintStep ==
    ASSUME IInv, IInv', NEW q \in Pairs, NEW s \in Pairs,
           q \in Pairs \ issued, issued' = issued \cup {q},
           \A x \in issued : claims'[x] = claims[x] /\ x # q,
           claims'[q].session = s,
           q \in live',
           \A x \in issued : claims[x].session # s => (x \in live' <=> x \in live)
    PROVE  /\ Ledger!Use(q)
           /\ HeadOf(live', claims') = [HeadOf(live, claims) EXCEPT ![s] = q]
<1> DEFINE H == HeadOf(live, claims)
           G == HeadOf(live', claims')
<1>0. \A x, y \in live' : claims'[x].session = claims'[y].session => x = y
  BY DEF IInv, TypeOK, Core, LiveIsLast, SameSession
<1>1. /\ G[s] = q
      /\ H = [x \in Pairs |-> H[x]] /\ G = [x \in Pairs |-> G[x]]
  BY <1>0, LiveFacts, HeadValue
<1>2. ASSUME NEW x \in Pairs, x # s PROVE G[x] = H[x]
  <2>0. live' \subseteq issued \cup {q}
    BY DEF IInv, TypeOK
  <2>1. CASE \E p \in live : claims[p].session = x
    <3>1. PICK p \in live : claims[p].session = x
      BY <2>1
    <3>2. p \in live' /\ claims'[p].session = x
      BY <1>2, <3>1, LiveFacts
    <3> QED
      BY <1>0, <3>1, <3>2, LiveFacts, HeadValue
  <2>2. CASE \A p \in live : claims[p].session # x
    <3>1. \A p \in live' : claims'[p].session # x
      BY <1>2, <2>0, <2>2
    <3> QED
      BY <1>0, <2>2, <3>1, LiveFacts, HeadValue
  <2> QED
    BY <2>1, <2>2
<1> HIDE DEF H, G
<1>3. G = [H EXCEPT ![s] = q]
  BY <1>1, <1>2
<1> QED
  BY <1>3 DEF Ledger!Use, H, G

\* Every behaviour of Session is one of SessionLedger (ImplementsLedger).
THEOREM LedgerRefinement == Spec => ImplementsLedger
<1>1. Init => Ledger!Init
  BY DEF Init, Ledger!Init, HeadOf, issued
<1>2. ASSUME IInv, IInv', [Next]_vars PROVE [Ledger!Next]_(Ledger!vars)
  <2>1. ASSUME NEW r \in Requests, NEW q \in Pairs, IssueTokenPair(r, q)
        PROVE  Ledger!Open(q)
    <3> DEFINE c == [user |-> job[r].user, session |-> q,
                     version |-> job[r].view.version,
                     parent |-> None, password |-> job[r].password]
    <3>1. Mint(q, c) /\ live' = live \cup {q}
      BY <2>1 DEF IssueTokenPair
    <3>2. /\ q \in Pairs \ issued /\ issued' = issued \cup {q}
          /\ \A x \in issued : claims'[x] = claims[x] /\ x # q
          /\ claims'[q] = c
      BY <3>1 DEF Mint, issued
    <3>3. claims'[q].session = q /\ q \in live'
      BY <3>1, <3>2
    <3> HIDE DEF c
    <3> QED
      BY <1>2, <3>1, <3>2, <3>3, MintStep DEF Ledger!Open
  <2>2. ASSUME NEW r \in Requests, NEW q \in Pairs, RotateRefreshToken(r, q),
               job[r].refresh \in live
        PROVE  \E s \in Pairs : Ledger!Advance(s, q)
    <3> DEFINE p == job[r].refresh
               c == [claims[p] EXCEPT !.parent = p]
               s == claims[p].session
    <3>1. Mint(q, c) /\ live' = (live \cup {q}) \ {p} /\ p \in issued /\ p \in live
      BY <1>2, <2>2, LiveFacts DEF RotateRefreshToken
    <3>2. /\ q \in Pairs \ issued /\ issued' = issued \cup {q}
          /\ \A x \in issued : claims'[x] = claims[x] /\ x # q
          /\ claims'[q] = c
      BY <3>1 DEF Mint, issued
    <3>3. c.session = s
      BY <1>2, <3>1 DEF IInv, TypeOK, Claims
    <3>4. /\ s \in Pairs /\ claims'[q].session = s /\ q \in live'
          /\ HeadOf(live, claims)[s] = p /\ p # None
          /\ \A x \in issued : claims[x].session # s => (x \in live' <=> x \in live)
      BY <1>2, <3>1, <3>2, <3>3, LiveFacts, HeadValue
    <3> HIDE DEF c, s, p
    <3> QED
      BY <1>2, <3>2, <3>4, MintStep DEF Ledger!Advance
  <2>3. ASSUME NEW p \in live, live' = live \ {p}, claims' = claims
        PROVE  \E s \in Pairs : Ledger!Close(s)
    BY <1>2, <2>3, CloseStep, LiveFacts
  <2>4. CASE live' = live /\ claims' = claims
    BY <2>4 DEF Ledger!vars, issued
  <2>5. \/ live' = live /\ claims' = claims
        \/ \E p \in live : live' = live \ {p} /\ claims' = claims
        \/ \E r \in Requests, q \in Pairs : IssueTokenPair(r, q)
        \/ \E r \in Requests, q \in Pairs :
              RotateRefreshToken(r, q) /\ job[r].refresh \in live
    <3>1. ASSUME NEW r \in Requests, ConsumeRefreshToken(r)
          PROVE  \/ live' = live /\ claims' = claims
                 \/ \E p \in live : live' = live \ {p} /\ claims' = claims
      <4>1. CASE job[r].refresh \in live
        BY <3>1, <4>1 DEF ConsumeRefreshToken
      <4>2. CASE job[r].refresh \notin live
        BY <3>1, <4>2 DEF ConsumeRefreshToken
      <4> QED
        BY <4>1, <4>2
    <3>2. ASSUME NEW r \in Requests, NEW q \in Pairs, RotateRefreshToken(r, q),
                 job[r].refresh \notin live
          PROVE  live' = live /\ claims' = claims
      BY <3>2 DEF RotateRefreshToken
    <3>3. ASSUME NEW p \in Pairs, ExpireRefresh(p)
          PROVE  \E x \in live : live' = live \ {x} /\ claims' = claims
      BY <3>3 DEF ExpireRefresh
    <3>4. CASE Time
      <4>1. CASE \E p \in Pairs : ExpireRefresh(p)
        BY <3>3, <4>1
      <4>2. CASE ~\E p \in Pairs : ExpireRefresh(p)
        <5>1. live' = live /\ claims' = claims
          BY <3>4, <4>2 DEF Time, ExpireAccess, ExpireBlacklist, ExpireCache
        <5> QED BY <5>1
      <4> QED BY <4>1, <4>2
    <3>5. ASSUME NEW r \in Requests, Arrive(r) PROVE live' = live /\ claims' = claims
      BY <3>5 DEF Arrive, FindByUsername, DeleteUser, ValidateRefreshToken, ParseAccessToken,
                  UpdateUser, Commit
    <3>6. ASSUME NEW r \in Requests, Progress(r)
          PROVE  \/ live' = live /\ claims' = claims
                 \/ ConsumeRefreshToken(r)
                 \/ \E q \in Pairs : IssueTokenPair(r, q) \/ RotateRefreshToken(r, q)
      BY <3>6 DEF Progress, FindByID, IsAccessTokenBlacklisted, ResolvePrincipal, LoadPrincipal,
                  FillCache, AnsweredCall, LogoutValidate, BlacklistAccessToken, LogoutAll,
                  ChangePassword, NotifyChanged, Commit
    <3>7. ASSUME NEW r \in Requests, Abort(r) PROVE live' = live /\ claims' = claims
      BY <3>7 DEF Abort
    <3>8. CASE UNCHANGED vars
      BY <3>8 DEF vars
    <3>9. \/ Time \/ UNCHANGED vars
          \/ \E r \in Requests : Arrive(r) \/ Progress(r) \/ Abort(r)
      BY <1>2 DEF Next
    <3>10. ASSUME NEW r \in Requests, Progress(r)
           PROVE  \/ live' = live /\ claims' = claims
                  \/ \E p \in live : live' = live \ {p} /\ claims' = claims
                  \/ \E q \in Pairs : IssueTokenPair(r, q)
                  \/ \E q \in Pairs : RotateRefreshToken(r, q) /\ job[r].refresh \in live
      BY <3>1, <3>2, <3>6, <3>10
    <3> QED
      BY <3>4, <3>5, <3>7, <3>8, <3>9, <3>10
  <2> QED
    BY <2>1, <2>2, <2>3, <2>4, <2>5 DEF Ledger!Next
<1> QED
  BY <1>1, <1>2, Invariance, PTL DEF Spec, ImplementsLedger, Ledger!Spec
-----------------------------------------------------------------------------
(* What the middleware admits, with and without the identity cache. *)

\* Without the cache: a token found worthless when it was parsed is still worth
\* nothing, unless it merely expired, at each of the steps that follow.
Checked(r) ==
    LET a == job[r].access IN
    /\ pc[r] \notin {"resolve", "fill"}
    /\ job[r].token # "live" =>
          /\ pc[r] = "check" => a \in expired \cup blacklist \/ ~Current(a)
          /\ pc[r] = "load" => a \in expired \/ ~Current(a)
          /\ pc[r] = "handler" => a \in expired

AllChecked == \A r \in Requests : Checked(r)

\* A request that does not move keeps what its check established.
LEMMA CheckedFrame ==
    ASSUME IInv, IInv', [Next]_vars, NEW s \in Requests, Checked(s),
           pc'[s] = pc[s], job'[s] = job[s]
    PROVE  Checked(s)'
<1>1. pc[s] \in {"check", "load", "handler"} => job[s].access \in issued
  BY DEF IInv, JobsOK, JobOK
<1>2. expired \subseteq expired' /\ blacklist \subseteq blacklist' \cup expired'
  <2> DEFINE Kept == expired \subseteq expired' /\ blacklist \subseteq blacklist' \cup expired'
  <2>1. ASSUME Time PROVE Kept
    BY <2>1 DEF Time, ExpireAccess, ExpireBlacklist, ExpireRefresh, ExpireCache
  <2>2. ASSUME NEW r \in Requests, Arrive(r) PROVE Kept
    BY <2>2 DEF Arrive, FindByUsername, DeleteUser, ValidateRefreshToken, ParseAccessToken,
                UpdateUser, Commit
  <2>3. ASSUME NEW r \in Requests, Progress(r) PROVE Kept
    BY <2>3 DEF Progress, IssueTokenPair, RotateRefreshToken, FindByID,
                IsAccessTokenBlacklisted, ResolvePrincipal, LoadPrincipal, FillCache,
                AnsweredCall, LogoutValidate, ConsumeRefreshToken, BlacklistAccessToken,
                LogoutAll, ChangePassword, NotifyChanged, Commit
  <2>4. ASSUME NEW r \in Requests, Abort(r) PROVE Kept
    BY <2>4 DEF Abort
  <2>5. CASE UNCHANGED vars
    BY <2>5 DEF vars
  <2> QED BY <2>1, <2>2, <2>3, <2>4, <2>5 DEF Next
<1> QED
  BY <1>1, <1>2, CurrentStable DEF Checked

\* Nor does a moving request lose it, without the identity cache.
LEMMA CheckedMove ==
    ASSUME CacheEnabled = FALSE, IInv, IInv', NEW r \in Requests, Checked(r),
           Arrive(r) \/ Progress(r) \/ Abort(r)
    PROVE  Checked(r)' /\ \A s \in Requests \ {r} : pc'[s] = pc[s] /\ job'[s] = job[s]
<1>0. /\ pc \in [Requests -> Steps] /\ job \in [Requests -> Job]
      /\ JobOK(r) /\ TypeOK
  BY DEF IInv, TypeOK, JobsOK
<1>1. ASSUME NEW op \in Offered, NEW a \in Pairs, NEW p \in Pairs \cup {None},
             ParseAccessToken(r, op, a, p)
      PROVE  Checked(r)' /\ \A s \in Requests \ {r} : pc'[s] = pc[s] /\ job'[s] = job[s]
  <2>1. a \in revoked => ~AccessLive(a)
    BY RevokedDead, <1>1 DEF RevokedSessionStaysDead, ParseAccessToken, TypeOK, IInv
  <2>2. /\ pc'[r] = "check" /\ job'[r].access = a
        /\ job'[r].token = IF a \in revoked THEN "revoked"
                           ELSE IF AccessLive(a) THEN "live" ELSE "dead"
        /\ UNCHANGED <<account, claims, blacklist, expired>>
        /\ \A s \in Requests \ {r} : pc'[s] = pc[s] /\ job'[s] = job[s]
    BY <1>0, <1>1 DEF ParseAccessToken, Begin, NoJob
  <2>3. job'[r].token # "live" => ~AccessLive(a)
    BY <2>1, <2>2
  <2> QED
    BY <2>2, <2>3 DEF Checked, AccessLive, Current
<1>2. CASE IsAccessTokenBlacklisted(r)
  BY <1>0, <1>2 DEF IsAccessTokenBlacklisted, GotoIf, Goto, Finish, Checked, NoJob, Current
<1>3. CASE LoadPrincipal(r)
  <2>1. /\ GotoIf(/\ IdentityOf(job[r].user).found
                 /\ IdentityOf(job[r].user).version = claims[job[r].access].version,
                 r, "handler")
        /\ pc[r] = "load"
        /\ UNCHANGED <<account, claims, blacklist, expired>>
    BY <1>3 DEF LoadPrincipal, Admit
  <2>2. job[r].access \in issued /\ job[r].user = claims[job[r].access].user
    BY <1>0, <2>1 DEF JobOK
  <2>3. (/\ IdentityOf(job[r].user).found
         /\ IdentityOf(job[r].user).version = claims[job[r].access].version)
           => Current(job[r].access)
    BY <2>2 DEF IdentityOf, Unknown, Current
  <2> QED
    BY <1>0, <2>1, <2>3 DEF GotoIf, Goto, Finish, Checked, NoJob
<1>4. CASE pc'[r] \notin {"check", "resolve", "load", "fill", "handler"}
           /\ \A s \in Requests \ {r} : pc'[s] = pc[s] /\ job'[s] = job[s]
  BY <1>4 DEF Checked
<1>5. /\ pc[r] \notin {"resolve", "fill"}
      /\ ~ResolvePrincipal(r) /\ ~FillCache(r)
  BY DEF Checked, ResolvePrincipal, FillCache
<1>6. \/ \E op \in Offered, a \in Pairs, p \in Pairs \cup {None} :
           ParseAccessToken(r, op, a, p)
      \/ IsAccessTokenBlacklisted(r) \/ LoadPrincipal(r)
      \/ /\ pc'[r] \notin {"check", "resolve", "load", "fill", "handler"}
         /\ \A s \in Requests \ {r} : pc'[s] = pc[s] /\ job'[s] = job[s]
  <2> DEFINE Away == /\ pc'[r] \notin {"check", "resolve", "load", "fill", "handler"}
                     /\ \A s \in Requests \ {r} : pc'[s] = pc[s] /\ job'[s] = job[s]
  <2>0. pc \in [Requests -> Steps] /\ job \in [Requests -> Job]
    BY <1>0
  <2>1. ASSUME Arrive(r)
        PROVE  \/ Away
               \/ \E op \in Offered, a \in Pairs, p \in Pairs \cup {None} :
                     ParseAccessToken(r, op, a, p)
    <3>1. ASSUME NEW u \in Users, FindByUsername(r, u) \/ DeleteUser(r, u) PROVE Away
      BY <2>0, <3>1 DEF FindByUsername, DeleteUser, Commit, Begin
    <3>2. ASSUME NEW p \in Pairs, ValidateRefreshToken(r, p) PROVE Away
      BY <2>0, <3>2 DEF ValidateRefreshToken, Begin
    <3>3. ASSUME NEW u \in Users, NEW on \in BOOLEAN, UpdateUser(r, u, on) PROVE Away
      BY <2>0, <3>3 DEF UpdateUser, Commit
    <3> QED BY <2>1, <3>1, <3>2, <3>3 DEF Arrive
  <2>2. ASSUME Progress(r) PROVE Away \/ IsAccessTokenBlacklisted(r) \/ LoadPrincipal(r)
    BY <2>0, <1>5, <2>2
    DEF Progress, FindByID, IssueTokenPair, RotateRefreshToken, AnsweredCall, LogoutValidate,
        ConsumeRefreshToken, BlacklistAccessToken, LogoutAll, ChangePassword, NotifyChanged,
        Commit, Goto, GotoIf, Finish
  <2>3. ASSUME Abort(r) PROVE Away
    BY <2>0, <2>3 DEF Abort, Finish
  <2> QED BY <2>1, <2>2, <2>3
<1> QED
  BY <1>1, <1>2, <1>3, <1>4, <1>6

\* A request that ran without the identity cache was admitted with a token that
\* was usable when parsed, or expired meanwhile (AdmittedWasLive).
THEOREM AdmissionWithoutCache == (CacheEnabled = FALSE) /\ Spec => []AdmittedWasLive
<1> SUFFICES ASSUME CacheEnabled = FALSE PROVE Spec => []AdmittedWasLive
  OBVIOUS
<1>1. Init => AllChecked
  BY DEF Init, AllChecked, Checked
<1>2. IInv /\ IInv' /\ AllChecked /\ [Next]_vars => AllChecked'
  <2> SUFFICES ASSUME IInv, IInv', AllChecked, [Next]_vars, NEW s \in Requests
               PROVE  Checked(s)'
    BY DEF AllChecked
  <2>1. CASE Time \/ UNCHANGED vars
    <3>1. pc' = pc /\ job' = job
      BY <2>1 DEF Time, ExpireAccess, ExpireBlacklist, ExpireRefresh, ExpireCache
    <3> QED
      BY <3>1, CheckedFrame DEF AllChecked
  <2>2. ASSUME NEW r \in Requests, Arrive(r) \/ Progress(r) \/ Abort(r)
        PROVE  Checked(s)'
    BY <2>2, CheckedMove, CheckedFrame DEF AllChecked
  <2> QED
    BY <2>1, <2>2 DEF Next
<1>3. AllChecked => AdmittedWasLive
  BY DEF AllChecked, Checked, AdmittedWasLive
<1> QED
  BY <1>1, <1>2, <1>3, Invariance, PTL DEF Spec
\* With the cache: an identity about to be written is the account's, unless a
\* change overlapped the request that read it.
FillsOK ==
    \A r \in Requests : pc[r] = "fill" =>
        job[r].view = IdentityOf(job[r].user) \/ job[r].user \in raced

Pending(u) == \E r \in Requests : pc[r] = "notify" /\ job[r].user = u

\* Every step keeps the account of stale cache entries.
LEMMA StaleEntryStep ==
    ASSUME IInv, FillsOK, StaleEntryHasCause, [Next]_vars
    PROVE  FillsOK' /\ StaleEntryHasCause'
<1>0. /\ pc \in [Requests -> Steps] /\ job \in [Requests -> Job]
      /\ cache \in [Users -> Identity \cup {Miss}]
      /\ account \in [Users -> Account]
      /\ \A r \in Requests : JobOK(r)
      /\ \A r \in Requests : pc[r] = "fill" => job[r].user \in Users
  BY DEF IInv, TypeOK, JobsOK, JobOK, Claims
<1>1. ASSUME NEW r \in Requests, NEW u \in Users, NEW row, Commit(r, u, row),
             job'[r].user = u, \A s \in Requests \ {r} : job'[s] = job[s],
             pc[r] # "notify"
      PROVE  FillsOK' /\ StaleEntryHasCause'
  <2>1. /\ \A v \in Users \ {u} : account'[v] = account[v]
        /\ pc'[r] = "notify" /\ \A s \in Requests \ {r} : pc'[s] = pc[s]
        /\ raced \subseteq raced' /\ cache' = cache
        /\ (\E s \in Requests : pc[s] = "fill" /\ job[s].user = u) => u \in raced'
    BY <1>0, <1>1 DEF Commit
  <2>2. \A v \in Users \ {u} : IdentityOf(v)' = IdentityOf(v)
    BY <2>1 DEF IdentityOf
  <2>3. FillsOK'
    BY <1>0, <1>1, <2>1, <2>2 DEF FillsOK
  <2>4. \A v \in Users : Pending(v) \/ v = u => Pending(v)'
    BY <1>1, <2>1 DEF Pending
  <2> QED
    BY <2>1, <2>2, <2>3, <2>4 DEF StaleEntryHasCause, Pending
<1>2. CASE \E r \in Requests : Changing(r)
  <2> SUFFICES ASSUME NEW r \in Requests, Changing(r)
               PROVE  FillsOK' /\ StaleEntryHasCause'
    BY <1>2
  <2>1. pc[r] = "handler" => job[r].user \in Users
    BY <1>0 DEF JobOK, IInv, TypeOK, Claims
  <2>2. \A u : [NoJob EXCEPT !.op = "admin", !.user = u].user = u
    BY DEF NoJob
  <2>3. ASSUME LogoutAll(r) \/ \E new \in Passwords : ChangePassword(r, new)
        PROVE  FillsOK' /\ StaleEntryHasCause'
    <3>1. PICK row : /\ pc[r] = "handler" /\ job' = job /\ Commit(r, job[r].user, row)
      BY <2>3 DEF LogoutAll, ChangePassword, Handling
    <3> QED BY <1>1, <2>1, <3>1
  <2>4. ASSUME NEW u \in Users,
               DeleteUser(r, u) \/ \E on \in BOOLEAN : UpdateUser(r, u, on)
        PROVE  FillsOK' /\ StaleEntryHasCause'
    <3>1. PICK row : /\ pc[r] = "idle" /\ Commit(r, u, row)
                     /\ job' = [job EXCEPT ![r] = [NoJob EXCEPT !.op = "admin", !.user = u]]
      BY <2>4 DEF DeleteUser, UpdateUser
    <3>2. job'[r].user = u /\ \A s \in Requests \ {r} : job'[s] = job[s]
      BY <1>0, <2>2, <3>1
    <3> QED BY <1>1, <3>1, <3>2
  <2> QED BY <2>3, <2>4 DEF Changing
<1>3. CASE account' = account /\ \A r \in Requests : ~Changing(r)
  <2>1. \A v : IdentityOf(v)' = IdentityOf(v)
    BY <1>3 DEF IdentityOf
  <2>2. ASSUME NEW r \in Requests, LoadPrincipal(r)
        PROVE  FillsOK' /\ StaleEntryHasCause'
    <3>1. /\ \A s \in Requests \ {r} : pc'[s] = pc[s] /\ job'[s] = job[s]
          /\ UNCHANGED <<account, cache, raced>> /\ pc[r] = "load"
          /\ pc'[r] # "notify"
          /\ pc'[r] = "fill" => /\ job'[r].view = IdentityOf(job[r].user)
                                /\ job'[r].user = job[r].user
      BY <1>0, <2>2 DEF LoadPrincipal, Admit, GotoIf, Goto, Finish, Job
    <3>2. \A u : Pending(u) => Pending(u)'
      BY <3>1 DEF Pending
    <3> QED
      BY <2>1, <3>1, <3>2 DEF FillsOK, StaleEntryHasCause, Pending
  <2>3. ASSUME NEW r \in Requests, FillCache(r)
        PROVE  FillsOK' /\ StaleEntryHasCause'
    <3>1. /\ \A s \in Requests \ {r} : pc'[s] = pc[s] /\ job'[s] = job[s]
          /\ UNCHANGED <<account, raced>> /\ pc[r] = "fill" /\ pc'[r] # "fill"
          /\ cache' = [cache EXCEPT ![job[r].user] = job[r].view]
      BY <1>0, <2>3 DEF FillCache, Admit, GotoIf, Goto, Finish
    <3>2. \A u : Pending(u) => Pending(u)'
      BY <3>1 DEF Pending
    <3> QED
      BY <1>0, <2>1, <3>1, <3>2 DEF FillsOK, StaleEntryHasCause, Pending
  <2>4. ASSUME NEW r \in Requests, NotifyChanged(r) \/ Abort(r)
        PROVE  FillsOK' /\ StaleEntryHasCause'
    <3>1. /\ \A s \in Requests \ {r} : pc'[s] = pc[s] /\ job'[s] = job[s]
          /\ raced \subseteq raced' /\ pc'[r] = "idle"
          /\ \A u \in Users : cache'[u] \in {Miss, cache[u]}
          /\ pc[r] = "notify" => \/ job[r].user \in raced'
                                 \/ cache'[job[r].user] = Miss
      BY <1>0, <2>4 DEF NotifyChanged, Abort, Finish, JobOK
    <3>2. \A u : Pending(u) => Pending(u)' \/ (pc[r] = "notify" /\ job[r].user = u)
      BY <3>1 DEF Pending
    <3> QED
      BY <2>1, <3>1, <3>2 DEF FillsOK, StaleEntryHasCause, Pending
  <2>5. ASSUME /\ raced' = raced
               /\ \A u \in Users : cache'[u] \in {Miss, cache[u]}
               /\ \A r \in Requests :
                     pc[r] \in {"notify", "fill"} \/ pc'[r] \in {"notify", "fill"}
                       => pc'[r] = pc[r] /\ job'[r] = job[r]
        PROVE  FillsOK' /\ StaleEntryHasCause'
    <3>1. \A u : Pending(u) => Pending(u)'
      BY <2>5 DEF Pending
    <3> QED
      BY <2>1, <2>5, <3>1 DEF FillsOK, StaleEntryHasCause, Pending
  <2>6. \/ \E r \in Requests : LoadPrincipal(r) \/ FillCache(r)
                              \/ NotifyChanged(r) \/ Abort(r)
        \/ /\ raced' = raced
           /\ \A u \in Users : cache'[u] \in {Miss, cache[u]}
           /\ \A r \in Requests :
                 pc[r] \in {"notify", "fill"} \/ pc'[r] \in {"notify", "fill"}
                   => pc'[r] = pc[r] /\ job'[r] = job[r]
    <3>1. CASE Time \/ UNCHANGED vars
      BY <1>0, <3>1 DEF Time, ExpireAccess, ExpireBlacklist, ExpireRefresh, ExpireCache
    <3>2. ASSUME NEW r \in Requests, Arrive(r)
          PROVE  /\ raced' = raced /\ cache' = cache
                 /\ pc[r] = "idle" /\ pc'[r] \notin {"notify", "fill"}
                 /\ \A s \in Requests \ {r} : pc'[s] = pc[s] /\ job'[s] = job[s]
      BY <1>0, <1>3, <3>2 DEF Arrive, Changing, FindByUsername, ValidateRefreshToken,
                              ParseAccessToken, Begin
    <3>3. ASSUME NEW r \in Requests, Progress(r),
                 ~LoadPrincipal(r), ~FillCache(r), ~NotifyChanged(r)
          PROVE  /\ raced' = raced /\ cache' = cache
                 /\ pc[r] \notin {"notify", "fill"} /\ pc'[r] \notin {"notify", "fill"}
                 /\ \A s \in Requests \ {r} : pc'[s] = pc[s] /\ job'[s] = job[s]
      BY <1>0, <1>3, <3>3 DEF Progress, Changing, IssueTokenPair, RotateRefreshToken,
           FindByID, IsAccessTokenBlacklisted, ResolvePrincipal, AnsweredCall, LogoutValidate,
           ConsumeRefreshToken, BlacklistAccessToken, Handling, Admit, GotoIf, Goto, Finish
    <3> QED
      BY <1>0, <3>1, <3>2, <3>3 DEF Next
  <2> QED
    BY <2>2, <2>3, <2>4, <2>5, <2>6
<1>4. account' = account \/ \E r \in Requests : Changing(r)
  BY AccountMoves
<1> QED
  BY <1>2, <1>3, <1>4

\* A cached identity that disagrees with the account has one of the three named
\* causes (StaleEntryHasCause).
THEOREM StalenessExplained == Spec => []StaleEntryHasCause
<1>1. Init => FillsOK /\ StaleEntryHasCause
  BY DEF Init, FillsOK, StaleEntryHasCause
<1> QED
  BY <1>1, StaleEntryStep, Invariance, PTL DEF Spec
=============================================================================
