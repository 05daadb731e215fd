# A verification of initra in TLA+

initra is a Go service scaffold: an HTTP API (Gin and Huma) over PostgreSQL (Ent) and
Redis, with login sessions, users, roles and permissions, a Casbin policy that
several instances keep in step, background tasks (asynq), object storage and an
HTTP client.  This directory holds models of the parts of it whose correctness
depends on the order in which things happen, the TLC configurations that check
them, and theorems about them that TLAPS proves for every value of the constants.

The code is the reference.  A definition says what the lines listed for it in
`PROJECT.json` ("map") do; where the documentation says something else, that is
listed as a finding (section 6).

```
tlc -workers 2 -config Session_tokens.cfg MCSession.tla     # a run
tlapm SessionProofs.tla                                     # the proofs of a module
```

## 1. The system and its parts

```
            HTTP request
                 |
   middleware (JWT, blacklist, identity cache, Casbin)
                 |
   auth service      user service          rbac service        file, task, http demos
     |   |   |         |       |              |                       |
     |   |   |     profile   transactions on sys_user,           storage, asynq,
     |   |   |      cache    sys_user_role, sys_role,             httpclient
     |   |   |               sys_role_menu, sys_menu
     |   |   |                 |
     |   |   |          AccessControl.NotifyChanged ---> Redis Pub/Sub ---> other
     |   |   |             identity cache, LoadPolicy                       instances
     |   |  login guard (Redis scripts or memory)
     |  token store (Redis scripts, or memory)
    sys_user (status, session_version, password)
```

| Component | State | Operations | What makes it correct | Here |
|---|---|---|---|---|
| Session tokens (`platform/auth/jwt.go`, `token_store.go`, `memory_token_store.go`, `modules/auth`) | refresh records and blacklist, `session_version` and password of `sys_user` | login, refresh with rotation, logout, logout-all, password change, expiry | a refresh token is exchanged once; what was revoked stays revoked; a session in force knows the password in force | `Session`, `SessionLedger` |
| Request authentication, identity cache (`middleware.go`, `accesscontrol.go`, `casbin.go`) | cached identity per user, with TTL; the policy of each instance | parse, look at the blacklist, resolve, load, fill, invalidate; ask the policy for each role | only usable tokens are admitted; a stale entry has an explanation and an end; nobody passes without a role that grants it | `Session` (the session), `Authorization` (the roles and the policy) |
| User administration (`modules/user`) | `sys_user` rows and their locks | create, update, delete | an active super administrator remains; an edit changes what it names; rows come free | `UserAdmin` |
| Role assignments (`modules/rbac`, `modules/user/user.roles.go`) | `sys_user_role`, `sys_role_menu`, row locks | replace roles or permissions, delete role, permission or user, switch a role | no relation to a deleted row; a replacement is a replacement; a role change reaches its holders; the order of the locks | `Assignments`, `Relations` |
| Policy synchronisation (`accesscontrol.go`, `boot/lifecycle.go`) | the policy of each instance, messages under way | load, notify, publish, consume, start, drain, stop | an instance comes to enforce what the tables say | `PolicySync` |
| Login guard (`platform/auth/login_guard.go`) | rate windows, failure counters, locks, in Redis or in memory | check, record a failure, reset | guesses are bounded, rates hold, a lock keeps its term and windows end | `LoginGuard` |
| User profile cache (`modules/user/cache.go`, `platform/cache`) | profiles, locally per instance and in Redis, each with a term | fill by `Get`, delete by `Update` and `Delete` | an old profile has a cause and an end; an edit loses no role by the way | `Profiles` |
| Application lifecycle (`boot`, `asynqadapter`) | what is started, what drains, what is closed | run, cancel, shut down | nothing is closed under work in progress before a deadline; who is told to stop stops | `Lifecycle`; phases in `PolicySync` |
| Local object storage (`storage/local`) | files and the names of files | upload, download, copy, move, delete, multipart | what was acknowledged stays; an object at rest is whole; a copy leaves nothing out | `LocalStorage` |
| Cloud object storage (`storage/s3compat`, `aliyunoss`, `tencentcos`) | none; the provider's bucket | the same, as requests with conditions | what was acknowledged stays | `CloudStorage` |
| Redis cache (`redisx/cache.go`) | one entry per key, calls in flight per instance | `GetOrLoad`, set, delete | concurrent misses fill an entry once | `SharedLoad` |
| Tasks (`platform/task`) | registry, scheduler; queues are asynq's | register, enqueue, retry | the worker drains before what it uses is closed; a failing task backs off | start and stop in `Lifecycle`, the delays in `RetryDelays`; the rest not modelled |
| HTTP client, HTTP server, CORS, client address, identifiers, logging, readiness, configuration, setup tool, generated Ent client, demonstration modules | none of their own, or a library's | | | not modelled, section 8 |

What is hard about this code: requests run on goroutines and make several calls
to PostgreSQL and Redis, between any two of which others run; nothing spans the
two stores; several instances share both and talk over a Pub/Sub that keeps
nothing; locks and counts are taken under READ COMMITTED; caches are filled after
the read they hold, and from one another; files are written in place, without locks;
processes stop between a commit and what should follow it, and are told to stop while
work is running.
`PROJECT.json` ("hazards") lists each such place at its line, with the properties
that watch it, or why none does yet.

## 2. Modules

For each component there is a module with its state, its actions and its
properties.  The five services of the first lines each have an `MC` module that adds the
symmetry TLC uses, `.cfg` files and a module of proofs; the seven components around them
share `MCPlatform`, `Platform_parts.cfg` and the last three modules of proofs.

| Module | Variables stand for | Actions stand for |
|---|---|---|
| `SessionLedger` | `head[s]`: the refresh token of session s that can be spent; `used`: tokens ever issued | `Open`, `Advance`, `Close`: what a token store promises, apart from requests and clocks |
| `Session` | `account` (rows of `sys_user`), `claims`/`live`/`blacklist`/`expired` (token store and clocks), `cache`, `pc`/`job` (goroutines) | `FindByUsername`, `IssueTokenPair` (login); `ValidateRefreshToken`, `FindByID`, `RotateRefreshToken` (refresh); `ParseAccessToken`, `IsAccessTokenBlacklisted`, `ResolvePrincipal`, `LoadPrincipal`, `FillCache` (middleware); `LogoutValidate`, `ConsumeRefreshToken`, `BlacklistAccessToken`; `LogoutAll`; `ChangePassword`; `UpdateUser`, `DeleteUser`; `NotifyChanged`; `Abort`; four expirations |
| `UserAdmin` | `row`, `lock`, `pc`/`job` | `Create`, `Update` and `Delete` (arrival, with the read of Update), `LockRow`, `EnsureAnotherSuperAdmin`, `Commit`, `Abort` |
| `Assignments` | `row`, `enabled`, `edge` (tables), `draft`, `share`, `excl` (lock manager), `pc`/`job` | one action per SQL statement: `Lock`, `Resolve`, `Take`, `Count`, `Affected`, `Delete`, `Clear`/`Clearing`, `Write`, `Insert`, `Restore`, `Commit`, `Abort`; `AfterLock`, `AfterClear`, `AfterDelete` give the order of the statements of each of the eight operations |
| `Relations` | `row`, `enabled`, `granted`, `asked`, `meanwhile` (what other replacements for the subject of a request have granted since it asked) | the promise `Assignments` is shown to implement (`ImplementsRelations`): `Ask`, `Fail`, and one indivisible step for each of the eight operations; a `Replace` may leave, beside its set, only what is in its `meanwhile` |
| `PolicySync` | `name[i]` (`app.instance_id`), `db` (number of changes committed), `policy[i]`, `phase[i]`, `queue[i]`, `reading[i]`, `pc`/`job` | `Boot`, `Start`, `Drain`, `Stop` (life of an instance, crash included); `Change`, `Load`, `Apply`, `Publish`, `Fail` (a request); `Consume`, `ApplyConsumed` (the consumer goroutine) |
| `Authorization` | `tables` (one user, one permission), `identity` (Redis), `rules[i]` (policy of an instance), `notices[i]`/`reload[i]` (its consumer), `change`, `access` | `ChangeUser`, `ChangeRole`, `ChangeGrants` (commit), `UnlinkIdentity`, `LoadForChange`/`ApplyForChange`, `PublishChange`; `ConsumeNotice`, `LoadForNotice`/`ApplyForNotice`; `GetIdentity`, `ReadUser`, `ReadRolesOfUser`, `FillIdentity`, `AskRole`, `EndRequest`; `ExpireIdentity` |
| `Profiles` | `userRow`, `userLinks`, `enabledRoles` (tables), `localProfile[i]`, `sharedProfile` (the two layers), `visit` | `GetProfile`, `KeepLocal`, `ReadRecord`, `ReadRoles`, `StoreProfile`; `UpdateProfile`, `DeleteProfile`, `CommitProfile`, `ForgetLocal`, `ForgetShared`, `Abandon`; `ReplaceLinks`, `SwitchRole`; `ProfileTick` |
| `Lifecycle` | `runAt`, `cancelled`, `started`, `runner`, `httpServer`, `work`, the two timers, `draining`/`drained`, `released` | `StartAccessControl`, `StartRunner`, `Listen`, `ListenFails`, `Cancel`, `CancelStops`; `StopPulling`, `BeginDrain`, `EndDrain`, `AllDrained`, `CloseResource`, `Exit`; `WatchRunner`, `RunnerCloses`; `Arrive`, `WorkEnds`, `LifecycleTick` |
| `LocalStorage` | `named` (path to file), `written` (file to chunks), `call` (what each call holds open) | `UploadObject`, `UploadPart`, `DownloadObject`, `DeleteObject`, `CopyObject`, `MoveUnlinks`, `CompleteUpload`, `OpenPart`, `AbortUpload`; `WriteChunk`, `CopyChunk`, `TransferFails`, `FinishObject`; `StorageCrash` |
| `CloudStorage` | `provider`, `bucket`, `order` (calls), `session` (multipart) | `CloudUpload`/`PutObject`, `CloudCopy`/`CopyRequest`/`CopyRefused`/`DeleteMoved`, `CloudDelete`/`DeleteRequest`, and begin, complete and abort of a multipart session, each as arrival and request; `CloudFails` |
| `SharedLoad` | `cached` (the key), `lookup` (calls), `flight[i]` (who loads), `loadable`, `nilCached` | `GetOrLoad`, `ReadKey` (both looks), `CleanKey`, `Join`, `LoadValue`, `Store`, `SetKey`, `RemoveKey`, `LookupFails`; `CorruptKey`, `ChangeSource`, `LoaderStops` |
| `RetryDelays` | `retry` (the configuration), `retried`, `power`, `delay` | `TaskFails`, `TaskEnds` |
| `LoginGuard` | `rate`, `failure`, `lock` (keys with what is left of their time), `guard` (in Redis or in memory), `pc`/`who` | `Check`, `Compare`, `RecordFailure`, `Reset`, `Abort`, `Restart`, `Tick` |

Conventions.  A request is a program counter and a job; each call to PostgreSQL
or Redis that others can come between is a step, and what a script or a
transaction does indivisibly is one step.  `Abort` is every error return and every
lost reply: the request ends with the effect of the calls already made.  Variables
called history in their comment (`revoked`, `raced`, `overlapped`, `cause`,
`admitted`, `missed`, `meanwhile`, fields of `claims` and `job`) are read by no guard.  Some
definitions come with a twin right before them, such as `UnguardedRotation` before
`Rotatable`: that is a slip the code could have made.  `Spec` uses none of them;
substituting one for its twin shows that a property notices.

How the modules meet: `Session` has the effect of the user administration on
sessions (`UpdateUser`, `DeleteUser`, `NotifyChanged`); `UserAdmin` has how such an
edit comes about; `Assignments` what its transaction does to roles; `PolicySync`
what the notification after a commit does to the instances; `LoginGuard` what
happens to logins before and after the credential comparison that starts a login in
`Session`.  `Authorization` is where the two ways from the tables to a request meet: the
identity cache, with whose fill `Session` deals alone, and the policy of the instance, which
`PolicySync` has alone with its faults.  `Profiles` looks at the rows of `UserAdmin` and the
relations of `Assignments` from the cache; `Lifecycle` has the process whose phases `PolicySync`
uses.  They share no variable in the code except the tables, whose fields are split
among them, so they are not composed into one state space.  `MCPlatform` puts the seven side by
side: one of them takes steps, so their states add up instead of multiplying.

### What each abstracts

- `Session`: a token pair is one element of `Pairs`, since `newTokenPair` writes
  the jti and the fingerprint together from one principal and both are random.  A
  record is written once, so the comparison of the stored with the validated record
  in the scripts is its existence.  Expiry is an event that may come at any time in
  an order the code guarantees: the blacklist entry and the refresh record outlive
  the access token (`NewJWTManager` refuses other TTLs).  The session version is
  bounded by `MaxSessionVersion`, as `incrementSessionVersion` does at MaxInt64.
- `UserAdmin`: of a row only existence and the two switches.  A count sees what is
  committed when it runs.
- `Assignments`: READ COMMITTED with row locks, statement by statement.  A relation
  row with an uncommitted version is locked by its writer; statements that find a
  row locked wait and look at it again.  The unique index on a pair makes an insertion
  wait and then fail.  `CreateRole`, `CreatePermission` and `UpdatePermission` touch
  one row and no relation; the refusal to touch built-in roles is a test on
  fixed data; both are left out.
- `PolicySync`: a policy is the number of changes it is certain to contain.
  `LoadPolicyRules` runs several queries, so its result counts as of the first.
  `SyncedEnforcer.LoadPolicy` of casbin v2.135.0 reads under its read lock and installs
  under its write lock, so two loads can overlap; that library is external.  The
  module has Redis enabled.  A change of a user's
  roles travels on the same channel and reloads nothing.
- `LoginGuard`: both guards, the Redis scripts and the one in the memory of a single
  process, which a restart empties; which one it is is chosen with the initial state.  They differ
  in that `RecordFailure` in memory does not look at the lock.  The comparison of the credentials is one bit; the
  normalisation of the account name and the hashing of keys are abstracted; rate
  counters saturate one past their limit.
- `Authorization`: the matching of a route is one bit per role.  Nothing fails there and
  no instance restarts; the faults of each way are in `Session` and `PolicySync`.
- `Profiles`: users have nothing in common, so there is one.  The content of the row is a
  version.  jetcache is external: `Get` looks locally, then in Redis, and keeps locally what it
  found there with the local term from then on.  An entry which a change has overtaken that
  nothing follows up is marked so, and its content forgotten.
- `Lifecycle`: `http.Server` and asynq are external.  asynq waits for its own timeout and gives
  the tasks back while their handlers run on.  A resource that fails to close is logged and
  the next one closed, so its failure changes nothing here.  A start that fails is a step, as is a
  listener that fails at any time.
- `LocalStorage`: a path names a file and an open file outlives its name, as in POSIX.
  A body is `ObjectChunks` chunks, each the work of one `Write`.  Validation of keys, which
  depends on no file, is left out; so are directories, ETags and sizes.
- `CloudStorage`: a bucket carries out a request at once; the reply may be lost.  awss3 is
  s3compat with other options.
- `SharedLoad`: keys do not meet, so there is one; a value is whether there is one.
- `RetryDelays`: one task at a time, as delays do not meet.  The range of a duration is a constant,
  `HalfRange`, so that TLC sees the overflow in small numbers, and the proof has 2^63 as well.
  `power` is 2 ^ `retried`, which the code computes anew.  What a float beyond the range becomes
  as an integer depends on the processor, so it is a choice.

## 3. Runs

| Run | Instance | States | Shows |
|---|---|---|---|
| `Session_tokens` | 1 user, 3 pairs, 2 requests; login, refresh, logout | 288,001 | one refresh record per session, one successor per token, the rotated access token is refused; the store implements `SessionLedger` |
| `Session_revocation` | 1 user, 2 pairs, 2 requests, 2 passwords, versions to 2; all operations, no cache | 2,080,483 | no pair outlives a password change; what logout, logout-all, a password change, a disabling or a deletion ended stays ended |
| `Session_cache` | 1 user, 1 pair, 2 requests; cache with TTL | 71,563 | a stale entry has one of its named causes; the cache agrees with the table from some point on |
| `Session_stale` | as above | violation | finding 1 |
| `UserAdmin_edits` | 2 users, 2 requests | 53,298 | the last super administrator is lost only to overlapping removals; a switch turns only on purpose or by a request that read the row before; who is deleted stays deleted; rows come free |
| `UserAdmin_last` | 2 users, 2 requests | violation | finding 2 |
| `Assignments_races` | 1 user, 2 roles, 1 permission, 2 requests, all operations | 1,509,549 | no dangling relation, role updates see all holders, who can deadlock, and what is committed is a behaviour of `Relations`: a replacement leaves nothing beside its set but what a rival granted meanwhile |
| `Assignments_union` | same | violation | finding 3 |
| `PolicySync_faults` | 2 instances, 2 requests, 2 changes, crashes, failures, lost messages; two names and the empty one, given out in every way | 214,503 | what lags, and only that, has a named cause; catches up without; an answered change is enforced where it was made |
| `PolicySync_stale` | same without faults, names distinct | violation | finding 4 |
| `LoginGuard_guesses` | 2 accounts, 1 address, 3 logins, either guard; 1 login of an account in a tick, 2 of an address in two; lock at 2 failures, for 2 ticks | 269,270 | guesses are bounded, rates hold, a lock keeps its term, windows end |
| `Platform_parts` | ten parts, below | 1,069,840 | the seven components around the services, each alone |

The parts of `Platform_parts` (`MCPlatform` has the bounds):

| Part | Instance | States | Shows |
|---|---|---|---|
| objects | 2 keys, 2 parts of a session, 2 calls, bodies of 2 chunks, crash | 154,972 | `AcknowledgedObjectKept`, `TransfersAreFaithful`, between keys |
| one object | 1 key, 1 part, 3 calls | 153,979 | the same, three on one key |
| cloud, one in the cloud | 2 keys, 2 calls; 1 key, 3 calls; OSS and COS | 7,693, 22,887 | `CloudObjectKept` |
| profiles | 2 instances, 2 calls, 1 change; terms of 1 and 2 ticks | 213,440 | `ProfileAgeBounded`, `StaleProfileHasCause` |
| roles | 1 instance, 2 calls, 2 changes | 64,202 | `RolesLostHaveCause`, `StaleProfileHasCause` |
| lifecycle | 1 request, 1 task, every configuration, timeouts of 2 ticks | 21,685 | `ClosedUnderWorkOnlyLate`, `CancelledRunEnds` |
| load | 2 instances, 3 calls, with and without a value, with and without remembered absence | 58,060 | `OneFillPerRemoval` |
| grants | 2 instances, 2 changes, 1 request, 1 role | 372,458 | `AdmittedOnGround` |
| retries | 3 strategies, intervals and caps of 0 to 4, range of -64 to 63, 8 retries | 464 | `RetriesBackOff` |

Why these bounds suffice to be interesting.  Two requests are what a race needs, and
every violation in the findings needs two; the safety properties are then proved
for any number.  Three pairs let a session be rotated twice, so that a token can
be presented after its successor's successor exists.  `MaxSessionVersion` of 2 lets a
version be passed once and then be refused.  Two roles and one permission give
every order of shared locks between an assignment, a deletion and an update of a
role.  Two instances are the one that changes and the one that hears; two
changes let an older load overtake a newer one.  In `LoginGuard` either limit
may be the first to be reached, as the address has the longer window, and two accounts share the
address.  Three logins are one more than lead to a lock: the third comes late, the bound on wrong
answers is reached under both guards, and with a failure that outlived the last lock the guard in
memory renews one.

The parts of the platform leave out what is alike.  Two writers, or a writer and a reader,
are what spoils a file; the third call comes to see what two left behind, and on
one key, where all of them meet.  A key beside it is needed only for copies and moves.  The S3
service takes the steps of the OSS service, so TLC checks one of the two; the proof has
all three.  Profiles are proved for any terms and numbers of calls and changes; two instances are
needed for the one whose local copy nobody removes, and two changes for one that overtakes the
other, so each part has one of the two.  Three calls of `GetOrLoad` are a leader, a follower and
one that comes between.  A single role suffices in `Authorization`, since a request asks for each
role on its own, and one request, since requests meet in the cache only, which any other
may have filled (`late` stands for it); the second instance is there to fill and to be told.

Deadlock is checked where the system is not meant to stop.  `Session` and
`UserAdmin` may: all pairs are used up, or all users deleted.  So may the parts of the
platform: the process exits, and calls and changes are used up.  Requests of
`Assignments` run once, and `Ended` marks their regular end.  A wait that only
PostgreSQL's deadlock detector ends is not a deadlock of the model, as `Abort`
stands for the victim; `DeadlocksAreKnown` says which groups of requests can come to it,
of whatever size: two replacements of one owner that hold its row shared, or a ring in which
deletions of two permissions, which clear the relations of a permission in no order of the
roles, alternate with clearings of the permissions of two roles.  The run has two requests and so
shows the first kind only; that nothing else is possible with more of them is proved
(`DeadlocksKnown`).

## 4. Fairness

- `Session`: `WF(Progress(r) \/ Abort(r))`: a request ends, by an answer or by an
  error, as its calls carry deadlines; `WF(ExpireCache(u))`: Redis drops a key whose
  TTL is over.  Nothing makes anybody log in.  `CacheSettles` needs both, and
  that the versions of an account come to an end (MaxInt64 in the code): as long as changes
  come there is no last one.
- `UserAdmin`: `WF(Progress(r))`: a transaction that can run does; `SF(LockRow(r))`:
  PostgreSQL grants a row to those who wait for it in turn, so nobody is passed over
  for ever although the row is taken again and again.
- `PolicySync`: `WF(Notify(r))`, and `WF` of the consumer while its instance serves;
  once the instance drains the consumer may be gone, so nothing is assumed of it.
- `LoginGuard`: `WF(Tick)`: time goes on.  Logins are under no obligation.
- `Lifecycle`: `WF(RunStep)` and `WF(ShutdownStep(c))`: the goroutines of `Run`, of
  `Shutdown` and of the runners go on when nothing holds them; `WF(LifecycleTick)`: the timers
  run down.  Handlers are under no obligation: a request or task may run for ever, the listener
  may never fail, and `CancelledRunEnds` holds all the same.

## 5. Proofs

Every safety property of the passing runs is proved for all values of the constants, from
the assumptions named in the modules only (`SessionAssumption`, `UserAdminAssumption` and so
on): sets are of any size, finite or not, except that `LoginGuard`, whose bound counts the
logins under way, has finitely many of them, and `Authorization`, which counts the notices
on their way, finitely many changes.

| Module | Inductive invariant `IInv` and why it is needed | Theorems |
|---|---|---|
| `SessionProofs` | `TypeOK /\ Core /\ JobsOK`.  `Core` relates pairs: those of a session share account and version, beside its refresh record every other pair is spent, a parent has no record and its access token is refused, versions do not exceed the account's, a pair at the account's version has its password, a revoked session is over.  `JobsOK` says what a request holds at each step: a login about to issue has a version that is either the account's, with its password, or passed; a logout about to blacklist has consumed the record.  A request acts on what it read before, so without it no step can be proved. | `TypeCorrect`, `SessionsAreChains`, `RotationRevokes`, `PasswordBinding`, `RevocationTotal`, `RevocationPermanent`, `LedgerRefinement`, `AdmissionWithoutCache`, `StalenessExplained` |
| `UserAdminProofs` | `TypeOK /\ JobsOK /\ NoneLost`.  As long as no two removals overlapped, one that is about to commit leaves another active super administrator behind; and a request leaves the switches it may not turn as it found them (`Licensed`), and writes over a live row only. | `TypeCorrect`, `LossExplained`, `OnPurpose` |
| `AssignmentsProofs` | `TypeOK /\ NoDanglingRelation /\ \A r : RequestOK(r)`.  `RequestOK` says which locks a request holds at each statement and what they have kept true since it looked: shared targets are alive, a cleared scope stays cleared under a lock for update, the holders seen by a role update are all.  For the deadlocks `LocksKnown`: what a request writes is in its scope, what it holds for update is its subject, and before its first lock it holds nothing.  From it follows that a writer in a ring waits for another writer's draft (`WaitForDraft`, `WriterWaitsForWriter`), and that the two meet at one relation of a permission (`DraftWait`).  For the refinement `MeanwhileKnown`: once a replacement that shares its subject has cleared it, whatever relation of it is there and not its own draft was granted in the meantime. | `TypeCorrect`, `NothingDangles`, `UpdateReachesHolders`, `ReplacementKept`, `DeadlocksKnown`, `RelationsRefined` |
| `PolicySyncProofs` | `TypeOK /\ LoadsFollowChanges /\ ChangeIsEnforced /\ LagIsAttended /\ CausesLag`.  An instance that lags has a foreign message in its queue, a load that has read the tables, a request still to load or to publish, or a cause; nothing else has a cause; and a load never puts less in place than the change it is for.  The names of the instances are any. | `TypeCorrect`, `StalenessExplained`, `ChangeEnforced` |
| `LoginGuardProofs` | `TypeOK /\ MissesCounted(a) /\ AdmissionsCounted(k)`.  While an account is open its misses are no more than its counted failures; while it is locked, misses and logins under way together stay within the bound; admissions are at most what the window counts. | `TypeCorrect`, `GuessesBounded`, `RatesRespected`, `LockTerm` |
| `PlatformProofs` | For `Lifecycle`: `LifecycleInv`.  What is started is what was configured and told to (`StartedKnown`); resources are closed, and drains ended, only in their phase (`PhasesInOrder`); what is drained takes nothing in (`TakesNothingIn`); a drain ended because nothing was left or the deadline was over (`DrainedForAReason`); a task runs on in a closed worker only when asynq's own time was over (`TasksKnown`).  For `RetryDelays`: `RetryInv`, which says how large the last delay can be for the factor it had (`DelayKnown`).  The composition has no invariant of its own: one part moves at a time by its own actions, so that each keeps its specification by the way `PlatformNext` is made (a lemma), and the last two theorems only carry the results on the parts over to the specification that TLC runs. | `ClosedLate`, `RetriesKeepBackingOff`, `PlatformTypesHold`, `ComponentsKeepTheirPromises` |
| `StorageProofs` | For the clouds `CloudInv`: while a key is assured, no call under way may change it except its own writer (`AssuredAlone`), whoever met such a call is known (`MeddledKnown`), and what a call is about to have acknowledged is what its key holds unless it was met (`WrittenThere`).  For the local store `NamesInv`: a file has one name at most (`OneName`), a call writes to a file that has the name the call is about or none any more (`WritesItsPath`), and a call that met nobody is alone with its key (`UncrossedAlone`); and `ContentInv`: an unspoiled file has one writer (`OneWriter`) and holds the chunks of it so far (`WrittenSoFar`), and is whole when it is opened while nobody writes it (`OpenedWhole`); what a copy has written so far is what it has read so far (`ReadSoFar`), so at the end of its source nothing is missing. | `AcknowledgedStays`, `LocalObjectsStay`, `TransfersFaithful`, `LocalTypesHold` |
| `CacheProofs` | For `SharedLoad`: an instance has one leader (`OneLeads`), a key without an entry has had no fill since it was last removed (`NoneAfterRemoval`), and nor has one that is being loaded (`LoadsIntoNothing`).  For `Profiles`: ages and remaining terms add up per layer (`ProfileAges`); what a call has read is either the profile as it is, or marked as overtaken, or some change is about to remove it (`BadHaveCause`); and the roles a call may drop are those it did not read (`RobberyKnown`).  For `Authorization`: the cached identity and the policy of each instance are right, about to be renewed, or known to be late (`IdentityKnown`, `RulesKnown`), and whatever a request has collected so far the tables have given in its time (`Grounded`). | `FilledOnce`, `ProfilesTypesHold`, `ProfilesGrowOld`, `StaleProfilesHaveCause`, `RolesAreNotLost`, `NoneAdmittedGroundless` |

Each proof has `Init => IInv`, `IInv /\ [Next]_vars => IInv'` with one step per action, and
`IInv => Inv`; the action properties follow from the invariant and one step.
`LedgerRefinement` maps every step of `Session` to a step of `SessionLedger` or a
stutter, with `head[s]` the pair of s that has its refresh record.
`RelationsRefined` maps the arrival of a request of `Assignments` to `Ask`, a rollback to
`Fail`, a commit to the step of its operation and every other statement to a stutter, with
`granted` the relations that are committed and not deleted.  That a commit is such a step needs
the invariant: what was asked for is drafted and still assignable (`HoldsTargets`, `Drafts`),
what is deleted has been cleared and stays so (`Cleared`, `Counted`), and what a replacement
leaves is in its `meanwhile` (`MeanwhileKnown`), which the mapping leaves as it is.  The
refinement so confines the union of two replacements, without denying it: that is for
`Assignments_union`.

Only model-checked: liveness (`CacheSettles`, `RowsComeFree`, `CatchesUp`,
`WindowsEnd`, `CancelledRunEnds`), which rests on fairness and ENABLED and is out of the
prover's reach.
The models use no recursion.

## 6. Where the code and its documentation part

1. `Session_stale`.  `docs/auth-security.md:5` says that after logout-all, a password
   change or a disabling the old access token is refused at the version comparison.
   `ResolvePrincipal` (`accesscontrol.go:170`) writes what it read from the database
   into the identity cache without looking whether it is still so: a fill that straddles
   `NotifyChanged` brings the old version back for a TTL, and the old token is accepted.
   `Session_cache` and `StalenessExplained` show that this, an invalidation that failed, and
   one still to come are the only causes.
2. `UserAdmin_last`.  `docs/rbac.md:21` forbids removing the last active super
   administrator.  `ensureAnotherSuperAdmin` counts without locking what it counts, so two
   removals of two different ones both pass.  `LossExplained` shows that there is no other way.
3. `Assignments_union`.  `ReplaceUserRoles` is documented as an atomic replacement
   by the complete set; it locks the user FOR SHARE, and two of them leave the union of
   both sets.  `user.persistence`, which locks FOR UPDATE, does not
   (`ReplacementKept`).  `ReplaceRolePermissions` does the same to a role.  `ImplementsRelations`
   says how far it goes: only what a rival granted after the request began is left.
4. `PolicySync_stale`.  `docs/rbac.md:3` and `:26`: the tables are the only source of
   truth and other instances are told to reload.  An instance loads its policy in
   `NewApplication` and subscribes in `Run`; a change in between is never heard.
   `StalenessExplained` of `PolicySyncProofs` lists all causes.

Observations of the same kind that no document of the repository contradicts.  The
models contain them, and their properties name them as causes or leave them out of what they
promise:

- The copy of the COS service without overwrite sends its condition for the source
  (`tencentcos/service.go`, `XCosCopySourceIfNoneMatch`), not for the target, so it is either
  refused or overwrites.  OSS and S3 test the target.
- `Move` onto its own source copies the object onto itself and then deletes it, locally and in
  the clouds.
- Two changes of one key that overlap are not kept apart by the local store: the writers share
  the file, and a failing upload and a `Move` remove what the path names by then.
  `AcknowledgedObjectKept` and `CloudObjectKept` promise nothing to a write that met another
  change of its key (`crossed`, `meddled`); they say that the damage ends there.
- A local upload that overwrites truncates the object first, and removes it when the transfer
  fails; a copy of an object onto itself empties it while it reads.
- `DeleteBatch` of a cloud may delete some of its keys and fail.
- When the removal of the cached profile fails, `Update` returns before `NotifyChanged`
  although it has committed (`user.usecase.go:127`), so the cached identity stays old as well.
- Changes of roles (`rbac.ReplaceUserRoles`, `UpdateRole`) leave the cached profile alone, and the
  other instances keep their local copies after any change.  The two terms add up: a
  profile can be shown for nearly `local_ttl + remote_ttl` (`ProfileAgeBounded`).  That an entry goes when its term is
  over is jetcache's part, and where its local layer varies the terms, so does the bound.
- The callers of `GetOrLoad` that wait for a leader fail with it, when its load fails or its own
  caller goes.  The model has that; `OneFillPerRemoval` is about the second fill only.
- Nothing keeps two instances from starting with one `app.instance_id`, and
  `configs/config.prod.yaml:2` has a fixed one: they take each other's events for their own and
  do not reload (`"namesake"` among the causes of `StaleHasCause`).  With an empty one an
  instance reloads on its own events as well, which costs a load and nothing else.
- The guard in memory counts the failures of logins that were let in before the lock, and so
  max_failures of them renew it; the script in Redis does not (`LockKeepsItsTerm` names this,
  `LockedAgain`).  Failures it counted while locked outlast a lock shorter than their window.
- The delay of the exponential strategy overflows from the retry on at which 2^n times the interval
  reaches 2^63 ns (with one second, n = 34), and the cap, which compares afterwards, lets a
  result that wrapped to a negative or small number through: the task is tried again at once.  The fixed strategy is not
  capped at all.  `RetriesBackOff` excuses both; the default of three retries is far from it.
- An edit of a user that does not name the roles writes back those it had read, which are the
  enabled ones: a disabled role is dropped for good (`RolesLostHaveCause`).

## 7. Order of work, and what is left

Built in this order: sessions (1), user administration (2), role assignments (3), policy
synchronisation (4), login guard (5); then the profile cache (6), the lifecycle (7), local and
cloud storage (8), the Redis cache (9), the decision on a request (10), and the proofs of
these (11); the composition and the refinement of the role assignments (12), the delays between retries (13).

Left: models of what would close each finding, such as `Assignments` with owners locked for
update; crashes and lost messages in `Authorization`, which `Session` and `PolicySync` have
each for its own way; several users and permissions in one state space; the pure functions of
the HTTP client and server.

## 8. What is not modelled, and why

- The matching of a route in Casbin: a pure function of policy and request in a library.
- asynq queues, unique tasks and its official retry delay, snowflake identifiers, locks of redislock, Gin and Huma, the SDKs
  of the clouds: libraries, which the models take as the code uses them.
- The generated Ent client (`internal/data/ent`), the greater part of the source by lines: it
  builds SQL, one statement per call.  Its statements are the actions of `Session`, `UserAdmin`,
  `Assignments`, `Profiles` and `Authorization`; its builders keep nothing.
- HTTP client, HTTP server, CORS, client address: functions of one request, mostly of the text of
  headers and addresses, without state.
- Logging and rotation (one mutex around each write), readiness (asks and keeps nothing),
  configuration and setup tool (run before the service), demonstration modules (pass one call on).
