------------------------------- MODULE Session -------------------------------
(***************************************************************************)
(* Login sessions of the service: the account rows of sys_user, the token  *)
(* store (refresh records and access-token blacklist), the identity cache  *)
(* and the requests that read and write them concurrently.                 *)
(*                                                                         *)
(* A request is one goroutine of the HTTP server.  It is a program counter *)
(* and a job; each call it makes to PostgreSQL or Redis is one step, so    *)
(* other requests run between two calls.  Abort(r) is every error return   *)
(* and every lost reply: the request ends where it stands, with the effect *)
(* of the calls it already made.                                           *)
(*                                                                         *)
(* A token pair is one element of Pairs: its refresh fingerprint and its   *)
(* access jti are both written by newTokenPair from the same principal.    *)
(* Identifiers are random (uuid, 32 random bytes), hence always fresh; the *)
(* refresh record of a fingerprint is written once, so the comparison of   *)
(* the stored record with the validated one comes down to its existence.   *)
(*                                                                         *)
(* Unguarded..., ...Only, ...Forever and their like, each defined right     *)
(* before the definition it distorts, are slips the code could have made;  *)
(* no behaviour of Spec uses one.                                          *)
(***************************************************************************)
EXTENDS Naturals, FiniteSets

CONSTANTS Users, Pairs, Requests, Passwords,
          MaxSessionVersion,  \* math.MaxInt64 in the code
          CacheEnabled,       \* FALSE when the service runs without Redis
          Offered,            \* the operations clients call in this instance
          None

Ops == {"login", "refresh", "call", "logout", "logoutAll", "changePassword",
        "admin"}

ASSUME SessionAssumption ==
    /\ MaxSessionVersion \in Nat \ {0}
    /\ CacheEnabled \in BOOLEAN
    /\ Offered \subseteq Ops
    /\ None \notin Users \cup Pairs \cup Passwords

VARIABLES
    account,    \* sys_user: status, session_version, password hash
    claims,     \* pair -> what its access JWT and refresh record say
    live,       \* fingerprints with a refresh record in the token store
    blacklist,  \* access jti in the blacklist
    expired,    \* pairs whose access JWT has passed its exp
    held,       \* pairs whose issuing reply reached a client
    cache,      \* identity cache of the access control, per user
    pc, job,    \* the requests
    revoked,    \* history: pairs whose revocation was acknowledged
    raced       \* history: users one of whose changes could leave a stale entry

store  == <<claims, live, blacklist, expired, held>>
ghosts == <<revoked, raced>>
vars   == <<account, store, cache, pc, job, ghosts>>

issued   == DOMAIN claims
Versions == 0 .. MaxSessionVersion
Statuses == {"enabled", "disabled", "deleted"}
Account  == [status: Statuses, version: Versions \ {0}, password: Passwords]
\* parent and password are history: the pair it was rotated from and the
\* password that opened the session.
Claims   == [user: Users, session: Pairs, version: Versions,
             parent: Pairs \cup {None}, password: Passwords]
Identity == [found: BOOLEAN, version: Versions]
Unknown  == [found |-> FALSE, version |-> 0]
Miss     == None  \* an empty slot of the identity cache

Steps == {"idle", "issue", "identity", "rotate", "check", "resolve", "load", "fill",
          "handler", "consume", "revoke", "notify"}
\* token is history: what the presented access token was worth when parsed.
Job   == [op: Ops \cup {None}, user: Users \cup {None},
          access: Pairs \cup {None}, refresh: Pairs \cup {None},
          password: Passwords \cup {None}, view: Identity,
          token: {"unchecked", "live", "dead", "revoked"}]
NoJob == [op |-> None, user |-> None, access |-> None, refresh |-> None,
          password |-> None, view |-> Unknown, token |-> "unchecked"]

Init ==
    /\ account \in [Users -> {a \in Account : a.status # "deleted" /\ a.version = 1}]
    /\ claims = [p \in {} |-> NoJob]
    /\ live = {} /\ blacklist = {} /\ expired = {} /\ held = {}
    /\ cache = [u \in Users |-> Miss]
    /\ pc = [r \in Requests |-> "idle"]
    /\ job = [r \in Requests |-> NoJob]
    /\ revoked = {} /\ raced = {}

-----------------------------------------------------------------------------
(* What a pair is worth. *)

Current(p) == /\ account[claims[p].user].status = "enabled"
              /\ account[claims[p].user].version = claims[p].version
AccessLive(p)  == p \notin expired \cup blacklist /\ Current(p)
RefreshLive(p) == p \in live /\ Current(p)

IdentityOf(u) ==
    IF account[u].status = "enabled"
    THEN [found |-> TRUE, version |-> account[u].version]
    ELSE Unknown

(* Moves of a request. *)

Begin(r, step, fields) ==
    /\ pc[r] = "idle"
    /\ pc' = [pc EXCEPT ![r] = step]
    /\ job' = [job EXCEPT ![r] = fields]
Goto(r, step) == pc' = [pc EXCEPT ![r] = step] /\ UNCHANGED job
Finish(r) == /\ pc' = [pc EXCEPT ![r] = "idle"]
             /\ job' = [job EXCEPT ![r] = NoJob]
GotoIf(cond, r, step) == IF cond THEN Goto(r, step) ELSE Finish(r)

\* newTokenPair: a fresh pair q for the given claims, stored and handed to the
\* client unless the reply is lost on the way.
Mint(q, c) ==
    /\ q \in Pairs \ issued
    /\ claims' = [p \in issued \cup {q} |-> IF p = q THEN c ELSE claims[p]]
    /\ held' \in {held, held \cup {q}}

-----------------------------------------------------------------------------
(* Login *)

\* A login arrives and reads its row: one read gives the hash that is compared,
\* the switch and the version.  The client knows the password of that moment;
\* any other attempt changes nothing here (LoginGuard counts it).
FindByUsername(r, u) ==
    /\ "login" \in Offered
    /\ account[u].status = "enabled"
    /\ Begin(r, "issue", [NoJob EXCEPT !.op = "login", !.user = u,
                                       !.view = IdentityOf(u),
                                       !.password = account[u].password])
    /\ UNCHANGED <<account, store, cache, ghosts>>

IssueTokenPair(r, q) ==
    /\ pc[r] = "issue"
    /\ Mint(q, [user |-> job[r].user, session |-> q,
                version |-> job[r].view.version,
                parent |-> None, password |-> job[r].password])
    /\ live' = live \cup {q}
    /\ Finish(r)
    /\ UNCHANGED <<account, blacklist, expired, cache, ghosts>>

(* Refresh *)

\* A refresh arrives and finds the record of its token.
ValidateRefreshToken(r, p) ==
    /\ "refresh" \in Offered
    /\ p \in held \cap live
    /\ Begin(r, "identity", [NoJob EXCEPT !.op = "refresh", !.refresh = p])
    /\ UNCHANGED <<account, store, cache, ghosts>>

FindByID(r) ==
    /\ pc[r] = "identity"
    /\ GotoIf(Current(job[r].refresh), r, "rotate")
    /\ UNCHANGED <<account, store, cache, ghosts>>

\* rotateRefreshTokenScriptSource, one script: the old record must still exist,
\* the new one is written and the old one deleted, and the paired access token
\* is blacklisted for what is left of it.
UnguardedRotation(p) == TRUE
Rotatable(p) == p \in live

RotationKeepingOld(p, q) == live \cup {q}
Rotation(p, q) == (live \cup {q}) \ {p}

UnpairedRotation(p) == {}
PairedAccess(p) == {p} \ expired

RotateRefreshToken(r, q) ==
    /\ pc[r] = "rotate"
    /\ LET p == job[r].refresh IN
       IF Rotatable(p)
       THEN /\ Mint(q, [claims[p] EXCEPT !.parent = p])
            /\ live' = Rotation(p, q)
            /\ blacklist' = blacklist \cup PairedAccess(p)
       ELSE UNCHANGED <<claims, live, blacklist, held>>
    /\ Finish(r)
    /\ UNCHANGED <<account, expired, cache, ghosts>>

-----------------------------------------------------------------------------
(* The JWT middleware in front of every authenticated operation *)

\* A call arrives with access token a (and, to log out, refresh token p); the
\* JWT itself is checked, then the blacklist.
ParseAccessToken(r, op, a, p) ==
    /\ op \in Offered \cap {"call", "logout", "logoutAll", "changePassword"}
    /\ a \in held \ expired
    /\ IF op = "logout" THEN p \in held ELSE p = None
    /\ Begin(r, "check",
             [NoJob EXCEPT !.op = op, !.user = claims[a].user,
                           !.access = a, !.refresh = p,
                           !.token = IF a \in revoked THEN "revoked"
                                     ELSE IF AccessLive(a) THEN "live" ELSE "dead"])
    /\ UNCHANGED <<account, store, cache, ghosts>>

AdmitAnyVersion(r, identity) == GotoIf(identity.found, r, "handler")
Admit(r, identity) ==
    GotoIf(/\ identity.found
           /\ identity.version = claims[job[r].access].version, r, "handler")

IsAccessTokenBlacklisted(r) ==
    /\ pc[r] = "check"
    /\ GotoIf(job[r].access \notin blacklist, r,
              IF CacheEnabled THEN "resolve" ELSE "load")
    /\ UNCHANGED <<account, store, cache, ghosts>>

ResolvePrincipal(r) ==
    /\ pc[r] = "resolve"
    /\ LET entry == cache[job[r].user] IN
       IF entry # Miss THEN Admit(r, entry) ELSE Goto(r, "load")
    /\ UNCHANGED <<account, store, cache, ghosts>>

LoadPrincipal(r) ==
    /\ pc[r] = "load"
    /\ LET identity == IdentityOf(job[r].user) IN
       IF CacheEnabled
       THEN /\ pc' = [pc EXCEPT ![r] = "fill"]
            /\ job' = [job EXCEPT ![r].view = identity]
       ELSE Admit(r, identity)
    /\ UNCHANGED <<account, store, cache, ghosts>>

\* The entry is written whatever happened since the database was read.
FillCache(r) ==
    /\ pc[r] = "fill"
    /\ cache' = [cache EXCEPT ![job[r].user] = job[r].view]
    /\ Admit(r, job[r].view)
    /\ UNCHANGED <<account, store, ghosts>>

-----------------------------------------------------------------------------
(* Handlers behind the middleware *)

Handling(r, op) == pc[r] = "handler" /\ job[r].op = op

AnsweredCall(r) ==
    /\ Handling(r, "call")
    /\ Finish(r)
    /\ UNCHANGED <<account, store, cache, ghosts>>

LogoutValidate(r) ==
    /\ Handling(r, "logout")
    /\ LET p == job[r].refresh
           a == job[r].access
       IN GotoIf(/\ p \in live
                 /\ claims[p].user = claims[a].user
                 /\ claims[p].session = claims[a].session
                 /\ claims[p].version = claims[a].version, r, "consume")
    /\ UNCHANGED <<account, store, cache, ghosts>>

ConsumeRefreshToken(r) ==
    /\ pc[r] = "consume"
    /\ live' = live \ {job[r].refresh}
    /\ GotoIf(job[r].refresh \in live, r, "revoke")
    /\ UNCHANGED <<account, claims, blacklist, expired, held, cache, ghosts>>

BlacklistAccessToken(r) ==
    /\ pc[r] = "revoke"
    /\ blacklist' = blacklist \cup ({job[r].refresh} \ expired)
    /\ revoked' = revoked \cup
         {p \in issued : claims[p].session = claims[job[r].refresh].session}
    /\ Finish(r)
    /\ UNCHANGED <<account, claims, live, expired, held, cache, raced>>

\* A committed change of a sys_user row; the cached identity is invalidated
\* by a later step, and a request may hold the row it read before.
Commit(r, u, row) ==
    /\ account' = [account EXCEPT ![u] = row]
    /\ raced' = IF \E s \in Requests : pc[s] = "fill" /\ job[s].user = u
                THEN raced \cup {u} ELSE raced
    /\ pc' = [pc EXCEPT ![r] = "notify"]
    /\ UNCHANGED <<store, cache, revoked>>

BumpableForever(u) == TRUE
Bumpable(u) == account[u].version < MaxSessionVersion

RehashedOnly(row, new) == [row EXCEPT !.password = new]
Rehashed(row, new) == [row EXCEPT !.version = @ + 1, !.password = new]

\* incrementSessionVersion and changePassword, each one transaction under the
\* lock of the row.
LogoutAll(r) ==
    /\ Handling(r, "logoutAll")
    /\ LET u == job[r].user IN
       /\ account[u].status = "enabled" /\ Bumpable(u)
       /\ Commit(r, u, [account[u] EXCEPT !.version = @ + 1])
    /\ UNCHANGED job

\* A wrong current password ends in Abort.
ChangePassword(r, new) ==
    /\ Handling(r, "changePassword")
    /\ LET u == job[r].user IN
       /\ account[u].status = "enabled" /\ Bumpable(u)
       /\ new # account[u].password
       /\ Commit(r, u, Rehashed(account[u], new))
    /\ UNCHANGED job

(* The user administration, by an administrator's request *)

\* The row updateEnt leaves when the switch is written as on.
SwitchedOnly(row, on) ==
    [row EXCEPT !.status = IF on THEN "enabled" ELSE "disabled"]
Switched(row, on) ==
    [row EXCEPT !.status = IF on THEN "enabled" ELSE "disabled",
                !.version = IF row.status = "enabled" /\ ~on THEN @ + 1 ELSE @]

UpdateUser(r, u, on) ==
    /\ "admin" \in Offered
    /\ pc[r] = "idle"
    /\ account[u].status # "deleted"
    /\ account[u].status = "enabled" /\ ~on => Bumpable(u)
    /\ Commit(r, u, Switched(account[u], on))
    /\ job' = [job EXCEPT ![r] = [NoJob EXCEPT !.op = "admin", !.user = u]]

DeleteUser(r, u) ==
    /\ "admin" \in Offered
    /\ pc[r] = "idle"
    /\ account[u].status # "deleted"
    /\ Commit(r, u, [account[u] EXCEPT !.status = "deleted"])
    /\ job' = [job EXCEPT ![r] = [NoJob EXCEPT !.op = "admin", !.user = u]]

NotUnlinked(u) == cache
Unlinked(u) == [cache EXCEPT ![u] = Miss]

\* Unlink the cached identity, then acknowledge.
NotifyChanged(r) ==
    /\ pc[r] = "notify"
    /\ LET u == job[r].user IN
       /\ cache' = Unlinked(u)
       /\ revoked' = revoked \cup
            {p \in issued : claims[p].user = u /\ ~Current(p)}
    /\ Finish(r)
    /\ UNCHANGED <<account, store, raced>>

-----------------------------------------------------------------------------
(* Errors, lost replies, and the passing of time *)

Abort(r) ==
    /\ pc[r] # "idle"
    /\ raced' = IF pc[r] = "notify" THEN raced \cup {job[r].user} ELSE raced
    /\ Finish(r)
    /\ UNCHANGED <<account, store, cache, revoked>>

ExpireAccess(p) ==
    /\ p \in issued \ expired
    /\ expired' = expired \cup {p}
    /\ UNCHANGED <<account, claims, live, blacklist, held, cache, pc, job, ghosts>>

\* A blacklist entry lives as long as the access token it revokes.
ExpireBlacklist(p) ==
    /\ p \in blacklist \cap expired
    /\ blacklist' = blacklist \ {p}
    /\ UNCHANGED <<account, claims, live, expired, held, cache, pc, job, ghosts>>

\* NewJWTManager refuses a refresh TTL that does not exceed the access TTL.
ExpireRefresh(p) ==
    /\ p \in live \cap expired
    /\ live' = live \ {p}
    /\ UNCHANGED <<account, claims, blacklist, expired, held, cache, pc, job, ghosts>>

CachedForever(u) == FALSE /\ UNCHANGED vars
ExpireCache(u) ==
    /\ cache[u] # Miss
    /\ cache' = [cache EXCEPT ![u] = Miss]
    /\ UNCHANGED <<account, store, pc, job, ghosts>>

-----------------------------------------------------------------------------
\* A call the request is waiting for returns.
Progress(r) ==
    \/ \E q \in Pairs : IssueTokenPair(r, q) \/ RotateRefreshToken(r, q)
    \/ FindByID(r)
    \/ IsAccessTokenBlacklisted(r)
    \/ ResolvePrincipal(r) \/ LoadPrincipal(r) \/ FillCache(r)
    \/ AnsweredCall(r)
    \/ LogoutValidate(r) \/ ConsumeRefreshToken(r) \/ BlacklistAccessToken(r)
    \/ LogoutAll(r)
    \/ \E new \in Passwords : ChangePassword(r, new)
    \/ NotifyChanged(r)

Arrive(r) ==
    \/ \E u \in Users : FindByUsername(r, u) \/ DeleteUser(r, u)
    \/ \E p \in Pairs : ValidateRefreshToken(r, p)
    \/ \E op \in Offered, a \in Pairs, p \in Pairs \cup {None} :
          ParseAccessToken(r, op, a, p)
    \/ \E u \in Users, on \in BOOLEAN : UpdateUser(r, u, on)

Time ==
    \/ \E p \in Pairs : ExpireAccess(p) \/ ExpireBlacklist(p) \/ ExpireRefresh(p)
    \/ \E u \in Users : ExpireCache(u)

Next == Time \/ \E r \in Requests : Arrive(r) \/ Progress(r) \/ Abort(r)

Spec == Init /\ [][Next]_vars

\* A request ends, by an answer or an error, since its calls carry a deadline;
\* a key of the cache is dropped when its TTL is over.
Fairness ==
    /\ \A r \in Requests : WF_vars(Progress(r) \/ Abort(r))
    /\ \A u \in Users : WF_vars(ExpireCache(u))

FairSpec == Spec /\ Fairness
-----------------------------------------------------------------------------
(* Properties *)

\* The variables hold what the code stores in them.
TypeOK ==
    /\ account \in [Users -> Account]
    /\ issued \subseteq Pairs
    /\ claims \in [issued -> Claims]
    /\ live \subseteq issued /\ held \subseteq issued
    /\ expired \subseteq issued /\ blacklist \subseteq issued
    /\ cache \in [Users -> Identity \cup {Miss}]
    /\ pc \in [Requests -> Steps]
    /\ job \in [Requests -> Job]
    /\ revoked \subseteq issued /\ raced \subseteq Users

\* The token store never holds two refresh records of a session
\* (rotateRefreshTokenScriptSource).
OneLiveRefreshPerSession ==
    \A p, q \in live : claims[p].session = claims[q].session => p = q

\* A refresh token buys at most one successor, even when two requests validated
\* it at the same time or its holder retries after a lost reply.
RotatedOnce ==
    \A p, q \in issued :
        claims[p].parent # None /\ claims[p].parent = claims[q].parent => p = q

\* However many refreshes and logouts race on it, a session is a chain of pairs
\* and does not branch: one of them can be refreshed, and each at most once.
SessionIsAChain == OneLiveRefreshPerSession /\ RotatedOnce

\* The access token paired with a rotated refresh token stays refused until it
\* would have expired anyway.
RotatedAccessIsRefused ==
    \A q \in issued :
        LET p == claims[q].parent IN
        p # None => p \notin live /\ p \in blacklist \cup expired

\* A pair whose session version is the account's comes from a login that proved
\* the password in force: no login or refresh in flight over a password change
\* carries the old password into the new version.
CurrentPairsKnowPassword ==
    \A p \in issued :
        claims[p].version = account[claims[p].user].version
            => claims[p].password = account[claims[p].user].password

\* Once logout, logout-all, a password change, a disabling or a deletion has
\* been acknowledged, no pair of the sessions it ended is usable ever again,
\* those that an overlapping refresh was minting included.
RevokedSessionStaysDead ==
    \A p \in revoked, q \in issued :
        claims[q].session = claims[p].session => ~AccessLive(q) /\ ~RefreshLive(q)

\* A pair that lost its account's consent never regains it: enabling a disabled
\* user again does not revive the sessions the disabling ended.
RevocationIsFinal ==
    [][\A p \in issued : ~Current(p) => ~Current(p)']_vars

\* A request admitted by the middleware carried an access token that was usable
\* at the moment it was parsed, or that expired while it was being checked.
AdmittedWasLive ==
    \A r \in Requests :
        pc[r] = "handler" => job[r].token = "live" \/ job[r].access \in expired

\* The identity cache disagrees with the account only while an invalidation is
\* still to come, after one was given up, or after a change that overlapped a
\* fill of the entry (ResolvePrincipal, NotifyChanged).
StaleEntryHasCause ==
    \A u \in Users :
        cache[u] \notin {Miss, IdentityOf(u)} =>
            \/ u \in raced
            \/ \E r \in Requests : pc[r] = "notify" /\ job[r].user = u

\* docs/auth-security.md: after logout-all, a password change or a disabling
\* "the old access token is refused at the middleware's version comparison".
AckedRevocationIsEnforced ==
    \A r \in Requests : pc[r] = "handler" => job[r].token # "revoked"

\* Whatever stale identity was cached, requests end up being judged by the
\* account as it is: the cache agrees with it from some point on.
CacheSettles ==
    \A u \in Users : <>[](cache[u] \in {Miss, IdentityOf(u)})
\* The token store implements SessionLedger: the head of a session is the pair
\* with its refresh record.
HeadOf(records, c) ==
    [s \in Pairs |-> IF \E p \in records : c[p].session = s
                    THEN CHOOSE p \in records : c[p].session = s
                    ELSE None]

Ledger == INSTANCE SessionLedger WITH head <- HeadOf(live, claims), used <- issued

\* Seen through its refresh records, every behaviour of the requests, errors and
\* expirations is one of the ledger: no interleaving spends a token twice, moves
\* a session back to an old token or reopens it.
ImplementsLedger == Ledger!Spec
=============================================================================
