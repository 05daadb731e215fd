------------------------------ MODULE Profiles ------------------------------
(***************************************************************************)
(* The profile of a user: what user.Service Get answers from a cache in    *)
(* two layers (a local one per instance over a shared one in Redis), and   *)
(* the calls that change what the profile is made of: Update and Delete,   *)
(* which remove the entry of their instance and of Redis once they have    *)
(* committed, and ReplaceUserRoles and the edits of a role, which do not.  *)
(*                                                                         *)
(* Users have nothing in common here, so there is one.  A profile is a row *)
(* and the codes of its enabled roles, read by two queries.  The content   *)
(* of the row is its version.  The cache is jetcache-go (external): Get    *)
(* looks locally, then in Redis, and keeps locally what it found there.    *)
(*                                                                         *)
(* What is kept is history in part: its age since it was stored, and, once *)
(* a change that the code does not follow up has overtaken it, Overtaken   *)
(* in place of what it says.  A call carries the roles it may drop without *)
(* having been told to.  FilledForRest, CodesSkipped and RemovedIfHeld are *)
(* slips the code could have made, each right before the definition it     *)
(* distorts.                                                               *)
(***************************************************************************)
EXTENDS Naturals, FiniteSets

CONSTANTS ProfileInstances, ProfileCalls, RoleCodes,
          ProfileLocalTTL, ProfileRemoteTTL,  \* cache.local_ttl, cache.remote_ttl
          MaxProfileChanges,                  \* bound on the changes made
          NoProfile, Overtaken

\* A changed row, its links and its roles are one change each.
RowVersions == 0..MaxProfileChanges
Profile == [version: RowVersions, roles: SUBSET RoleCodes]
Entry == [is: Profile \cup {Overtaken}, left: Nat \ {0}, age: Nat]

ASSUME ProfilesAssumption ==
    /\ ProfileLocalTTL \in Nat \ {0}  /\ ProfileRemoteTTL \in Nat \ {0}
    /\ MaxProfileChanges \in Nat
    /\ Overtaken \notin Profile /\ NoProfile \notin Entry

VARIABLES
    userRow,       \* sys_user: whether the user lives, and the row's version
    userLinks,     \* sys_user_role: the roles of the user
    enabledRoles,  \* sys_role: the roles that are enabled
    localProfile,  \* instance -> its entry
    sharedProfile, \* the entry in Redis
    visit,         \* the calls
    changed        \* changes so far

profileVars == <<userRow, userLinks, enabledRoles, localProfile, sharedProfile,
                 visit, changed>>


CurrentProfile == [version |-> userRow.version, roles |-> userLinks \cap enabledRoles]
Shows(e) == userRow.live /\ e.is = CurrentProfile

VisitSteps == {"idle", "record", "roles", "store", "keep", "commit",
               "forget local", "forget shared"}
NoCodes == [codes |-> {}, named |-> FALSE]
NoVisit == [at |-> "idle", kind |-> "get", on |-> NoProfile,
            has |-> [version |-> 0, roles |-> {}], entry |-> NoProfile,
            wants |-> NoCodes, mayDrop |-> {}]

ProfilesInit ==
    /\ userRow = [live |-> TRUE, version |-> 0]
    /\ userLinks \in SUBSET RoleCodes
    /\ enabledRoles = RoleCodes
    /\ localProfile = [i \in ProfileInstances |-> NoProfile]
    /\ sharedProfile = NoProfile
    /\ visit = [v \in ProfileCalls |-> NoVisit]
    /\ changed = 0

-----------------------------------------------------------------------------
Outdated(e) == IF e = NoProfile THEN e ELSE [e EXCEPT !.is = Overtaken]
Unreached(e) == IF e # NoProfile /\ ~Shows(e) THEN Outdated(e) ELSE e

Steps(v, at) == visit' = [visit EXCEPT ![v].at = at]
Leaves(v) == visit' = [visit EXCEPT ![v] = NoVisit]

\* Service.Get: a local hit answers; a hit in Redis is kept locally; a miss
\* reads the database.  (A Redis that fails ends the call, as Abandon does.)
GetProfile(v, i) ==
    /\ visit[v].at = "idle"
    /\ localProfile[i] = NoProfile
    /\ visit' = [visit EXCEPT ![v] =
         IF sharedProfile # NoProfile
         THEN [NoVisit EXCEPT !.at = "keep", !.on = i, !.entry = sharedProfile]
         ELSE [NoVisit EXCEPT !.at = "record", !.on = i]]
    /\ UNCHANGED <<userRow, userLinks, enabledRoles, localProfile, sharedProfile,
                   changed>>

\* jetcache Get: what Redis returned gets a full local term.
FilledForRest(e) == [e EXCEPT !.left = e.left + ProfileLocalTTL]
Filled(e) == [e EXCEPT !.left = ProfileLocalTTL]

\* An old entry that comes between the two removals of its instance stays.
KeepLocal(v) ==
    /\ visit[v].at = "keep"
    /\ LET late == \E w \in ProfileCalls : /\ visit[w].at = "forget shared"
                                           /\ visit[w].on = visit[v].on
           entry == Filled(visit[v].entry)
       IN  localProfile' = [localProfile EXCEPT ![visit[v].on] =
                              IF late THEN Unreached(entry) ELSE entry]
    /\ Leaves(v)
    /\ UNCHANGED <<userRow, userLinks, enabledRoles, sharedProfile, changed>>

\* findByID, first query, for Get and for Update (whose fields are in UserAdmin).
ReadRecord(v) ==
    /\ visit[v].at = "record"
    /\ IF userRow.live
       THEN visit' = [visit EXCEPT ![v].at = "roles", ![v].has.version =
                        IF visit[v].kind = "get" THEN userRow.version ELSE 0]
       ELSE Leaves(v)
    /\ UNCHANGED <<userRow, userLinks, enabledRoles, localProfile, sharedProfile,
                   changed>>

\* loadRoleCodes: enabled roles only.  An Update that names no roles will write
\* these back.
ReadRoles(v) ==
    /\ visit[v].at = "roles"
    /\ LET codes == userLinks \cap enabledRoles
           known == [visit[v] EXCEPT !.has = IF @ = Overtaken THEN @
                                             ELSE [@ EXCEPT !.roles = codes]]
       IN  visit' = [visit EXCEPT ![v] =
             IF visit[v].kind = "get" THEN [known EXCEPT !.at = "store"]
             ELSE IF visit[v].wants.named
                  THEN [known EXCEPT !.at = "commit", !.has.roles = visit[v].wants.codes,
                                     !.wants = NoCodes, !.mayDrop = RoleCodes]
                  ELSE [known EXCEPT !.at = "commit", !.mayDrop = userLinks \ enabledRoles]]
    /\ UNCHANGED <<userRow, userLinks, enabledRoles, localProfile, sharedProfile,
                   changed>>

\* jetcache Set: the local layer and Redis.
StoreProfile(v) ==
    /\ visit[v].at = "store"
    /\ LET fresh(ttl) == [is |-> visit[v].has, left |-> ttl, age |-> 0]
       IN  /\ localProfile' = [localProfile EXCEPT ![visit[v].on] = fresh(ProfileLocalTTL)]
           /\ sharedProfile' = fresh(ProfileRemoteTTL)
    /\ Leaves(v)
    /\ UNCHANGED <<userRow, userLinks, enabledRoles, changed>>

\* Service.Update: normalizeRoleCodes makes the roles of a request that names
\* them non-empty.
UpdateProfile(v, i, wants) ==
    /\ visit[v].at = "idle"
    /\ visit' = [visit EXCEPT ![v] = [NoVisit EXCEPT !.at = "record", !.kind = "update",
                                                     !.on = i, !.wants = wants]]
    /\ UNCHANGED <<userRow, userLinks, enabledRoles, localProfile, sharedProfile,
                   changed>>

\* Service.Delete looks for the user in its transaction only.
DeleteProfile(v, i) ==
    /\ visit[v].at = "idle"
    /\ visit' = [visit EXCEPT ![v] = [NoVisit EXCEPT !.at = "commit", !.kind = "delete",
                                                     !.on = i, !.mayDrop = RoleCodes]]
    /\ UNCHANGED <<userRow, userLinks, enabledRoles, localProfile, sharedProfile,
                   changed>>

\* A commit by v overtakes what will not be removed after it: entries of other
\* instances if v removes those of its own, every entry if v is no call of the
\* user service; and what calls have read and not stored yet.
Overtakes(v) ==
    /\ localProfile' = [i \in ProfileInstances |->
         IF v # NoProfile /\ i = visit[v].on THEN localProfile[i]
                                             ELSE Outdated(localProfile[i])]
    /\ sharedProfile' = IF v = NoProfile THEN Outdated(sharedProfile) ELSE sharedProfile
    /\ visit' = [w \in ProfileCalls |->
         IF w = v
         THEN [NoVisit EXCEPT !.at = "forget local", !.kind = "update", !.on = visit[v].on]
         ELSE CASE visit[w].at = "keep" -> [visit[w] EXCEPT !.entry = Outdated(@)]
                [] visit[w].kind = "get" /\ visit[w].at \in {"roles", "store"} ->
                     [visit[w] EXCEPT !.has = Overtaken]
                [] visit[w].at = "commit" /\ userLinks' # userLinks ->
                     [visit[w] EXCEPT !.mayDrop = RoleCodes]
                [] OTHER -> visit[w]]

\* resolveRoleIDs: every code must be an enabled role.
CodesSkipped(codes) == TRUE
CodesValid(codes) == codes \subseteq enabledRoles

\* updateEnt and deleteEnt.  A user that is gone, or a code that is not valid
\* any more, changes nothing; only the first is no error.
CommitProfile(v) ==
    /\ visit[v].at = "commit"
    /\ IF ~userRow.live
       THEN /\ visit' = [visit EXCEPT ![v] = [NoVisit EXCEPT !.at = "forget local",
                                                 !.kind = "update", !.on = visit[v].on]]
            /\ UNCHANGED <<userRow, userLinks, localProfile, sharedProfile, changed>>
       ELSE IF visit[v].kind = "update" /\ ~CodesValid(visit[v].has.roles)
       THEN /\ Leaves(v)
            /\ UNCHANGED <<userRow, userLinks, localProfile, sharedProfile, changed>>
       ELSE /\ changed < MaxProfileChanges
            /\ changed' = changed + 1
            /\ userRow' = [live |-> visit[v].kind = "update",
                           version |-> userRow.version + 1]
            /\ userLinks' = visit[v].has.roles \cap enabledRoles
            /\ Overtakes(v)
    /\ UNCHANGED enabledRoles

\* jetcache Delete: the local layer, then Redis.
ForgetLocal(v) ==
    /\ visit[v].at = "forget local"
    /\ localProfile' = [localProfile EXCEPT ![visit[v].on] = NoProfile]
    /\ Steps(v, "forget shared")
    /\ UNCHANGED <<userRow, userLinks, enabledRoles, sharedProfile, changed>>

RemovedIfHeld(v) == IF localProfile[visit[v].on] = NoProfile THEN sharedProfile
                                                            ELSE NoProfile
Removed(v) == NoProfile

\* What the other instances keep of the old profile by now, and what was fetched
\* from Redis and is on its way to a local layer, is not reached.
ForgetShared(v) ==
    /\ visit[v].at = "forget shared"
    /\ sharedProfile' = Removed(v)
    /\ localProfile' = [i \in ProfileInstances |->
         IF i = visit[v].on THEN localProfile[i] ELSE Unreached(localProfile[i])]
    /\ visit' = [w \in ProfileCalls |->
         IF w = v THEN NoVisit
         ELSE IF visit[w].at = "keep" THEN [visit[w] EXCEPT !.entry = Unreached(@)]
         ELSE visit[w]]
    /\ UNCHANGED <<userRow, userLinks, enabledRoles, changed>>

\* The call ends with an error or with its process.  After the commit the
\* entries stay, and NotifyChanged is not called either.
Abandon(v) ==
    /\ visit[v].at # "idle"
    /\ IF visit[v].at \in {"forget local", "forget shared"}
       THEN /\ sharedProfile' = Unreached(sharedProfile)
            /\ localProfile' = [i \in ProfileInstances |-> Unreached(localProfile[i])]
            /\ visit' = [w \in ProfileCalls |->
                 IF w = v THEN NoVisit
                 ELSE IF visit[w].at = "keep" THEN [visit[w] EXCEPT !.entry = Unreached(@)]
                 ELSE visit[w]]
       ELSE UNCHANGED <<sharedProfile, localProfile>> /\ Leaves(v)
    /\ UNCHANGED <<userRow, userLinks, enabledRoles, changed>>

\* rbac ReplaceUserRoles: no entry is removed.
ReplaceLinks(codes) ==
    /\ userRow.live /\ changed < MaxProfileChanges
    /\ codes \subseteq enabledRoles
    /\ userLinks' = codes
    /\ userLinks' # userLinks
    /\ changed' = changed + 1
    /\ Overtakes(NoProfile)
    /\ UNCHANGED <<userRow, enabledRoles>>

\* rbac UpdateRole of is_enable.
SwitchRole(role) ==
    /\ changed < MaxProfileChanges
    /\ changed' = changed + 1
    /\ enabledRoles' = IF role \in enabledRoles THEN enabledRoles \ {role}
                                                ELSE enabledRoles \cup {role}
    /\ UNCHANGED <<userRow, userLinks>>
    /\ Overtakes(NoProfile)

Aged(e) == IF e = NoProfile \/ e.left = 1 THEN NoProfile
           ELSE [e EXCEPT !.left = @ - 1, !.age = @ + 1]

ProfileTick ==
    /\ localProfile' = [i \in ProfileInstances |-> Aged(localProfile[i])]
    /\ sharedProfile' = Aged(sharedProfile)
    /\ <<localProfile, sharedProfile>>' # <<localProfile, sharedProfile>>
    /\ UNCHANGED <<userRow, userLinks, enabledRoles, visit, changed>>

ProfileArrives(v) == \E i \in ProfileInstances :
    \/ GetProfile(v, i) \/ DeleteProfile(v, i)
    \/ UpdateProfile(v, i, NoCodes)
    \/ \E codes \in SUBSET RoleCodes \ {{}} :
         UpdateProfile(v, i, [codes |-> codes, named |-> TRUE])

ProfilesNext ==
    \/ \E v \in ProfileCalls :
        \/ ProfileArrives(v)
        \/ ReadRecord(v) \/ ReadRoles(v) \/ StoreProfile(v) \/ KeepLocal(v)
        \/ CommitProfile(v) \/ ForgetLocal(v) \/ ForgetShared(v) \/ Abandon(v)
    \/ \E codes \in SUBSET RoleCodes : ReplaceLinks(codes)
    \/ \E role \in RoleCodes : SwitchRole(role)
    \/ ProfileTick

ProfilesSpec == ProfilesInit /\ [][ProfilesNext]_profileVars

-----------------------------------------------------------------------------
ProfilesTypeOK ==
    /\ userRow \in [live: BOOLEAN, version: RowVersions]
    /\ userLinks \subseteq RoleCodes /\ enabledRoles \subseteq RoleCodes
    /\ localProfile \in [ProfileInstances -> Entry \cup {NoProfile}]
    /\ sharedProfile \in Entry \cup {NoProfile}
    /\ \A v \in ProfileCalls : visit[v].at \in VisitSteps
    /\ changed \in 0..MaxProfileChanges

\* Update and Delete leave no old profile behind on their own instance and in
\* Redis: an entry that does not show the user as it is was overtaken by a
\* change the code does not follow (another instance's, one of roles, a read in
\* flight, a failed removal), or the call that changed the user is still about
\* to remove it.
StaleProfileHasCause ==
    \A e \in {sharedProfile} \cup {localProfile[i] : i \in ProfileInstances} :
        e # NoProfile /\ ~Shows(e) =>
            \/ e.is = Overtaken
            \/ \E v \in ProfileCalls : visit[v].at \in {"forget local", "forget shared"}

\* However the two layers are filled from one another, a profile is answered for
\* less than remote_ttl + local_ttl after it was stored; one layer alone would
\* suggest the larger of the two.  The code sets the two terms and fills one layer
\* from the other; that an entry goes when its term is over is the library's part,
\* and as far as its local layer varies the terms, the bound varies with them.
ProfileAgeBounded ==
    \A i \in ProfileInstances :
        localProfile[i] # NoProfile =>
            localProfile[i].age + localProfile[i].left <= ProfileRemoteTTL + ProfileLocalTTL - 1

\* A user loses a role only to a call that was told to take it, or to an Update
\* that had read the user while the role was disabled or before its roles were
\* changed by someone else.
RolesLostHaveCause ==
    [][\A role \in userLinks \ userLinks' :
          \/ \E v \in ProfileCalls : visit[v].at = "commit" /\ role \in visit[v].mayDrop
          \/ userRow' = userRow]_profileVars  \* ReplaceLinks
=============================================================================
