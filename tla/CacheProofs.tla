----------------------------- MODULE CacheProofs -----------------------------
(***************************************************************************)
(* What the caches promise, and what is decided upon their word, for every *)
(* number of instances and calls, every set of roles and all terms.        *)
(*                                                                         *)
(* SharedLoad: of the calls of one instance only the one that leads can    *)
(* store, and while it loads the key has no value of its instance: it has  *)
(* looked, and nobody else there can have stored since.                    *)
(*                                                                         *)
(* Profiles: an entry in Redis has its whole term in age and rest          *)
(* together, and what it gives to a local layer is at least one tick from  *)
(* its end; a call that will write roles back knows whom it would rob.     *)
(*                                                                         *)
(* Authorization: a copy of the tables is right, or about to be renewed,   *)
(* or known to be late; and a request under way has witnessed what the     *)
(* tables say now, so that what it reads off a right copy it has seen.     *)
(***************************************************************************)
EXTENDS SharedLoad, Profiles, Authorization, FiniteSetTheorems, TLAPS

Leading == {"get again", "clean again", "load", "set"}

\* A call that is past the join without waiting leads its instance, and leads
\* no other.
OneLeads ==
    \A c \in LoadCalls :
        lookup[c].at \in Leading => flight[lookup[c].on] = c

NoneAfterRemoval ==
    cached = "missing" => \A i \in LoadInstances : fills[i] = 0

LoadsIntoNothing ==
    \A c \in LoadCalls :
        lookup[c].at \in {"load", "set"} => fills[lookup[c].on] = 0

SharedLoadInv ==
    /\ SharedLoadTypeOK /\ OneLeads /\ NoneAfterRemoval /\ LoadsIntoNothing
    /\ OneFillPerRemoval

LEMMA SharedLoadInit_Inv == SharedLoadInit => SharedLoadInv
<1> SUFFICES ASSUME SharedLoadInit PROVE SharedLoadInv
  OBVIOUS
<1>1. \A c \in LoadCalls : lookup[c].at = "idle"
  BY DEF SharedLoadInit
<1>2. lookup \in [LoadCalls -> [at: LookupSteps, on: LoadInstances, found: BOOLEAN]]
  <2>1. {"idle"} \subseteq LookupSteps /\ {FALSE} \subseteq BOOLEAN
    BY DEF LookupSteps
  <2>2. lookup \in [LoadCalls -> [at: {"idle"}, on: LoadInstances, found: {FALSE}]]
    BY DEF SharedLoadInit
  <2> QED BY <2>1, <2>2
<1>3. \A i \in LoadInstances : fills[i] = 0
  BY DEF SharedLoadInit
<1>4. SharedLoadTypeOK
  <2>1. loadable \in BOOLEAN /\ nilCached \in BOOLEAN
    BY DEF SharedLoadInit
  <2>2. cached \in CacheStates /\ fills \in [LoadInstances -> 0..2]
        /\ flight \in [LoadInstances -> LoadCalls \cup {NobodyLoads}]
    BY DEF SharedLoadInit, CacheStates
  <2> QED BY <1>2, <2>1, <2>2 DEF SharedLoadTypeOK
<1>5. OneLeads /\ LoadsIntoNothing
  BY <1>1 DEF OneLeads, LoadsIntoNothing, Leading
<1>6. NoneAfterRemoval /\ OneFillPerRemoval
  BY <1>3 DEF NoneAfterRemoval, OneFillPerRemoval
<1> QED BY <1>4, <1>5, <1>6 DEF SharedLoadInv

\* What a call does when it moves on and leaves the others alone.
LEMMA LooksOnKeeps ==
    ASSUME SharedLoadTypeOK, NEW c \in LoadCalls, NEW at \in LookupSteps, LooksOn(c, at)
    PROVE  /\ lookup' \in [LoadCalls -> [at: LookupSteps, on: LoadInstances, found: BOOLEAN]]
           /\ \A d \in LoadCalls : lookup'[d].on = lookup[d].on
           /\ lookup'[c].at = at
           /\ \A d \in LoadCalls \ {c} : lookup'[d] = lookup[d]
BY DEF SharedLoadTypeOK, LooksOn

\* Nobody takes the lead by going on where nobody joins.
LEMMA LeadKept ==
    ASSUME SharedLoadTypeOK, OneLeads, NEW c \in LoadCalls, NEW at \in LookupSteps,
           LooksOn(c, at), flight' = flight, at \in Leading => lookup[c].at \in Leading
    PROVE  /\ OneLeads'
           /\ flight' \in [LoadInstances -> LoadCalls \cup {NobodyLoads}]
<1>1. /\ \A d \in LoadCalls : lookup'[d].on = lookup[d].on
      /\ lookup'[c].at = at
      /\ \A d \in LoadCalls \ {c} : lookup'[d] = lookup[d]
  BY LooksOnKeeps
<1>2. ASSUME NEW d \in LoadCalls, lookup'[d].at \in Leading
      PROVE  flight'[lookup'[d].on] = d
  <2>1. lookup[d].at \in Leading
    BY <1>1, <1>2
  <2> QED BY <1>1, <2>1 DEF OneLeads
<1> QED BY <1>2 DEF OneLeads, SharedLoadTypeOK

\* The rest of the type of the state after a step that leaves the key alone.
LEMMA SameKeyType ==
    ASSUME SharedLoadTypeOK, SameKey, SameSource
    PROVE  /\ loadable' \in BOOLEAN /\ nilCached' \in BOOLEAN
           /\ cached' \in CacheStates
           /\ fills' \in [LoadInstances -> 0..2]
BY DEF SharedLoadTypeOK, SameKey, SameSource

\* A call that returns gives up the lead, and with it all who wait.
LEMMA ReturnsKeeps ==
    ASSUME SharedLoadTypeOK, OneLeads, NEW c \in LoadCalls, Returns(c)
    PROVE  /\ lookup' \in [LoadCalls -> [at: LookupSteps, on: LoadInstances, found: BOOLEAN]]
           /\ flight' \in [LoadInstances -> LoadCalls \cup {NobodyLoads}]
           /\ \A d \in LoadCalls : \/ lookup'[d].at = "idle"
                                   \/ d # c /\ lookup'[d] = lookup[d]
           /\ \A d \in LoadCalls : lookup'[d].on = lookup[d].on
           /\ OneLeads'
<1>1. CASE flight[lookup[c].on] = c
  <2>1. /\ flight' = [flight EXCEPT ![lookup[c].on] = NobodyLoads]
        /\ lookup' = [d \in LoadCalls |->
                        IF d \in Followers(c) \cup {c} THEN NoLookup(d) ELSE lookup[d]]
    BY <1>1 DEF Returns
  <2>2. \A d \in LoadCalls \ {c} : lookup[d].at \in Leading => lookup[d].on # lookup[c].on
    BY <1>1 DEF OneLeads
  <2> QED
    BY <2>1, <2>2, SharedLoadAssumption
       DEF SharedLoadTypeOK, OneLeads, NoLookup, LookupSteps, Leading, Followers
<1>2. CASE flight[lookup[c].on] # c
  <2>1. lookup' = [lookup EXCEPT ![c] = NoLookup(c)] /\ flight' = flight
    BY <1>2 DEF Returns
  <2> QED
    BY <2>1 DEF SharedLoadTypeOK, OneLeads, NoLookup, LookupSteps, Leading
<1> QED BY <1>1, <1>2

\* A step that leaves the key alone keeps the invariant if nobody starts to load
\* where something has been stored.
LEMMA QuietStep ==
    ASSUME SharedLoadInv, SameKey, SameSource, OneLeads',
           lookup' \in [LoadCalls -> [at: LookupSteps, on: LoadInstances, found: BOOLEAN]],
           flight' \in [LoadInstances -> LoadCalls \cup {NobodyLoads}],
           \A d \in LoadCalls : lookup'[d].at \in {"load", "set"} =>
               /\ lookup'[d].on = lookup[d].on
               /\ lookup[d].at \in {"load", "set"} \/ fills[lookup[d].on] = 0
    PROVE  SharedLoadInv'
<1>1. SharedLoadTypeOK'
  BY SameKeyType DEF SharedLoadInv, SharedLoadTypeOK
<1>2. LoadsIntoNothing' /\ NoneAfterRemoval' /\ OneFillPerRemoval'
  BY DEF SharedLoadInv, SameKey, LoadsIntoNothing, NoneAfterRemoval, OneFillPerRemoval
<1> QED BY <1>1, <1>2 DEF SharedLoadInv

\* So does a call that goes on, unless it goes on to load where something is stored.
LEMMA GoesOnQuietly ==
    ASSUME SharedLoadInv, SameKey, SameSource, OneLeads',
           flight' \in [LoadInstances -> LoadCalls \cup {NobodyLoads}],
           NEW c \in LoadCalls, NEW at \in LookupSteps, LooksOn(c, at),
           at \in {"load", "set"} => fills[lookup[c].on] = 0
    PROVE  SharedLoadInv'
<1>1. SharedLoadTypeOK
  BY DEF SharedLoadInv
<1>2. /\ lookup' \in [LoadCalls -> [at: LookupSteps, on: LoadInstances, found: BOOLEAN]]
      /\ \A d \in LoadCalls : lookup'[d].on = lookup[d].on
      /\ lookup'[c].at = at
      /\ \A d \in LoadCalls \ {c} : lookup'[d] = lookup[d]
  BY <1>1, LooksOnKeeps
<1>3. ASSUME NEW d \in LoadCalls, lookup'[d].at \in {"load", "set"}
      PROVE  /\ lookup'[d].on = lookup[d].on
             /\ lookup[d].at \in {"load", "set"} \/ fills[lookup[d].on] = 0
  BY <1>2, <1>3
<1> QED BY <1>2, <1>3, QuietStep

LEMMA QuietReturn ==
    ASSUME SharedLoadInv, SameKey, SameSource, NEW c \in LoadCalls, Returns(c)
    PROVE  SharedLoadInv'
<1>1. SharedLoadTypeOK /\ OneLeads
  BY DEF SharedLoadInv
<1>2. \A d \in LoadCalls :
        lookup'[d].at \in {"load", "set"} => lookup'[d] = lookup[d]
  BY <1>1, ReturnsKeeps
<1>3. /\ lookup' \in [LoadCalls -> [at: LookupSteps, on: LoadInstances, found: BOOLEAN]]
      /\ flight' \in [LoadInstances -> LoadCalls \cup {NobodyLoads}]
      /\ OneLeads'
  BY <1>1, ReturnsKeeps
<1>4. \A d \in LoadCalls : lookup'[d].at \in {"load", "set"} =>
        /\ lookup'[d].on = lookup[d].on
        /\ lookup[d].at \in {"load", "set"} \/ fills[lookup[d].on] = 0
  BY <1>2
<1> QED BY <1>3, <1>4, QuietStep

\* Without a value nothing is stored, whoever loads.
LEMMA RemovingReturn ==
    ASSUME SharedLoadInv, KeyRemoved, SameSource, NEW c \in LoadCalls, Returns(c)
    PROVE  SharedLoadInv'
<1>1. SharedLoadTypeOK /\ OneLeads
  BY DEF SharedLoadInv
<1>2. /\ loadable' \in BOOLEAN /\ nilCached' \in BOOLEAN
      /\ cached' \in CacheStates /\ fills' \in [LoadInstances -> 0..2]
      /\ \A i \in LoadInstances : fills'[i] = 0
  BY <1>1 DEF KeyRemoved, SameSource, SharedLoadTypeOK, CacheStates
<1>3. SharedLoadTypeOK' /\ OneLeads'
  BY <1>1, <1>2, ReturnsKeeps DEF SharedLoadTypeOK
<1>4. LoadsIntoNothing' /\ NoneAfterRemoval' /\ OneFillPerRemoval'
  BY <1>2, <1>3 DEF LoadsIntoNothing, NoneAfterRemoval, OneFillPerRemoval, SharedLoadTypeOK
<1> QED BY <1>3, <1>4 DEF SharedLoadInv

\* The call that stores was the only one of its instance past the join, so none
\* that loads is left there.
LEMMA StoringReturn ==
    ASSUME SharedLoadInv, NEW c \in LoadCalls, lookup[c].at = "set", Store(c), Returns(c),
           SameSource
    PROVE  SharedLoadInv'
<1> USE DEF SharedLoadInv
<1>0. SharedLoadTypeOK /\ OneLeads
  OBVIOUS
<1>1. fills[lookup[c].on] = 0 /\ flight[lookup[c].on] = c /\ lookup[c].on \in LoadInstances
  BY DEF LoadsIntoNothing, OneLeads, Leading, SharedLoadTypeOK
<1>2. /\ fills' \in [LoadInstances -> 0..2]
      /\ \A i \in LoadInstances : fills'[i] = IF i = lookup[c].on THEN 1 ELSE fills[i]
  BY <1>1 DEF Store, SharedLoadTypeOK
<1>3. cached' # "missing" /\ cached' \in CacheStates
  BY DEF Store, CacheStates
<1>4. SharedLoadTypeOK' /\ OneLeads'
  <2>1. /\ lookup' \in [LoadCalls -> [at: LookupSteps, on: LoadInstances, found: BOOLEAN]]
        /\ flight' \in [LoadInstances -> LoadCalls \cup {NobodyLoads}]
        /\ OneLeads'
    BY <1>0, ReturnsKeeps
  <2>2. loadable' \in BOOLEAN /\ nilCached' \in BOOLEAN
    BY <1>0 DEF SharedLoadTypeOK, SameSource
  <2> QED BY <1>2, <1>3, <2>1, <2>2 DEF SharedLoadTypeOK
<1>5. \A d \in LoadCalls : lookup'[d].at \in {"load", "set"} =>
        d # c /\ lookup'[d] = lookup[d] /\ lookup[d].on # lookup[c].on
  <2>1. \A d \in LoadCalls : lookup'[d].at \in {"load", "set"} =>
          d # c /\ lookup'[d] = lookup[d]
    BY <1>0, ReturnsKeeps
  <2> QED BY <1>0, <1>1, <2>1 DEF OneLeads, Leading
<1>6. LoadsIntoNothing'
  BY <1>2, <1>5 DEF LoadsIntoNothing, SharedLoadTypeOK
<1>7. NoneAfterRemoval' /\ OneFillPerRemoval'
  BY <1>2, <1>3 DEF NoneAfterRemoval, OneFillPerRemoval
<1> QED BY <1>4, <1>6, <1>7

LEMMA SharedLoadStep ==
    ASSUME SharedLoadInv, [SharedLoadNext]_loadVars
    PROVE  SharedLoadInv'
<1>0. SharedLoadTypeOK /\ OneLeads /\ NoneAfterRemoval
  BY DEF SharedLoadInv
<1>1. ASSUME NEW c \in LoadCalls, GetOrLoad(c) PROVE SharedLoadInv'
  <2>1. LooksOn(c, "get") /\ flight' = flight /\ SameKey /\ SameSource /\ "get" \in LookupSteps
    BY <1>1 DEF GetOrLoad, LookupSteps
  <2>2. OneLeads' /\ flight' \in [LoadInstances -> LoadCalls \cup {NobodyLoads}]
    BY <1>0, <2>1, LeadKept DEF Leading
  <2> QED BY <2>1, <2>2, GoesOnQuietly
<1>2. ASSUME NEW c \in LoadCalls, ReadKey(c) PROVE SharedLoadInv'
  <2>1. SameKey /\ SameSource
    BY <1>2 DEF ReadKey
  <2>2. CASE Returns(c)
    BY <2>1, <2>2, QuietReturn
  <2>3. CASE ~Returns(c)
    <3>1. PICK at \in {"join", "load", "clean", "clean again"} :
            /\ LooksOn(c, at) /\ flight' = flight
            /\ at \in Leading => lookup[c].at = "get again"
            /\ at = "load" => cached = "missing"
      BY <1>2, <2>3 DEF ReadKey, Leading
    <3>2. at \in LookupSteps
      BY DEF LookupSteps
    <3>3. at \in Leading => lookup[c].at \in Leading
      BY <3>1 DEF Leading
    <3>4. OneLeads' /\ flight' \in [LoadInstances -> LoadCalls \cup {NobodyLoads}]
      BY <1>0, <3>1, <3>2, <3>3, LeadKept
    <3>5. at \in {"load", "set"} => fills[lookup[c].on] = 0
      BY <1>0, <3>1 DEF NoneAfterRemoval, SharedLoadTypeOK
    <3> QED BY <2>1, <3>1, <3>2, <3>4, <3>5, GoesOnQuietly
  <2> QED BY <2>2, <2>3
<1>3. ASSUME NEW c \in LoadCalls, CleanKey(c) PROVE SharedLoadInv'
  BY <1>3, RemovingReturn DEF CleanKey
<1>4. ASSUME NEW c \in LoadCalls, Join(c) PROVE SharedLoadInv'
  <2>1. SameKey /\ SameSource /\ lookup[c].at = "join"
    BY <1>4 DEF Join
  <2>2. CASE flight[lookup[c].on] = NobodyLoads
    <3>1. /\ LooksOn(c, "get again") /\ "get again" \in LookupSteps
          /\ flight' = [flight EXCEPT ![lookup[c].on] = c]
      BY <1>4, <2>2 DEF Join, JoinToLook, LookupSteps
    <3>2. \A d \in LoadCalls : lookup[d].at \in Leading => lookup[d].on # lookup[c].on
      BY <1>0, <2>2, SharedLoadAssumption DEF OneLeads
    <3>3. flight' \in [LoadInstances -> LoadCalls \cup {NobodyLoads}]
      BY <1>0, <3>1 DEF SharedLoadTypeOK
    <3>4. \A d \in LoadCalls : lookup[d].on \in LoadInstances
      BY <1>0 DEF SharedLoadTypeOK
    <3>5. /\ flight'[lookup[c].on] = c
          /\ \A d \in LoadCalls :
               lookup[d].on # lookup[c].on => flight'[lookup[d].on] = flight[lookup[d].on]
      BY <1>0, <3>1, <3>4 DEF SharedLoadTypeOK
    <3>6. \A d \in LoadCalls : /\ lookup'[d].on = lookup[d].on
                               /\ d = c \/ lookup'[d] = lookup[d]
      BY <1>0, <3>1, LooksOnKeeps
    <3>7. ASSUME NEW d \in LoadCalls, lookup'[d].at \in Leading
          PROVE  flight'[lookup'[d].on] = d
      <4>1. CASE d = c
        BY <3>5, <3>6, <4>1
      <4>2. CASE d # c
        <5>1. lookup'[d] = lookup[d]
          BY <3>6, <4>2
        <5>2. lookup[d].on # lookup[c].on /\ flight[lookup[d].on] = d
          BY <1>0, <3>2, <3>7, <5>1 DEF OneLeads
        <5> QED BY <3>5, <5>1, <5>2
      <4> QED BY <4>1, <4>2
    <3>8. OneLeads'
      BY <3>7 DEF OneLeads
    <3> QED BY <2>1, <3>1, <3>3, <3>8, GoesOnQuietly
  <2>3. CASE flight[lookup[c].on] # NobodyLoads
    <3>1. LooksOn(c, "wait") /\ "wait" \in LookupSteps /\ flight' = flight
      BY <1>4, <2>3 DEF Join, LookupSteps
    <3>2. OneLeads' /\ flight' \in [LoadInstances -> LoadCalls \cup {NobodyLoads}]
      BY <1>0, <3>1, LeadKept DEF Leading
    <3> QED BY <2>1, <3>1, <3>2, GoesOnQuietly
  <2> QED BY <2>2, <2>3
<1>5. ASSUME NEW c \in LoadCalls, LoadValue(c) PROVE SharedLoadInv'
  <2>1. SameKey /\ SameSource /\ lookup[c].at = "load"
    BY <1>5 DEF LoadValue
  <2>2. CASE Returns(c)
    BY <2>1, <2>2, QuietReturn
  <2>3. CASE ~Returns(c)
    <3>1. /\ lookup' = [lookup EXCEPT ![c].at = "set", ![c].found = loadable]
          /\ flight' = flight
      BY <1>5, <2>3 DEF LoadValue
    <3>2. /\ lookup' \in [LoadCalls -> [at: LookupSteps, on: LoadInstances, found: BOOLEAN]]
          /\ \A d \in LoadCalls : lookup'[d].on = lookup[d].on
          /\ \A d \in LoadCalls \ {c} : lookup'[d] = lookup[d]
      BY <1>0, <3>1 DEF SharedLoadTypeOK, LookupSteps
    <3>3. OneLeads'
      BY <1>0, <2>1, <3>1, <3>2 DEF OneLeads, Leading
    <3> QED BY <1>0, <2>1, <3>1, <3>2, <3>3, QuietStep DEF SharedLoadTypeOK
  <2> QED BY <2>2, <2>3
<1>6. ASSUME NEW c \in LoadCalls, SetKey(c) PROVE SharedLoadInv'
  BY <1>6, StoringReturn DEF SetKey
<1>7. ASSUME NEW c \in LoadCalls, LookupFails(c) PROVE SharedLoadInv'
  BY <1>7, QuietReturn, StoringReturn, RemovingReturn DEF LookupFails
<1>8. CASE RemoveKey
  <2>1. /\ fills' \in [LoadInstances -> 0..2] /\ \A i \in LoadInstances : fills'[i] = 0
        /\ cached' \in CacheStates
    BY <1>8 DEF RemoveKey, KeyRemoved, CacheStates
  <2>2. UNCHANGED <<lookup, flight, loadable, nilCached>>
    BY <1>8 DEF RemoveKey, SameSource
  <2>3. SharedLoadTypeOK'
    BY <1>0, <2>1, <2>2 DEF SharedLoadTypeOK
  <2> QED
    BY <1>0, <2>1, <2>2, <2>3 DEF SharedLoadInv, SharedLoadTypeOK, OneLeads,
       NoneAfterRemoval, LoadsIntoNothing, OneFillPerRemoval
<1>9. CASE CorruptKey
  <2>1. cached' \in CacheStates /\ cached' # "missing"
    BY <1>9 DEF CorruptKey, CacheStates
  <2>2. UNCHANGED <<lookup, flight, fills, loadable, nilCached>>
    BY <1>9 DEF CorruptKey, SameSource
  <2> QED
    BY <2>1, <2>2 DEF SharedLoadInv, SharedLoadTypeOK, OneLeads, NoneAfterRemoval,
       LoadsIntoNothing, OneFillPerRemoval
<1>10. CASE ChangeSource
  <2>1. loadable' \in BOOLEAN
    BY <1>10 DEF ChangeSource
  <2>2. UNCHANGED <<lookup, flight, fills, cached, nilCached>>
    BY <1>10 DEF ChangeSource, SameKey
  <2> QED
    BY <2>1, <2>2 DEF SharedLoadInv, SharedLoadTypeOK, OneLeads, NoneAfterRemoval,
       LoadsIntoNothing, OneFillPerRemoval
<1>11. ASSUME NEW i \in LoadInstances, LoaderStops(i) PROVE SharedLoadInv'
  <2>1. /\ SameKey /\ SameSource
        /\ lookup' = [c \in LoadCalls |-> IF lookup[c].on = i THEN NoLookup(c) ELSE lookup[c]]
        /\ flight' = [flight EXCEPT ![i] = NobodyLoads]
    BY <1>11 DEF LoaderStops
  <2>2. lookup' \in [LoadCalls -> [at: LookupSteps, on: LoadInstances, found: BOOLEAN]]
    BY <1>0, <2>1 DEF SharedLoadTypeOK, NoLookup, LookupSteps
  <2>3. flight' \in [LoadInstances -> LoadCalls \cup {NobodyLoads}]
    BY <1>0, <2>1 DEF SharedLoadTypeOK
  <2>4. \A c \in LoadCalls : lookup'[c].at # "idle" =>
          lookup'[c] = lookup[c] /\ lookup[c].on # i
    BY <2>1 DEF NoLookup
  <2>5. OneLeads'
    BY <1>0, <2>1, <2>4 DEF OneLeads, Leading, SharedLoadTypeOK
  <2> QED BY <2>1, <2>2, <2>3, <2>4, <2>5, QuietStep
<1>12. CASE UNCHANGED loadVars
  BY <1>12 DEF loadVars, SharedLoadInv, SharedLoadTypeOK, OneLeads, NoneAfterRemoval,
               LoadsIntoNothing, OneFillPerRemoval
<1> QED
  BY <1>1, <1>2, <1>3, <1>4, <1>5, <1>6, <1>7, <1>8, <1>9, <1>10, <1>11, <1>12
     DEF SharedLoadNext

\* Whatever calls of however many instances find the key missing, fail or are
\* restarted, an instance stores a loaded value once between two removals.
THEOREM FilledOnce == SharedLoadSpec => [](SharedLoadTypeOK /\ OneFillPerRemoval)
<1>1. SharedLoadSpec => []SharedLoadInv
  BY SharedLoadInit_Inv, SharedLoadStep, PTL DEF SharedLoadSpec
<1> QED BY <1>1, PTL DEF SharedLoadInv

-----------------------------------------------------------------------------
\* A call of the user service.
VisitType ==
    [at: VisitSteps, kind: {"get", "update", "delete"},
     on: ProfileInstances \cup {NoProfile}, has: Profile \cup {Overtaken},
     entry: Entry \cup {NoProfile},
     wants: [codes: SUBSET RoleCodes, named: BOOLEAN], mayDrop: SUBSET RoleCodes]

ProfilesTypes ==
    /\ userRow \in [live: BOOLEAN, version: RowVersions]
    /\ userLinks \in SUBSET RoleCodes /\ enabledRoles \in SUBSET RoleCodes
    /\ localProfile \in [ProfileInstances -> Entry \cup {NoProfile}]
    /\ sharedProfile \in Entry \cup {NoProfile}
    /\ visit \in [ProfileCalls -> VisitType]
    /\ changed \in 0..MaxProfileChanges
    /\ userRow.version <= changed

\* What a call is, where it is.
Fits(r) ==
    /\ r.at = "record" => r.kind \in {"get", "update"} /\ r.has \in Profile
    /\ r.at = "roles" => r.kind = "get" \/ (r.kind = "update" /\ r.has \in Profile)
    /\ r.at = "store" => r.kind = "get"
    /\ r.at = "keep" => r.entry \in Entry
    /\ r.at = "commit" => r.kind \in {"update", "delete"} /\ r.has \in Profile

Fitting == \A v \in ProfileCalls : Fits(visit[v])

\* An update that will write roles back knows whom it would rob.
RobsKnown(r, links) ==
    r.at = "commit" =>
        /\ r.kind = "delete" => r.mayDrop = RoleCodes
        /\ r.kind = "update" => links \ r.has.roles \subseteq r.mayDrop

RobberyKnown == \A v \in ProfileCalls : RobsKnown(visit[v], userLinks)

ProfilesBase == ProfilesTypes /\ Fitting /\ RobberyKnown

LEMMA NoVisitType == NoVisit \in VisitType /\ [version |-> 0, roles |-> {}] \in Profile
BY ProfilesAssumption DEF NoVisit, VisitType, VisitSteps, Profile, RowVersions, NoCodes, Entry

LEMMA OutdatedType == ASSUME NEW e \in Entry \cup {NoProfile}
                      PROVE  /\ Outdated(e) \in Entry \cup {NoProfile}
                             /\ e \in Entry => Outdated(e) \in Entry
                             /\ Unreached(e) \in Entry \cup {NoProfile}
                             /\ e \in Entry => Unreached(e) \in Entry
BY DEF Outdated, Unreached, Entry

LEMMA AgedType ==
    ASSUME NEW e \in Entry \cup {NoProfile}
    PROVE  /\ Aged(e) \in Entry \cup {NoProfile}
           /\ Aged(e) # NoProfile => /\ e \in Entry /\ Aged(e).is = e.is
                                    /\ Aged(e).left = e.left - 1 /\ Aged(e).age = e.age + 1
<1>1. CASE e = NoProfile \/ e.left = 1
  BY <1>1 DEF Aged
<1>2. CASE e # NoProfile /\ e.left # 1
  <2>1. e \in Entry /\ e.left - 1 \in Nat \ {0} /\ e.age + 1 \in Nat
    BY <1>2 DEF Entry
  <2>2. Aged(e) = [e EXCEPT !.left = e.left - 1, !.age = e.age + 1]
    BY <1>2 DEF Aged
  <2> QED BY <2>1, <2>2 DEF Entry
<1> QED BY <1>1, <1>2

\* A call goes on by itself.
LEMMA OwnStep ==
    ASSUME ProfilesBase, NEW v \in ProfileCalls, NEW r \in VisitType, Fits(r),
           RobsKnown(r, userLinks'), userLinks' = userLinks,
           visit' = [visit EXCEPT ![v] = r]
    PROVE  visit' \in [ProfileCalls -> VisitType] /\ Fitting' /\ RobberyKnown'
BY DEF ProfilesBase, ProfilesTypes, Fitting, RobberyKnown

\* What nothing else changes stays as it is.
LEMMA LeavesType ==
    ASSUME ProfilesBase, NEW v \in ProfileCalls, userLinks' = userLinks, Leaves(v)
    PROVE  visit' \in [ProfileCalls -> VisitType] /\ Fitting' /\ RobberyKnown'
<1>1. Fits(NoVisit) /\ RobsKnown(NoVisit, userLinks')
  BY DEF Fits, RobsKnown, NoVisit
<1> QED BY <1>1, NoVisitType, OwnStep DEF Leaves

LEMMA OvertakesType ==
    ASSUME ProfilesBase, NEW v, Overtakes(v), userLinks' \in SUBSET RoleCodes,
           v \in ProfileCalls => visit[v].on \in ProfileInstances \cup {NoProfile}
    PROVE  /\ localProfile' \in [ProfileInstances -> Entry \cup {NoProfile}]
           /\ sharedProfile' \in Entry \cup {NoProfile}
           /\ visit' \in [ProfileCalls -> VisitType] /\ Fitting' /\ RobberyKnown'
<1>1. /\ localProfile' \in [ProfileInstances -> Entry \cup {NoProfile}]
      /\ sharedProfile' \in Entry \cup {NoProfile}
  BY OutdatedType DEF Overtakes, ProfilesBase, ProfilesTypes
<1>2. ASSUME NEW w \in ProfileCalls
      PROVE  visit'[w] \in VisitType /\ Fits(visit'[w]) /\ RobsKnown(visit'[w], userLinks')
  <2>0. visit[w] \in VisitType /\ Fits(visit[w]) /\ RobsKnown(visit[w], userLinks)
    BY DEF ProfilesBase, ProfilesTypes, Fitting, RobberyKnown
  <2>1. CASE w = v
    <3>1. visit'[w] = [NoVisit EXCEPT !.at = "forget local", !.kind = "update",
                                      !.on = visit[v].on]
      BY <2>1 DEF Overtakes
    <3> QED BY <2>1, <3>1, NoVisitType DEF VisitType, VisitSteps, Fits, RobsKnown, NoVisit
  <2>2. CASE w # v /\ visit[w].at = "keep"
    <3>1. visit'[w] = [visit[w] EXCEPT !.entry = Outdated(visit[w].entry)]
      BY <2>2 DEF Overtakes
    <3>2. visit[w].entry \in Entry /\ Outdated(visit[w].entry) \in Entry
      BY <2>0, <2>2, OutdatedType DEF Fits
    <3> QED BY <2>0, <2>2, <3>1, <3>2 DEF VisitType, Fits, RobsKnown
  <2>3. CASE w # v /\ visit[w].kind = "get" /\ visit[w].at \in {"roles", "store"}
    <3>1. visit'[w] = [visit[w] EXCEPT !.has = Overtaken]
      BY <2>3 DEF Overtakes
    <3>2. visit'[w] \in VisitType /\ visit'[w].at = visit[w].at /\ visit'[w].kind = "get"
      BY <2>0, <2>3, <3>1 DEF VisitType
    <3> QED BY <2>3, <3>2 DEF Fits, RobsKnown
  <2>4. CASE w # v /\ visit[w].at = "commit" /\ userLinks' # userLinks
    <3>1. visit'[w] = [visit[w] EXCEPT !.mayDrop = RoleCodes]
      BY <2>4 DEF Overtakes
    <3> QED BY <2>0, <2>4, <3>1 DEF VisitType, Fits, RobsKnown
  <2>5. CASE visit'[w] = visit[w] /\ (visit[w].at = "commit" => userLinks' = userLinks)
    BY <2>0, <2>5 DEF RobsKnown
  <2>6. \/ w = v
        \/ w # v /\ visit[w].at = "keep"
        \/ w # v /\ visit[w].kind = "get" /\ visit[w].at \in {"roles", "store"}
        \/ w # v /\ visit[w].at = "commit" /\ userLinks' # userLinks
        \/ visit'[w] = visit[w] /\ (visit[w].at = "commit" => userLinks' = userLinks)
    BY DEF Overtakes
  <2> QED BY <2>1, <2>2, <2>3, <2>4, <2>5, <2>6
<1>3. visit' \in [ProfileCalls -> VisitType]
  <2>1. visit' = [w \in ProfileCalls |-> visit'[w]]
    BY DEF Overtakes
  <2> QED BY <1>2, <2>1
<1> QED BY <1>1, <1>2, <1>3 DEF Fitting, RobberyKnown

\* Every step of the model leaves the calls in order.
LEMMA ProfilesBaseStep ==
    ASSUME ProfilesBase, [ProfilesNext]_profileVars PROVE ProfilesBase'
<1> USE DEF ProfilesBase
<1>0. /\ \A v \in ProfileCalls : /\ visit[v] \in VisitType /\ Fits(visit[v])
                                 /\ RobsKnown(visit[v], userLinks)
      /\ userRow \in [live: BOOLEAN, version: RowVersions] /\ enabledRoles \in SUBSET RoleCodes
      /\ userLinks \in SUBSET RoleCodes /\ changed \in 0..MaxProfileChanges
      /\ localProfile \in [ProfileInstances -> Entry \cup {NoProfile}]
      /\ sharedProfile \in Entry \cup {NoProfile} /\ visit \in [ProfileCalls -> VisitType]
      /\ userRow.version <= changed
  BY DEF ProfilesTypes, Fitting, RobberyKnown
<1>1. ASSUME UNCHANGED <<userRow, userLinks, enabledRoles, localProfile, sharedProfile, changed>>,
             NEW v \in ProfileCalls, NEW r \in VisitType, Fits(r), RobsKnown(r, userLinks),
             visit' = [visit EXCEPT ![v] = r]
      PROVE  ProfilesBase'
  <2>1. visit' \in [ProfileCalls -> VisitType] /\ Fitting' /\ RobberyKnown'
    BY <1>1, OwnStep
  <2> QED BY <1>1, <2>1 DEF ProfilesTypes
<1>2. ASSUME NEW v \in ProfileCalls, NEW i \in ProfileInstances, GetProfile(v, i)
      PROVE  ProfilesBase'
  <2>1. CASE sharedProfile # NoProfile
    <3> DEFINE r == [NoVisit EXCEPT !.at = "keep", !.on = i, !.entry = sharedProfile]
    <3>1. r \in VisitType /\ Fits(r) /\ RobsKnown(r, userLinks)
      BY <1>0, <2>1, NoVisitType DEF VisitType, VisitSteps, Fits, RobsKnown, NoVisit
    <3> QED BY <1>1, <1>2, <2>1, <3>1 DEF GetProfile
  <2>2. CASE sharedProfile = NoProfile
    <3> DEFINE r == [NoVisit EXCEPT !.at = "record", !.on = i]
    <3>1. r \in VisitType /\ Fits(r) /\ RobsKnown(r, userLinks)
      BY NoVisitType DEF VisitType, VisitSteps, Fits, RobsKnown, NoVisit
    <3> QED BY <1>1, <1>2, <2>2, <3>1 DEF GetProfile
  <2> QED BY <2>1, <2>2
<1>3. ASSUME NEW v \in ProfileCalls, NEW i \in ProfileInstances, DeleteProfile(v, i)
      PROVE  ProfilesBase'
  <2> DEFINE r == [NoVisit EXCEPT !.at = "commit", !.kind = "delete", !.on = i,
                                  !.mayDrop = RoleCodes]
  <2>1. r \in VisitType /\ Fits(r) /\ RobsKnown(r, userLinks)
    BY NoVisitType DEF VisitType, VisitSteps, Fits, RobsKnown, NoVisit
  <2> QED BY <1>1, <1>3, <2>1 DEF DeleteProfile
<1>4. ASSUME NEW v \in ProfileCalls, NEW i \in ProfileInstances,
             NEW wants \in [codes: SUBSET RoleCodes, named: BOOLEAN], UpdateProfile(v, i, wants)
      PROVE  ProfilesBase'
  <2> DEFINE r == [NoVisit EXCEPT !.at = "record", !.kind = "update", !.on = i,
                                  !.wants = wants]
  <2>1. r \in VisitType /\ Fits(r) /\ RobsKnown(r, userLinks)
    BY NoVisitType DEF VisitType, VisitSteps, Fits, RobsKnown, NoVisit
  <2> QED BY <1>1, <1>4, <2>1 DEF UpdateProfile
<1>5. ASSUME NEW v \in ProfileCalls, Leaves(v),
             UNCHANGED <<userRow, userLinks, enabledRoles, changed>>,
             localProfile' \in [ProfileInstances -> Entry \cup {NoProfile}],
             sharedProfile' \in Entry \cup {NoProfile}
      PROVE  ProfilesBase'
  <2>1. visit' \in [ProfileCalls -> VisitType] /\ Fitting' /\ RobberyKnown'
    BY <1>5, LeavesType
  <2> QED BY <1>0, <1>5, <2>1 DEF ProfilesTypes
<1>6. ASSUME NEW v \in ProfileCalls, ReadRecord(v) PROVE ProfilesBase'
  <2>1. CASE userRow.live
    <3> DEFINE n == IF visit[v].kind = "get" THEN userRow.version ELSE 0
               h == [visit[v].has EXCEPT !.version = n]
    <3>1. n \in RowVersions
      BY <1>0, ProfilesAssumption DEF RowVersions
    <3>2. visit[v].has \in Profile /\ visit[v].kind \in {"get", "update"}
      BY <1>0, <1>6 DEF ReadRecord, Fits
    <3>3. h \in Profile
      BY <3>1, <3>2 DEF Profile
    <3>4. visit' = [visit EXCEPT ![v] = [visit[v] EXCEPT !.at = "roles", !.has = h]]
      <4>1. visit \in [ProfileCalls -> VisitType]
        BY <1>0
      <4>2. visit' = [visit EXCEPT ![v].at = "roles", ![v].has.version = n]
        BY <1>6, <2>1 DEF ReadRecord
      <4> HIDE DEF n
      <4> QED BY <4>1, <4>2 DEF VisitType
    <3> HIDE DEF h
    <3> DEFINE r == [visit[v] EXCEPT !.at = "roles", !.has = h]
    <3>5. r \in VisitType /\ r.at = "roles" /\ r.kind = visit[v].kind /\ r.has \in Profile
      <4>1. visit[v] \in VisitType
        BY <1>0
      <4>2. r \in VisitType
        BY <3>3, <4>1 DEF VisitType, VisitSteps
      <4>3. r.at = "roles" /\ r.kind = visit[v].kind /\ r.has = h
        BY <4>1 DEF VisitType
      <4> QED BY <3>3, <4>2, <4>3
    <3>6. Fits(r) /\ RobsKnown(r, userLinks)
      BY <3>2, <3>5 DEF Fits, RobsKnown
    <3> QED BY <1>1, <1>6, <3>4, <3>5, <3>6 DEF ReadRecord
  <2>2. CASE ~userRow.live
    <3>1. Leaves(v) /\ UNCHANGED <<userRow, userLinks, enabledRoles, localProfile,
                                   sharedProfile, changed>>
      BY <1>6, <2>2 DEF ReadRecord
    <3>2. /\ localProfile' \in [ProfileInstances -> Entry \cup {NoProfile}]
          /\ sharedProfile' \in Entry \cup {NoProfile}
      BY <1>0, <3>1
    <3> QED BY <1>5, <3>1, <3>2
  <2> QED BY <2>1, <2>2
<1>7. ASSUME NEW v \in ProfileCalls, ReadRoles(v) PROVE ProfilesBase'
  <2> DEFINE codes == userLinks \cap enabledRoles
             known == [visit[v] EXCEPT !.has = IF @ = Overtaken THEN @
                                               ELSE [@ EXCEPT !.roles = codes]]
  <2>0. visit[v].at = "roles" /\ codes \in SUBSET RoleCodes
    BY <1>0, <1>7 DEF ReadRoles
  <2>1. CASE visit[v].kind = "get"
    <3>1. visit' = [visit EXCEPT ![v] = [known EXCEPT !.at = "store"]]
      BY <1>7, <2>1 DEF ReadRoles
    <3>2. known \in VisitType /\ known.kind = "get"
      BY <1>0, <2>0, <2>1 DEF VisitType, Profile
    <3> HIDE DEF known
    <3> DEFINE r == [known EXCEPT !.at = "store"]
    <3>3. r \in VisitType /\ r.at = "store" /\ r.kind = "get"
      BY <3>2 DEF VisitType, VisitSteps
    <3>4. Fits(r) /\ RobsKnown(r, userLinks)
      BY <3>3 DEF Fits, RobsKnown
    <3> QED BY <1>1, <1>7, <3>1, <3>3, <3>4 DEF ReadRoles
  <2>2. CASE visit[v].kind # "get"
    <3>1. visit[v].kind = "update" /\ visit[v].has \in Profile
      BY <1>0, <2>0, <2>2 DEF Fits
    <3>2. /\ known \in VisitType /\ known.kind = "update"
          /\ known.has \in Profile /\ known.has.roles = codes
      <4> DEFINE p == [visit[v].has EXCEPT !.roles = codes]
      <4>1. p \in Profile /\ p.roles = codes
        BY <2>0, <3>1 DEF Profile
      <4>2. known = [visit[v] EXCEPT !.has = p]
        BY <3>1, ProfilesAssumption
      <4>3. visit[v] \in VisitType
        BY <1>0
      <4> HIDE DEF known, p, codes
      <4> QED BY <3>1, <4>1, <4>2, <4>3 DEF VisitType
    <3>3. CASE visit[v].wants.named
      <4>1. visit' = [visit EXCEPT ![v] =
                        [known EXCEPT !.at = "commit", !.has.roles = visit[v].wants.codes,
                                      !.wants = NoCodes, !.mayDrop = RoleCodes]]
        BY <1>7, <2>2, <3>3 DEF ReadRoles
      <4>2. UNCHANGED <<userRow, userLinks, enabledRoles, localProfile, sharedProfile, changed>>
        BY <1>7 DEF ReadRoles
      <4>3. visit[v].wants.codes \in SUBSET RoleCodes
        BY <1>0 DEF VisitType
      <4> HIDE DEF known
      <4> DEFINE h == [known.has EXCEPT !.roles = visit[v].wants.codes]
                 r == [known EXCEPT !.at = "commit", !.has = h, !.wants = NoCodes,
                                    !.mayDrop = RoleCodes]
      <4>4. h \in Profile
        BY <3>2, <4>3 DEF Profile
      <4>5. visit' = [visit EXCEPT ![v] = r]
        BY <3>2, <4>1 DEF VisitType
      <4> HIDE DEF h
      <4>6. NoCodes \in [codes: SUBSET RoleCodes, named: BOOLEAN]
        BY DEF NoCodes
      <4>7. r \in VisitType
        BY <3>2, <4>4, <4>6 DEF VisitType, VisitSteps
      <4>8. r.at = "commit" /\ r.kind = "update" /\ r.has \in Profile /\ r.mayDrop = RoleCodes
        BY <3>2, <4>4 DEF VisitType
      <4> HIDE DEF r
      <4>9. Fits(r) /\ RobsKnown(r, userLinks)
        BY <1>0, <4>8 DEF Fits, RobsKnown
      <4> QED BY <1>1, <4>2, <4>5, <4>7, <4>9
    <3>4. CASE ~visit[v].wants.named
      <4> DEFINE r == [known EXCEPT !.at = "commit", !.mayDrop = userLinks \ enabledRoles]
      <4>1. visit' = [visit EXCEPT ![v] = r]
        BY <1>7, <2>2, <3>4 DEF ReadRoles
      <4>2. UNCHANGED <<userRow, userLinks, enabledRoles, localProfile, sharedProfile, changed>>
        BY <1>7 DEF ReadRoles
      <4> HIDE DEF known
      <4>3. userLinks \ enabledRoles \in SUBSET RoleCodes
        BY <1>0
      <4>4. r \in VisitType
        BY <3>2, <4>3 DEF VisitType, VisitSteps
      <4>5. /\ r.at = "commit" /\ r.kind = "update" /\ r.has = known.has
            /\ r.mayDrop = userLinks \ enabledRoles
        BY <3>2 DEF VisitType
      <4> HIDE DEF r
      <4>6. Fits(r)
        BY <3>2, <4>5 DEF Fits
      <4>7. RobsKnown(r, userLinks)
        BY <3>2, <4>5 DEF RobsKnown
      <4> QED BY <1>1, <4>1, <4>2, <4>4, <4>6, <4>7
    <3> QED BY <3>3, <3>4
  <2> QED BY <2>1, <2>2
<1>8. ASSUME NEW v \in ProfileCalls, StoreProfile(v) PROVE ProfilesBase'
  <2>1. visit[v].has \in Profile \cup {Overtaken}
    BY <1>0 DEF VisitType
  <2>2. \A ttl \in Nat \ {0} : [is |-> visit[v].has, left |-> ttl, age |-> 0] \in Entry
    BY <2>1 DEF Entry
  <2>3. /\ localProfile' \in [ProfileInstances -> Entry \cup {NoProfile}]
        /\ sharedProfile' \in Entry \cup {NoProfile}
    BY <1>0, <1>8, <2>2, ProfilesAssumption DEF StoreProfile
  <2> QED BY <1>5, <1>8, <2>3 DEF StoreProfile
<1>9. ASSUME NEW v \in ProfileCalls, KeepLocal(v) PROVE ProfilesBase'
  <2>1. visit[v].entry \in Entry
    BY <1>0, <1>9 DEF KeepLocal, Fits
  <2>2. Filled(visit[v].entry) \in Entry
    BY <2>1, ProfilesAssumption DEF Filled, Entry
  <2>3. localProfile' \in [ProfileInstances -> Entry \cup {NoProfile}]
    BY <1>0, <1>9, <2>2, OutdatedType DEF KeepLocal
  <2>4. sharedProfile' \in Entry \cup {NoProfile}
    BY <1>0, <1>9 DEF KeepLocal
  <2> QED BY <1>5, <1>9, <2>3, <2>4 DEF KeepLocal
<1>10. ASSUME NEW v \in ProfileCalls, CommitProfile(v) PROVE ProfilesBase'
  <2>0. /\ visit[v].at = "commit" /\ visit[v].kind \in {"update", "delete"}
        /\ visit[v].has \in Profile /\ enabledRoles' = enabledRoles
        /\ visit[v].on \in ProfileInstances \cup {NoProfile}
    BY <1>0, <1>10 DEF CommitProfile, Fits, VisitType
  <2>1. CASE ~userRow.live
    <3> DEFINE r == [NoVisit EXCEPT !.at = "forget local", !.kind = "update",
                                    !.on = visit[v].on]
    <3>1. r \in VisitType /\ r.at = "forget local"
      BY <2>0, NoVisitType DEF VisitType, VisitSteps, NoVisit
    <3>2. Fits(r) /\ RobsKnown(r, userLinks)
      BY <3>1 DEF Fits, RobsKnown
    <3> QED BY <1>1, <1>10, <2>1, <3>1, <3>2 DEF CommitProfile
  <2>2. CASE userRow.live /\ visit[v].kind = "update" /\ ~CodesValid(visit[v].has.roles)
    <3>1. Leaves(v) /\ UNCHANGED <<userRow, userLinks, enabledRoles, localProfile,
                                   sharedProfile, changed>>
      BY <1>10, <2>2 DEF CommitProfile
    <3>2. /\ localProfile' \in [ProfileInstances -> Entry \cup {NoProfile}]
          /\ sharedProfile' \in Entry \cup {NoProfile}
      BY <1>0, <3>1
    <3> QED BY <1>5, <3>1, <3>2
  <2>3. CASE userRow.live /\ ~(visit[v].kind = "update" /\ ~CodesValid(visit[v].has.roles))
    <3>1. /\ changed < MaxProfileChanges /\ changed' = changed + 1
          /\ userRow' = [live |-> visit[v].kind = "update", version |-> userRow.version + 1]
          /\ userLinks' = visit[v].has.roles \cap enabledRoles
          /\ Overtakes(v)
      BY <1>10, <2>3 DEF CommitProfile
    <3>2. userLinks' \in SUBSET RoleCodes
      BY <1>0, <3>1
    <3>3. /\ changed' \in 0..MaxProfileChanges /\ userRow.version + 1 \in RowVersions
          /\ userRow'.version <= changed'
      BY <1>0, <3>1, ProfilesAssumption DEF RowVersions
    <3>4. (visit[v].kind = "update") \in BOOLEAN
      OBVIOUS
    <3>5. userRow' \in [live: BOOLEAN, version: RowVersions]
      BY <3>1, <3>3, <3>4
    <3>6. /\ localProfile' \in [ProfileInstances -> Entry \cup {NoProfile}]
          /\ sharedProfile' \in Entry \cup {NoProfile}
          /\ visit' \in [ProfileCalls -> VisitType] /\ Fitting' /\ RobberyKnown'
      BY <2>0, <3>1, <3>2, OvertakesType
    <3> QED BY <1>0, <2>0, <3>2, <3>3, <3>5, <3>6 DEF ProfilesTypes
  <2> QED BY <2>1, <2>2, <2>3
<1>11. ASSUME NEW v \in ProfileCalls, ForgetLocal(v) PROVE ProfilesBase'
  <2> DEFINE r == [visit[v] EXCEPT !.at = "forget shared"]
  <2>0. visit[v] \in VisitType
    BY <1>0
  <2>1. r \in VisitType /\ r.at = "forget shared"
    BY <2>0 DEF VisitType, VisitSteps
  <2>2. Fits(r) /\ RobsKnown(r, userLinks')
    BY <2>1 DEF Fits, RobsKnown
  <2>3. /\ visit' = [visit EXCEPT ![v] = r] /\ userLinks' = userLinks
        /\ localProfile' = [localProfile EXCEPT ![visit[v].on] = NoProfile]
        /\ UNCHANGED <<userRow, enabledRoles, sharedProfile, changed>>
    BY <1>11 DEF ForgetLocal, Steps
  <2>4. visit' \in [ProfileCalls -> VisitType] /\ Fitting' /\ RobberyKnown'
    BY <2>1, <2>2, <2>3, OwnStep
  <2>5. localProfile' \in [ProfileInstances -> Entry \cup {NoProfile}]
    BY <1>0, <2>3
  <2> QED BY <1>0, <2>3, <2>4, <2>5 DEF ProfilesTypes
\* A call is over after its commit, whether it removed all entries or not.
<1>12. ASSUME NEW v \in ProfileCalls, UNCHANGED <<userRow, userLinks, enabledRoles, changed>>,
              localProfile' \in [ProfileInstances -> Entry \cup {NoProfile}],
              sharedProfile' \in Entry \cup {NoProfile},
              visit' = [w \in ProfileCalls |->
                 IF w = v THEN NoVisit
                 ELSE IF visit[w].at = "keep" THEN [visit[w] EXCEPT !.entry = Unreached(@)]
                 ELSE visit[w]]
       PROVE  ProfilesBase'
  <2>1. ASSUME NEW w \in ProfileCalls
        PROVE  visit'[w] \in VisitType /\ Fits(visit'[w]) /\ RobsKnown(visit'[w], userLinks)
    <3>1. CASE w = v
      BY <1>12, <3>1, NoVisitType DEF Fits, RobsKnown, NoVisit
    <3>2. CASE w # v /\ visit[w].at = "keep"
      <4>1. visit[w].entry \in Entry /\ Unreached(visit[w].entry) \in Entry
        BY <1>0, <3>2, OutdatedType DEF Fits
      <4>2. visit'[w] = [visit[w] EXCEPT !.entry = Unreached(visit[w].entry)]
        BY <1>12, <3>2
      <4>3. visit'[w] \in VisitType /\ visit'[w].at = "keep" /\ visit'[w].entry \in Entry
        BY <1>0, <3>2, <4>1, <4>2 DEF VisitType
      <4> QED BY <4>3 DEF Fits, RobsKnown
    <3>3. CASE w # v /\ visit[w].at # "keep"
      BY <1>0, <1>12, <3>3
    <3> QED BY <3>1, <3>2, <3>3
  <2>2. visit' \in [ProfileCalls -> VisitType]
    BY <1>12, <2>1
  <2>3. ProfilesTypes'
    BY <1>0, <1>12, <2>2 DEF ProfilesTypes
  <2>4. Fitting' /\ RobberyKnown'
    BY <1>12, <2>1 DEF Fitting, RobberyKnown
  <2> QED BY <2>3, <2>4
<1>13. ASSUME NEW v \in ProfileCalls, ForgetShared(v) PROVE ProfilesBase'
  <2>1. /\ localProfile' \in [ProfileInstances -> Entry \cup {NoProfile}]
        /\ sharedProfile' \in Entry \cup {NoProfile}
    BY <1>0, <1>13, OutdatedType DEF ForgetShared, Removed
  <2> QED BY <1>12, <1>13, <2>1 DEF ForgetShared
<1>14. ASSUME NEW v \in ProfileCalls, Abandon(v) PROVE ProfilesBase'
  <2>1. CASE visit[v].at \in {"forget local", "forget shared"}
    <3>1. /\ sharedProfile' = Unreached(sharedProfile)
          /\ localProfile' = [i \in ProfileInstances |-> Unreached(localProfile[i])]
          /\ visit' = [w \in ProfileCalls |->
               IF w = v THEN NoVisit
               ELSE IF visit[w].at = "keep" THEN [visit[w] EXCEPT !.entry = Unreached(@)]
               ELSE visit[w]]
          /\ UNCHANGED <<userRow, userLinks, enabledRoles, changed>>
      BY <1>14, <2>1 DEF Abandon
    <3>2. \A i \in ProfileInstances : Unreached(localProfile[i]) \in Entry \cup {NoProfile}
      BY <1>0, OutdatedType
    <3>3. /\ localProfile' \in [ProfileInstances -> Entry \cup {NoProfile}]
          /\ sharedProfile' \in Entry \cup {NoProfile}
      BY <1>0, <3>1, <3>2, OutdatedType
    <3> QED BY <1>12, <3>1, <3>3
  <2>2. CASE visit[v].at \notin {"forget local", "forget shared"}
    <3>1. Leaves(v) /\ UNCHANGED <<userRow, userLinks, enabledRoles, localProfile,
                                   sharedProfile, changed>>
      BY <1>14, <2>2 DEF Abandon
    <3>2. /\ localProfile' \in [ProfileInstances -> Entry \cup {NoProfile}]
          /\ sharedProfile' \in Entry \cup {NoProfile}
      BY <1>0, <3>1
    <3> QED BY <1>5, <3>1, <3>2
  <2> QED BY <2>1, <2>2
<1>15. ASSUME userLinks' \in SUBSET RoleCodes, enabledRoles' \in SUBSET RoleCodes,
              Overtakes(NoProfile), changed < MaxProfileChanges, changed' = changed + 1,
              userRow' = userRow
       PROVE  ProfilesBase'
  <2>1. NoProfile \in ProfileCalls => visit[NoProfile].on \in ProfileInstances \cup {NoProfile}
    BY <1>0 DEF VisitType
  <2>2. /\ localProfile' \in [ProfileInstances -> Entry \cup {NoProfile}]
        /\ sharedProfile' \in Entry \cup {NoProfile}
        /\ visit' \in [ProfileCalls -> VisitType] /\ Fitting' /\ RobberyKnown'
    BY <1>15, <2>1, OvertakesType
  <2>3. changed' \in 0..MaxProfileChanges /\ userRow'.version <= changed'
    BY <1>0, <1>15, ProfilesAssumption DEF RowVersions
  <2> QED BY <1>0, <1>15, <2>2, <2>3 DEF ProfilesTypes
<1>16. ASSUME NEW codes \in SUBSET RoleCodes, ReplaceLinks(codes) PROVE ProfilesBase'
  BY <1>0, <1>15, <1>16 DEF ReplaceLinks
<1>17. ASSUME NEW role \in RoleCodes, SwitchRole(role) PROVE ProfilesBase'
  BY <1>0, <1>15, <1>17 DEF SwitchRole
<1>18. CASE ProfileTick
  <2>1. \A e \in Entry \cup {NoProfile} : Aged(e) \in Entry \cup {NoProfile}
    BY AgedType
  <2>2. /\ localProfile' \in [ProfileInstances -> Entry \cup {NoProfile}]
        /\ sharedProfile' \in Entry \cup {NoProfile}
    BY <1>0, <1>18, <2>1 DEF ProfileTick
  <2>3. UNCHANGED <<userRow, userLinks, enabledRoles, visit, changed>>
    BY <1>18 DEF ProfileTick
  <2>4. ProfilesTypes'
    BY <1>0, <2>2, <2>3 DEF ProfilesTypes
  <2> QED BY <2>3, <2>4 DEF Fitting, RobberyKnown
<1>19. CASE UNCHANGED profileVars
  BY <1>19 DEF profileVars, ProfilesTypes, Fitting, RobberyKnown
<1>20. ASSUME NEW v \in ProfileCalls, ProfileArrives(v) PROVE ProfilesBase'
  <2>1. /\ NoCodes \in [codes: SUBSET RoleCodes, named: BOOLEAN]
        /\ \A codes \in SUBSET RoleCodes :
             [codes |-> codes, named |-> TRUE] \in [codes: SUBSET RoleCodes, named: BOOLEAN]
    BY DEF NoCodes
  <2> QED BY <1>2, <1>3, <1>4, <1>20, <2>1 DEF ProfileArrives
<1> QED
  BY <1>6, <1>7, <1>8, <1>9, <1>10, <1>11, <1>13, <1>14, <1>16, <1>17, <1>18, <1>19, <1>20
     DEF ProfilesNext

LEMMA ProfilesBaseInit == ProfilesInit => ProfilesBase
<1> SUFFICES ASSUME ProfilesInit PROVE ProfilesBase
  OBVIOUS
<1>1. ProfilesTypes
  BY NoVisitType, ProfilesAssumption DEF ProfilesInit, ProfilesTypes, RowVersions
<1>2. \A v \in ProfileCalls : visit[v].at = "idle"
  BY DEF ProfilesInit, NoVisit
<1> QED BY <1>1, <1>2 DEF ProfilesBase, Fitting, Fits, RobberyKnown, RobsKnown

\* The rows, the links, the entries and the calls have the types they should.
THEOREM ProfilesTypesHold == ProfilesSpec => []ProfilesTypeOK
<1>1. ProfilesSpec => []ProfilesBase
  BY ProfilesBaseInit, ProfilesBaseStep, PTL DEF ProfilesSpec
<1>2. ProfilesBase => ProfilesTypeOK
  BY DEF ProfilesBase, ProfilesTypes, ProfilesTypeOK, VisitType
<1> QED BY <1>1, <1>2, PTL

LEMMA ProfilesInvariance == ProfilesSpec => []ProfilesBase
BY ProfilesBaseInit, ProfilesBaseStep, PTL DEF ProfilesSpec

\* However many roles and calls there are, a user loses a role only to a call that
\* was told to take it or that could not know that the user had it.
THEOREM RolesAreNotLost == ProfilesSpec => RolesLostHaveCause
<1> DEFINE Kept == \A role \in userLinks \ userLinks' :
                     \/ \E v \in ProfileCalls : visit[v].at = "commit" /\ role \in visit[v].mayDrop
                     \/ userRow' = userRow
<1>1. ProfilesBase /\ [ProfilesNext]_profileVars => [Kept]_profileVars
  <2> SUFFICES ASSUME ProfilesBase, ProfilesNext PROVE Kept
    OBVIOUS
  <2>1. CASE userLinks' = userLinks \/ userRow' = userRow
    BY <2>1
  <2>2. ASSUME NEW v \in ProfileCalls, CommitProfile(v), userLinks' # userLinks PROVE Kept
    <3>1. /\ visit[v].at = "commit" /\ visit[v].kind \in {"update", "delete"}
          /\ userLinks' = visit[v].has.roles \cap enabledRoles
          /\ visit[v].kind = "update" => CodesValid(visit[v].has.roles)
      BY <2>2 DEF CommitProfile, ProfilesBase, Fitting, Fits
    <3>2. userLinks \ userLinks' \subseteq visit[v].mayDrop
      BY <3>1 DEF ProfilesBase, ProfilesTypes, RobberyKnown, RobsKnown, CodesValid
    <3> QED BY <3>1, <3>2
  <2>3. \/ userLinks' = userLinks \/ userRow' = userRow
        \/ \E v \in ProfileCalls : CommitProfile(v) /\ userLinks' # userLinks
    BY DEF ProfilesNext, ProfileArrives, GetProfile, DeleteProfile, UpdateProfile,
       ReadRecord, ReadRoles, StoreProfile, KeepLocal, ForgetLocal, ForgetShared, Abandon,
       ReplaceLinks, SwitchRole, ProfileTick
  <2> QED BY <2>1, <2>2, <2>3
<1> QED
  BY <1>1, ProfilesInvariance, PTL DEF ProfilesSpec, RolesLostHaveCause

-----------------------------------------------------------------------------
\* What there is of an entry's term, in Redis, locally and on the way.
AgedAtMost(e, most) == e # NoProfile => e.age + e.left <= most

ProfileAges ==
    /\ \A i \in ProfileInstances :
         AgedAtMost(localProfile[i], ProfileRemoteTTL + ProfileLocalTTL - 1)
    /\ AgedAtMost(sharedProfile, ProfileRemoteTTL)
    /\ \A v \in ProfileCalls :
         visit[v].at = "keep" => AgedAtMost(visit[v].entry, ProfileRemoteTTL)

LEMMA OutdatedAge ==
    ASSUME NEW e \in Entry \cup {NoProfile}, NEW most, AgedAtMost(e, most)
    PROVE  AgedAtMost(Outdated(e), most) /\ AgedAtMost(Unreached(e), most)
BY DEF Outdated, Unreached, Entry, AgedAtMost

\* What comes from Redis has at least one tick of its term left there.
LEMMA FilledAge ==
    ASSUME NEW e \in Entry, AgedAtMost(e, ProfileRemoteTTL)
    PROVE  AgedAtMost(Filled(e), ProfileRemoteTTL + ProfileLocalTTL - 1) /\ Filled(e) \in Entry
<1>1. /\ e.age \in Nat /\ e.left \in Nat \ {0} /\ Filled(e).age = e.age
      /\ Filled(e).left = ProfileLocalTTL /\ Filled(e) \in Entry
  BY ProfilesAssumption DEF Entry, Filled
<1> QED BY <1>1, ProfilesAssumption DEF AgedAtMost

\* What all the entries are, after a step that moves none and outdates some.
LEMMA ProfileAgesStep ==
    ASSUME ProfilesBase, ProfileAges, [ProfilesNext]_profileVars PROVE ProfileAges'
<1>0. /\ \A v \in ProfileCalls : visit[v] \in VisitType /\ Fits(visit[v])
      /\ localProfile \in [ProfileInstances -> Entry \cup {NoProfile}]
      /\ sharedProfile \in Entry \cup {NoProfile} /\ visit \in [ProfileCalls -> VisitType]
      /\ ProfileRemoteTTL \in Nat \ {0} /\ ProfileLocalTTL \in Nat \ {0}
  BY ProfilesAssumption DEF ProfilesBase, ProfilesTypes, Fitting
<1>1. ASSUME \A i \in ProfileInstances : localProfile'[i] \in
                 {localProfile[i], Outdated(localProfile[i]), Unreached(localProfile[i]),
                  NoProfile},
             sharedProfile' \in {sharedProfile, Outdated(sharedProfile),
                                 Unreached(sharedProfile), NoProfile},
             \A w \in ProfileCalls : visit'[w].at = "keep" =>
                 \/ visit'[w].entry = sharedProfile
                 \/ /\ visit[w].at = "keep"
                    /\ visit'[w].entry \in {visit[w].entry, Outdated(visit[w].entry),
                                            Unreached(visit[w].entry)}
      PROVE  ProfileAges'
  <2>0. \A most : AgedAtMost(NoProfile, most)
    BY DEF AgedAtMost
  <2>1. ASSUME NEW i \in ProfileInstances
        PROVE  AgedAtMost(localProfile'[i], ProfileRemoteTTL + ProfileLocalTTL - 1)
    <3>1. /\ localProfile[i] \in Entry \cup {NoProfile}
          /\ AgedAtMost(localProfile[i], ProfileRemoteTTL + ProfileLocalTTL - 1)
      BY <1>0 DEF ProfileAges
    <3> QED BY <1>1, <2>0, <3>1, OutdatedAge
  <2>2. AgedAtMost(sharedProfile', ProfileRemoteTTL)
    <3>1. AgedAtMost(sharedProfile, ProfileRemoteTTL)
      BY DEF ProfileAges
    <3> QED BY <1>0, <1>1, <2>0, <3>1, OutdatedAge
  <2>3. ASSUME NEW w \in ProfileCalls, visit'[w].at = "keep"
        PROVE  AgedAtMost(visit'[w].entry, ProfileRemoteTTL)
    <3>1. CASE visit'[w].entry = sharedProfile
      BY <3>1 DEF ProfileAges
    <3>2. CASE visit[w].at = "keep" /\ visit'[w].entry \in
                 {visit[w].entry, Outdated(visit[w].entry), Unreached(visit[w].entry)}
      <4>1. visit[w].entry \in Entry /\ AgedAtMost(visit[w].entry, ProfileRemoteTTL)
        BY <1>0, <3>2 DEF Fits, ProfileAges
      <4> QED BY <3>2, <4>1, OutdatedAge
    <3> QED BY <1>1, <2>3, <3>1, <3>2
  <2> QED BY <2>1, <2>2, <2>3 DEF ProfileAges
<1>2. ASSUME NEW v \in ProfileCalls, ProfileArrives(v) PROVE ProfileAges'
  <2>1. localProfile' = localProfile /\ sharedProfile' = sharedProfile
    BY <1>2 DEF ProfileArrives, GetProfile, UpdateProfile, DeleteProfile
  <2>2. \A w \in ProfileCalls \ {v} : visit'[w] = visit[w]
    BY <1>0, <1>2 DEF ProfileArrives, GetProfile, UpdateProfile, DeleteProfile
  <2>3. visit'[v].at = "keep" => visit'[v].entry = sharedProfile
    <3>1. ASSUME NEW i \in ProfileInstances, GetProfile(v, i)
          PROVE  visit'[v].at = "keep" => visit'[v].entry = sharedProfile
      BY <1>0, <3>1 DEF GetProfile, NoVisit
    <3>2. ASSUME NEW i \in ProfileInstances, DeleteProfile(v, i) PROVE visit'[v].at = "commit"
      BY <1>0, <3>2 DEF DeleteProfile, NoVisit
    <3>3. ASSUME NEW i \in ProfileInstances, NEW wants, UpdateProfile(v, i, wants)
          PROVE  visit'[v].at = "record"
      BY <1>0, <3>3 DEF UpdateProfile, NoVisit
    <3>4. "commit" # "keep" /\ "record" # "keep"
      OBVIOUS
    <3> QED BY <1>2, <3>1, <3>2, <3>3, <3>4 DEF ProfileArrives
  <2> QED BY <1>1, <2>1, <2>2, <2>3
<1>3. ASSUME NEW v \in ProfileCalls,
             ReadRecord(v) \/ ReadRoles(v) \/ ForgetLocal(v)
      PROVE  ProfileAges'
  <2>1. sharedProfile' = sharedProfile
        /\ \A i \in ProfileInstances : localProfile'[i] \in {localProfile[i], NoProfile}
    BY <1>0, <1>3 DEF ReadRecord, ReadRoles, ForgetLocal
  <2>2. \A w \in ProfileCalls \ {v} : visit'[w] = visit[w]
    BY <1>0, <1>3 DEF ReadRecord, ReadRoles, ForgetLocal, Leaves, Steps
  <2>3. visit'[v].at # "keep"
    <3>1. CASE ReadRecord(v)
      BY <1>0, <3>1 DEF ReadRecord, Leaves, NoVisit, VisitType
    <3>2. CASE ReadRoles(v)
      <4> DEFINE known == [visit[v] EXCEPT !.has = IF @ = Overtaken THEN @
                                     ELSE [@ EXCEPT !.roles = userLinks \cap enabledRoles]]
      <4>1. \/ visit'[v] = [known EXCEPT !.at = "store"]
            \/ visit'[v] = [known EXCEPT !.at = "commit", !.has.roles = visit[v].wants.codes,
                                         !.wants = NoCodes, !.mayDrop = RoleCodes]
            \/ visit'[v] = [known EXCEPT !.at = "commit", !.mayDrop = userLinks \ enabledRoles]
        BY <1>0, <3>2 DEF ReadRoles
      <4> QED BY <1>0, <4>1 DEF VisitType
    <3>3. CASE ForgetLocal(v)
      BY <1>0, <3>3 DEF ForgetLocal, Steps, VisitType
    <3> QED BY <1>3, <3>1, <3>2, <3>3
  <2> QED BY <1>1, <2>1, <2>2, <2>3
<1>4. ASSUME NEW v \in ProfileCalls, StoreProfile(v) PROVE ProfileAges'
  <2> DEFINE fresh(ttl) == [is |-> visit[v].has, left |-> ttl, age |-> 0]
  <2>1. /\ localProfile' = [localProfile EXCEPT ![visit[v].on] = fresh(ProfileLocalTTL)]
        /\ sharedProfile' = fresh(ProfileRemoteTTL)
        /\ visit' = [visit EXCEPT ![v] = NoVisit]
    BY <1>4 DEF StoreProfile, Leaves
  <2>2. \A ttl \in Nat : AgedAtMost(fresh(ttl), ttl)
    BY DEF AgedAtMost
  <2>3. AgedAtMost(fresh(ProfileLocalTTL), ProfileRemoteTTL + ProfileLocalTTL - 1)
    BY <1>0 DEF AgedAtMost
  <2>4. \A w \in ProfileCalls : visit'[w].at = "keep" => visit'[w] = visit[w]
    BY <1>0, <2>1 DEF NoVisit
  <2> HIDE DEF fresh
  <2> QED BY <1>0, <2>1, <2>2, <2>3, <2>4 DEF ProfileAges
<1>5. ASSUME NEW v \in ProfileCalls, KeepLocal(v) PROVE ProfileAges'
  <2>1. visit[v].entry \in Entry /\ AgedAtMost(visit[v].entry, ProfileRemoteTTL)
    BY <1>0, <1>5 DEF KeepLocal, Fits, ProfileAges
  <2> DEFINE e == Filled(visit[v].entry)
             most == ProfileRemoteTTL + ProfileLocalTTL - 1
  <2>2. e \in Entry /\ AgedAtMost(e, most) /\ AgedAtMost(Unreached(e), most)
    BY <2>1, FilledAge, OutdatedAge
  <2>3. \A i \in ProfileInstances : localProfile'[i] \in {localProfile[i], e, Unreached(e)}
    BY <1>0, <1>5 DEF KeepLocal
  <2>4. sharedProfile' = sharedProfile /\ visit' = [visit EXCEPT ![v] = NoVisit]
    BY <1>5 DEF KeepLocal, Leaves
  <2>5. \A w \in ProfileCalls : visit'[w].at = "keep" => visit'[w] = visit[w]
    BY <1>0, <2>4 DEF NoVisit
  <2> HIDE DEF e, most
  <2>6. \A i \in ProfileInstances : AgedAtMost(localProfile[i], most)
    BY DEF ProfileAges, most
  <2>7. \A i \in ProfileInstances : AgedAtMost(localProfile'[i], most)
    BY <2>2, <2>3, <2>6
  <2> QED BY <2>4, <2>5, <2>7 DEF ProfileAges, most
<1>6. ASSUME NEW v, Overtakes(v) PROVE ProfileAges'
  <2>1. /\ \A i \in ProfileInstances :
             localProfile'[i] \in {localProfile[i], Outdated(localProfile[i])}
        /\ sharedProfile' \in {sharedProfile, Outdated(sharedProfile)}
    BY <1>6 DEF Overtakes
  <2>2. ASSUME NEW w \in ProfileCalls, visit'[w].at = "keep"
        PROVE  /\ visit[w].at = "keep"
               /\ visit'[w].entry \in {visit[w].entry, Outdated(visit[w].entry)}
    <3>1. \/ w = v /\ visit'[w] = [NoVisit EXCEPT !.at = "forget local", !.kind = "update",
                                                  !.on = visit[v].on]
          \/ visit[w].at = "keep"
             /\ visit'[w] = [visit[w] EXCEPT !.entry = Outdated(visit[w].entry)]
          \/ visit[w].at # "keep" /\ visit'[w] = [visit[w] EXCEPT !.has = Overtaken]
          \/ visit[w].at # "keep" /\ visit'[w] = [visit[w] EXCEPT !.mayDrop = RoleCodes]
          \/ visit'[w] = visit[w]
      BY <1>6 DEF Overtakes
    <3> QED BY <1>0, <2>2, <3>1 DEF VisitType, NoVisit
  <2> QED BY <1>1, <2>1, <2>2
<1>7. ASSUME NEW v \in ProfileCalls, UNCHANGED <<localProfile, sharedProfile>>, Leaves(v)
      PROVE  ProfileAges'
  <2>1. \A w \in ProfileCalls : visit'[w].at = "keep" => visit'[w] = visit[w]
    BY <1>0, <1>7 DEF Leaves, NoVisit
  <2> QED BY <1>1, <1>7, <2>1
<1>8. ASSUME NEW v \in ProfileCalls, CommitProfile(v) PROVE ProfileAges'
  <2>1. CASE ~userRow.live
    <3>1. /\ UNCHANGED <<localProfile, sharedProfile>>
          /\ visit' = [visit EXCEPT ![v] = [NoVisit EXCEPT !.at = "forget local",
                                              !.kind = "update", !.on = visit[v].on]]
      BY <1>8, <2>1 DEF CommitProfile
    <3>2. \A w \in ProfileCalls : visit'[w].at = "keep" => visit'[w] = visit[w]
      BY <1>0, <3>1 DEF NoVisit
    <3> QED BY <1>1, <3>1, <3>2
  <2>2. CASE userRow.live
    BY <1>6, <1>7, <1>8, <2>2 DEF CommitProfile
  <2> QED BY <2>1, <2>2
<1>9. ASSUME NEW v \in ProfileCalls,
             \A i \in ProfileInstances :
                 localProfile'[i] \in {localProfile[i], Unreached(localProfile[i])},
             sharedProfile' \in {Unreached(sharedProfile), NoProfile},
             visit' = [w \in ProfileCalls |->
                 IF w = v THEN NoVisit
                 ELSE IF visit[w].at = "keep" THEN [visit[w] EXCEPT !.entry = Unreached(@)]
                 ELSE visit[w]]
      PROVE  ProfileAges'
  <2>1. ASSUME NEW w \in ProfileCalls, visit'[w].at = "keep"
        PROVE  visit[w].at = "keep" /\ visit'[w].entry = Unreached(visit[w].entry)
    <3>1. \/ visit'[w] = NoVisit
          \/ visit[w].at = "keep"
             /\ visit'[w] = [visit[w] EXCEPT !.entry = Unreached(visit[w].entry)]
          \/ visit[w].at # "keep" /\ visit'[w] = visit[w]
      BY <1>9
    <3> QED BY <1>0, <2>1, <3>1 DEF VisitType, NoVisit
  <2> QED BY <1>1, <1>9, <2>1
<1>10. ASSUME NEW v \in ProfileCalls, ForgetShared(v) PROVE ProfileAges'
  BY <1>9, <1>10 DEF ForgetShared, Removed
<1>11. ASSUME NEW v \in ProfileCalls, Abandon(v) PROVE ProfileAges'
  BY <1>7, <1>9, <1>11 DEF Abandon
<1>12. CASE ProfileTick
  <2>1. ASSUME NEW e \in Entry \cup {NoProfile}, NEW most, AgedAtMost(e, most)
        PROVE  AgedAtMost(Aged(e), most)
    <3>1. CASE Aged(e) # NoProfile
      <4>1. e \in Entry /\ Aged(e).left = e.left - 1 /\ Aged(e).age = e.age + 1
        BY <3>1, AgedType
      <4>2. e.age \in Nat /\ e.left \in Nat
        BY <4>1 DEF Entry
      <4> QED BY <2>1, <4>1, <4>2, ProfilesAssumption DEF AgedAtMost
    <3> QED BY <3>1 DEF AgedAtMost
  <2>2. visit' = visit /\ sharedProfile' = Aged(sharedProfile)
        /\ \A i \in ProfileInstances : localProfile'[i] = Aged(localProfile[i])
    BY <1>12 DEF ProfileTick
  <2> QED BY <1>0, <2>1, <2>2 DEF ProfileAges
<1>13. CASE UNCHANGED profileVars
  BY <1>13 DEF profileVars, ProfileAges
<1> QED
  BY <1>2, <1>3, <1>4, <1>5, <1>6, <1>8, <1>10, <1>11, <1>12, <1>13
     DEF ProfilesNext, ReplaceLinks, SwitchRole

\* Whatever the terms of the two layers are, they add up to what a profile can be
\* answered for, less the tick that an entry has left in Redis when it is read.
THEOREM ProfilesGrowOld == ProfilesSpec => []ProfileAgeBounded
<1>1. ProfilesInit => ProfileAges
  BY DEF ProfilesInit, ProfileAges, AgedAtMost, NoVisit
<1>2. ProfilesSpec => []ProfileAges
  BY <1>1, ProfilesInvariance, ProfileAgesStep, PTL DEF ProfilesSpec
<1>3. ProfileAges => ProfileAgeBounded
  BY DEF ProfileAges, AgedAtMost, ProfileAgeBounded
<1> QED BY <1>2, <1>3, PTL

-----------------------------------------------------------------------------
\* Whose removal an entry that is not what it should be waits for.  A call that
\* removes has passed its own local layer in its second step; to the layer of
\* another instance it never comes, but it puts that to right when it is over.
GoodFor(e, live, now) == e = NoProfile \/ e.is = Overtaken \/ (live /\ e.is = now)
Forgets(r) == r.at \in {"forget local", "forget shared"}
ForgetsFor(r, i) == r.at = "forget local" \/ (r.at = "forget shared" /\ r.on # i)

\* A read that will store what it has, has what there is.
ReadsCurrent(r, row, now) ==
    /\ r.at = "roles" /\ r.kind = "get" /\ r.has # Overtaken =>
           row.live /\ r.has \in Profile /\ r.has.version = row.version
    /\ r.at = "store" /\ r.has # Overtaken => row.live /\ r.has = now

BadHaveCause ==
    /\ GoodFor(sharedProfile, userRow.live, CurrentProfile)
          \/ \E v \in ProfileCalls : Forgets(visit[v])
    /\ \A i \in ProfileInstances : GoodFor(localProfile[i], userRow.live, CurrentProfile)
          \/ \E v \in ProfileCalls : ForgetsFor(visit[v], i)
    /\ \A w \in ProfileCalls :
          visit[w].at = "keep" => GoodFor(visit[w].entry, userRow.live, CurrentProfile)
                                    \/ \E v \in ProfileCalls : Forgets(visit[v])
    /\ \A w \in ProfileCalls : ReadsCurrent(visit[w], userRow, CurrentProfile)

LEMMA OutdatedGood ==
    ASSUME NEW e \in Entry \cup {NoProfile}
    PROVE  /\ \A live, now : GoodFor(Outdated(e), live, now)
           /\ GoodFor(Unreached(e), userRow.live, CurrentProfile)
<1>1. \A live, now : GoodFor(Outdated(e), live, now)
  BY DEF Outdated, Entry, GoodFor
<1>2. CASE e # NoProfile /\ ~Shows(e)
  BY <1>1, <1>2 DEF Unreached
<1>3. CASE e = NoProfile \/ Shows(e)
  <2>1. Unreached(e) = e
    BY <1>3, Zenon DEF Unreached
  <2>2. e = NoProfile \/ (userRow.live /\ e.is = CurrentProfile)
    BY <1>3 DEF Shows
  <2>3. GoodFor(e, userRow.live, CurrentProfile)
    BY <2>2 DEF GoodFor
  <2> QED BY <1>1, <2>1, <2>3
<1> QED BY <1>1, <1>2, <1>3

\* A step that leaves the user alone, and in which nobody gives up a removal.
LEMMA CauseStep ==
    ASSUME BadHaveCause, UNCHANGED <<userRow, userLinks, enabledRoles>>,
           \A v \in ProfileCalls : Forgets(visit[v]) => Forgets(visit'[v]),
           sharedProfile' = sharedProfile
             \/ GoodFor(sharedProfile', userRow.live, CurrentProfile),
           \A i \in ProfileInstances :
               \/ /\ localProfile'[i] = localProfile[i]
                  /\ \A v \in ProfileCalls :
                         ForgetsFor(visit[v], i) => ForgetsFor(visit'[v], i)
               \/ GoodFor(localProfile'[i], userRow.live, CurrentProfile)
               \/ \E v \in ProfileCalls : ForgetsFor(visit'[v], i),
           \A w \in ProfileCalls : visit'[w].at = "keep" =>
               \/ visit'[w].entry = sharedProfile
               \/ visit[w].at = "keep" /\ visit'[w].entry = visit[w].entry,
           \A w \in ProfileCalls : ReadsCurrent(visit'[w], userRow, CurrentProfile)
    PROVE  BadHaveCause'
<1>1. CurrentProfile' = CurrentProfile /\ userRow' = userRow
  BY DEF CurrentProfile
<1>2. (\E v \in ProfileCalls : Forgets(visit[v])) => \E v \in ProfileCalls : Forgets(visit'[v])
  OBVIOUS
<1>3. GoodFor(sharedProfile', userRow.live, CurrentProfile)
        \/ \E v \in ProfileCalls : Forgets(visit'[v])
  BY <1>2 DEF BadHaveCause
<1>4. \A i \in ProfileInstances : GoodFor(localProfile'[i], userRow.live, CurrentProfile)
        \/ \E v \in ProfileCalls : ForgetsFor(visit'[v], i)
  BY DEF BadHaveCause
<1>5. \A w \in ProfileCalls :
        visit'[w].at = "keep" => GoodFor(visit'[w].entry, userRow.live, CurrentProfile)
                                   \/ \E v \in ProfileCalls : Forgets(visit'[v])
  BY <1>2 DEF BadHaveCause
<1> QED BY <1>1, <1>3, <1>4, <1>5 DEF BadHaveCause

LEMMA OvertakesCause ==
    ASSUME ProfilesBase, BadHaveCause, NEW v, Overtakes(v),
           v = NoProfile \/ v \in ProfileCalls
    PROVE  BadHaveCause'
<1>0. /\ \A w \in ProfileCalls : visit[w] \in VisitType /\ Fits(visit[w])
      /\ localProfile \in [ProfileInstances -> Entry \cup {NoProfile}]
      /\ sharedProfile \in Entry \cup {NoProfile} /\ visit \in [ProfileCalls -> VisitType]
  BY DEF ProfilesBase, ProfilesTypes, Fitting
<1>1. v # NoProfile => /\ visit'[v] = [NoVisit EXCEPT !.at = "forget local",
                                         !.kind = "update", !.on = visit[v].on]
                       /\ v \in ProfileCalls
  BY DEF Overtakes
<1>2. v # NoProfile => /\ v \in ProfileCalls /\ Forgets(visit'[v])
                       /\ \A i : ForgetsFor(visit'[v], i)
  BY <1>1 DEF Forgets, ForgetsFor, NoVisit
<1>3. GoodFor(sharedProfile', userRow'.live, CurrentProfile')
        \/ \E u \in ProfileCalls : Forgets(visit'[u])
  BY <1>0, <1>2, OutdatedGood DEF Overtakes
<1>4. \A i \in ProfileInstances : GoodFor(localProfile'[i], userRow'.live, CurrentProfile')
        \/ \E u \in ProfileCalls : ForgetsFor(visit'[u], i)
  BY <1>0, <1>2, OutdatedGood DEF Overtakes
<1>5. ASSUME NEW w \in ProfileCalls
      PROVE  /\ visit'[w].at = "keep" => GoodFor(visit'[w].entry, userRow'.live, CurrentProfile')
             /\ ReadsCurrent(visit'[w], userRow', CurrentProfile')
  <2>1. CASE w = v
    <3>1. visit'[w].at = "forget local"
      BY <2>1 DEF Overtakes, NoVisit
    <3> QED BY <3>1 DEF ReadsCurrent
  <2>2. CASE w # v /\ visit[w].at = "keep"
    <3>1. visit'[w] = [visit[w] EXCEPT !.entry = Outdated(visit[w].entry)]
      BY <2>2 DEF Overtakes
    <3>2. visit'[w].at = "keep" /\ visit'[w].entry = Outdated(visit[w].entry)
      BY <1>0, <2>2, <3>1 DEF VisitType
    <3>3. visit[w].entry \in Entry
      BY <1>0, <2>2 DEF Fits
    <3> QED BY <3>2, <3>3, OutdatedGood DEF ReadsCurrent
  <2>3. CASE w # v /\ visit[w].kind = "get" /\ visit[w].at \in {"roles", "store"}
    <3>1. visit'[w] = [visit[w] EXCEPT !.has = Overtaken]
      BY <2>3 DEF Overtakes
    <3>2. visit'[w].at = visit[w].at /\ visit'[w].has = Overtaken
      BY <1>0, <3>1 DEF VisitType
    <3> QED BY <2>3, <3>2 DEF ReadsCurrent
  <2>4. CASE w # v /\ visit[w].at # "keep"
             /\ ~(visit[w].kind = "get" /\ visit[w].at \in {"roles", "store"})
    <3>1. \/ visit'[w] = visit[w]
          \/ visit'[w] = [visit[w] EXCEPT !.mayDrop = RoleCodes]
      BY <2>4 DEF Overtakes
    <3>2. visit'[w].at = visit[w].at /\ visit'[w].kind = visit[w].kind
      BY <1>0, <3>1 DEF VisitType
    <3>3. visit[w].at = "store" => visit[w].kind = "get"
      BY <1>0 DEF Fits
    <3> QED BY <2>4, <3>2, <3>3 DEF ReadsCurrent
  <2> QED BY <2>1, <2>2, <2>3, <2>4
<1>6. /\ \A w \in ProfileCalls : visit'[w].at = "keep" =>
              GoodFor(visit'[w].entry, userRow'.live, CurrentProfile')
                \/ \E u \in ProfileCalls : Forgets(visit'[u])
      /\ \A w \in ProfileCalls : ReadsCurrent(visit'[w], userRow', CurrentProfile')
  BY <1>5
<1> QED BY <1>3, <1>4, <1>6 DEF BadHaveCause

\* What a call leaves when it is over after its commit: nothing that nobody will
\* see to, except where it has been itself.
LEMMA LeavingCause ==
    ASSUME ProfilesBase, BadHaveCause, NEW v \in ProfileCalls,
           UNCHANGED <<userRow, userLinks, enabledRoles>>,
           sharedProfile' = NoProfile \/ sharedProfile' = Unreached(sharedProfile),
           \A i \in ProfileInstances :
               \/ localProfile'[i] = Unreached(localProfile[i])
               \/ localProfile'[i] = localProfile[i] /\ ~ForgetsFor(visit[v], i),
           visit' = [w \in ProfileCalls |->
                 IF w = v THEN NoVisit
                 ELSE IF visit[w].at = "keep" THEN [visit[w] EXCEPT !.entry = Unreached(@)]
                 ELSE visit[w]]
    PROVE  BadHaveCause'
<1>0. /\ \A w \in ProfileCalls : visit[w] \in VisitType /\ Fits(visit[w])
      /\ localProfile \in [ProfileInstances -> Entry \cup {NoProfile}]
      /\ sharedProfile \in Entry \cup {NoProfile}
  BY DEF ProfilesBase, ProfilesTypes, Fitting
<1>1. CurrentProfile' = CurrentProfile /\ userRow' = userRow
  BY DEF CurrentProfile
<1>2. GoodFor(sharedProfile', userRow.live, CurrentProfile)
  BY <1>0, OutdatedGood DEF GoodFor
<1>3. ASSUME NEW i \in ProfileInstances
      PROVE  GoodFor(localProfile'[i], userRow.live, CurrentProfile)
               \/ \E u \in ProfileCalls : ForgetsFor(visit'[u], i)
  <2>1. CASE localProfile'[i] = Unreached(localProfile[i])
    BY <1>0, <2>1, OutdatedGood
  <2>2. CASE localProfile'[i] = localProfile[i] /\ ~ForgetsFor(visit[v], i)
    <3>1. \A u \in ProfileCalls : ForgetsFor(visit[u], i) => visit'[u] = visit[u]
      BY <2>2 DEF ForgetsFor
    <3> QED BY <2>2, <3>1 DEF BadHaveCause
  <2> QED BY <2>1, <2>2
<1>4. ASSUME NEW w \in ProfileCalls
      PROVE  /\ visit'[w].at = "keep" => GoodFor(visit'[w].entry, userRow.live, CurrentProfile)
             /\ ReadsCurrent(visit'[w], userRow, CurrentProfile)
  <2>1. CASE w = v
    BY <2>1 DEF NoVisit, ReadsCurrent
  <2>2. CASE w # v /\ visit[w].at = "keep"
    <3>1. visit'[w] = [visit[w] EXCEPT !.entry = Unreached(visit[w].entry)]
      BY <2>2
    <3>2. visit'[w].at = "keep" /\ visit'[w].entry = Unreached(visit[w].entry)
          /\ visit[w].entry \in Entry
      BY <1>0, <2>2, <3>1 DEF VisitType, Fits
    <3> QED BY <3>2, OutdatedGood DEF ReadsCurrent
  <2>3. CASE w # v /\ visit[w].at # "keep"
    BY <2>3 DEF BadHaveCause
  <2> QED BY <2>1, <2>2, <2>3
<1> QED BY <1>1, <1>2, <1>3, <1>4 DEF BadHaveCause

LEMMA BadHaveCauseStep ==
    ASSUME ProfilesBase, BadHaveCause, [ProfilesNext]_profileVars PROVE BadHaveCause'
<1>0. /\ \A w \in ProfileCalls : /\ visit[w] \in VisitType /\ Fits(visit[w])
                                 /\ ReadsCurrent(visit[w], userRow, CurrentProfile)
      /\ userRow \in [live: BOOLEAN, version: RowVersions] /\ enabledRoles \in SUBSET RoleCodes
      /\ userLinks \in SUBSET RoleCodes
      /\ localProfile \in [ProfileInstances -> Entry \cup {NoProfile}]
      /\ sharedProfile \in Entry \cup {NoProfile} /\ visit \in [ProfileCalls -> VisitType]
  BY DEF ProfilesBase, ProfilesTypes, Fitting, BadHaveCause
\* A call goes on, or is over, before it has committed anything.
<1>1. ASSUME NEW v \in ProfileCalls, NEW r, visit' = [visit EXCEPT ![v] = r],
             UNCHANGED <<userRow, userLinks, enabledRoles, localProfile, sharedProfile>>,
             ~Forgets(visit[v]), ReadsCurrent(r, userRow, CurrentProfile),
             r.at = "keep" => r.entry = sharedProfile
      PROVE  BadHaveCause'
  <2>1. visit'[v] = r /\ \A w \in ProfileCalls \ {v} : visit'[w] = visit[w]
    BY <1>0, <1>1
  <2>2. \A w \in ProfileCalls : Forgets(visit[w]) => Forgets(visit'[w])
    BY <1>1, <2>1
  <2>3. \A w \in ProfileCalls, i \in ProfileInstances :
          ForgetsFor(visit[w], i) => ForgetsFor(visit'[w], i)
    BY <1>1, <2>1 DEF Forgets, ForgetsFor
  <2>4. \A w \in ProfileCalls : ReadsCurrent(visit'[w], userRow, CurrentProfile)
    BY <1>0, <1>1, <2>1
  <2>5. \A w \in ProfileCalls : visit'[w].at = "keep" =>
               \/ visit'[w].entry = sharedProfile
               \/ visit[w].at = "keep" /\ visit'[w].entry = visit[w].entry
    BY <1>1, <2>1
  <2> QED BY <1>1, <2>2, <2>3, <2>4, <2>5, CauseStep
<1>2. ASSUME NEW v \in ProfileCalls, ProfileArrives(v) PROVE BadHaveCause'
  <2>1. visit[v].at = "idle" /\ ~Forgets(visit[v])
    BY <1>2 DEF ProfileArrives, GetProfile, DeleteProfile, UpdateProfile, Forgets
  <2>2. ASSUME NEW i \in ProfileInstances, GetProfile(v, i) PROVE BadHaveCause'
    <3> DEFINE r == IF sharedProfile # NoProfile
                    THEN [NoVisit EXCEPT !.at = "keep", !.on = i, !.entry = sharedProfile]
                    ELSE [NoVisit EXCEPT !.at = "record", !.on = i]
    <3>1. ReadsCurrent(r, userRow, CurrentProfile) /\ (r.at = "keep" => r.entry = sharedProfile)
      BY DEF ReadsCurrent, NoVisit
    <3>2. visit' = [visit EXCEPT ![v] = r]
      BY <2>2 DEF GetProfile
    <3> QED BY <1>1, <2>1, <2>2, <3>1, <3>2 DEF GetProfile
  <2>3. ASSUME NEW i \in ProfileInstances, DeleteProfile(v, i) PROVE BadHaveCause'
    <3> DEFINE r == [NoVisit EXCEPT !.at = "commit", !.kind = "delete", !.on = i,
                                    !.mayDrop = RoleCodes]
    <3>1. ReadsCurrent(r, userRow, CurrentProfile) /\ r.at # "keep"
      BY DEF ReadsCurrent, NoVisit
    <3> QED BY <1>1, <2>1, <2>3, <3>1 DEF DeleteProfile
  <2>4. ASSUME NEW i \in ProfileInstances, NEW wants, UpdateProfile(v, i, wants)
        PROVE  BadHaveCause'
    <3> DEFINE r == [NoVisit EXCEPT !.at = "record", !.kind = "update", !.on = i,
                                    !.wants = wants]
    <3>1. ReadsCurrent(r, userRow, CurrentProfile) /\ r.at # "keep"
      BY DEF ReadsCurrent, NoVisit
    <3> QED BY <1>1, <2>1, <2>4, <3>1 DEF UpdateProfile
  <2> QED BY <1>2, <2>2, <2>3, <2>4 DEF ProfileArrives
<1>3. ReadsCurrent(NoVisit, userRow, CurrentProfile) /\ NoVisit.at # "keep"
  BY DEF ReadsCurrent, NoVisit
<1>4. ASSUME NEW v \in ProfileCalls, ~Forgets(visit[v]), Leaves(v),
             UNCHANGED <<userRow, userLinks, enabledRoles, localProfile, sharedProfile>>
      PROVE  BadHaveCause'
  BY <1>1, <1>3, <1>4 DEF Leaves
<1>5. ASSUME NEW v \in ProfileCalls, ReadRecord(v) PROVE BadHaveCause'
  <2>0. visit[v].at = "record" /\ ~Forgets(visit[v])
    BY <1>5 DEF ReadRecord, Forgets
  <2>1. CASE userRow.live
    <3> DEFINE n == IF visit[v].kind = "get" THEN userRow.version ELSE 0
               h == [visit[v].has EXCEPT !.version = n]
    <3>2. visit[v].has \in Profile
      BY <1>0, <2>0 DEF Fits
    <3>3. n \in RowVersions
      BY <1>0, ProfilesAssumption DEF RowVersions
    <3>4. h \in Profile /\ h.version = n
      BY <3>2, <3>3 DEF Profile
    <3>5. visit' = [visit EXCEPT ![v] = [visit[v] EXCEPT !.at = "roles", !.has = h]]
      BY <1>0, <1>5, <2>1 DEF ReadRecord, VisitType
    <3> HIDE DEF h
    <3> DEFINE r == [visit[v] EXCEPT !.at = "roles", !.has = h]
    <3>6. r.at = "roles" /\ r.kind = visit[v].kind /\ r.has = h
      BY <1>0 DEF VisitType
    <3>7. ReadsCurrent(r, userRow, CurrentProfile)
      BY <2>1, <3>4, <3>6 DEF ReadsCurrent
    <3> HIDE DEF r
    <3>8. visit' = [visit EXCEPT ![v] = r]
      BY <3>5 DEF r
    <3> QED BY <1>1, <1>5, <2>0, <3>6, <3>7, <3>8 DEF ReadRecord
  <2>2. CASE ~userRow.live
    BY <1>4, <1>5, <2>0, <2>2 DEF ReadRecord
  <2> QED BY <2>1, <2>2
<1>6. ASSUME NEW v \in ProfileCalls, ReadRoles(v) PROVE BadHaveCause'
  <2>0. visit[v].at = "roles" /\ ~Forgets(visit[v])
    BY <1>6 DEF ReadRoles, Forgets
  <2> DEFINE h == IF visit[v].has = Overtaken THEN visit[v].has
                  ELSE [visit[v].has EXCEPT !.roles = userLinks \cap enabledRoles]
             known == [visit[v] EXCEPT !.has = h]
  <2>1. CASE visit[v].kind = "get"
    <3> DEFINE r == [known EXCEPT !.at = "store"]
    <3>1. visit' = [visit EXCEPT ![v] = r]
      BY <1>0, <1>6, <2>1 DEF ReadRoles
    <3>2. CASE visit[v].has = Overtaken
      <4>1. r.at = "store" /\ r.has = Overtaken
        BY <1>0, <3>2 DEF VisitType
      <4>2. ReadsCurrent(r, userRow, CurrentProfile)
        BY <4>1 DEF ReadsCurrent
      <4> QED BY <1>1, <1>6, <2>0, <3>1, <4>1, <4>2 DEF ReadRoles
    <3>3. CASE visit[v].has # Overtaken
      <4>1. userRow.live /\ visit[v].has \in Profile /\ visit[v].has.version = userRow.version
        BY <1>0, <2>0, <2>1, <3>3 DEF ReadsCurrent
      <4>2. h = CurrentProfile
        BY <3>3, <4>1 DEF CurrentProfile, Profile
      <4>3. r.at = "store" /\ r.has = h
        BY <1>0 DEF VisitType
      <4>4. ReadsCurrent(r, userRow, CurrentProfile)
        BY <4>1, <4>2, <4>3 DEF ReadsCurrent
      <4> QED BY <1>1, <1>6, <2>0, <3>1, <4>3, <4>4 DEF ReadRoles
    <3> QED BY <3>2, <3>3
  <2>2. CASE visit[v].kind # "get"
    <3> DEFINE r == visit'[v]
    <3>1. /\ visit' = [visit EXCEPT ![v] = r]
          /\ \/ r = [known EXCEPT !.at = "commit", !.has.roles = visit[v].wants.codes,
                                  !.wants = NoCodes, !.mayDrop = RoleCodes]
             \/ r = [known EXCEPT !.at = "commit", !.mayDrop = userLinks \ enabledRoles]
      BY <1>0, <1>6, <2>2 DEF ReadRoles
    <3>2. r.at = "commit"
      BY <1>0, <3>1 DEF VisitType
    <3>3. ReadsCurrent(r, userRow, CurrentProfile) /\ r.at # "keep"
      BY <3>2 DEF ReadsCurrent
    <3> HIDE DEF r
    <3> QED BY <1>1, <1>6, <2>0, <3>1, <3>3 DEF ReadRoles
  <2> QED BY <2>1, <2>2
<1>7. ASSUME NEW v \in ProfileCalls, StoreProfile(v) PROVE BadHaveCause'
  <2> DEFINE fresh(ttl) == [is |-> visit[v].has, left |-> ttl, age |-> 0]
  <2>1. /\ visit[v].at = "store" /\ visit' = [visit EXCEPT ![v] = NoVisit]
        /\ localProfile' = [localProfile EXCEPT ![visit[v].on] = fresh(ProfileLocalTTL)]
        /\ sharedProfile' = fresh(ProfileRemoteTTL)
        /\ UNCHANGED <<userRow, userLinks, enabledRoles>>
    BY <1>7 DEF StoreProfile, Leaves
  <2>2. \A ttl : GoodFor(fresh(ttl), userRow.live, CurrentProfile)
    BY <1>0, <2>1 DEF ReadsCurrent, GoodFor
  <2> HIDE DEF fresh
  <2>3. visit'[v] = NoVisit /\ \A w \in ProfileCalls \ {v} : visit'[w] = visit[w]
    BY <1>0, <2>1
  <2>4. \A w \in ProfileCalls : Forgets(visit[w]) => Forgets(visit'[w])
    BY <2>1, <2>3 DEF Forgets
  <2>5. \A w \in ProfileCalls, i \in ProfileInstances :
          ForgetsFor(visit[w], i) => ForgetsFor(visit'[w], i)
    BY <2>1, <2>3 DEF ForgetsFor
  <2>6. \A i \in ProfileInstances :
           \/ localProfile'[i] = localProfile[i]
           \/ GoodFor(localProfile'[i], userRow.live, CurrentProfile)
    BY <1>0, <2>1, <2>2
  <2>7. \A w \in ProfileCalls : ReadsCurrent(visit'[w], userRow, CurrentProfile)
    BY <1>0, <1>3, <2>3
  <2>8. \A w \in ProfileCalls : visit'[w].at = "keep" => visit'[w] = visit[w]
    BY <1>3, <2>3
  <2> QED BY <2>1, <2>2, <2>4, <2>5, <2>6, <2>7, <2>8, CauseStep
\* What is kept locally waits for the same removal as before, unless the call that
\* removes has passed there: then it has been put to right at once.
<1>8. ASSUME NEW v \in ProfileCalls, KeepLocal(v) PROVE BadHaveCause'
  <2> DEFINE j == visit[v].on
             e == Filled(visit[v].entry)
             late == \E w \in ProfileCalls : visit[w].at = "forget shared" /\ visit[w].on = j
  <2>1. /\ visit[v].at = "keep" /\ visit' = [visit EXCEPT ![v] = NoVisit]
        /\ localProfile' = [localProfile EXCEPT ![j] = IF late THEN Unreached(e) ELSE e]
        /\ UNCHANGED <<userRow, userLinks, enabledRoles, sharedProfile>>
    BY <1>8 DEF KeepLocal, Leaves
  <2>2. visit'[v] = NoVisit /\ \A w \in ProfileCalls \ {v} : visit'[w] = visit[w]
    BY <1>0, <2>1
  <2>3. \A w \in ProfileCalls : Forgets(visit[w]) => visit'[w] = visit[w]
    BY <2>1, <2>2 DEF Forgets
  <2>4. \A w \in ProfileCalls, i \in ProfileInstances :
          ForgetsFor(visit[w], i) => ForgetsFor(visit'[w], i)
    BY <2>1, <2>2 DEF ForgetsFor
  <2>5. visit[v].entry \in Entry
    BY <1>0, <2>1 DEF Fits
  <2>6. e \in Entry /\ e.is = visit[v].entry.is /\ visit[v].entry # NoProfile
    BY <2>5, ProfilesAssumption DEF Filled, Entry
  <2>7. \/ GoodFor(e, userRow.live, CurrentProfile)
        \/ \E w \in ProfileCalls : Forgets(visit[w])
    BY <2>1, <2>6 DEF BadHaveCause, GoodFor
  <2>8. \/ GoodFor(IF late THEN Unreached(e) ELSE e, userRow.live, CurrentProfile)
        \/ \E w \in ProfileCalls : ForgetsFor(visit'[w], j)
    <3>1. CASE late
      BY <2>6, <3>1, OutdatedGood
    <3>2. CASE ~late /\ ~GoodFor(e, userRow.live, CurrentProfile)
      <4>1. PICK w \in ProfileCalls : Forgets(visit[w])
        BY <2>7, <3>2
      <4>2. ForgetsFor(visit[w], j)
        BY <3>2, <4>1 DEF Forgets, ForgetsFor
      <4> QED BY <2>3, <4>1, <4>2
    <3> QED BY <3>1, <3>2
  <2> HIDE DEF e, late, j
  <2>9. \A i \in ProfileInstances :
           \/ localProfile'[i] = localProfile[i]
           \/ GoodFor(localProfile'[i], userRow.live, CurrentProfile)
           \/ \E w \in ProfileCalls : ForgetsFor(visit'[w], i)
    BY <1>0, <2>1, <2>8
  <2>10. \A w \in ProfileCalls : ReadsCurrent(visit'[w], userRow, CurrentProfile)
    BY <1>0, <1>3, <2>2
  <2>11. \A w \in ProfileCalls : visit'[w].at = "keep" => visit'[w] = visit[w]
    BY <1>3, <2>2
  <2> QED BY <2>1, <2>3, <2>4, <2>9, <2>10, <2>11, CauseStep
<1>9. ASSUME NEW v \in ProfileCalls, CommitProfile(v) PROVE BadHaveCause'
  <2>0. visit[v].at = "commit" /\ ~Forgets(visit[v])
    BY <1>9 DEF CommitProfile, Forgets
  <2>1. CASE ~userRow.live
    <3> DEFINE r == [NoVisit EXCEPT !.at = "forget local", !.kind = "update",
                                    !.on = visit[v].on]
    <3>1. ReadsCurrent(r, userRow, CurrentProfile) /\ r.at # "keep"
      BY DEF ReadsCurrent, NoVisit
    <3> QED BY <1>1, <1>9, <2>0, <2>1, <3>1 DEF CommitProfile
  <2>2. CASE userRow.live
    BY <1>4, <1>9, <2>0, <2>2, OvertakesCause DEF CommitProfile
  <2> QED BY <2>1, <2>2
<1>10. ASSUME NEW v \in ProfileCalls, ForgetLocal(v) PROVE BadHaveCause'
  <2> DEFINE r == [visit[v] EXCEPT !.at = "forget shared"]
  <2>1. /\ visit[v].at = "forget local" /\ visit' = [visit EXCEPT ![v] = r]
        /\ localProfile' = [localProfile EXCEPT ![visit[v].on] = NoProfile]
        /\ UNCHANGED <<userRow, userLinks, enabledRoles, sharedProfile>>
    BY <1>10 DEF ForgetLocal, Steps
  <2>2. r.at = "forget shared" /\ r.on = visit[v].on
    BY <1>0 DEF VisitType
  <2> HIDE DEF r
  <2>3. visit'[v] = r /\ \A w \in ProfileCalls \ {v} : visit'[w] = visit[w]
    BY <1>0, <2>1
  <2>4. \A w \in ProfileCalls : Forgets(visit[w]) => Forgets(visit'[w])
    BY <2>2, <2>3 DEF Forgets
  <2>5. ASSUME NEW i \in ProfileInstances
        PROVE  \/ /\ localProfile'[i] = localProfile[i]
                  /\ \A w \in ProfileCalls :
                         ForgetsFor(visit[w], i) => ForgetsFor(visit'[w], i)
               \/ GoodFor(localProfile'[i], userRow.live, CurrentProfile)
    <3>1. CASE i = visit[v].on
      BY <1>0, <2>1, <3>1 DEF GoodFor
    <3>2. CASE i # visit[v].on
      <4>1. localProfile'[i] = localProfile[i]
        BY <1>0, <2>1, <3>2
      <4>2. ForgetsFor(visit'[v], i)
        BY <2>2, <2>3, <3>2 DEF ForgetsFor
      <4>3. \A w \in ProfileCalls : ForgetsFor(visit[w], i) => ForgetsFor(visit'[w], i)
        BY <2>3, <4>2
      <4> QED BY <4>1, <4>3
    <3> QED BY <3>1, <3>2
  <2>6. \A w \in ProfileCalls : ReadsCurrent(visit'[w], userRow, CurrentProfile)
    <3>1. ReadsCurrent(visit'[v], userRow, CurrentProfile)
      BY <2>2, <2>3 DEF ReadsCurrent
    <3>2. \A w \in ProfileCalls : ReadsCurrent(visit[w], userRow, CurrentProfile)
      BY <1>0
    <3> QED BY <2>3, <3>1, <3>2
  <2>7. \A w \in ProfileCalls : visit'[w].at = "keep" => visit'[w] = visit[w]
    BY <2>2, <2>3
  <2> QED BY <2>1, <2>4, <2>5, <2>6, <2>7, CauseStep
<1>11. ASSUME NEW v \in ProfileCalls, ForgetShared(v) PROVE BadHaveCause'
  <2>1. \A i \in ProfileInstances :
           \/ localProfile'[i] = Unreached(localProfile[i])
           \/ localProfile'[i] = localProfile[i] /\ ~ForgetsFor(visit[v], i)
    BY <1>11 DEF ForgetShared, ForgetsFor
  <2> QED BY <1>11, <2>1, LeavingCause DEF ForgetShared, Removed
<1>12. ASSUME NEW v \in ProfileCalls, Abandon(v) PROVE BadHaveCause'
  <2>1. CASE Forgets(visit[v])
    <3>1. \A i \in ProfileInstances : localProfile'[i] = Unreached(localProfile[i])
      BY <1>12, <2>1 DEF Abandon, Forgets
    <3> QED BY <1>12, <2>1, <3>1, LeavingCause DEF Abandon, Forgets
  <2>2. CASE ~Forgets(visit[v])
    BY <1>4, <1>12, <2>2 DEF Abandon, Forgets
  <2> QED BY <2>1, <2>2
<1>13. ASSUME NEW codes, ReplaceLinks(codes) PROVE BadHaveCause'
  BY <1>13, OvertakesCause DEF ReplaceLinks
<1>14. ASSUME NEW role, SwitchRole(role) PROVE BadHaveCause'
  BY <1>14, OvertakesCause DEF SwitchRole
<1>15. CASE ProfileTick
  <2>1. \A e \in Entry \cup {NoProfile} :
          GoodFor(e, userRow.live, CurrentProfile)
            => GoodFor(Aged(e), userRow.live, CurrentProfile)
    <3> TAKE e \in Entry \cup {NoProfile}
    <3>1. Aged(e) = NoProfile \/ (Aged(e).is = e.is /\ e # NoProfile)
      BY AgedType, ProfilesAssumption
    <3> QED BY <3>1 DEF GoodFor
  <2>2. /\ sharedProfile' = Aged(sharedProfile)
        /\ \A i \in ProfileInstances : localProfile'[i] = Aged(localProfile[i])
        /\ UNCHANGED <<userRow, userLinks, enabledRoles, visit>>
    BY <1>15 DEF ProfileTick
  <2>3. CurrentProfile' = CurrentProfile
    BY <2>2 DEF CurrentProfile
  <2>4. GoodFor(sharedProfile', userRow.live, CurrentProfile)
          \/ \E v \in ProfileCalls : Forgets(visit'[v])
    BY <1>0, <2>1, <2>2 DEF BadHaveCause
  <2>5. \A i \in ProfileInstances : GoodFor(localProfile'[i], userRow.live, CurrentProfile)
          \/ \E v \in ProfileCalls : ForgetsFor(visit'[v], i)
    BY <1>0, <2>1, <2>2 DEF BadHaveCause
  <2> QED BY <2>2, <2>3, <2>4, <2>5 DEF BadHaveCause
<1>16. CASE UNCHANGED profileVars
  <2>1. CurrentProfile' = CurrentProfile
    BY <1>16 DEF CurrentProfile, profileVars
  <2> QED BY <1>16, <2>1 DEF profileVars, BadHaveCause
<1> QED
  BY <1>2, <1>5, <1>6, <1>7, <1>8, <1>9, <1>10, <1>11, <1>12, <1>13, <1>14, <1>15, <1>16
     DEF ProfilesNext

\* With however many instances, calls and roles, an entry that does not show the
\* user as it is has been overtaken by a change the code does not follow, or is
\* about to be removed.
THEOREM StaleProfilesHaveCause == ProfilesSpec => []StaleProfileHasCause
<1>1. ProfilesInit => BadHaveCause
  BY DEF ProfilesInit, BadHaveCause, NoVisit, GoodFor, ReadsCurrent
<1>2. ProfilesSpec => []BadHaveCause
  BY <1>1, ProfilesInvariance, BadHaveCauseStep, PTL DEF ProfilesSpec
<1>3. BadHaveCause => StaleProfileHasCause
  <2> SUFFICES ASSUME BadHaveCause,
                      NEW e \in {sharedProfile} \cup {localProfile[i] : i \in ProfileInstances},
                      e # NoProfile, ~Shows(e), e.is # Overtaken
               PROVE  \E v \in ProfileCalls : visit[v].at \in {"forget local", "forget shared"}
    BY DEF StaleProfileHasCause
  <2>1. ~GoodFor(e, userRow.live, CurrentProfile)
    BY DEF GoodFor, Shows
  <2>2. CASE e = sharedProfile
    BY <2>1, <2>2 DEF BadHaveCause, Forgets
  <2>3. CASE \E i \in ProfileInstances : e = localProfile[i]
    BY <2>1, <2>3 DEF BadHaveCause, ForgetsFor
  <2> QED BY <2>2, <2>3
<1> QED BY <1>2, <1>3, PTL
-----------------------------------------------------------------------------
(* The decision on a request *)

AccessSteps == {"rest", "get", "user", "roles", "fill", "ask", "admitted"}
Access == [at: AccessSteps, on: AuthzInstances \cup {NotCached}, is: Principal,
           late: BOOLEAN, toAsk: SUBSET AuthzRoles, held: SUBSET AuthzRoles,
           granted: SUBSET AuthzRoles, ruled: BOOLEAN, excused: BOOLEAN]
Loading == [at: {"rest", "to come", "unlink", "roles", "menus", "apply", "publish"},
            on: AuthzInstances \cup {NotCached}, reloads: BOOLEAN,
            enabled: SUBSET AuthzRoles, granted: SUBSET AuthzRoles]
Reloading == [at: {"rest", "roles", "menus", "apply"}, enabled: SUBSET AuthzRoles,
              granted: SUBSET AuthzRoles]
Tables == [live: BOOLEAN, super: BOOLEAN, links: SUBSET AuthzRoles,
           enabled: SUBSET AuthzRoles, grants: SUBSET AuthzRoles]

AuthzTypes ==
    /\ tables \in Tables
    /\ identity \in [is: Principal, late: BOOLEAN] \cup {NotCached}
    /\ rules \in [AuthzInstances -> [grant: SUBSET AuthzRoles, late: BOOLEAN]]
    /\ notices \in [AuthzInstances -> Nat]
    /\ reload \in [AuthzInstances -> Reloading]
    /\ change \in [AuthzChanges -> Loading]
    /\ access \in [AuthzRequests -> Access]
    /\ \A c \in AuthzRequests : access[c].at # "rest" => access[c].on \in AuthzInstances
    /\ \A a \in AuthzChanges :
          change[a].at \notin {"rest", "to come"} => change[a].on \in AuthzInstances

\* A cached identity is right, or about to be unlinked, or was filled late.
IdentityExcused(entry, t) == entry = NotCached \/ entry.is = Identity(t) \/ entry.late
IdentityKnown == IdentityExcused(identity, tables) \/ UnlinkDue

\* A policy is right, or about to be loaded again, or was installed late.
RulesExcused(r, t) == r.grant = Granted(t) \/ r.late
RulesKnown == \A i \in AuthzInstances : RulesExcused(rules[i], tables) \/ ReloadDue(i)

\* What a request has witnessed, and what it has read of the user so far.
RequestGrounded(q, t) ==
    /\ q.at # "rest" =>
          Held(t) \subseteq q.held /\ Granted(t) \subseteq q.granted /\ (Rules(t) => q.ruled)
    /\ q.at \in {"roles", "fill"} => (q.is.super => q.ruled)
    /\ q.at = "roles" =>
          q.late \/ (t.live /\ q.is = [found |-> TRUE, super |-> t.super, roles |-> {}])
    /\ q.at = "fill" =>
          /\ q.late \/ q.is = Identity(t)
          /\ q.excused \/ q.is.roles \subseteq q.held
    /\ q.at = "ask" => ~q.is.super /\ (q.excused \/ q.toAsk \subseteq q.held)
    /\ q.at = "admitted" =>
          \/ q.excused
          \/ IF q.is.super THEN q.ruled ELSE q.is.roles \subseteq q.held \cap q.granted

Grounded == \A c \in AuthzRequests : RequestGrounded(access[c], tables)

AuthzInv == AuthzTypes /\ IdentityKnown /\ RulesKnown /\ Grounded

LEMMA AuthzRestTypes ==
    /\ NoOne \in Principal /\ NoRequest \in Access
    /\ NoChange \in Loading /\ [NoChange EXCEPT !.at = "to come"] \in Loading
    /\ AtRest \in Reloading
BY DEF NoOne, Principal, NoRequest, Access, AccessSteps, NoChange, Loading, AtRest,
       Reloading

\* What the tables say is typed.
LEMMA ReadTypes ==
    ASSUME NEW t \in Tables
    PROVE  /\ Held(t) \subseteq AuthzRoles /\ Granted(t) \subseteq AuthzRoles
           /\ Rules(t) \in BOOLEAN /\ Identity(t) \in Principal
BY DEF Tables, Held, Granted, Rules, Identity, NoOne, Principal

\* A principal with other roles, spelt out.
LEMMA RolesReplaced ==
    ASSUME NEW p \in Principal, NEW roles \in SUBSET AuthzRoles
    PROVE  [p EXCEPT !.roles = roles] = [found |-> p.found, super |-> p.super, roles |-> roles]
BY DEF Principal

LEMMA AuthorizationInit_Inv == AuthorizationInit => AuthzInv
<1> SUFFICES ASSUME AuthorizationInit PROVE AuthzInv
  OBVIOUS
<1>1. tables \in Tables
  BY DEF AuthorizationInit, Tables
<1>2. AuthzTypes
  <2>1. [i \in AuthzInstances |-> [grant |-> Granted(tables), late |-> FALSE]]
          \in [AuthzInstances -> [grant: SUBSET AuthzRoles, late: BOOLEAN]]
    BY <1>1, ReadTypes
  <2> QED BY <1>1, <2>1, AuthzRestTypes
          DEF AuthorizationInit, AuthzTypes, NoRequest, NoChange, AtRest
<1>3. IdentityKnown /\ RulesKnown
  BY DEF AuthorizationInit, IdentityKnown, IdentityExcused, RulesKnown, RulesExcused
<1>4. Grounded
  BY DEF AuthorizationInit, Grounded, RequestGrounded, NoRequest
<1> QED BY <1>2, <1>3, <1>4 DEF AuthzInv

\* A request that witnesses a commit stays grounded: it has seen more than before, and what it read is late.
LEMMA WitnessGrounds ==
    ASSUME NEW q, NEW r, NEW s, NEW t, RequestGrounded(q, s),
           r.at = q.at, r.is = q.is, r.toAsk = q.toAsk, r.excused = q.excused,
           q.at # "rest" => /\ r.held = q.held \cup Held(t)
                            /\ r.granted = q.granted \cup Granted(t)
                            /\ r.ruled = (q.ruled \/ Rules(t))
                            /\ r.late = (q.late \/ q.at \in {"roles", "fill"})
    PROVE  RequestGrounded(r, t)
<1>1. q.at # "rest" => /\ Held(t) \subseteq r.held /\ q.held \subseteq r.held
                       /\ Granted(t) \subseteq r.granted /\ q.granted \subseteq r.granted
                       /\ Rules(t) => r.ruled
                       /\ q.ruled => r.ruled
  OBVIOUS
<1>2. q.at \in {"roles", "fill"} => r.late /\ (r.is.super => r.ruled)
  BY <1>1 DEF RequestGrounded
<1>3. q.at = "fill" => r.excused \/ r.is.roles \subseteq r.held
  BY <1>1 DEF RequestGrounded
<1>4. q.at = "ask" => ~r.is.super /\ (r.excused \/ r.toAsk \subseteq r.held)
  BY <1>1 DEF RequestGrounded
<1>5. q.at = "admitted" =>
        \/ r.excused
        \/ IF r.is.super THEN r.ruled ELSE r.is.roles \subseteq r.held \cap r.granted
  BY <1>1 DEF RequestGrounded
<1> QED BY <1>1, <1>2, <1>3, <1>4, <1>5 DEF RequestGrounded

\* A commit: the requests under way witness it, and what it makes old is to be
\* renewed.
LEMMA CommitsStep ==
    ASSUME AuthzInv, NEW a \in AuthzChanges, NEW i \in AuthzInstances, NEW t \in Tables,
           NEW unlinks \in BOOLEAN, NEW reloads \in BOOLEAN, Commits(a, i, t, unlinks, reloads),
           unlinks \/ Identity(t) = Identity(tables),
           reloads \/ Granted(t) = Granted(tables)
    PROVE  AuthzInv'
<1>0. /\ AuthzTypes /\ tables' = t /\ change[a].at = "to come"
      /\ UNCHANGED <<identity, rules, notices, reload>>
  BY DEF AuthzInv, Commits
<1> DEFINE j == IF unlinks THEN [NoChange EXCEPT !.at = "unlink", !.on = i, !.reloads = reloads]
                ELSE IF reloads THEN [NoChange EXCEPT !.at = "roles", !.on = i, !.reloads = TRUE]
                ELSE NoChange
<1>1. /\ j \in Loading /\ (j.at \notin {"rest", "to come"} => j.on \in AuthzInstances)
      /\ unlinks => j.at = "unlink"
      /\ reloads => j.reloads /\ j.at \in {"unlink", "roles"}
  BY AuthzRestTypes DEF Loading, NoChange
<1>2. change' = [change EXCEPT ![a] = j]
  BY DEF Commits
<1>3. change'[a] = j /\ \A b \in AuthzChanges \ {a} : change'[b] = change[b]
  BY <1>0, <1>2 DEF AuthzTypes
<1>4. ASSUME NEW c \in AuthzRequests
      PROVE  /\ access[c] \in Access /\ access'[c] \in Access
             /\ access'[c].at = access[c].at /\ access'[c].on = access[c].on
             /\ access'[c].is = access[c].is /\ access'[c].toAsk = access[c].toAsk
             /\ access'[c].excused = access[c].excused
             /\ access[c].at # "rest" =>
                  /\ access'[c].held = access[c].held \cup Held(t)
                  /\ access'[c].granted = access[c].granted \cup Granted(t)
                  /\ access'[c].ruled = (access[c].ruled \/ Rules(t))
                  /\ access'[c].late = (access[c].late \/ access[c].at \in {"roles", "fill"})
  <2>1. access[c] \in Access
    BY <1>0 DEF AuthzTypes
  <2>2. CASE access[c].at = "rest"
    BY <2>1, <2>2 DEF Commits, Witnessed
  <2>3. CASE access[c].at # "rest"
    <3>1. access'[c] = [access[c] EXCEPT !.held = @ \cup Held(t), !.granted = @ \cup Granted(t),
                               !.ruled = @ \/ Rules(t),
                               !.late = @ \/ access[c].at \in {"roles", "fill"}]
      BY <2>3 DEF Commits, Witnessed
    <3>2. /\ access[c].held \in SUBSET AuthzRoles /\ access[c].granted \in SUBSET AuthzRoles
          /\ access[c].ruled \in BOOLEAN /\ access[c].late \in BOOLEAN
      BY <2>1 DEF Access
    <3> DEFINE held    == access[c].held \cup Held(t)
               granted == access[c].granted \cup Granted(t)
               ruled   == access[c].ruled \/ Rules(t)
               late    == access[c].late \/ access[c].at \in {"roles", "fill"}
    <3>3. /\ held \in SUBSET AuthzRoles /\ granted \in SUBSET AuthzRoles
          /\ ruled \in BOOLEAN /\ late \in BOOLEAN
      BY <3>2, ReadTypes
    <3>4. access'[c] = [access[c] EXCEPT !.held = held, !.granted = granted, !.ruled = ruled,
                                         !.late = late]
      BY <3>1
    <3>5. /\ access'[c] \in Access
          /\ access'[c].at = access[c].at /\ access'[c].on = access[c].on
          /\ access'[c].is = access[c].is /\ access'[c].toAsk = access[c].toAsk
          /\ access'[c].excused = access[c].excused
          /\ access'[c].held = held /\ access'[c].granted = granted
          /\ access'[c].ruled = ruled /\ access'[c].late = late
      <4> HIDE DEF held, granted, ruled, late
      <4>1. access'[c] \in Access
        BY <2>1, <3>3, <3>4 DEF Access
      <4>2. /\ access'[c].at = access[c].at /\ access'[c].on = access[c].on
            /\ access'[c].is = access[c].is /\ access'[c].toAsk = access[c].toAsk
            /\ access'[c].excused = access[c].excused
        BY <2>1, <3>4 DEF Access
      <4>3. /\ access'[c].held = held /\ access'[c].granted = granted
            /\ access'[c].ruled = ruled /\ access'[c].late = late
        BY <2>1, <3>4 DEF Access
      <4> QED BY <4>1, <4>2, <4>3
    <3> QED BY <2>1, <3>5
  <2> QED BY <2>2, <2>3
<1>5. AuthzTypes'
  <2>1. access' \in [AuthzRequests -> Access]
    BY <1>4 DEF Commits, Witnessed
  <2>2. change' \in [AuthzChanges -> Loading]
    BY <1>0, <1>1, <1>2 DEF AuthzTypes
  <2> QED BY <1>0, <1>1, <1>3, <1>4, <2>1, <2>2 DEF AuthzTypes
<1>6. IdentityKnown'
  <2>1. UnlinkDue => UnlinkDue'
    BY <1>0, <1>3 DEF UnlinkDue
  <2>2. unlinks => UnlinkDue'
    BY <1>1, <1>3 DEF UnlinkDue
  <2> QED BY <1>0, <2>1, <2>2 DEF AuthzInv, IdentityKnown, IdentityExcused
<1>7. RulesKnown'
  <2> SUFFICES ASSUME NEW k \in AuthzInstances
               PROVE  RulesExcused(rules'[k], t) \/ ReloadDue(k)'
    BY <1>0 DEF RulesKnown
  <2>1. ReloadDue(k) => ReloadDue(k)'
    BY <1>0, <1>3 DEF ReloadDue
  <2>2. reloads => ReloadDue(k)'
    BY <1>1, <1>3 DEF ReloadDue
  <2> QED BY <1>0, <2>1, <2>2 DEF AuthzInv, RulesKnown, RulesExcused
<1>8. Grounded'
  <2> SUFFICES ASSUME NEW c \in AuthzRequests PROVE RequestGrounded(access'[c], t)
    BY <1>0 DEF Grounded
  <2>1. RequestGrounded(access[c], tables)
    BY DEF AuthzInv, Grounded
  <2> QED BY <1>4, <2>1, WitnessGrounds
<1> QED BY <1>5, <1>6, <1>7, <1>8 DEF AuthzInv

\* A step of a request, which may fill the cache.
LEMMA AccessStep ==
    ASSUME AuthzInv, NEW c \in AuthzRequests, NEW q \in Access,
           access' = [access EXCEPT ![c] = q],
           q.at # "rest" => q.on \in AuthzInstances,
           RequestGrounded(q, tables),
           UNCHANGED <<tables, rules, notices, reload, change>>,
           identity' = identity \/
              (identity' \in [is: Principal, late: BOOLEAN]
                 /\ (identity'.is = Identity(tables) \/ identity'.late))
    PROVE  AuthzInv'
<1>1. access'[c] = q /\ \A d \in AuthzRequests \ {c} : access'[d] = access[d]
  BY DEF AuthzInv, AuthzTypes
<1>2. AuthzTypes'
  BY <1>1 DEF AuthzInv, AuthzTypes
<1>3. IdentityKnown'
  BY DEF AuthzInv, IdentityKnown, IdentityExcused, UnlinkDue
<1>4. RulesKnown'
  BY DEF AuthzInv, RulesKnown, RulesExcused, ReloadDue
<1>5. Grounded'
  BY <1>1 DEF AuthzInv, Grounded
<1> QED BY <1>2, <1>3, <1>4, <1>5 DEF AuthzInv

\* A request goes on with an identity that is the tables', or is excused.
LEMMA ResolvedStep ==
    ASSUME AuthzInv, NEW c \in AuthzRequests, NEW p \in Principal, NEW excuse \in BOOLEAN,
           access[c].at \in {"get", "fill"}, Resolved(c, p, excuse),
           \/ access[c].excused \/ excuse
           \/ /\ p.super => access[c].ruled
              /\ p.roles \subseteq access[c].held,
           UNCHANGED <<tables, rules, notices, reload, change>>,
           identity' = identity \/
              (identity' \in [is: Principal, late: BOOLEAN]
                 /\ (identity'.is = Identity(tables) \/ identity'.late))
    PROVE  AuthzInv'
<1>1. access[c] \in Access /\ RequestGrounded(access[c], tables)
      /\ access[c].on \in AuthzInstances
  BY DEF AuthzInv, AuthzTypes, Grounded
<1>2. CASE ~p.found
  <2>1. access' = [access EXCEPT ![c] = NoRequest]
    BY <1>2 DEF Resolved
  <2>2. RequestGrounded(NoRequest, tables) /\ NoRequest.at = "rest"
    BY DEF RequestGrounded, NoRequest
  <2> QED BY <2>1, <2>2, AccessStep, AuthzRestTypes
<1>3. CASE p.found
  <2> DEFINE q == [access[c] EXCEPT !.at = IF p.super THEN "admitted" ELSE "ask", !.is = p,
                      !.toAsk = p.roles, !.late = FALSE, !.excused = access[c].excused \/ excuse]
  <2>1. access' = [access EXCEPT ![c] = q]
    BY <1>3 DEF Resolved
  <2>2. /\ q \in Access /\ q.on = access[c].on /\ q.at = IF p.super THEN "admitted" ELSE "ask"
        /\ q.is = p /\ q.toAsk = p.roles /\ q.held = access[c].held
        /\ q.granted = access[c].granted /\ q.ruled = access[c].ruled
        /\ q.excused = (access[c].excused \/ excuse)
    <3> DEFINE at == IF p.super THEN "admitted" ELSE "ask"
               asks == p.roles
               excused == access[c].excused \/ excuse
    <3>1. /\ at \in AccessSteps /\ asks \in SUBSET AuthzRoles /\ excused \in BOOLEAN
          /\ q = [access[c] EXCEPT !.at = at, !.is = p, !.toAsk = asks, !.late = FALSE,
                                   !.excused = excused]
      BY DEF AccessSteps, Principal
    <3>2. /\ q \in Access /\ q.at = at /\ q.is = p /\ q.toAsk = asks /\ q.excused = excused
          /\ q.on = access[c].on /\ q.held = access[c].held
          /\ q.granted = access[c].granted /\ q.ruled = access[c].ruled
      <4> HIDE DEF q, at, asks, excused
      <4>1. q \in Access
        BY <1>1, <3>1 DEF Access
      <4>2. q.at = at /\ q.is = p /\ q.toAsk = asks /\ q.excused = excused
        BY <1>1, <3>1 DEF Access
      <4>3. /\ q.on = access[c].on /\ q.held = access[c].held
            /\ q.granted = access[c].granted /\ q.ruled = access[c].ruled
        BY <1>1, <3>1 DEF Access
      <4> QED BY <4>1, <4>2, <4>3
    <3> QED BY <3>2
  <2>3. /\ Held(tables) \subseteq q.held /\ Granted(tables) \subseteq q.granted
        /\ Rules(tables) => q.ruled
    BY <1>1, <2>2 DEF RequestGrounded
  <2>4. q.is.super => q.excused \/ q.ruled
    BY <2>2
  <2>5. q.excused \/ q.toAsk \subseteq q.held
    BY <2>2
  <2>6. q.at = IF q.is.super THEN "admitted" ELSE "ask"
    BY <2>2
  <2> HIDE DEF q
  <2>7. RequestGrounded(q, tables)
    BY <2>3, <2>4, <2>5, <2>6 DEF RequestGrounded
  <2> QED BY <1>1, <2>1, <2>2, <2>7, AccessStep
<1> QED BY <1>2, <1>3

\* A step of the copies that makes no request wiser.
LEMMA CopiesStep ==
    ASSUME AuthzInv, UNCHANGED <<tables, access>>, AuthzTypes',
           identity' \in {identity, NotCached},
           identity' = NotCached \/ (UnlinkDue => UnlinkDue'),
           \A i \in AuthzInstances :
              \/ RulesExcused(rules'[i], tables) \/ ReloadDue(i)'
              \/ rules'[i] = rules[i] /\ ~ReloadDue(i)
    PROVE  AuthzInv'
<1>1. IdentityKnown'
  BY DEF AuthzInv, IdentityKnown, IdentityExcused
<1>2. RulesKnown'
  BY DEF AuthzInv, RulesKnown, RulesExcused
<1>3. Grounded'
  BY DEF AuthzInv, Grounded
<1> QED BY <1>1, <1>2, <1>3 DEF AuthzInv

\* A load goes on, with what the tables say.
LEMMA LoadStepType ==
    ASSUME tables \in Tables, NEW l, l.at \in {"roles", "menus"},
           l \in Loading \cup Reloading
    PROVE  /\ LoadStep(l).at \in {"menus", "apply"}
           /\ l \in Loading => /\ LoadStep(l) \in Loading /\ LoadStep(l).on = l.on
                               /\ LoadStep(l).reloads = l.reloads
           /\ l \in Reloading => LoadStep(l) \in Reloading
BY DEF LoadStep, Loading, Reloading, Tables

\* Every step keeps the invariant.
LEMMA AuthorizationStep == AuthzInv /\ [AuthorizationNext]_authzVars => AuthzInv'
<1> SUFFICES ASSUME AuthzInv, [AuthorizationNext]_authzVars PROVE AuthzInv'
  OBVIOUS
<1>0. AuthzTypes /\ IdentityKnown /\ RulesKnown /\ Grounded
  BY DEF AuthzInv
<1>1. ASSUME NEW a \in AuthzChanges, NEW i \in AuthzInstances, ChangeUser(a, i) PROVE AuthzInv'
  <2>1. PICK live \in BOOLEAN, super \in BOOLEAN, links \in SUBSET AuthzRoles :
          Commits(a, i, [tables EXCEPT !.live = live, !.super = super, !.links = links],
                  TRUE, FALSE)
    BY <1>1 DEF ChangeUser
  <2> DEFINE t == [tables EXCEPT !.live = live, !.super = super, !.links = links]
  <2>2. t \in Tables /\ Granted(t) = Granted(tables)
    BY <1>0 DEF AuthzTypes, Tables, Granted
  <2> QED BY <2>1, <2>2, CommitsStep
<1>2. ASSUME NEW a \in AuthzChanges, NEW i \in AuthzInstances, NEW role \in AuthzRoles,
             NEW on \in BOOLEAN, ChangeRole(a, i, role, on)
      PROVE  AuthzInv'
  <2> DEFINE t == [tables EXCEPT !.enabled = IF on THEN @ \cup {role} ELSE @ \ {role}]
             unlinks == role \in tables.links
  <2>1. t \in Tables /\ t.live = tables.live /\ t.super = tables.super
        /\ t.links = tables.links
        /\ t.enabled = IF on THEN tables.enabled \cup {role} ELSE tables.enabled \ {role}
    BY <1>0 DEF AuthzTypes, Tables
  <2>2. unlinks \/ Identity(t) = Identity(tables)
    <3>1. CASE role \notin tables.links
      <4>1. tables.links \cap t.enabled = tables.links \cap tables.enabled
        BY <2>1, <3>1
      <4> QED BY <2>1, <4>1 DEF Identity, Held
    <3> QED BY <3>1
  <2>3. Commits(a, i, t, unlinks, TRUE)
    BY <1>2, Zenon DEF ChangeRole
  <2>4. unlinks \in BOOLEAN
    OBVIOUS
  <2> HIDE DEF t, unlinks
  <2> QED BY <2>1, <2>2, <2>3, <2>4, CommitsStep
<1>3. ASSUME NEW a \in AuthzChanges, NEW i \in AuthzInstances, ChangeGrants(a, i)
      PROVE  AuthzInv'
  <2>1. PICK grants \in SUBSET AuthzRoles : WithReload(a, i, grants)
    BY <1>0, <1>3 DEF ChangeGrants, AuthzTypes, Tables
  <2> DEFINE t == [tables EXCEPT !.grants = grants]
  <2>2. t \in Tables /\ Identity(t) = Identity(tables)
    BY <1>0 DEF AuthzTypes, Tables, Identity, Held
  <2> QED BY <2>1, <2>2, CommitsStep DEF WithReload
<1>4. ASSUME NEW a \in AuthzChanges, UnlinkIdentity(a) PROVE AuthzInv'
  <2> DEFINE j == IF change[a].reloads THEN [change[a] EXCEPT !.at = "roles"] ELSE NoChange
  <2>1. change' = [change EXCEPT ![a] = j] /\ identity' = NotCached
        /\ change[a].at = "unlink" /\ UNCHANGED <<tables, rules, notices, reload, access>>
    BY <1>4 DEF UnlinkIdentity
  <2>2. /\ change[a] \in Loading /\ j \in Loading
        /\ j.at \notin {"rest", "to come"} => j.on \in AuthzInstances
        /\ change[a].reloads => j.reloads /\ j.at = "roles"
    BY <1>0, <2>1, AuthzRestTypes DEF AuthzTypes, Loading, NoChange
  <2>3. change'[a] = j /\ \A b \in AuthzChanges \ {a} : change'[b] = change[b]
    BY <1>0, <2>1 DEF AuthzTypes
  <2> HIDE DEF j
  <2>4. AuthzTypes'
    BY <1>0, <2>1, <2>2, <2>3 DEF AuthzTypes
  <2>5. \A i \in AuthzInstances : ReloadDue(i) => ReloadDue(i)'
    BY <2>1, <2>2, <2>3 DEF ReloadDue
  <2> QED BY <1>0, <2>1, <2>4, <2>5, CopiesStep DEF RulesKnown
<1>5. ASSUME NEW a \in AuthzChanges, LoadForChange(a) PROVE AuthzInv'
  <2> DEFINE j == LoadStep(change[a])
  <2>1. change' = [change EXCEPT ![a] = j] /\ change[a].at \in {"roles", "menus"}
        /\ UNCHANGED <<tables, identity, rules, notices, reload, access>>
    BY <1>5 DEF LoadForChange
  <2>2. /\ change[a] \in Loading /\ j \in Loading /\ j.at \in {"menus", "apply"}
        /\ j.on = change[a].on /\ j.reloads = change[a].reloads
    <3>1. change[a] \in Loading /\ tables \in Tables
      BY <1>0 DEF AuthzTypes
    <3> QED BY <2>1, <3>1, LoadStepType
  <2>3. change'[a] = j /\ \A b \in AuthzChanges \ {a} : change'[b] = change[b]
    BY <1>0, <2>1 DEF AuthzTypes
  <2> HIDE DEF j
  <2>4. AuthzTypes'
    BY <1>0, <2>1, <2>2, <2>3 DEF AuthzTypes
  <2>5. \A i \in AuthzInstances : ReloadDue(i) => ReloadDue(i)'
    BY <2>1, <2>2, <2>3 DEF ReloadDue
  <2>6. UnlinkDue => UnlinkDue'
    BY <2>1, <2>2, <2>3 DEF UnlinkDue
  <2> QED BY <1>0, <2>1, <2>4, <2>5, <2>6, CopiesStep DEF RulesKnown
<1>6. ASSUME NEW a \in AuthzChanges, ApplyForChange(a) PROVE AuthzInv'
  <2> DEFINE j == [change[a] EXCEPT !.at = "publish", !.granted = {}]
             k == change[a].on
  <2>1. change' = [change EXCEPT ![a] = j] /\ change[a].at = "apply"
        /\ UNCHANGED <<tables, identity, notices, reload, access>>
        /\ rules' = [rules EXCEPT ![k] = [grant |-> change[a].granted,
                               late |-> change[a].granted # Granted(tables)]]
    BY <1>0, <1>6 DEF ApplyForChange, Applied, AuthzTypes
  <2>2. /\ change[a] \in Loading /\ j \in Loading /\ j.at = "publish"
        /\ j.on = k /\ j.reloads = change[a].reloads /\ k \in AuthzInstances
        /\ change[a].granted \subseteq AuthzRoles
    BY <1>0, <2>1 DEF AuthzTypes, Loading
  <2>3. change'[a] = j /\ \A b \in AuthzChanges \ {a} : change'[b] = change[b]
    BY <1>0, <2>1 DEF AuthzTypes
  <2>4. /\ rules'[k] = [grant |-> change[a].granted, late |-> change[a].granted # Granted(tables)]
        /\ \A i \in AuthzInstances \ {k} : rules'[i] = rules[i]
        /\ rules' \in [AuthzInstances -> [grant: SUBSET AuthzRoles, late: BOOLEAN]]
    BY <1>0, <2>1, <2>2 DEF AuthzTypes
  <2> HIDE DEF j, k
  <2>5. AuthzTypes'
    BY <1>0, <2>1, <2>2, <2>3, <2>4 DEF AuthzTypes
  <2>6. \A i \in AuthzInstances \ {k} : ReloadDue(i) => ReloadDue(i)'
    BY <2>1, <2>2, <2>3 DEF ReloadDue
  <2>7. RulesExcused(rules'[k], tables)
    <3>1. CASE change[a].granted = Granted(tables)
      BY <2>4, <3>1 DEF RulesExcused
    <3>2. CASE change[a].granted # Granted(tables)
      <4>1. rules'[k] = [grant |-> change[a].granted, late |-> TRUE]
        BY <2>4, <3>2
      <4> QED BY <4>1 DEF RulesExcused
    <3> QED BY <3>1, <3>2
  <2>8. UnlinkDue => UnlinkDue'
    BY <2>1, <2>3 DEF UnlinkDue
  <2> QED BY <1>0, <2>1, <2>4, <2>5, <2>6, <2>7, <2>8, CopiesStep DEF RulesKnown
<1>7. ASSUME NEW a \in AuthzChanges, PublishChange(a) PROVE AuthzInv'
  <2>1. change' = [change EXCEPT ![a] = NoChange] /\ change[a].at = "publish"
        /\ UNCHANGED <<tables, identity, rules, reload, access>>
        /\ notices' = [i \in AuthzInstances |->
                         IF i = change[a].on THEN notices[i] ELSE notices[i] + 1]
    BY <1>7 DEF PublishChange
  <2>0. /\ \A i \in AuthzInstances : notices'[i] =
              IF i = change[a].on THEN notices[i] ELSE notices[i] + 1
        /\ notices' \in [AuthzInstances -> Nat]
    <3>1. \A i \in AuthzInstances : notices[i] \in Nat
      BY <1>0 DEF AuthzTypes
    <3> QED BY <2>1, <3>1
  <2>2. change'[a] = NoChange /\ \A b \in AuthzChanges \ {a} : change'[b] = change[b]
    BY <1>0, <2>1 DEF AuthzTypes
  <2>3. AuthzTypes'
    BY <1>0, <2>0, <2>1, <2>2, AuthzRestTypes DEF AuthzTypes, NoChange
  <2>4. \A i \in AuthzInstances : ReloadDue(i) => ReloadDue(i)'
    <3> SUFFICES ASSUME NEW i \in AuthzInstances, ReloadDue(i) PROVE ReloadDue(i)'
      OBVIOUS
    <3>1. notices[i] \in Nat
      BY <1>0 DEF AuthzTypes
    <3>2. CASE i = change[a].on
      BY <2>0, <2>1, <2>2, <3>1, <3>2 DEF ReloadDue
    <3>3. CASE i # change[a].on
      BY <2>0, <3>1, <3>3 DEF ReloadDue
    <3> QED BY <3>2, <3>3
  <2>5. UnlinkDue => UnlinkDue'
    BY <2>1, <2>2 DEF UnlinkDue
  <2> QED BY <1>0, <2>1, <2>3, <2>4, <2>5, CopiesStep DEF RulesKnown
<1>8. ASSUME NEW i \in AuthzInstances, ConsumeNotice(i) PROVE AuthzInv'
  <2>1. /\ notices[i] > 0 /\ notices' = [notices EXCEPT ![i] = notices[i] - 1]
        /\ reload' = [reload EXCEPT ![i].at = "roles"]
        /\ UNCHANGED <<tables, identity, rules, change, access>>
    BY <1>8 DEF ConsumeNotice
  <2>0. notices' \in [AuthzInstances -> Nat]
    <3>1. notices \in [AuthzInstances -> Nat]
      BY <1>0 DEF AuthzTypes
    <3>2. notices[i] \in Nat /\ notices[i] > 0
      BY <2>1, <3>1
    <3>3. notices[i] - 1 \in Nat
      BY <3>2
    <3> QED BY <2>1, <3>1, <3>3
  <2>2. reload' \in [AuthzInstances -> Reloading] /\ reload'[i].at = "roles"
        /\ \A k \in AuthzInstances \ {i} : reload'[k] = reload[k] /\ notices'[k] = notices[k]
    BY <1>0, <2>1 DEF AuthzTypes, Reloading
  <2>3. AuthzTypes'
    BY <1>0, <2>0, <2>1, <2>2 DEF AuthzTypes
  <2>4. \A k \in AuthzInstances : ReloadDue(k) => ReloadDue(k)'
    BY <2>1, <2>2 DEF ReloadDue
  <2>5. UnlinkDue => UnlinkDue'
    BY <2>1 DEF UnlinkDue
  <2> QED BY <1>0, <2>1, <2>3, <2>4, <2>5, CopiesStep DEF RulesKnown
<1>9. ASSUME NEW i \in AuthzInstances, LoadForNotice(i) PROVE AuthzInv'
  <2> DEFINE j == LoadStep(reload[i])
  <2>1. reload' = [reload EXCEPT ![i] = j] /\ reload[i].at \in {"roles", "menus"}
        /\ UNCHANGED <<tables, identity, rules, notices, change, access>>
    BY <1>9 DEF LoadForNotice
  <2>2. j \in Reloading /\ j.at \in {"menus", "apply"}
    <3>1. reload[i] \in Reloading /\ tables \in Tables
      BY <1>0 DEF AuthzTypes
    <3> QED BY <2>1, <3>1, LoadStepType
  <2> HIDE DEF j
  <2>3. reload'[i] = j /\ \A k \in AuthzInstances \ {i} : reload'[k] = reload[k]
    BY <1>0, <2>1 DEF AuthzTypes
  <2>4. AuthzTypes'
    BY <1>0, <2>1, <2>2, <2>3 DEF AuthzTypes
  <2>5. \A k \in AuthzInstances : ReloadDue(k) => ReloadDue(k)'
    BY <2>1, <2>2, <2>3 DEF ReloadDue
  <2>6. UnlinkDue => UnlinkDue'
    BY <2>1 DEF UnlinkDue
  <2> QED BY <1>0, <2>1, <2>4, <2>5, <2>6, CopiesStep DEF RulesKnown
<1>10. ASSUME NEW i \in AuthzInstances, ApplyForNotice(i) PROVE AuthzInv'
  <2>1. reload' = [reload EXCEPT ![i] = AtRest] /\ reload[i] \in Reloading
        /\ rules' = [rules EXCEPT ![i] = [grant |-> reload[i].granted,
                               late |-> reload[i].granted # Granted(tables)]]
        /\ UNCHANGED <<tables, identity, notices, change, access>>
    BY <1>0, <1>10 DEF ApplyForNotice, Applied, AuthzTypes
  <2>2. /\ rules'[i] = [grant |-> reload[i].granted, late |-> reload[i].granted # Granted(tables)]
        /\ \A k \in AuthzInstances \ {i} : rules'[k] = rules[k] /\ reload'[k] = reload[k]
        /\ rules' \in [AuthzInstances -> [grant: SUBSET AuthzRoles, late: BOOLEAN]]
    BY <1>0, <2>1 DEF AuthzTypes, Reloading
  <2>3. AuthzTypes'
    BY <1>0, <2>1, <2>2, AuthzRestTypes DEF AuthzTypes
  <2>4. \A k \in AuthzInstances \ {i} : ReloadDue(k) => ReloadDue(k)'
    BY <2>1, <2>2 DEF ReloadDue
  <2>5. RulesExcused(rules'[i], tables)
    <3>1. CASE reload[i].granted = Granted(tables)
      BY <2>2, <3>1 DEF RulesExcused
    <3>2. CASE reload[i].granted # Granted(tables)
      <4>1. rules'[i] = [grant |-> reload[i].granted, late |-> TRUE]
        BY <2>2, <3>2
      <4> QED BY <4>1 DEF RulesExcused
    <3> QED BY <3>1, <3>2
  <2>6. UnlinkDue => UnlinkDue'
    BY <2>1 DEF UnlinkDue
  <2> QED BY <1>0, <2>1, <2>2, <2>3, <2>4, <2>5, <2>6, CopiesStep DEF RulesKnown
<1>11. ASSUME NEW c \in AuthzRequests, NEW i \in AuthzInstances, Arrived(c, i) PROVE AuthzInv'
  <2> DEFINE q == [NoRequest EXCEPT !.at = "get", !.on = i, !.held = Held(tables),
                     !.granted = Granted(tables), !.ruled = Rules(tables)]
  <2>1. q \in Access /\ q.on = i /\ RequestGrounded(q, tables)
    BY <1>0, ReadTypes, AuthzRestTypes
    DEF AuthzTypes, NoRequest, Access, AccessSteps, RequestGrounded
  <2>2. access' = [access EXCEPT ![c] = q] /\ UNCHANGED <<tables, identity, rules, notices, reload, change>>
    BY <1>11 DEF Arrived
  <2> HIDE DEF q
  <2> QED BY <2>1, <2>2, AccessStep
<1>12. ASSUME NEW c \in AuthzRequests, GetIdentity(c) PROVE AuthzInv'
  <2>0. access[c] \in Access /\ access[c].on \in AuthzInstances
        /\ RequestGrounded(access[c], tables) /\ access[c].at = "get"
        /\ UNCHANGED <<tables, identity, rules, notices, reload, change>>
    BY <1>0, <1>12 DEF AuthzTypes, Grounded, GetIdentity
  <2>1. CASE identity = NotCached
    <3> DEFINE q == [access[c] EXCEPT !.at = "user"]
    <3>1. q \in Access /\ q.on = access[c].on /\ RequestGrounded(q, tables)
      BY <2>0 DEF Access, AccessSteps, RequestGrounded
    <3>2. access' = [access EXCEPT ![c] = q]
      BY <1>0, <1>12, <2>1 DEF GetIdentity, AuthzTypes
    <3> QED BY <2>0, <3>1, <3>2, AccessStep
  <2>2. CASE identity # NotCached
    <3> DEFINE excuse == identity.is # Identity(tables) /\ (UnlinkDue \/ identity.late)
    <3>1. identity.is \in Principal /\ identity.late \in BOOLEAN
          /\ Resolved(c, identity.is, excuse)
      BY <1>0, <1>12, <2>2 DEF GetIdentity, AuthzTypes
    <3>2. identity.is = Identity(tables) \/ excuse
      BY <1>0, <2>2 DEF IdentityKnown, IdentityExcused
    <3>3. ASSUME identity.is = Identity(tables)
          PROVE  (identity.is.super => access[c].ruled) /\ identity.is.roles \subseteq access[c].held
      <4>1. CASE tables.live
        BY <2>0, <3>3, <4>1 DEF RequestGrounded, Identity, Rules, Held
      <4>2. CASE ~tables.live
        BY <3>3, <4>2 DEF Identity, NoOne
      <4> QED BY <4>1, <4>2
    <3>4. excuse \in BOOLEAN
      OBVIOUS
    <3> HIDE DEF excuse
    <3> QED BY <2>0, <3>1, <3>2, <3>3, <3>4, ResolvedStep
  <2> QED BY <2>1, <2>2
<1>13. ASSUME NEW c \in AuthzRequests, ReadUser(c) PROVE AuthzInv'
  <2>0. access[c] \in Access /\ access[c].on \in AuthzInstances /\ tables \in Tables
        /\ RequestGrounded(access[c], tables) /\ access[c].at = "user"
        /\ UNCHANGED <<tables, identity, rules, notices, reload, change>>
    BY <1>0, <1>13 DEF AuthzTypes, Grounded, ReadUser
  <2> DEFINE p == [Identity(tables) EXCEPT !.roles = {}]
             q == [access[c] EXCEPT !.at = IF tables.live THEN "roles" ELSE "fill", !.is = p]
  <2>1. access' = [access EXCEPT ![c] = q]
    BY <1>0, <1>13 DEF ReadUser, AuthzTypes
  <2>2. /\ p \in Principal /\ (p.super => Rules(tables)) /\ p.roles = {}
        /\ tables.live => p = [found |-> TRUE, super |-> tables.super, roles |-> {}]
        /\ ~tables.live => p = Identity(tables)
    <3>1. CASE tables.live
      <4>1. Identity(tables) = [found |-> TRUE, super |-> tables.super, roles |-> Held(tables)]
        BY <3>1 DEF Identity
      <4>2. p = [found |-> TRUE, super |-> tables.super, roles |-> {}]
        <5>1. Identity(tables) \in Principal
          BY <2>0, ReadTypes
        <5>2. p = [found |-> Identity(tables).found, super |-> Identity(tables).super, roles |-> {}]
          BY <5>1, RolesReplaced
        <5>3. Identity(tables).found = TRUE /\ Identity(tables).super = tables.super
          BY <4>1
        <5> QED BY <5>2, <5>3
      <4> QED BY <2>0, <3>1, <4>2 DEF Principal, Tables, Rules
    <3>2. CASE ~tables.live
      <4>1. Identity(tables) = [found |-> FALSE, super |-> FALSE, roles |-> {}]
        BY <3>2 DEF Identity, NoOne
      <4>2. p = [found |-> FALSE, super |-> FALSE, roles |-> {}]
        BY <4>1
      <4> QED BY <3>2, <4>1, <4>2 DEF Principal
    <3> QED BY <3>1, <3>2
  <2> HIDE DEF p
  <2>3. /\ q \in Access /\ q.on = access[c].on /\ q.is = p
        /\ q.at = IF tables.live THEN "roles" ELSE "fill"
        /\ q.held = access[c].held /\ q.granted = access[c].granted /\ q.ruled = access[c].ruled
    BY <2>0, <2>2 DEF Access, AccessSteps
  <2> HIDE DEF q
  <2>4. RequestGrounded(q, tables)
    BY <2>0, <2>2, <2>3 DEF RequestGrounded
  <2> QED BY <2>0, <2>1, <2>3, <2>4, AccessStep
<1>14. ASSUME NEW c \in AuthzRequests, ReadRolesOfUser(c) PROVE AuthzInv'
  <2>0. access[c] \in Access /\ access[c].on \in AuthzInstances /\ tables \in Tables
        /\ RequestGrounded(access[c], tables) /\ access[c].at = "roles"
        /\ UNCHANGED <<tables, identity, rules, notices, reload, change>>
    BY <1>0, <1>14 DEF AuthzTypes, Grounded, ReadRolesOfUser
  <2> DEFINE p == [access[c].is EXCEPT !.roles = tables.links \cap tables.enabled]
             q == [access[c] EXCEPT !.at = "fill", !.excused = access[c].late, !.is = p]
  <2>1. access' = [access EXCEPT ![c] = q]
    BY <1>0, <1>14, <2>0 DEF ReadRolesOfUser, AuthzTypes, Access
  <2>2. /\ p \in Principal /\ p.super = access[c].is.super
        /\ p.roles = tables.links \cap tables.enabled
        /\ ~access[c].late => p = Identity(tables) /\ p.roles = Held(tables)
    <3>1. access[c].is \in Principal
      BY <2>0 DEF Access
    <3>2. p \in Principal /\ p.super = access[c].is.super
          /\ p.roles = tables.links \cap tables.enabled
      BY <2>0, <3>1 DEF Principal, Tables
    <3>3. ASSUME ~access[c].late PROVE p = Identity(tables) /\ p.roles = Held(tables)
      <4>1. tables.live
            /\ access[c].is = [found |-> TRUE, super |-> tables.super, roles |-> {}]
        BY <2>0, <3>3 DEF RequestGrounded
      <4>2. Identity(tables) = [found |-> TRUE, super |-> tables.super,
                                roles |-> tables.links \cap tables.enabled]
        BY <4>1 DEF Identity, Held
      <4>3. p = [found |-> TRUE, super |-> tables.super, roles |-> tables.links \cap tables.enabled]
        <5>1. access[c].is \in Principal /\ tables.links \cap tables.enabled \in SUBSET AuthzRoles
          BY <2>0 DEF Access, Tables
        <5>2. p = [found |-> access[c].is.found, super |-> access[c].is.super,
                   roles |-> tables.links \cap tables.enabled]
          BY <5>1, RolesReplaced
        <5>3. access[c].is.found = TRUE /\ access[c].is.super = tables.super
          BY <4>1
        <5> QED BY <5>2, <5>3
      <4> QED BY <4>1, <4>2, <4>3 DEF Held
    <3> QED BY <3>2, <3>3
  <2> HIDE DEF p
  <2>3. /\ q \in Access /\ q.on = access[c].on /\ q.is = p /\ q.at = "fill"
        /\ q.late = access[c].late /\ q.excused = access[c].late
        /\ q.held = access[c].held /\ q.granted = access[c].granted /\ q.ruled = access[c].ruled
    BY <2>0, <2>2 DEF Access, AccessSteps
  <2> HIDE DEF q
  <2>4. RequestGrounded(q, tables)
    BY <2>0, <2>2, <2>3 DEF RequestGrounded
  <2> QED BY <2>0, <2>1, <2>3, <2>4, AccessStep
<1>15. ASSUME NEW c \in AuthzRequests, FillIdentity(c) PROVE AuthzInv'
  <2>0. access[c] \in Access /\ access[c].on \in AuthzInstances
        /\ RequestGrounded(access[c], tables) /\ access[c].at = "fill"
        /\ UNCHANGED <<tables, rules, notices, reload, change>>
        /\ identity' = [is |-> access[c].is, late |-> access[c].late]
        /\ Resolved(c, access[c].is, FALSE)
    BY <1>0, <1>15 DEF AuthzTypes, Grounded, FillIdentity
  <2>1. access[c].is \in Principal /\ access[c].late \in BOOLEAN
    BY <2>0 DEF Access
  <2>2. identity' \in [is: Principal, late: BOOLEAN]
        /\ (identity'.is = Identity(tables) \/ identity'.late)
    BY <2>0, <2>1 DEF RequestGrounded
  <2>3. \/ access[c].excused
        \/ (access[c].is.super => access[c].ruled) /\ access[c].is.roles \subseteq access[c].held
    BY <2>0 DEF RequestGrounded
  <2> QED BY <2>0, <2>1, <2>2, <2>3, ResolvedStep
<1>16. ASSUME NEW c \in AuthzRequests, NEW role \in AuthzRoles, AskRole(c, role) PROVE AuthzInv'
  <2> DEFINE i == access[c].on
             excuse == rules[i].grant # Granted(tables) /\ (ReloadDue(i) \/ rules[i].late)
  <2>0. access[c] \in Access /\ i \in AuthzInstances
        /\ RequestGrounded(access[c], tables) /\ access[c].at = "ask" /\ role \in access[c].toAsk
        /\ UNCHANGED <<tables, identity, rules, notices, reload, change>>
        /\ excuse \in BOOLEAN
    BY <1>0, <1>16 DEF AuthzTypes, Grounded, AskRole
  <2>1. CASE role \in rules[i].grant
    <3> DEFINE q == [access[c] EXCEPT !.at = "admitted", !.is.roles = {role},
                        !.toAsk = {}, !.excused = access[c].excused \/ excuse]
    <3>1. access' = [access EXCEPT ![c] = q]
      BY <1>16, <2>1, Zenon DEF AskRole
    <3>2. rules[i].grant = Granted(tables) \/ excuse
      BY <1>0, <2>0 DEF RulesKnown, RulesExcused
    <3> HIDE DEF excuse
    <3>3. /\ q \in Access /\ q.on = access[c].on /\ q.at = "admitted"
          /\ q.is.super = access[c].is.super /\ q.is.roles = {role}
          /\ q.excused = (access[c].excused \/ excuse)
          /\ q.held = access[c].held /\ q.granted = access[c].granted /\ q.ruled = access[c].ruled
      BY <2>0 DEF Access, AccessSteps, Principal
    <3> HIDE DEF q
    <3>4. RequestGrounded(q, tables)
      BY <2>0, <2>1, <3>2, <3>3 DEF RequestGrounded
    <3> QED BY <2>0, <3>1, <3>3, <3>4, AccessStep
  <2>2. CASE role \notin rules[i].grant
    <3> DEFINE q == [access[c] EXCEPT !.toAsk = access[c].toAsk \ {role}]
    <3>1. access' = [access EXCEPT ![c] = q]
      BY <1>16, <2>2, Zenon DEF AskRole
    <3>2. q \in Access /\ q.on = access[c].on /\ RequestGrounded(q, tables)
      BY <2>0 DEF Access, RequestGrounded
    <3> QED BY <2>0, <3>1, <3>2, AccessStep
  <2> QED BY <2>1, <2>2
<1>17. ASSUME NEW c \in AuthzRequests, EndRequest(c) PROVE AuthzInv'
  <2>1. RequestGrounded(NoRequest, tables) /\ NoRequest.at = "rest"
    BY DEF RequestGrounded, NoRequest
  <2> QED BY <1>17, <2>1, AccessStep, AuthzRestTypes DEF EndRequest, Refuse
<1>18. CASE ExpireIdentity
  <2>1. identity' = NotCached /\ UNCHANGED <<tables, rules, notices, reload, change, access>>
    BY <1>18 DEF ExpireIdentity
  <2>2. AuthzTypes'
    BY <1>0, <2>1 DEF AuthzTypes
  <2>3. \A k \in AuthzInstances : ReloadDue(k) => ReloadDue(k)'
    BY <2>1 DEF ReloadDue
  <2> QED BY <1>0, <2>1, <2>2, <2>3, CopiesStep DEF RulesKnown
<1>19. CASE UNCHANGED authzVars
  BY <1>0, <1>19 DEF AuthzInv, authzVars, AuthzTypes, IdentityKnown, IdentityExcused, UnlinkDue,
     RulesKnown, RulesExcused, ReloadDue, Grounded
<1> QED
  BY <1>1, <1>2, <1>3, <1>4, <1>5, <1>6, <1>7, <1>8, <1>9, <1>10, <1>11, <1>12, <1>13, <1>14,
     <1>15, <1>16, <1>17, <1>18, <1>19 DEF AuthorizationNext

\* Nobody is admitted without a ground in the tables, of his own time, or one of
\* the named excuses (AuthorizationMiddleware over ResolvePrincipal and Enforce).
THEOREM NoneAdmittedGroundless == AuthorizationSpec => []AdmittedOnGround
<1>1. AuthzInv => AdmittedOnGround
  BY DEF AuthzInv, Grounded, RequestGrounded, AdmittedOnGround
<1> QED
  BY <1>1, AuthorizationInit_Inv, AuthorizationStep, PTL DEF AuthorizationSpec

\* An instance has at most one notice for every change that is over: a change
\* publishes once, as its last step.
Over == {a \in AuthzChanges : change[a].at = "rest"}
NoticesCounted == \A i \in AuthzInstances : notices[i] <= Cardinality(Over)

LEMMA OverIsFinite == IsFiniteSet(Over) /\ Cardinality(Over) \in Nat
<1>1. IsFiniteSet(Over)
  BY AuthorizationAssumption, FS_Subset DEF Over
<1> QED BY <1>1, FS_CardinalityType

\* A step that publishes nothing.
LEMMA UnpublishedStep ==
    ASSUME AuthzTypes, AuthzTypes', NoticesCounted,
           \A i \in AuthzInstances : notices'[i] <= notices[i],
           \A a \in AuthzChanges : change[a].at = "rest" => change'[a].at = "rest"
    PROVE  NoticesCounted'
<1>1. Over \subseteq Over' /\ IsFiniteSet(Over')
  BY AuthorizationAssumption, FS_Subset DEF Over
<1>2. Cardinality(Over) <= Cardinality(Over')
  BY <1>1, FS_Subset
<1>3. Cardinality(Over) \in Nat /\ Cardinality(Over') \in Nat
  BY <1>1, OverIsFinite, FS_CardinalityType
<1>4. ASSUME NEW i \in AuthzInstances PROVE notices'[i] <= Cardinality(Over')
  <2>1. notices[i] \in Nat /\ notices'[i] \in Nat
    BY DEF AuthzTypes
  <2>2. notices'[i] <= notices[i] /\ notices[i] <= Cardinality(Over)
    BY DEF NoticesCounted
  <2> QED BY <1>2, <1>3, <2>1, <2>2
<1> QED BY <1>4 DEF NoticesCounted

LEMMA NoticesStep ==
    AuthzInv /\ AuthzInv' /\ NoticesCounted /\ [AuthorizationNext]_authzVars => NoticesCounted'
<1> SUFFICES ASSUME AuthzInv, AuthzInv', NoticesCounted, [AuthorizationNext]_authzVars
             PROVE  NoticesCounted'
  OBVIOUS
<1>0. AuthzTypes /\ AuthzTypes'
  BY DEF AuthzInv
<1>1. ASSUME NEW i \in AuthzInstances PROVE notices[i] \in Nat /\ notices[i] <= notices[i]
  <2>1. notices[i] \in Nat
    BY <1>0 DEF AuthzTypes
  <2> QED BY <2>1
<1>2. ASSUME NEW a \in AuthzChanges, PublishChange(a) PROVE NoticesCounted'
  <2>1. change' = [change EXCEPT ![a] = NoChange] /\ change[a].at = "publish"
        /\ notices' = [i \in AuthzInstances |->
                         IF i = change[a].on THEN notices[i] ELSE notices[i] + 1]
    BY <1>2 DEF PublishChange
  <2>2. change'[a].at = "rest" /\ \A b \in AuthzChanges \ {a} : change'[b] = change[b]
    BY <1>0, <2>1 DEF AuthzTypes, NoChange
  <2>3. Over' = Over \cup {a} /\ a \notin Over
    BY <2>1, <2>2 DEF Over
  <2>4. Cardinality(Over') = Cardinality(Over) + 1
    BY <2>3, OverIsFinite, FS_AddElement
  <2>5. ASSUME NEW i \in AuthzInstances PROVE notices'[i] <= Cardinality(Over')
    <3>1. notices[i] \in Nat /\ notices[i] <= Cardinality(Over)
      BY <1>1 DEF NoticesCounted
    <3>2. notices'[i] \in {notices[i], notices[i] + 1}
      BY <2>1
    <3> QED BY <2>4, <3>1, <3>2, OverIsFinite
  <2> QED BY <2>5 DEF NoticesCounted
<1>3. ASSUME NEW i \in AuthzInstances, ConsumeNotice(i) PROVE NoticesCounted'
  <2>1. notices' = [notices EXCEPT ![i] = notices[i] - 1] /\ change' = change
    BY <1>3 DEF ConsumeNotice
  <2>2. ASSUME NEW k \in AuthzInstances PROVE notices'[k] <= notices[k]
    <3>1. notices[k] \in Nat /\ notices'[k] = IF k = i THEN notices[i] - 1 ELSE notices[k]
      BY <1>0, <2>1 DEF AuthzTypes
    <3> QED BY <3>1
  <2> QED BY <1>0, <2>1, <2>2, UnpublishedStep
<1>4. ASSUME NEW a \in AuthzChanges, notices' = notices, change[a].at # "rest",
             \A b \in AuthzChanges \ {a} : change'[b] = change[b]
      PROVE  NoticesCounted'
  BY <1>0, <1>1, <1>4, UnpublishedStep
<1>5. ASSUME UNCHANGED <<notices, change>> PROVE NoticesCounted'
  BY <1>0, <1>1, <1>5, UnpublishedStep
<1>6. ASSUME NEW a \in AuthzChanges, NEW j, change' = [change EXCEPT ![a] = j]
      PROVE  \A b \in AuthzChanges \ {a} : change'[b] = change[b]
  BY <1>0, <1>6 DEF AuthzTypes
<1>7. ASSUME NEW a \in AuthzChanges, NEW i, NEW t, NEW unlinks, NEW reloads,
             Commits(a, i, t, unlinks, reloads)
      PROVE  NoticesCounted'
  <2>1. /\ change[a].at = "to come" /\ notices' = notices
        /\ \E j : change' = [change EXCEPT ![a] = j]
    BY <1>7 DEF Commits
  <2> QED BY <1>4, <1>6, <2>1
<1>8. ASSUME NEW a \in AuthzChanges, NEW i \in AuthzInstances,
             \/ ChangeUser(a, i)
             \/ \E role \in AuthzRoles, on \in BOOLEAN : ChangeRole(a, i, role, on)
             \/ ChangeGrants(a, i)
      PROVE  NoticesCounted'
  BY <1>7, <1>8 DEF ChangeUser, ChangeRole, ChangeGrants, WithReload
<1>9. ASSUME NEW a \in AuthzChanges,
             UnlinkIdentity(a) \/ LoadForChange(a) \/ ApplyForChange(a)
      PROVE  NoticesCounted'
  <2>1. change[a].at # "rest" /\ notices' = notices
    BY <1>9 DEF UnlinkIdentity, LoadForChange, ApplyForChange
  <2>2. \A b \in AuthzChanges \ {a} : change'[b] = change[b]
    BY <1>0, <1>9 DEF AuthzTypes, UnlinkIdentity, LoadForChange, ApplyForChange
  <2> QED BY <1>4, <2>1, <2>2
<1>10. ASSUME NEW i \in AuthzInstances, LoadForNotice(i) \/ ApplyForNotice(i)
       PROVE  NoticesCounted'
  BY <1>5, <1>10 DEF LoadForNotice, ApplyForNotice
<1>11. ASSUME NEW c \in AuthzRequests,
              \/ \E i \in AuthzInstances : Arrived(c, i)
              \/ GetIdentity(c) \/ ReadUser(c) \/ ReadRolesOfUser(c) \/ FillIdentity(c)
              \/ \E role \in AuthzRoles : AskRole(c, role)
              \/ EndRequest(c)
       PROVE  NoticesCounted'
  BY <1>5, <1>11 DEF Arrived, GetIdentity, ReadUser, ReadRolesOfUser, FillIdentity, AskRole,
                     EndRequest
<1>12. CASE ExpireIdentity
  BY <1>5, <1>12 DEF ExpireIdentity
<1>13. CASE UNCHANGED authzVars
  BY <1>5, <1>13 DEF authzVars
<1> QED
  BY <1>2, <1>3, <1>8, <1>9, <1>10, <1>11, <1>12, <1>13 DEF AuthorizationNext

\* The tables, the copies and what a request has read have the types they should.
THEOREM AuthorizationTypesHold == AuthorizationSpec => []AuthorizationTypeOK
<1>1. AuthorizationInit => NoticesCounted
  <2>1. AuthorizationInit => \A i \in AuthzInstances : notices[i] = 0
    BY DEF AuthorizationInit
  <2>2. \A n \in Nat : 0 <= n
    OBVIOUS
  <2> QED BY <2>1, <2>2, OverIsFinite DEF NoticesCounted
<1>2. ASSUME AuthzInv, NoticesCounted PROVE AuthorizationTypeOK
  <2>1. AuthzTypes /\ Over \subseteq AuthzChanges
    BY <1>2 DEF AuthzInv, Over
  <2>2. /\ Cardinality(Over) <= Cardinality(AuthzChanges)
        /\ Cardinality(Over) \in Nat /\ Cardinality(AuthzChanges) \in Nat
    BY <2>1, AuthorizationAssumption, FS_Subset, FS_CardinalityType
  <2>3. notices \in [AuthzInstances -> 0..Cardinality(AuthzChanges)]
    <3>1. notices \in [AuthzInstances -> Nat]
      BY <2>1 DEF AuthzTypes
    <3>2. ASSUME NEW i \in AuthzInstances PROVE notices[i] \in 0..Cardinality(AuthzChanges)
      <4>1. notices[i] \in Nat /\ notices[i] <= Cardinality(Over)
        BY <1>2, <3>1 DEF NoticesCounted
      <4> QED BY <2>2, <4>1
    <3> QED BY <3>1, <3>2
  <2> QED BY <2>1, <2>3 DEF AuthzTypes, AuthorizationTypeOK, Tables, Access
<1> QED
  BY <1>1, <1>2, NoticesStep, AuthorizationInit_Inv, AuthorizationStep, PTL
     DEF AuthorizationSpec
=============================================================================
