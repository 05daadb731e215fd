----------------------------- MODULE SharedLoad -----------------------------
(***************************************************************************)
(* redisx.Cache: GetOrLoad answers from Redis or, on a miss, loads the     *)
(* value once for all the calls of its instance (singleflight, external)   *)
(* and stores it; Delete removes it.  There is one key here.               *)
(*                                                                         *)
(* A value is whether it can be loaded at all: the cache remembers the     *)
(* absence of one too, if it is told to.  A corrupt payload is one this    *)
(* program cannot decode (another release wrote it); whoever reads it      *)
(* removes what is there by then.  A command that fails may have had its   *)
(* effect, but has it before it is reported to fail.                       *)
(*                                                                         *)
(* fills is history: how often an instance has stored a loaded value since *)
(* the key was last without one.  JoinToLoad is a slip the code could have *)
(* made, right before the definition it distorts.                          *)
(***************************************************************************)
EXTENDS Naturals

CONSTANTS LoadInstances, LoadCalls, NobodyLoads

ASSUME SharedLoadAssumption == NobodyLoads \notin LoadCalls

VARIABLES
    loadable,  \* whether there is a value to load
    nilCached, \* CacheNil
    cached,    \* the key in Redis
    lookup,    \* the calls
    flight,    \* instance -> the call that loads for all the others
    fills

loadVars == <<loadable, nilCached, cached, lookup, flight, fills>>

CacheStates == {"missing", "value", "nil", "corrupt"}
LookupSteps == {"idle", "get", "clean", "join", "get again", "clean again", "load",
                "set", "wait"}
NoLookup(c) == [at |-> "idle", on |-> lookup[c].on, found |-> FALSE]

SharedLoadInit ==
    /\ loadable \in BOOLEAN /\ nilCached \in BOOLEAN
    /\ cached = "missing"
    /\ lookup \in [LoadCalls -> [at: {"idle"}, on: LoadInstances, found: {FALSE}]]
    /\ flight = [i \in LoadInstances |-> NobodyLoads]
    /\ fills = [i \in LoadInstances |-> 0]

-----------------------------------------------------------------------------
LooksOn(c, at) == lookup' = [lookup EXCEPT ![c].at = at]
SameKey        == UNCHANGED <<cached, fills>>
SameSource     == UNCHANGED <<loadable, nilCached>>

\* The key loses its value, for whatever reason.
KeyRemoved == cached' = "missing" /\ fills' = [i \in LoadInstances |-> 0]

\* A call is over.  One that leads takes the calls that wait for it with it:
\* group.Do hands its result, an error as well, to all of them.
Followers(c) == {d \in LoadCalls : lookup[d].at = "wait" /\ lookup[d].on = lookup[c].on}
Returns(c) ==
    IF flight[lookup[c].on] = c
    THEN /\ flight' = [flight EXCEPT ![lookup[c].on] = NobodyLoads]
         /\ lookup' = [d \in LoadCalls |->
                         IF d \in Followers(c) \cup {c} THEN NoLookup(d) ELSE lookup[d]]
    ELSE lookup' = [lookup EXCEPT ![c] = NoLookup(c)] /\ UNCHANGED flight

GetOrLoad(c) ==
    /\ lookup[c].at = "idle"
    /\ LooksOn(c, "get")
    /\ UNCHANGED flight /\ SameKey /\ SameSource

\* get, before the call joins the others and again once it leads them.
ReadKey(c) ==
    /\ lookup[c].at \in {"get", "get again"}
    /\ LET first == lookup[c].at = "get"
       IN  CASE cached = "missing" ->
                    LooksOn(c, IF first THEN "join" ELSE "load") /\ UNCHANGED flight
             [] cached = "corrupt" ->
                    LooksOn(c, IF first THEN "clean" ELSE "clean again") /\ UNCHANGED flight
             [] OTHER -> Returns(c)
    /\ SameKey /\ SameSource

\* cleanCorrupt; the call fails even if the key is clean now.
CleanKey(c) ==
    /\ lookup[c].at \in {"clean", "clean again"}
    /\ KeyRemoved
    /\ Returns(c)
    /\ SameSource

\* group.Do
JoinToLoad == "load"
JoinToLook == "get again"
Join(c) ==
    /\ lookup[c].at = "join"
    /\ IF flight[lookup[c].on] = NobodyLoads
       THEN LooksOn(c, JoinToLook) /\ flight' = [flight EXCEPT ![lookup[c].on] = c]
       ELSE LooksOn(c, "wait") /\ UNCHANGED flight
    /\ SameKey /\ SameSource

LoadValue(c) ==
    /\ lookup[c].at = "load"
    /\ IF loadable \/ nilCached
       THEN /\ lookup' = [lookup EXCEPT ![c].at = "set", ![c].found = loadable]
            /\ UNCHANGED flight
       ELSE Returns(c)
    /\ SameKey /\ SameSource

Store(c) ==
    /\ cached' = IF lookup[c].found THEN "value" ELSE "nil"
    /\ fills' = [fills EXCEPT ![lookup[c].on] = IF @ = 2 THEN 2 ELSE @ + 1]

\* Set or setNil
SetKey(c) ==
    /\ lookup[c].at = "set"
    /\ Store(c)
    /\ Returns(c)
    /\ SameSource

\* Redis or the loader fails, for one because the caller of c has gone (the
\* loader runs with the context of the call that leads).
LookupFails(c) ==
    /\ lookup[c].at \notin {"idle", "join", "wait"}
    /\ \/ SameKey
       \/ lookup[c].at = "set" /\ Store(c)
       \/ lookup[c].at \in {"clean", "clean again"} /\ KeyRemoved
    /\ Returns(c)
    /\ SameSource

-----------------------------------------------------------------------------
\* Delete, or the entry expires.
RemoveKey ==
    /\ cached # "missing" /\ KeyRemoved
    /\ UNCHANGED <<lookup, flight>> /\ SameSource

CorruptKey ==
    /\ cached # "corrupt"
    /\ cached' = "corrupt"
    /\ UNCHANGED <<lookup, flight, fills>> /\ SameSource

ChangeSource ==
    /\ loadable' = ~loadable
    /\ UNCHANGED <<nilCached, lookup, flight>> /\ SameKey

LoaderStops(i) ==
    /\ \E c \in LoadCalls : lookup[c].on = i /\ lookup[c].at # "idle"
    /\ lookup' = [c \in LoadCalls |-> IF lookup[c].on = i THEN NoLookup(c) ELSE lookup[c]]
    /\ flight' = [flight EXCEPT ![i] = NobodyLoads]
    /\ SameKey /\ SameSource

SharedLoadNext ==
    \/ \E c \in LoadCalls : \/ GetOrLoad(c) \/ ReadKey(c) \/ CleanKey(c) \/ Join(c)
                            \/ LoadValue(c) \/ SetKey(c) \/ LookupFails(c)
    \/ RemoveKey \/ CorruptKey \/ ChangeSource
    \/ \E i \in LoadInstances : LoaderStops(i)

SharedLoadSpec == SharedLoadInit /\ [][SharedLoadNext]_loadVars

-----------------------------------------------------------------------------
SharedLoadTypeOK ==
    /\ loadable \in BOOLEAN /\ nilCached \in BOOLEAN
    /\ cached \in CacheStates
    /\ lookup \in [LoadCalls -> [at: LookupSteps, on: LoadInstances, found: BOOLEAN]]
    /\ flight \in [LoadInstances -> LoadCalls \cup {NobodyLoads}]
    /\ fills \in [LoadInstances -> 0..2]

\* An instance stores a loaded value at most once while the key has one, however
\* many calls found the key missing, whoever leads them and however they end:
\* the second look of the call that leads is what stops the ones that come late.
OneFillPerRemoval == \A i \in LoadInstances : fills[i] <= 1
=============================================================================
