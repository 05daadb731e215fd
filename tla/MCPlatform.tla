----------------------------- MODULE MCPlatform -----------------------------
(***************************************************************************)
(* The components around the services, side by side: part chooses one at   *)
(* first and it alone takes steps, so the states of one add to those of    *)
(* the next.  The others rest in one of their initial states.              *)
(*                                                                         *)
(* Each part comes with its bounds, here and in the configuration.  The    *)
(* stores have two calls over two keys (and two parts), or three calls     *)
(* over one key (and one part); profiles has one change in two instances,  *)
(* and roles two changes in one; in grants the requests come to i1, as     *)
(* instances are alike, and the first change is a1, as changes are.        *)
(***************************************************************************)
EXTENDS LocalStorage, CloudStorage, Profiles, Lifecycle, SharedLoad, Authorization,
        RetryDelays

CONSTANTS i1, k1, a1  \* members of the sets of the configuration

VARIABLE part

Parts == {"objects", "one object", "cloud", "one in the cloud", "profiles", "roles",
          "lifecycle", "load", "grants", "retries"}

\* What rests is the same in every initial state, and of two keys that are alike
\* k1 is the one that is there.
Rests ==
    /\ \A p \in Paths : named[p] # NoFile =>
          \/ part = "objects" /\ (p \in ObjectKeys => named[k1] # NoFile)
          \/ part = "one object" /\ p = k1
    /\ provider = "cos" => part \in {"cloud", "one in the cloud"}
    /\ provider # "s3"  \* takes the steps of oss
    /\ \A k \in CloudKeys : (bucket[k] # NoObject) = (k = k1)
    /\ part # "roles" => userLinks = RoleCodes
    /\ part # "lifecycle" => configured = {}
    /\ part # "load" => /\ loadable = TRUE /\ nilCached = TRUE
                        /\ \A c \in LoadCalls : lookup[c].on = i1
    /\ part # "grants" => tables.links = {} /\ tables.grants = {}

PlatformInit ==
    /\ part \in Parts
    /\ StorageInit /\ CloudInit /\ ProfilesInit /\ LifecycleInit /\ SharedLoadInit
    /\ AuthorizationInit
    /\ Rests
    /\ RetryInit
    /\ part # "retries" =>
          retry.strategy = "fixed" /\ retry.interval = Second /\ retry.maxInterval = 0

TwoObjectCalls == \E c \in StoreCalls : call'[c].at = "waiting"
OneObject == /\ \A p \in Paths \ {k1, 1} : named'[p] = named[p]
             /\ \A c \in StoreCalls : {call'[c].from, call'[c].to} \subseteq {k1, 1, NoFile}
TwoCloudCalls == \E c \in CloudCalls : order'[c].at = "to come"
OneCloudKey == \A c \in CloudCalls : /\ {order'[c].from, order'[c].to} \cap CloudKeys \subseteq {k1}
                                     /\ order'[c].keys \subseteq {k1}
OneChange   == changed' <= 1
OneInstance == \A v \in ProfileCalls : visit'[v].on \in {i1, NoProfile}
InOrder == /\ \A a \in AuthzChanges \ {a1} :
                 change'[a].at # "to come" => change'[a1].at # "to come"
           /\ \A c \in AuthzRequests : access'[c].on \in {i1, NotCached}

PlatformNext ==
    \/ /\ \/ part = "objects" /\ StorageNext /\ TwoObjectCalls
          \/ part = "one object" /\ StorageNext /\ OneObject
       /\ UNCHANGED <<part, cloudVars, profileVars, lifecycleVars, loadVars, authzVars,
                      retryVars>>
    \/ /\ \/ part = "cloud" /\ CloudNext /\ TwoCloudCalls
          \/ part = "one in the cloud" /\ CloudNext /\ OneCloudKey
       /\ UNCHANGED <<part, storageVars, profileVars, lifecycleVars, loadVars, authzVars,
                      retryVars>>
    \/ /\ \/ part = "profiles" /\ ProfilesNext /\ OneChange
          \/ part = "roles" /\ ProfilesNext /\ OneInstance
       /\ UNCHANGED <<part, storageVars, cloudVars, lifecycleVars, loadVars, authzVars,
                      retryVars>>
    \/ /\ part = "lifecycle" /\ LifecycleNext
       /\ UNCHANGED <<part, storageVars, cloudVars, profileVars, loadVars, authzVars,
                      retryVars>>
    \/ /\ part = "load" /\ SharedLoadNext
       /\ UNCHANGED <<part, storageVars, cloudVars, profileVars, lifecycleVars, authzVars,
                      retryVars>>
    \/ /\ part = "grants" /\ AuthorizationNext /\ InOrder
       /\ UNCHANGED <<part, storageVars, cloudVars, profileVars, lifecycleVars, loadVars,
                      retryVars>>
    \/ /\ part = "retries" /\ RetryNext
       /\ UNCHANGED <<part, storageVars, cloudVars, profileVars, lifecycleVars, loadVars,
                      authzVars>>

platformVars == <<part, storageVars, cloudVars, profileVars, lifecycleVars, loadVars,
                  authzVars, retryVars>>
PlatformSpec == PlatformInit /\ [][PlatformNext]_platformVars

\* The fairness of Lifecycle, in its part.
ProcessFairness ==
    /\ WF_lifecycleVars(part = "lifecycle" /\ RunStep)
    /\ \A c \in {"http"} \cup Runners :
         WF_lifecycleVars(part = "lifecycle" /\ ShutdownStep(c))
    /\ WF_lifecycleVars(part = "lifecycle" /\ LifecycleTick)

PlatformFairSpec == PlatformSpec /\ ProcessFairness

PlatformTypes ==
    /\ StorageTypeOK /\ CloudTypeOK /\ ProfilesTypeOK /\ LifecycleTypeOK
    /\ SharedLoadTypeOK /\ AuthorizationTypeOK /\ RetryTypeOK
=============================================================================
