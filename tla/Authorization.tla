---------------------------- MODULE Authorization ---------------------------
(***************************************************************************)
(* Who is let through: the middleware resolves a user's roles through the  *)
(* identity cache in Redis, which all instances share, and asks the Casbin *)
(* policy of its own instance whether one of the roles has the permission  *)
(* of the route.  The two follow the tables on different ways, and a       *)
(* request reads them one after the other; here they meet.  Session and    *)
(* PolicySync look at each way alone, with its faults; here nothing fails  *)
(* and no instance restarts.                                               *)
(*                                                                         *)
(* There is one user and one permission.  A change is the transaction of a *)
(* call of the rbac or user service, then what NotifyChanged does of it.   *)
(*                                                                         *)
(* History: for each request, the roles the user held and the roles that   *)
(* granted the permission at some moment since it came (held, granted),    *)
(* whether the user was a super administrator at one (ruled), and whether  *)
(* it met a copy that was known to be late (excused).  WithoutReload is a  *)
(* slip the code could have made, right before the definition it distorts. *)
(***************************************************************************)
EXTENDS Naturals, FiniteSets

CONSTANTS AuthzInstances, AuthzRequests, AuthzChanges, AuthzRoles, NotCached

ASSUME AuthorizationAssumption ==
    /\ \A i \in AuthzInstances : i # NotCached
    /\ IsFiniteSet(AuthzChanges)

VARIABLES
    tables,    \* what the database says of the user and the permission
    identity,  \* the identity cache
    rules,     \* instance -> the roles that grant the permission
    notices,   \* instance -> reload events not consumed yet
    reload,    \* instance -> the load of its consumer goroutine
    change,    \* the calls that change the tables
    access     \* the requests

authzVars == <<tables, identity, rules, notices, reload, change, access>>

NoOne == [found |-> FALSE, super |-> FALSE, roles |-> {}]
Principal == [found: BOOLEAN, super: BOOLEAN, roles: SUBSET AuthzRoles]

Held(t)    == IF t.live THEN t.links \cap t.enabled ELSE {}
Granted(t) == t.grants \cap t.enabled
Rules(t)   == t.live /\ t.super
Identity(t) == IF t.live THEN [found |-> TRUE, super |-> t.super, roles |-> Held(t)]
                         ELSE NoOne

AtRest    == [at |-> "rest", enabled |-> {}, granted |-> {}]
NoChange  == [at |-> "rest", on |-> NotCached, reloads |-> FALSE,
              enabled |-> {}, granted |-> {}]
NoRequest == [at |-> "rest", on |-> NotCached, is |-> NoOne, late |-> FALSE,
              toAsk |-> {}, held |-> {}, granted |-> {}, ruled |-> FALSE,
              excused |-> FALSE]

AuthorizationInit ==
    /\ tables \in [live: {TRUE}, super: {FALSE}, links: SUBSET AuthzRoles,
                   enabled: {AuthzRoles}, grants: SUBSET AuthzRoles]
    /\ identity = NotCached
    /\ rules = [i \in AuthzInstances |-> [grant |-> Granted(tables), late |-> FALSE]]
    /\ notices = [i \in AuthzInstances |-> 0]
    /\ reload = [i \in AuthzInstances |-> AtRest]
    /\ change = [a \in AuthzChanges |-> [NoChange EXCEPT !.at = "to come"]]
    /\ access = [c \in AuthzRequests |-> NoRequest]

-----------------------------------------------------------------------------
(* A change *)

\* Requests on their way see both states; one that is reading the user from the
\* database may store what was.
Witnessed(t) ==
    access' = [c \in AuthzRequests |->
        IF access[c].at = "rest" THEN access[c]
        ELSE [access[c] EXCEPT !.held = @ \cup Held(t), !.granted = @ \cup Granted(t),
                               !.ruled = @ \/ Rules(t),
                               !.late = @ \/ access[c].at \in {"roles", "fill"}]]

\* The transaction of a change and what it will tell NotifyChanged.
Commits(a, i, t, unlinks, reloads) ==
    /\ change[a].at = "to come"
    /\ tables' = t /\ t # tables
    /\ change' = [change EXCEPT ![a] =
         IF unlinks THEN [NoChange EXCEPT !.at = "unlink", !.on = i, !.reloads = reloads]
         ELSE IF reloads THEN [NoChange EXCEPT !.at = "roles", !.on = i, !.reloads = TRUE]
         ELSE NoChange]
    /\ Witnessed(t)
    /\ UNCHANGED <<identity, rules, notices, reload>>

\* user Update, Delete and rbac ReplaceUserRoles
ChangeUser(a, i) ==
    \E live, super \in BOOLEAN, links \in SUBSET AuthzRoles :
        Commits(a, i, [tables EXCEPT !.live = live, !.super = super, !.links = links],
                TRUE, FALSE)

\* rbac UpdateRole of is_enable: for the users of the role, and the policy.
ChangeRole(a, i, role, on) ==
    Commits(a, i, [tables EXCEPT !.enabled = IF on THEN @ \cup {role} ELSE @ \ {role}],
            role \in tables.links, TRUE)

\* rbac ReplaceRolePermissions and DeletePermission: for the policy.
WithoutReload(a, i, grants) ==
    Commits(a, i, [tables EXCEPT !.grants = grants], FALSE, FALSE)
WithReload(a, i, grants) ==
    Commits(a, i, [tables EXCEPT !.grants = grants], FALSE, TRUE)
ChangeGrants(a, i) ==
    \/ WithReload(a, i, {})
    \/ \E role \in AuthzRoles : WithReload(a, i, tables.grants \cup {role})
    \/ \E role \in AuthzRoles : WithReload(a, i, tables.grants \ {role})

\* NotifyChanged: the identity first
UnlinkIdentity(a) ==
    /\ change[a].at = "unlink"
    /\ identity' = NotCached
    /\ change' = [change EXCEPT ![a] = IF @.reloads THEN [@ EXCEPT !.at = "roles"]
                                                    ELSE NoChange]
    /\ UNCHANGED <<tables, rules, notices, reload, access>>

\* LoadPolicyRules reads the enabled roles, then what they are related to; the
\* model is replaced later.
LoadStep(l) == CASE l.at = "roles" -> [l EXCEPT !.at = "menus", !.enabled = tables.enabled]
                 [] l.at = "menus" -> [l EXCEPT !.at = "apply",
                                                !.enabled = {},
                                                !.granted = tables.grants \cap l.enabled]

\* Loads of one instance finish in any order: what is installed is late if its
\* load has been overtaken by a commit, and stays so if it was the last load.
Applied(i, l) ==
    rules' = [rules EXCEPT ![i] = [grant |-> l.granted,
                                   late |-> l.granted # Granted(tables)]]

LoadForChange(a) ==
    /\ change[a].at \in {"roles", "menus"}
    /\ change' = [change EXCEPT ![a] = LoadStep(change[a])]
    /\ UNCHANGED <<tables, identity, rules, notices, reload, access>>

ApplyForChange(a) ==
    /\ change[a].at = "apply"
    /\ Applied(change[a].on, change[a])
    /\ change' = [change EXCEPT ![a].at = "publish", ![a].granted = {}]
    /\ UNCHANGED <<tables, identity, notices, reload, access>>

\* Only the other instances act on the event.
PublishChange(a) ==
    /\ change[a].at = "publish"
    /\ notices' = [i \in AuthzInstances |->
                     IF i = change[a].on THEN notices[i] ELSE notices[i] + 1]
    /\ change' = [change EXCEPT ![a] = NoChange]
    /\ UNCHANGED <<tables, identity, rules, reload, access>>

\* consumeChanges
ConsumeNotice(i) ==
    /\ notices[i] > 0 /\ reload[i].at = "rest"
    /\ notices' = [notices EXCEPT ![i] = @ - 1]
    /\ reload' = [reload EXCEPT ![i].at = "roles"]
    /\ UNCHANGED <<tables, identity, rules, change, access>>

LoadForNotice(i) ==
    /\ reload[i].at \in {"roles", "menus"}
    /\ reload' = [reload EXCEPT ![i] = LoadStep(reload[i])]
    /\ UNCHANGED <<tables, identity, rules, notices, change, access>>

ApplyForNotice(i) ==
    /\ reload[i].at = "apply"
    /\ Applied(i, reload[i])
    /\ reload' = [reload EXCEPT ![i] = AtRest]
    /\ UNCHANGED <<tables, identity, notices, change, access>>

-----------------------------------------------------------------------------
(* A request *)

Arrived(c, i) ==
    /\ access[c].at = "rest"
    /\ access' = [access EXCEPT ![c] = [NoRequest EXCEPT !.at = "get", !.on = i,
                    !.held = Held(tables), !.granted = Granted(tables),
                    !.ruled = Rules(tables)]]
    /\ UNCHANGED <<tables, identity, rules, notices, reload, change>>

Refuse(c) == access' = [access EXCEPT ![c] = NoRequest]

\* JWTMiddleware after ResolvePrincipal, then AuthorizationMiddleware up to the
\* roles.
Resolved(c, p, excuse) ==
    access' = [access EXCEPT ![c] =
       IF ~p.found THEN NoRequest
       ELSE [@ EXCEPT !.at = IF p.super THEN "admitted" ELSE "ask", !.is = p,
                      !.toAsk = p.roles, !.late = FALSE,
                      !.excused = access[c].excused \/ excuse]]

\* ResolvePrincipal.  An old entry waits for the call that is about to unlink it,
\* or was stored late.
UnlinkDue == \E a \in AuthzChanges : change[a].at = "unlink"

GetIdentity(c) ==
    /\ access[c].at = "get"
    /\ IF identity = NotCached
       THEN access' = [access EXCEPT ![c].at = "user"]
       ELSE Resolved(c, identity.is,
                     identity.is # Identity(tables) /\ (UnlinkDue \/ identity.late))
    /\ UNCHANGED <<tables, identity, rules, notices, reload, change>>

\* loadPrincipal: the user, then the roles.
ReadUser(c) ==
    /\ access[c].at = "user"
    /\ access' = [access EXCEPT ![c].at = IF tables.live THEN "roles" ELSE "fill",
                                ![c].is = [Identity(tables) EXCEPT !.roles = {}]]
    /\ UNCHANGED <<tables, identity, rules, notices, reload, change>>

ReadRolesOfUser(c) ==
    /\ access[c].at = "roles"
    /\ access' = [access EXCEPT ![c].at = "fill", ![c].excused = access[c].late,
                                ![c].is.roles = tables.links \cap tables.enabled]
    /\ UNCHANGED <<tables, identity, rules, notices, reload, change>>

FillIdentity(c) ==
    /\ access[c].at = "fill"
    /\ identity' = [is |-> access[c].is, late |-> access[c].late]
    /\ Resolved(c, access[c].is, FALSE)
    /\ UNCHANGED <<tables, rules, notices, reload, change>>

\* The policy of an instance has a reload before it.
ReloadDue(i) ==
    \/ notices[i] > 0 \/ reload[i].at # "rest"
    \/ \E a \in AuthzChanges :
         /\ change[a].reloads
         /\ \/ change[a].at \in {"unlink", "roles", "menus", "apply"}
            \/ change[a].at = "publish" /\ change[a].on # i

\* Enforce, role by role.
AskRole(c, role) ==
    /\ access[c].at = "ask" /\ role \in access[c].toAsk
    /\ LET i == access[c].on
           excuse == rules[i].grant # Granted(tables) /\ (ReloadDue(i) \/ rules[i].late)
       IN  access' = [access EXCEPT ![c] =
             IF role \in rules[i].grant
             THEN [@ EXCEPT !.at = "admitted", !.is.roles = {role}, !.toAsk = {},
                            !.excused = access[c].excused \/ excuse]
             ELSE [@ EXCEPT !.toAsk = access[c].toAsk \ {role}]]
    /\ UNCHANGED <<tables, identity, rules, notices, reload, change>>

\* No role has the permission, or the request ends, admitted or not.
EndRequest(c) ==
    /\ access[c].at # "rest"
    /\ Refuse(c)
    /\ UNCHANGED <<tables, identity, rules, notices, reload, change>>

ExpireIdentity ==
    /\ identity # NotCached
    /\ identity' = NotCached
    /\ UNCHANGED <<tables, rules, notices, reload, change, access>>

AuthorizationNext ==
    \/ \E a \in AuthzChanges :
        \/ UnlinkIdentity(a) \/ LoadForChange(a) \/ ApplyForChange(a) \/ PublishChange(a)
        \/ \E i \in AuthzInstances :
            \/ ChangeUser(a, i) \/ ChangeGrants(a, i)
            \/ \E role \in AuthzRoles, on \in BOOLEAN : ChangeRole(a, i, role, on)
    \/ \E i \in AuthzInstances : ConsumeNotice(i) \/ LoadForNotice(i) \/ ApplyForNotice(i)
    \/ \E c \in AuthzRequests :
        \/ \E i \in AuthzInstances : Arrived(c, i)
        \/ GetIdentity(c) \/ ReadUser(c) \/ ReadRolesOfUser(c) \/ FillIdentity(c)
        \/ \E role \in AuthzRoles : AskRole(c, role)
        \/ EndRequest(c)
    \/ ExpireIdentity

AuthorizationSpec == AuthorizationInit /\ [][AuthorizationNext]_authzVars

-----------------------------------------------------------------------------
AuthorizationTypeOK ==
    /\ tables \in [live: BOOLEAN, super: BOOLEAN, links: SUBSET AuthzRoles,
                   enabled: SUBSET AuthzRoles, grants: SUBSET AuthzRoles]
    /\ identity \in [is: Principal, late: BOOLEAN] \cup {NotCached}
    /\ rules \in [AuthzInstances -> [grant: SUBSET AuthzRoles, late: BOOLEAN]]
    /\ notices \in [AuthzInstances -> 0..Cardinality(AuthzChanges)]
    /\ \A c \in AuthzRequests : access[c].is \in Principal

\* A request is admitted only for a user who, since it came, was a super
\* administrator, or held a role and saw that role grant the permission (at one
\* moment or, as the two are read one after the other, at two), unless one of
\* the two copies was still to be renewed or a read overtaken by a commit had
\* renewed it.  The answer needs both ways from the tables to work.
AdmittedOnGround ==
    \A c \in AuthzRequests : access[c].at = "admitted" =>
        \/ access[c].excused
        \/ IF access[c].is.super THEN access[c].ruled
           ELSE access[c].is.roles \subseteq access[c].held \cap access[c].granted
=============================================================================
