--------------------------------- MODULE Api ---------------------------------
(***************************************************************************)
(* The HTTP API (internal/api/http) with the services it calls, over the   *)
(* repositories of module Store: requests that run beside each other, each *)
(* one repository call per step, and the sync job that writes an app's row *)
(* from the worker.  A request is authenticated (withActor), does what its *)
(* handler does, writes an audit record and is answered.  A repository     *)
(* call may fail and the process may die between two calls.                *)
(*                                                                         *)
(* What a request asks for is an input: a record with the fields op (the   *)
(* handler), email or key, admin (the header), target (the e-mail an admin *)
(* acts for), app (the id in the path) and slug (of a new app, or the      *)
(* field of an app that an update sets).                                   *)
(* Retry, cancel and delete are in module Deployment, replay in Consumer.  *)
(***************************************************************************)
EXTENDS Store, SequencesExt

CONSTANTS
  Requests,   \* requests and sync jobs; one makes at most one row per table
  Inputs,     \* what a request may ask for
  Drivers,    \* repository drivers to start with
  InitialDB,  \* tables that earlier requests left
  MaxFaults   \* bound: failed calls and crashes in a behaviour

VARIABLES
  driver,     \* Config.RepositoryDriver
  db,         \* the tables
  req,        \* the requests
  raced,      \* history: users whose tenant was made while they had one
  clobbered,  \* history: apps written from a copy that was no longer current
  written,    \* history: the last write to each field of an app's row
  unlogged,   \* history: requests whose audit record was not written
  retired,    \* history: keys whose revocation was answered
  faults

vars == <<driver, db, req, raced, clobbered, written, unlogged, retired, faults>>
history == <<raced, clobbered, written, unlogged, retired>>
unchanged == <<driver, history, faults>>

AdminOps == {"createAdminUser", "adminDeployOpenClaw", "adminRead"}

\* Operations that leave no record; "read" and "adminRead" stand for any of the
\* handlers that only read.
Reads == {"read", "adminRead", "planDeployment"}

Idle == [todo |-> <<>>, in |-> None, who |-> "actor", user |-> None, tenant |-> None,
         actor |-> None, id |-> None, row |-> None, version |-> 0, status |-> 0,
         barred |-> {}, shown |-> {}]

Init ==
  /\ driver \in Drivers
  /\ db = InitialDB
  /\ req = [p \in Requests |-> Idle]
  /\ raced = {} /\ clobbered = {} /\ unlogged = {} /\ retired = {}
  /\ written = [a \in DOMAIN InitialDB.apps |-> InitialDB.apps[a]]
  /\ faults = 0

-----------------------------------------------------------------------------
(* How a request goes on                                                   *)

\* The status writeError gives an error.
writeError(err) ==
  CASE err = "unauthorized" -> 401
    [] err = "forbidden"    -> 403
    [] err = "not_found"    -> 404
    [] err = "conflict"     -> 409
    [] err = "validation"   -> 400
    [] OTHER                -> 500

Done(p, status) ==
  req' = [req EXCEPT ![p].todo = <<>>, ![p].status = status, ![p].row = None, ![p].version = 0]

Fail(p, err) == Done(p, writeError(err))

\* The next call of a request; the one after it.
At(p, step) == req[p].todo # <<>> /\ Head(req[p].todo) = step

Then(p, r) == req' = [req EXCEPT ![p] = [r EXCEPT !.todo = Tail(@)]]

In(p) == req[p].in

\* The tenant on whose rows the handler works: an admin deploys for a target.
Tenant(p) == req[p].tenant

\* The handlers: the calls each makes, in order, once there is an actor.
createApp == <<"member", "insertApp", "audit">>
updateApp == <<"getApp", "putApp", "audit">>
createDeployment == <<"getApp", "nextVersion", "insertDeployment", "announce", "audit">>
planDeployment == <<"getApp", "nextVersion">>
createAPIKey == <<"insertKey", "audit">>
deleteAPIKey == <<"revoke", "audit">>
createAdminUser == <<"upsert", "audit">>
adminDeployOpenClaw == <<"upsert", "member", "insertApp">> \o createDeployment

Handler(op) ==
  CASE op \in {"read", "adminRead"} -> <<"read">>
    [] op = "createApp" -> createApp
    [] op = "updateApp" -> updateApp
    [] op = "createDeployment" -> createDeployment
    [] op = "planDeployment" -> planDeployment
    [] op = "createAPIKey" -> createAPIKey
    [] op = "deleteAPIKey" -> deleteAPIKey
    [] op = "createAdminUser" -> createAdminUser
    [] op = "adminDeployOpenClaw" -> adminDeployOpenClaw

\* What the handlers and services refuse before their first call.
Blank(in) ==
  \/ in.op \in {"createAdminUser", "adminDeployOpenClaw"} /\ in.target = ""
  \/ in.op \in {"createApp", "createAPIKey"} /\ in.slug = ""

\* The actor is known: the handler checks for the admin and its input, and starts.
Dispatch(p, user, tenant) ==
  IF In(p).op \in AdminOps /\ ~In(p).admin THEN Fail(p, "forbidden")
  ELSE IF Blank(In(p)) THEN Fail(p, "validation")
  ELSE req' = [req EXCEPT ![p].todo = Handler(In(p).op), ![p].who = "target",
                          ![p].actor = tenant, ![p].user = user, ![p].tenant = tenant]

\* EnsureActor has returned, to withActor or to an admin's handler.
HasActor(p, user, tenant) ==
  IF req[p].who = "actor" THEN Dispatch(p, user, tenant)
  ELSE Then(p, [req[p] EXCEPT !.user = user, !.tenant = tenant, !.id = user])

-----------------------------------------------------------------------------
(* Authentication: withActor, AuthenticateAPIKey, EnsureActor              *)

\* Mutant: a key that is revoked is still a key.
AuthenticateRevoked(key) == "nil"

Authenticate(key) == IF key.revoked THEN "unauthorized" ELSE "nil"

\* The key comes before the e-mail; with neither the request is refused.
withActor(p) ==
  /\ req[p] = Idle
  /\ \E in \in Inputs :
       LET begun == [Idle EXCEPT !.in = in, !.barred = retired]
       IN /\ in.op # "sync"
          /\ req' = [req EXCEPT ![p] =
                CASE in.key # None -> [begun EXCEPT !.todo = <<"key">>]
                  [] in.key = None /\ in.email # "" -> [begun EXCEPT !.todo = <<"upsert">>]
                  [] OTHER -> [begun EXCEPT !.status = writeError("unauthorized")]]
  /\ UNCHANGED <<unchanged, db>>

\* The user and the membership of a key never change after it is made, so the
\* three reads are one step.
AuthenticateAPIKey(p) ==
  /\ At(p, "key")
  /\ LET found == GetByHash(db, In(p).key)
         err == IF found.err = "nil" THEN Authenticate(found.row) ELSE found.err
     IN IF err # "nil" THEN Fail(p, err)
        ELSE LET member == GetMember(driver, db, found.row.tenant, found.row.user)
             IN IF member.err # "nil" THEN Fail(p, member.err)
                ELSE Dispatch(p, found.row.user, found.row.tenant)
  /\ UNCHANGED <<unchanged, db>>

EnsureActorUpsert(p) ==
  /\ At(p, "upsert")
  /\ LET email == IF req[p].who = "actor" THEN In(p).email ELSE In(p).target
         r == UpsertByEmail(driver, db, email)
         tenant == r.db.users[r.row].tenant
     IN /\ db' = r.db
        /\ IF tenant = None
             THEN req' = [req EXCEPT ![p].todo = <<"tenant">> \o Tail(@), ![p].user = r.row]
             ELSE HasActor(p, r.row, tenant)
  /\ UNCHANGED unchanged

EnsureActorTenant(p) ==
  /\ At(p, "tenant")
  /\ LET id == <<p, req[p].who>>
         r == CreatePersonalTenant(driver, db, req[p].user, id)
     IN /\ db' = r.db
        /\ IF r.err # "nil" THEN Fail(p, r.err) ELSE HasActor(p, req[p].user, id)
        /\ raced' = IF r.err = "nil" /\ db.users[req[p].user].tenant # None
                      THEN raced \cup {req[p].user} ELSE raced
  /\ UNCHANGED <<driver, clobbered, written, unlogged, retired, faults>>

-----------------------------------------------------------------------------
(* Apps                                                                    *)

\* CreateApp begins with the membership.
CreateAppMember(p) ==
  /\ At(p, "member")
  /\ LET r == GetMember(driver, db, Tenant(p), req[p].user)
     IN IF r.err # "nil" THEN Fail(p, r.err) ELSE Then(p, req[p])
  /\ UNCHANGED <<unchanged, db>>

NewApp(p) == [tenant |-> Tenant(p), slug |-> In(p).slug, user |-> req[p].user,
              name |-> p, config |-> p, current |-> None]

\* Mutant: a conflict is taken for success.
CreateAppInsertOnly(p) ==
  /\ At(p, "insertApp")
  /\ LET r == CreateAppRow(db, p, NewApp(p))
     IN /\ db' = r.db
        /\ written' = IF r.err = "nil" THEN With(written, p, NewApp(p)) ELSE written
        /\ Then(p, [req[p] EXCEPT !.id = p])
  /\ UNCHANGED <<driver, raced, clobbered, unlogged, retired, faults>>

\* A conflict is the admin's cue to use the app that is there.
CreateAppInsert(p) ==
  /\ At(p, "insertApp")
  /\ LET r == CreateAppRow(db, p, NewApp(p))
     IN /\ db' = r.db
        /\ written' = IF r.err = "nil" THEN With(written, p, NewApp(p)) ELSE written
        /\ IF r.err = "nil" THEN Then(p, [req[p] EXCEPT !.id = p])
           ELSE IF In(p).op = "adminDeployOpenClaw"
             THEN req' = [req EXCEPT ![p].todo = <<"listApps">> \o Tail(@)]
             ELSE Fail(p, r.err)
  /\ UNCHANGED <<driver, raced, clobbered, unlogged, retired, faults>>

\* adminDeployOpenClaw after a conflict: the target's app with that slug.
UseExistingApp(p) ==
  /\ At(p, "listApps")
  /\ LET same == {a \in ListApps(db, Tenant(p)) : db.apps[a].slug = In(p).slug}
     IN IF same = {} THEN Fail(p, "conflict")
        ELSE \E a \in same : Then(p, [req[p] EXCEPT !.id = a])
  /\ UNCHANGED <<unchanged, db>>

AppID(p) == IF In(p).op = "adminDeployOpenClaw" THEN req[p].id ELSE In(p).app

\* UpdateApp, CreateDeployment and PlanDeployment read the tenant's app first.
GetApp(p) ==
  /\ At(p, "getApp")
  /\ LET r == GetAppRow(db, Tenant(p), AppID(p))
     IN IF r.err # "nil" THEN Fail(p, r.err)
        ELSE Then(p, [req[p] EXCEPT !.row = r.row, !.id = AppID(p)])
  /\ UNCHANGED <<unchanged, db>>

\* A write of the row from a copy: whoever changed another field since loses.
WriteRow(id, copy, row) ==
  /\ db' = UpdateAppRow(db, id, row).db
  /\ clobbered' = IF db.apps[id] # copy THEN clobbered \cup {id} ELSE clobbered

\* UpdateApp changes the name or the config, as the request says (field slug).
UpdateApp(p) ==
  /\ At(p, "putApp")
  /\ LET id == In(p).app
         field == In(p).slug
     IN /\ WriteRow(id, req[p].row, [req[p].row EXCEPT ![field] = p])
        /\ written' = [written EXCEPT ![id][field] = p]
  /\ Then(p, req[p])
  /\ UNCHANGED <<driver, raced, unlogged, retired, faults>>

\* The sync handler, when the rollout runs (input "sync"): it reads the app and
\* writes it back with the current deployment.
SyncRead(p) ==
  /\ req[p] = Idle
  /\ \E in \in Inputs :
       /\ in.op = "sync"
       /\ req' = [req EXCEPT ![p].in = in, ![p].row = db.apps[in.app],
                             ![p].todo = <<"putCurrent">>]
  /\ UNCHANGED <<unchanged, db>>

SyncWrite(p) ==
  /\ At(p, "putCurrent")
  /\ WriteRow(In(p).app, req[p].row, [req[p].row EXCEPT !.current = In(p).target])
  /\ written' = [written EXCEPT ![In(p).app].current = In(p).target]
  /\ Done(p, 0)
  /\ UNCHANGED <<driver, raced, unlogged, retired, faults>>

-----------------------------------------------------------------------------
(* Deployments                                                             *)

\* The dry run ends here; its answer holds the version.
TakeVersion(p) ==
  /\ At(p, "nextVersion")
  /\ LET r == NextVersion(driver, db, Tenant(p), req[p].id)
     IN /\ db' = r.db
        /\ IF In(p).op = "planDeployment" THEN Done(p, 200)
           ELSE Then(p, [req[p] EXCEPT !.version = r.row])
  /\ UNCHANGED unchanged

InsertDeployment(p) ==
  /\ At(p, "insertDeployment")
  /\ LET row == [tenant |-> Tenant(p), app |-> req[p].id, version |-> req[p].version,
                 config |-> req[p].row.config]
         r == CreateDeploymentRow(driver, db, p, row)
     IN /\ db' = r.db
        /\ IF r.err # "nil" THEN Fail(p, r.err)
           ELSE Then(p, [req[p] EXCEPT !.id = p])
  /\ UNCHANGED unchanged

\* The event and the job; module Deployment follows them.
Announce(p) ==
  /\ At(p, "announce")
  /\ Then(p, req[p])
  /\ UNCHANGED <<unchanged, db>>

-----------------------------------------------------------------------------
(* API keys                                                                *)

InsertKey(p) ==
  /\ At(p, "insertKey")
  /\ db' = CreateKey(db, p, [tenant |-> Tenant(p), user |-> req[p].user, revoked |-> FALSE]).db
  /\ Then(p, [req[p] EXCEPT !.id = p])
  /\ UNCHANGED unchanged

RevokeKey(p) ==
  /\ At(p, "revoke")
  /\ LET r == Revoke(driver, db, Tenant(p), In(p).app)
     IN /\ db' = r.db
        /\ IF r.err # "nil" THEN Fail(p, r.err)
           ELSE Then(p, [req[p] EXCEPT !.id = In(p).app])
  /\ UNCHANGED unchanged

-----------------------------------------------------------------------------
(* Reads: the tenants whose rows each handler shows                        *)

handleMe(p) == {Tenant(p)}

listApps(p) == {db.apps[a].tenant : a \in ListApps(db, Tenant(p))}

getApp(p) ==
  LET r == GetAppRow(db, Tenant(p), In(p).app)
  IN IF r.err = "nil" THEN {r.row.tenant} ELSE {}

getDeployment(p) ==
  LET r == GetDeploymentRow(db, Tenant(p), In(p).app)
  IN IF r.err = "nil" THEN {r.row.tenant} ELSE {}

listDeployments(p) ==
  {db.deployments[d].tenant : d \in ListByApp(db, Tenant(p), In(p).app)}

listAPIKeys(p) == {db.keys[k].tenant : k \in {k \in DOMAIN db.keys : OwnKey(db, Tenant(p), k)}}

handleAuditLogs(p) == {log.tenant : log \in ListAudit(db, Tenant(p))}

handleAdminInstances(p) == {db.apps[i.app].tenant : i \in ListAllInstances(db)}

Answers(p) ==
  IF In(p).op = "adminRead"
    THEN {[status |-> 200, shown |-> s] : s \in {handleAdminInstances(p), {}}}
    ELSE {[status |-> 200, shown |-> s] :
            s \in {handleMe(p), listApps(p), listDeployments(p), listAPIKeys(p), handleAuditLogs(p)}}
         \cup {[status |-> IF s = {} THEN writeError("not_found") ELSE 200, shown |-> s] :
                 s \in {getApp(p), getDeployment(p)}}

Read(p) ==
  /\ At(p, "read")
  /\ \E a \in Answers(p) :
       Then(p, [req[p] EXCEPT !.status = a.status, !.shown = a.shown])
  /\ UNCHANGED <<unchanged, db>>

-----------------------------------------------------------------------------
(* The audit record and the answer                                         *)

\* What the handler writes once its work is done.
Success(op) ==
  CASE op = "updateApp" -> 200
    [] op = "deleteAPIKey" -> 204
    [] OTHER -> 201

\* The answer; revocation is a promise from here on.
Answer(p) ==
  /\ Done(p, Success(In(p).op))
  /\ retired' = IF In(p).op = "deleteAPIKey" /\ OwnKey(db, Tenant(p), In(p).app)
                  THEN retired \cup {In(p).app} ELSE retired

\* The record is kept in the tenant of who sent the request.
Record(p) ==
  /\ At(p, "audit")
  /\ db' = CreateAudit(db, [tenant |-> req[p].actor, op |-> In(p).op, id |-> req[p].id, by |-> p])
  /\ Answer(p)
  /\ UNCHANGED <<driver, raced, clobbered, written, unlogged, faults>>

-----------------------------------------------------------------------------
(* Faults                                                                  *)

InFlight(p) == req[p].todo # <<>>

\* A call of the request fails: Postgres, or the queue when the job is put.
\* The handlers ignore a failure of the audit record.
CallFails(p) ==
  /\ faults < MaxFaults /\ InFlight(p)
  /\ driver = "postgres" \/ At(p, "announce")
  /\ faults' = faults + 1
  /\ IF At(p, "audit")
       THEN Answer(p) /\ unlogged' = unlogged \cup {p}
       ELSE Fail(p, "internal") /\ UNCHANGED <<retired, unlogged>>
  /\ UNCHANGED <<driver, db, raced, clobbered, written>>

\* The process dies with the requests it serves; what Postgres has stays.
Crash ==
  /\ faults < MaxFaults /\ driver = "postgres"
  /\ \E p \in Requests : InFlight(p)
  /\ faults' = faults + 1
  /\ req' = [p \in Requests |-> IF InFlight(p) THEN [req[p] EXCEPT !.todo = <<>>] ELSE req[p]]
  /\ UNCHANGED <<driver, db, history>>

-----------------------------------------------------------------------------
Request(p) ==
  \/ withActor(p) \/ AuthenticateAPIKey(p) \/ EnsureActorUpsert(p) \/ EnsureActorTenant(p)
  \/ CreateAppMember(p) \/ CreateAppInsert(p) \/ UseExistingApp(p)
  \/ GetApp(p) \/ UpdateApp(p)
  \/ TakeVersion(p) \/ InsertDeployment(p) \/ Announce(p)
  \/ InsertKey(p) \/ RevokeKey(p)
  \/ Read(p) \/ Record(p)

Next ==
  \/ \E p \in Requests : Request(p) \/ SyncRead(p) \/ SyncWrite(p) \/ CallFails(p)
  \/ Crash

Spec == Init /\ [][Next]_vars

-----------------------------------------------------------------------------
(* Readiness and the admin's preflight                                     *)

\* What decides the checks: which parts are set up and which answer.
Environments ==
  [repository : {"memory", "postgres"}, database : {"ok", "error"}, redis : {"ok", "error"},
   backend : {"", "kubernetes"}, devAuth : BOOLEAN, ingressHost : {"", "host"}]

\* There is no database to ping without Postgres.
Readiness(env) ==
  [x \in {"redis"} \cup (IF env.repository = "postgres" THEN {"database"} ELSE {}) |-> env[x]]

unhealthy(status, x) == x \in DOMAIN status /\ status[x] = "error"

handleReady(env) ==
  IF \E x \in DOMAIN Readiness(env) : unhealthy(Readiness(env), x) THEN 503 ELSE 200

\* Mutant: the last check that is not passed decides.
addLast(overall, status) ==
  IF status = "fail" THEN "blocked" ELSE IF status = "warn" THEN "warning" ELSE overall

\* The closure add: a failure blocks, and a warning never takes that back.
add(overall, status) ==
  IF status = "fail" THEN "blocked"
  ELSE IF status = "warn" /\ overall = "ready" THEN "warning"
  ELSE overall

handleAdminPreflight(env) ==
  LET ready == Readiness(env)
      failIf(b) == IF b THEN "fail" ELSE "pass"
      warnIf(b) == IF b THEN "warn" ELSE "pass"
  IN FoldLeft(add, "ready",
       << "pass",
          IF env.repository = "memory" THEN "warn" ELSE failIf(unhealthy(ready, "database")),
          failIf(unhealthy(ready, "redis")),
          failIf(env.backend = ""),
          warnIf(env.devAuth),
          warnIf(env.ingressHost = "") >>)

-----------------------------------------------------------------------------
(* Properties                                                              *)

(* The tables and the requests have their shape. *)
TypeInvariant ==
  /\ driver \in Drivers
  /\ \A u \in DOMAIN db.users : db.users[u].tenant \in DOMAIN db.tenants \cup {None}
  /\ \A m \in db.members : m[1] \in DOMAIN db.tenants /\ m[2] \in DOMAIN db.users
  /\ \A a \in DOMAIN db.apps : db.apps[a].tenant \in DOMAIN db.tenants
  /\ \A d \in DOMAIN db.deployments : db.deployments[d].app \in DOMAIN db.apps
  /\ \A k \in DOMAIN db.keys : db.keys[k].user \in DOMAIN db.users
  /\ \A p \in Requests : req[p].status \in {0, 200, 201, 204, 400, 401, 403, 404, 409, 500}
  /\ DOMAIN written \subseteq DOMAIN db.apps
  /\ faults \in 0..MaxFaults

(* A user's next request acts in the tenant that holds the user's apps     *)
(* (EnsureActor takes users.default_tenant_id).  Two first requests of one *)
(* user can break that with the in-memory store, which gives the user a    *)
(* second tenant; never with Postgres, where the slug is unique.           *)
OwnAppsReachable ==
  /\ driver = "postgres" => raced = {}
  /\ \A a \in DOMAIN db.apps :
       LET u == db.apps[a].user
       IN u \in raced \/ db.apps[a].tenant = db.users[u].tenant

(* Once every request is answered and nothing failed, each user has a      *)
(* tenant (EnsureActor); except, with Postgres, a user whose address       *)
(* differs only in case from one that is registered.                       *)
UsersHaveTenants ==
  faults = 0 /\ (\A p \in Requests : ~InFlight(p)) =>
    \A u \in DOMAIN db.users :
      \/ db.users[u].tenant # None
      \/ /\ driver = "postgres"
         /\ \E v \in DOMAIN db.users : /\ v # u /\ Lower[v] = Lower[u]
                                       /\ db.users[v].tenant # None

(* Two deployments of an app never have the same version, however requests *)
(* and dry runs interleave between NextVersion and Create; with Postgres   *)
(* there is no gap either.  An instance therefore has one latest           *)
(* deployment and, in the admin's list, one owner.                         *)
VersionsAreHistory ==
  /\ \A d, e \in DOMAIN db.deployments :
       /\ db.deployments[d].app = db.deployments[e].app
       /\ db.deployments[d].version = db.deployments[e].version
       => d = e
  /\ driver = "postgres" =>
       \A a \in DOMAIN db.apps :
         LET versions == VersionsOf(db, db.apps[a].tenant, a)
         IN versions = 1..Cardinality(versions)
  /\ Cardinality(ListAllInstances(db)) = Summary(db).apps
  /\ \A i \in ListAllInstances(db) :
       Cardinality(i.owners) = 1 /\ Cardinality(i.latest) <= 1

(* A change that was answered with success is in the audit log, unless the *)
(* record's own write failed, and what the log says was done: its resource *)
(* is there, in the tenant the record is in unless an admin acted for      *)
(* somebody else.  Only Postgres logs the revocation of a key that the     *)
(* tenant does not have, because Revoke does not notice.                   *)
AuditMatchesEffects ==
  /\ \A p \in Requests :
       req[p].status \in 200..299 /\ p \notin unlogged /\ In(p).op \notin Reads
         => \E log \in db.audit : log.by = p
  /\ \A log \in db.audit :
       CASE log.op \in {"createApp", "updateApp"} ->
              log.id \in DOMAIN db.apps /\ db.apps[log.id].tenant = log.tenant
         [] log.op = "createDeployment" ->
              log.id \in DOMAIN db.deployments /\ db.deployments[log.id].tenant = log.tenant
         [] log.op = "adminDeployOpenClaw" -> log.id \in DOMAIN db.deployments
         [] log.op = "createAdminUser" -> db.users[log.id].tenant # None
         [] log.op = "createAPIKey" -> OwnKey(db, log.tenant, log.id)
         [] log.op = "deleteAPIKey" ->
              \/ OwnKey(db, log.tenant, log.id) /\ db.keys[log.id].revoked
              \/ driver = "postgres" /\ ~OwnKey(db, log.tenant, log.id)
         [] OTHER -> TRUE

(* A request that starts after a revocation was answered is never let in   *)
(* with that key (Authenticate), whatever else runs.                       *)
RevokedKeyStaysOut ==
  \A p \in Requests :
    In(p) # None /\ In(p).key \in req[p].barred =>
      req[p].actor = None /\ req[p].status \notin 200..299

(* A field of an app differs from the last value written to it only when a *)
(* writer used a copy that was out of date: UpdateApp and the sync handler *)
(* read the row and write it back whole.                                   *)
UpdatesHold == \A a \in DOMAIN written \ clobbered : db.apps[a] = written[a]

(* A request answered 4xx left no app, deployment, key or audit record;    *)
(* only an admin's deployment that loses the race for a version leaves the *)
(* app that it made.                                                       *)
RefusedChangesNothing ==
  \A p \in Requests : req[p].status \in 400..499 =>
    /\ p \notin DOMAIN db.deployments \cup DOMAIN db.keys
    /\ p \in DOMAIN db.apps => In(p).op = "adminDeployOpenClaw"
    /\ \A log \in db.audit : log.by # p

(* A request shows and makes rows of its own tenant only, an admin's list  *)
(* excepted; a deployment is in its app's tenant; and a key is revoked     *)
(* only by its tenant.                                                     *)
OwnTenantOnly ==
  /\ \A p \in Requests : req[p].shown \subseteq {Tenant(p)} \/ In(p).op \in AdminOps
  /\ \A d \in DOMAIN db.deployments :
       db.deployments[d].tenant = db.apps[db.deployments[d].app].tenant
  /\ \A k \in DOMAIN db.keys : db.keys[k].revoked =>
       \E p \in Requests : req[p].actor = db.keys[k].tenant /\ In(p).app = k

(* What /readyz calls unavailable the preflight calls blocked, and besides *)
(* it only a missing backend blocks; the preflight says ready only of a    *)
(* set-up without warnings.                                                *)
PreflightAgrees ==
  (\A p \in Requests : req[p] = Idle) =>
    \A env \in Environments :
      /\ handleAdminPreflight(env) = "blocked" <=> handleReady(env) = 503 \/ env.backend = ""
      /\ handleAdminPreflight(env) = "ready" =>
           env.repository = "postgres" /\ ~env.devAuth /\ env.ingressHost # ""
=============================================================================
