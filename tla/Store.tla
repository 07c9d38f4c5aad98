-------------------------------- MODULE Store --------------------------------
(***************************************************************************)
(* The repositories behind the API, for both drivers: the in-memory store  *)
(* (internal/repositories/memory/store.go, every method under one lock)    *)
(* and Postgres (internal/repositories/postgres, one statement or one      *)
(* transaction per method).  A method is an operator from the tables to    *)
(* the tables afterwards, the error and the row it returns.  Where the two *)
(* drivers differ each has its own operator.                               *)
(*                                                                         *)
(* Identifiers are the caller's, as the services generate them; a time is  *)
(* left out, and of a row only what the properties tell apart is kept.     *)
(***************************************************************************)
EXTENDS Naturals, FiniteSets

CONSTANTS
  Lower,  \* strings.ToLower on e-mail addresses, a function
  None

Ok(db, row) == [db |-> db, err |-> "nil", row |-> row]

Err(db, err) == [db |-> db, err |-> err, row |-> None]

With(table, id, row) == [x \in DOMAIN table \cup {id} |-> IF x = id THEN row ELSE table[x]]

-----------------------------------------------------------------------------
(* Users and tenants                                                       *)

\* The memory store looks an address up in lower case; Postgres takes it as it
\* comes, and the address is the unique key.
UserIDMemory(email) == Lower[email]

UserIDPostgres(email) == email

upsertUser(db, user) ==
  IF user \in DOMAIN db.users THEN Ok(db, user)
  ELSE Ok([db EXCEPT !.users = With(@, user, [tenant |-> None])], user)

UpsertByEmail(driver, db, email) ==
  upsertUser(db, IF driver = "memory" THEN UserIDMemory(email) ELSE UserIDPostgres(email))

\* Both drivers make the slug of the address in lower case.
sanitizeSlug(user) == Lower[user]

\* Mutant: the tenant's own row is left out.
addTenantUnsaved(db, user, id) ==
  [db EXCEPT !.members = @ \cup {<<id, user>>}, !.users = With(@, user, [tenant |-> id])]

\* Mutant: the user's default tenant is not set.
addTenantNotDefault(db, user, id) ==
  [db EXCEPT !.tenants = With(@, id, [slug |-> sanitizeSlug(user)]),
             !.members = @ \cup {<<id, user>>}]

addTenant(db, user, id) ==
  [db EXCEPT !.tenants = With(@, id, [slug |-> sanitizeSlug(user)]),
             !.members = @ \cup {<<id, user>>},
             !.users = With(@, user, [tenant |-> id])]

CreatePersonalTenantMemory(db, user, id) == Ok(addTenant(db, user, id), id)

\* The transaction ends at the unique slug; the error is not mapped.
CreatePersonalTenantPostgres(db, user, id) ==
  IF \E t \in DOMAIN db.tenants : db.tenants[t].slug = sanitizeSlug(user)
    THEN Err(db, "internal")
    ELSE Ok(addTenant(db, user, id), id)

\* Mutant: slugs need not be unique.
CreatePersonalTenantAlways(driver, db, user, id) == CreatePersonalTenantMemory(db, user, id)

CreatePersonalTenant(driver, db, user, id) ==
  IF driver = "memory" THEN CreatePersonalTenantMemory(db, user, id)
                       ELSE CreatePersonalTenantPostgres(db, user, id)

GetMember(driver, db, tenant, user) ==
  IF <<tenant, user>> \in db.members THEN Ok(db, user)
  ELSE Err(db, IF driver = "memory" THEN "forbidden" ELSE "not_found")

-----------------------------------------------------------------------------
(* API keys                                                                *)

CreateKey(db, id, key) == Ok([db EXCEPT !.keys = With(@, id, key)], id)

OwnKey(db, tenant, id) == id \in DOMAIN db.keys /\ db.keys[id].tenant = tenant

revoked(db, id) == [db EXCEPT !.keys[id].revoked = TRUE]

RevokeMemory(db, tenant, id) ==
  IF OwnKey(db, tenant, id) THEN Ok(revoked(db, id), id) ELSE Err(db, "not_found")

\* No row to update is no error.
RevokePostgres(db, tenant, id) ==
  Ok(IF OwnKey(db, tenant, id) THEN revoked(db, id) ELSE db, id)

\* Mutant: the statement forgets the tenant.
RevokeAnyones(driver, db, tenant, id) ==
  IF id \in DOMAIN db.keys THEN Ok(revoked(db, id), id) ELSE Err(db, "not_found")

Revoke(driver, db, tenant, id) ==
  IF driver = "memory" THEN RevokeMemory(db, tenant, id) ELSE RevokePostgres(db, tenant, id)

GetByHash(db, id) == IF id \in DOMAIN db.keys THEN Ok(db, db.keys[id]) ELSE Err(db, "not_found")

-----------------------------------------------------------------------------
(* Apps                                                                    *)

\* Mutant: the row is stored before the scan.
CreateAppRowFirst(db, id, app) ==
  LET stored == [db EXCEPT !.apps = With(@, id, app)]
  IN IF \E a \in DOMAIN db.apps : db.apps[a].tenant = app.tenant /\ db.apps[a].slug = app.slug
       THEN Err(stored, "conflict") ELSE Ok(stored, id)

\* The scan under the lock, and unique (tenant_id, slug).
CreateAppRow(db, id, app) ==
  IF \E a \in DOMAIN db.apps : db.apps[a].tenant = app.tenant /\ db.apps[a].slug = app.slug
    THEN Err(db, "conflict")
    ELSE Ok([db EXCEPT !.apps = With(@, id, app)], id)

\* Mutant: the statement leaves current_deployment_id empty.
UpdateAppRowForgets(db, id, app) ==
  Ok([db EXCEPT !.apps[id] = [app EXCEPT !.current = None]], id)

\* The whole row is written back.
UpdateAppRow(db, id, app) == Ok([db EXCEPT !.apps[id] = app], id)

GetAppRow(db, tenant, id) ==
  IF id \in DOMAIN db.apps /\ db.apps[id].tenant = tenant
    THEN Ok(db, db.apps[id]) ELSE Err(db, "not_found")

ListApps(db, tenant) == {a \in DOMAIN db.apps : db.apps[a].tenant = tenant}

-----------------------------------------------------------------------------
(* Deployments                                                             *)

ListByApp(db, tenant, app) ==
  {d \in DOMAIN db.deployments :
     db.deployments[d].tenant = tenant /\ db.deployments[d].app = app}

GetDeploymentRow(db, tenant, id) ==
  IF id \in DOMAIN db.deployments /\ db.deployments[id].tenant = tenant
    THEN Ok(db, db.deployments[id]) ELSE Err(db, "not_found")

VersionsOf(db, tenant, app) == {db.deployments[d].version : d \in ListByApp(db, tenant, app)}

\* The memory store counts calls; Postgres looks at the rows.
NextVersionMemory(db, app) ==
  LET next == 1 + (IF app \in DOMAIN db.counter THEN db.counter[app] ELSE 0)
  IN Ok([db EXCEPT !.counter = With(@, app, next)], next)

NextVersionPostgres(db, tenant, app) ==
  LET versions == VersionsOf(db, tenant, app)
  IN Ok(db, 1 + CHOOSE m \in versions \cup {0} : \A v \in versions : m >= v)

\* Mutant: the memory store counts rows too.
NextVersionCounts(driver, db, tenant, app) ==
  Ok(db, 1 + Cardinality(VersionsOf(db, tenant, app)))

NextVersion(driver, db, tenant, app) ==
  IF driver = "memory" THEN NextVersionMemory(db, app) ELSE NextVersionPostgres(db, tenant, app)

CreateDeploymentMemory(db, id, row) == Ok([db EXCEPT !.deployments = With(@, id, row)], id)

\* unique (app_id, version)
CreateDeploymentPostgres(db, id, row) ==
  IF row.version \in VersionsOf(db, row.tenant, row.app)
    THEN Err(db, "conflict") ELSE CreateDeploymentMemory(db, id, row)

CreateDeploymentRow(driver, db, id, row) ==
  IF driver = "memory" THEN CreateDeploymentMemory(db, id, row)
                       ELSE CreateDeploymentPostgres(db, id, row)

-----------------------------------------------------------------------------
(* Audit log and the views of the platform admin                           *)

CreateAudit(db, log) == [db EXCEPT !.audit = @ \cup {log}]

ListAudit(db, tenant) == {log \in db.audit : log.tenant = tenant}

Summary(db) ==
  [users |-> Cardinality(DOMAIN db.users), tenants |-> Cardinality(DOMAIN db.tenants),
   apps |-> Cardinality(DOMAIN db.apps), deployments |-> Cardinality(DOMAIN db.deployments)]

\* Each app with its tenant's owner and its latest deployment.
ListAllInstances(db) ==
  {[app |-> a,
    owners |-> {m[2] : m \in {m \in db.members : m[1] = db.apps[a].tenant}},
    latest |-> {d \in DOMAIN db.deployments :
                  /\ db.deployments[d].app = a
                  /\ \A e \in DOMAIN db.deployments :
                       db.deployments[e].app = a =>
                         db.deployments[e].version <= db.deployments[d].version}] :
     a \in DOMAIN db.apps}
=============================================================================
