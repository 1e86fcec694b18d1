----------------------------- MODULE TenantSignup -----------------------------
(***************************************************************************)
(* Tenant onboarding: AuthService.signup and the logins that run beside    *)
(* it, over TenantProvisioningService (one map of DataSources per worker   *)
(* process, CacheWrapper), the public table "tenants" and one PostgreSQL   *)
(* schema per tenant.  Every await is a step boundary: between two steps   *)
(* of a call any other call of any worker may run.                         *)
(*                                                                         *)
(* A tenants row is identified by the signup that inserted it, a row of a  *)
(* tenant's "users" by <<signup, schema>>, a DataSource by the call whose  *)
(* provision() built it (a call builds at most one).                       *)
(*                                                                         *)
(* The map and the tenants table know a tenant by its slug, PostgreSQL by  *)
(* the slug's first 63 bytes: slugs have no maximal length, so two of them *)
(* may name one schema, and one of them may be "public", the schema the    *)
(* tenants table itself is in.                                             *)
(***************************************************************************)
EXTENDS Naturals

CONSTANTS
    Signups,            \* POST /auth/signup requests
    Logins,             \* POST /auth/login requests
    Workers,            \* Node processes (PM2 cluster mode)
    Slugs,              \* the slugs asked for
    SchemaNames,        \* PostgreSQL schemas
    SchemaOf,           \* [Slugs -> SchemaNames]: cut to 63 bytes
    Public,             \* the schema of the tenants table
    SlugOf,             \* [Calls -> Slugs]
    EmailOf,            \* signup -> tenantOwnerEmail
    WorkerOf,           \* [Calls -> Workers]: who serves the call
    MigrationSchema,    \* [SchemaNames -> SchemaNames]: the schema named by the
                        \* statements of migrations/tenant when run for a schema
    NoDS,               \* "undefined": no DataSource
    MaxFaults,          \* bound: statements that fail
    MaxCrashes          \* bound: worker crashes

Calls == Signups \cup Logins

ASSUME CallsAssumption == Signups \cap Logins = {} /\ NoDS \notin Calls
ASSUME RoutingAssumption ==
    /\ SlugOf \in [Calls -> Slugs] /\ SchemaOf \in [Slugs -> SchemaNames]
    /\ Public \in SchemaNames
    /\ WorkerOf \in [Calls -> Workers]
    /\ MigrationSchema \in [SchemaNames -> SchemaNames]
ASSUME BoundsAssumption == MaxFaults \in Nat /\ MaxCrashes \in Nat

VARIABLES
    pc,         \* what each call does next
    registry,   \* the table public.tenants exists
    tenants,    \* rows of public.tenants
    saved,      \* signups whose local variable `tenant` is assigned
    schemas,    \* schemas that exist
    tables,     \* schemas that hold the tenant tables
    migrated,   \* schemas whose migrations table records the migration
    owners,     \* rows of the users tables
    cache,      \* per worker: slug -> DataSource or NoDS
    open,       \* DataSources with isInitialized
    ds,         \* the DataSource a call holds (`tenantDb`, `connection`)
    faults, crashes

db == <<registry, tenants, schemas, tables, migrated, owners>>
conns == <<cache, open, ds>>
budget == <<faults, crashes>>
vars == <<pc, saved, db, conns, budget>>

Provisioning == {"init", "plan", "migrate", "store"}
InTry == {"insert", "create", "owner"} \cup Provisioning
Rollback == {"drop", "delete", "disconnect", "destroying"}
Running == InTry \cup Rollback \cup {"lookup", "query"}
Ended == {"created", "conflict", "rolledback", "stuck", "served", "refused", "lost"}

\* The schema that the statements of a call name.
Home(c) == SchemaOf[SlugOf[c]]

Init ==
    /\ pc = [c \in Calls |-> "idle"]
    /\ registry = TRUE
    /\ tenants = {} /\ saved = {} /\ owners = {}
    /\ schemas = {Public} \cup (SchemaNames \ {Home(c) : c \in Calls})
    /\ tables = {} /\ migrated = {}
    /\ cache = [w \in Workers |-> [s \in Slugs |-> NoDS]]
    /\ open = {}
    /\ ds = [c \in Calls |-> NoDS]
    /\ faults = 0 /\ crashes = 0

Goto(c, step) == pc' = [pc EXCEPT ![c] = step]

\* Where an exception takes a call: the catch block, out of the catch block
\* with the rest of it skipped, or straight to an error answer.
OnError(c) ==
    IF pc[c] \in Rollback THEN "stuck"
    ELSE IF c \in Signups /\ pc[c] \in InTry THEN "drop" ELSE "refused"

-----------------------------------------------------------------------------
(* The pool a call holds: destroy() closes it before isInitialized is reset. *)

Closing(d) == \E q \in Calls : pc[q] = "destroying" /\ ds[q] = d
Usable(d) == d \in open /\ ~Closing(d)

-----------------------------------------------------------------------------
(* TenantProvisioningService.provision, the same for signups and logins.     *)

\* ds.initialize() resolves; it does not look at the schema.
Initialize(c) ==
    /\ pc[c] = "init"
    /\ open' = open \cup {c}
    /\ Goto(c, "plan")
    /\ UNCHANGED <<saved, db, cache, ds, budget>>

\* One bookkeeping table for all schemas: what one ran is pending in none.
PlanMigrationsMutShared(c) ==
    /\ pc[c] = "plan"
    /\ Goto(c, IF Home(c) \notin schemas THEN OnError(c)
               ELSE IF migrated # {} THEN "store" ELSE "migrate")
    /\ UNCHANGED <<saved, db, conns, budget>>

\* runMigrations() creates its bookkeeping table in the schema and reads from
\* it what is pending.  (Whether it finds the table of a schema whose slug was
\* cut is TypeORM's affair: where it does not, this is a StatementFails.)
PlanMigrations(c) ==
    /\ pc[c] = "plan"
    /\ Goto(c, IF Home(c) \notin schemas THEN OnError(c)
               ELSE IF Home(c) \in migrated THEN "store" ELSE "migrate")
    /\ UNCHANGED <<saved, db, conns, budget>>

\* The pending migration runs in one transaction: CREATE TABLE in the schema
\* its statements name, then the bookkeeping row.
RunMigrations(c) ==
    /\ pc[c] = "migrate"
    /\ LET s == Home(c)
           t == MigrationSchema[s]
       IN IF {s, t} \subseteq schemas /\ t \notin tables
          THEN /\ tables' = tables \cup {t}
               /\ migrated' = migrated \cup {s}
               /\ Goto(c, "store")
          ELSE Goto(c, OnError(c)) /\ UNCHANGED <<tables, migrated>>
    /\ UNCHANGED <<saved, registry, tenants, schemas, owners, conns, budget>>

StoreMutSharedKey(c) ==
    /\ pc[c] = "store"
    /\ cache' = [cache EXCEPT ![WorkerOf[c]] = [s \in Slugs |-> c]]
    /\ ds' = [ds EXCEPT ![c] = c]
    /\ Goto(c, IF c \in Signups THEN "owner" ELSE "query")
    /\ UNCHANGED <<saved, db, open, budget>>

\* cache.set(schemaName, ds); return ds
StoreDataSource(c) ==
    /\ pc[c] = "store"
    /\ cache' = [cache EXCEPT ![WorkerOf[c]][SlugOf[c]] = c]
    /\ ds' = [ds EXCEPT ![c] = c]
    /\ Goto(c, IF c \in Signups THEN "owner" ELSE "query")
    /\ UNCHANGED <<saved, db, open, budget>>

-----------------------------------------------------------------------------
(* AuthService.signup                                                        *)

\* findOne({ where: { slug } })
SlugTaken(r) == \E q \in tenants : SlugOf[q] = SlugOf[r]

FindExisting(r) ==
    /\ pc[r] = "idle"
    /\ Goto(r, IF ~registry THEN "refused"
               ELSE IF SlugTaken(r) THEN "conflict" ELSE "insert")
    /\ UNCHANGED <<saved, db, conns, budget>>

UniqueViolationMutSlugOnly(r) == \E q \in tenants : SlugOf[q] = SlugOf[r]
UniqueViolationMutEmailOnly(r) == \E q \in tenants : EmailOf[q] = EmailOf[r]

\* UNIQUE (slug), UNIQUE (schema_name), UNIQUE (tenant_owner_email)
UniqueViolation(r) ==
    \E q \in tenants : SlugOf[q] = SlugOf[r] \/ EmailOf[q] = EmailOf[r]

\* The row enters as ACTIVE, before the schema exists.
InsertTenant(r) ==
    /\ pc[r] = "insert"
    /\ IF ~registry \/ UniqueViolation(r)
       THEN Goto(r, "drop") /\ UNCHANGED <<tenants, saved>>
       ELSE /\ tenants' = tenants \cup {r}
            /\ saved' = saved \cup {r}
            /\ Goto(r, "create")
    /\ UNCHANGED <<registry, schemas, tables, migrated, owners, conns, budget>>

CreateSchema(r) ==
    /\ pc[r] = "create"
    /\ schemas' = schemas \cup {Home(r)}
    /\ Goto(r, "init")
    /\ UNCHANGED <<saved, registry, tenants, tables, migrated, owners, conns, budget>>

OwnerRow(r) == <<r, Home(r)>>

\* save() not awaited: its failure goes unnoticed.
SaveOwnerMutNotAwaited(r) ==
    /\ pc[r] = "owner"
    /\ Goto(r, "created")
    /\ owners' \in {owners, owners \cup {OwnerRow(r)}}
    /\ UNCHANGED <<saved, registry, tenants, schemas, tables, migrated, conns, budget>>

\* return save() instead of return await save(): its failure escapes the catch.
SaveOwnerMutEscapes(r) ==
    /\ pc[r] = "owner"
    /\ IF Usable(ds[r]) /\ Home(r) \in tables
       THEN owners' = owners \cup {OwnerRow(r)} /\ Goto(r, "created")
       ELSE Goto(r, "refused") /\ UNCHANGED owners
    /\ UNCHANGED <<saved, registry, tenants, schemas, tables, migrated, conns, budget>>

\* The owner goes into the users table of the DataSource's schema.
SaveOwner(r) ==
    /\ pc[r] = "owner"
    /\ LET s == Home(ds[r]) IN
       IF /\ Usable(ds[r])
          /\ s \in tables
          /\ ~ \E row \in owners : row[2] = s /\ EmailOf[row[1]] = EmailOf[r]
       THEN owners' = owners \cup {<<r, s>>} /\ Goto(r, "created")
       ELSE Goto(r, "drop") /\ UNCHANGED owners
    /\ UNCHANGED <<saved, registry, tenants, schemas, tables, migrated, conns, budget>>

-----------------------------------------------------------------------------
(* The catch block of signup                                                 *)

\* DROP SCHEMA IF EXISTS "slug" CASCADE: for the slug "public" the tenants
\* table goes with its schema.
DropSchema(r) ==
    /\ pc[r] = "drop"
    /\ schemas' = schemas \ {Home(r)}
    /\ tables' = tables \ {Home(r)}
    /\ migrated' = migrated \ {Home(r)}
    /\ owners' = {row \in owners : row[2] # Home(r)}
    /\ registry' = (registry /\ Home(r) # Public)
    /\ tenants' = IF Home(r) = Public THEN {} ELSE tenants
    /\ Goto(r, "delete")
    /\ UNCHANGED <<saved, conns, budget>>

\* if (tenant?.id) delete(tenant.id)
RowsToDelete(r) == {r} \cap saved

DeleteTenant(r) ==
    /\ pc[r] = "delete"
    /\ tenants' = tenants \ RowsToDelete(r)
    /\ Goto(r, IF registry \/ RowsToDelete(r) = {} THEN "disconnect" ELSE "stuck")
    /\ UNCHANGED <<saved, registry, schemas, tables, migrated, owners, conns, budget>>

\* deleteConnection up to its await: destroy() of a pool that is already
\* ending rejects; an uncached or uninitialised connection is left alone.
BeginDisconnect(r) ==
    /\ pc[r] = "disconnect"
    /\ LET d == cache[WorkerOf[r]][SlugOf[r]] IN
       IF d \in open
       THEN IF Closing(d)
            THEN Goto(r, "stuck") /\ UNCHANGED ds
            ELSE Goto(r, "destroying") /\ ds' = [ds EXCEPT ![r] = d]
       ELSE Goto(r, "rolledback") /\ UNCHANGED ds
    /\ UNCHANGED <<saved, db, cache, open, budget>>

EndDisconnectMutNoDelete(r) ==
    /\ pc[r] = "destroying"
    /\ open' = open \ {ds[r]}
    /\ Goto(r, "rolledback")
    /\ UNCHANGED <<saved, db, cache, ds, budget>>

EndDisconnectMutNoDestroy(r) ==
    /\ pc[r] = "destroying"
    /\ cache' = [cache EXCEPT ![WorkerOf[r]][SlugOf[r]] = NoDS]
    /\ Goto(r, "rolledback")
    /\ UNCHANGED <<saved, db, open, ds, budget>>

\* destroy() resolves; cache.delete removes whatever the key now maps to.
EndDisconnect(r) ==
    /\ pc[r] = "destroying"
    /\ open' = open \ {ds[r]}
    /\ cache' = [cache EXCEPT ![WorkerOf[r]][SlugOf[r]] = NoDS]
    /\ Goto(r, "rolledback")
    /\ UNCHANGED <<saved, db, ds, budget>>

-----------------------------------------------------------------------------
(* A login, to its first tenant query                                        *)

\* TenantMiddleware.use: 404 without a row; signup inserts rows as ACTIVE, so
\* login's status check passes.
ResolveTenant(q) ==
    /\ pc[q] = "idle"
    /\ Goto(q, IF registry /\ SlugTaken(q) THEN "lookup" ELSE "refused")
    /\ UNCHANGED <<saved, db, conns, budget>>

GetDataSourceMutNoProvision(q) ==
    /\ pc[q] = "lookup"
    /\ ds' = [ds EXCEPT ![q] = cache[WorkerOf[q]][SlugOf[q]]]
    /\ Goto(q, "query")
    /\ UNCHANGED <<saved, db, cache, open, budget>>

\* Wait for the signup's own DataSource instead of building a second one.
GetDataSourceMutWaits(q) ==
    /\ pc[q] = "lookup"
    /\ LET d == cache[WorkerOf[q]][SlugOf[q]] IN
       d # NoDS /\ ds' = [ds EXCEPT ![q] = d] /\ Goto(q, "query")
    /\ UNCHANGED <<saved, db, cache, open, budget>>

\* getDataSource
GetDataSource(q) ==
    /\ pc[q] = "lookup"
    /\ LET d == cache[WorkerOf[q]][SlugOf[q]] IN
       IF d # NoDS
       THEN ds' = [ds EXCEPT ![q] = d] /\ Goto(q, "query")
       ELSE Goto(q, "init") /\ UNCHANGED ds
    /\ UNCHANGED <<saved, db, cache, open, budget>>

\* SELECT ... FROM "schema".users
QueryUsers(q) ==
    /\ pc[q] = "query"
    /\ Goto(q, IF Usable(ds[q]) /\ Home(q) \in tables THEN "served" ELSE "refused")
    /\ UNCHANGED <<saved, db, conns, budget>>

-----------------------------------------------------------------------------
(* What the environment may do                                               *)

\* A statement, or ds.initialize(), fails without effect.  Once "public" is
\* gone, with the functions that column defaults call, that takes no mishap.
StatementFails(c) ==
    /\ faults < MaxFaults \/ ~registry
    /\ \/ pc[c] \in {"insert", "create", "init", "plan", "migrate", "owner",
                     "drop", "query"}
       \/ pc[c] = "delete" /\ c \in saved
    /\ faults' = IF registry THEN faults + 1 ELSE faults
    /\ Goto(c, OnError(c))
    /\ UNCHANGED <<saved, db, conns, crashes>>

\* The INSERT commits but its answer is lost: `tenant` stays unassigned.
InsertAnswerLost(r) ==
    /\ faults < MaxFaults
    /\ pc[r] = "insert" /\ registry /\ ~UniqueViolation(r)
    /\ faults' = faults + 1
    /\ tenants' = tenants \cup {r}
    /\ Goto(r, "drop")
    /\ UNCHANGED <<saved, registry, schemas, tables, migrated, owners, conns, crashes>>

\* A worker dies and is restarted with an empty cache; its calls are lost.
Crash(w) ==
    /\ crashes < MaxCrashes
    /\ crashes' = crashes + 1
    /\ pc' = [c \in Calls |-> IF WorkerOf[c] = w /\ pc[c] \in Running
                              THEN "lost" ELSE pc[c]]
    /\ cache' = [cache EXCEPT ![w] = [s \in Slugs |-> NoDS]]
    /\ open' = {d \in open : WorkerOf[d] # w}
    /\ UNCHANGED <<saved, db, ds, faults>>

-----------------------------------------------------------------------------

Provision(c) ==
    Initialize(c) \/ PlanMigrations(c) \/ RunMigrations(c) \/ StoreDataSource(c)

Signup(r) ==
    \/ FindExisting(r) \/ InsertTenant(r) \/ CreateSchema(r) \/ SaveOwner(r)
    \/ DropSchema(r) \/ DeleteTenant(r) \/ BeginDisconnect(r) \/ EndDisconnect(r)

Login(q) == ResolveTenant(q) \/ GetDataSource(q) \/ QueryUsers(q)

Next ==
    \/ \E c \in Calls : Provision(c) \/ StatementFails(c)
    \/ \E r \in Signups : Signup(r) \/ InsertAnswerLost(r)
    \/ \E q \in Logins : Login(q)
    \/ \E w \in Workers : Crash(w)

Spec == Init /\ [][Next]_vars

\* Every pending promise settles: statements answer or fail within the
\* driver's timeouts.  Nothing is assumed of faults and crashes.
Fairness ==
    /\ \A c \in Calls : WF_vars(Provision(c))
    /\ \A r \in Signups : WF_vars(pc[r] # "idle" /\ Signup(r))
    /\ \A q \in Logins : WF_vars(pc[q] # "idle" /\ Login(q))

FairSpec == Spec /\ Fairness

-----------------------------------------------------------------------------
(* Safety *)

\* Types; a call that is about to use its DataSource holds one.
TypeOK ==
    /\ pc \in [Calls -> {"idle"} \cup Running \cup Ended]
    /\ registry \in BOOLEAN
    /\ tenants \subseteq Signups /\ saved \subseteq Signups
    /\ schemas \subseteq SchemaNames
    /\ tables \subseteq SchemaNames /\ migrated \subseteq SchemaNames
    /\ owners \subseteq Signups \X SchemaNames
    /\ cache \in [Workers -> [Slugs -> Calls \cup {NoDS}]]
    /\ open \subseteq Calls
    /\ ds \in [Calls -> Calls \cup {NoDS}]
    /\ \A c \in Calls : pc[c] \in {"owner", "query", "destroying"} => ds[c] # NoDS
    /\ faults \in 0..MaxFaults /\ crashes \in 0..MaxCrashes

\* Isolation: whatever the interleaving of lookups, provisioning, rollbacks
\* and restarts, the DataSource a call holds was built for the call's own
\* slug, in its own process; so every users row is in the schema that the slug
\* of its tenant names (getDataSource, cache.set, cache.get).  Two slugs that
\* agree in 63 bytes name one schema: their tenants are not kept apart.
TenantIsolation ==
    /\ \A c \in Calls : ds[c] # NoDS =>
          SlugOf[ds[c]] = SlugOf[c] /\ WorkerOf[ds[c]] = WorkerOf[c]
    /\ \A row \in owners : row[2] = Home(row[1])

\* A DataSource found in a worker's map is still initialised, although
\* deleteConnection destroys it and removes the key only after an await, and
\* other calls may have put another DataSource under that key meanwhile.
CachedIsOpen ==
    \A w \in Workers, s \in Slugs :
        cache[w][s] # NoDS => cache[w][s] \in open

\* A pool that is still open drops out of its worker's map in two ways only:
\* another provision() for its slug puts its own pool there, or a rollback for
\* its slug that destroyed another pool comes back from that await and deletes
\* the key it knows, which by now is this pool's (cache.set, cache.delete).
\* Either way nobody will close it: that is what the code risks, and all.
PoolDropsOutOnlyToRival ==
    [][\A d \in open \cap open' :
        LET key == cache[WorkerOf[d]][SlugOf[d]]
            same(c) == SlugOf[c] = SlugOf[d] /\ WorkerOf[c] = WorkerOf[d]
        IN  key = d /\ key' # d =>
                \/ \E e \in Calls \ {d} : same(e) /\ pc[e] = "store" /\ key' = e
                \/ \E r \in Signups :
                      same(r) /\ pc[r] = "destroying" /\ ds[r] # d]_vars

\* A signup that nobody rivals for its schema and that was answered 201 keeps
\* its schema, its tables and its owner, whatever logins, failing statements,
\* crashes and other tenants' rollbacks do.
UnrivalledKeepsOwner ==
    \A r \in Signups :
        /\ pc[r] = "created"
        /\ \A q \in Signups \ {r} : Home(q) # Home(r)
        => /\ OwnerRow(r) \in owners
           /\ Home(r) \in schemas \cap tables

\* A signup that ended any way but "created" leaves a tenants row behind only if
\* its worker died, a statement of the catch block failed, or the answer to its
\* INSERT was lost: with `tenant` assigned, insert-then-compensate is all or
\* nothing for the row, whatever else fails.
LeftRowHasCause ==
    \A r \in tenants : pc[r] \in Ended =>
        \/ pc[r] = "created"
        \/ pc[r] = "lost" /\ crashes > 0
        \/ (pc[r] = "stuck" \/ r \notin saved) /\ faults > 0

\* A signup that meets no failing statement is turned away or rolled back for
\* one of four reasons only: the migration does not name its schema; another
\* call was at work in that schema, be it a login, whose provision() runs the
\* migration a second time; the owner's e-mail has a tenant; or the tenants
\* table itself was dropped.
RollbackHasReason ==
    \A r \in Signups :
        faults = 0 /\ pc[r] \in Rollback \cup {"conflict", "rolledback", "stuck"} =>
            \/ MigrationSchema[Home(r)] # Home(r)
            \/ \E q \in Calls \ {r} :
                  /\ pc[q] # "idle"
                  /\ Home(r) \in {Home(q), MigrationSchema[Home(q)]}
            \/ \E q \in saved \ {r} : EmailOf[q] = EmailOf[r]
            \/ ~registry

\* The owner row of a created tenant disappears in one way only: by the DROP
\* SCHEMA of a signup for the same schema; and where it is for the same slug,
\* of one that passed the findOne check and then got no row of its own from
\* its INSERT.
OwnerLostOnlyToRival ==
    [][\A r \in Signups :
        (pc[r] = "created" /\ OwnerRow(r) \in owners \ owners') =>
            \E q \in Signups \ {r} :
                /\ Home(q) = Home(r) /\ pc[q] = "drop"
                /\ SlugOf[q] = SlugOf[r] => q \notin saved]_vars

\* Every call that has started is answered, or lost in a crash: no schedule of
\* rollbacks, shared connections and provisioning leaves one waiting.
CallsEnd == \A c \in Calls : pc[c] # "idle" ~> pc[c] \in Ended

-----------------------------------------------------------------------------
(* What the tenants table promises *)

Registry == INSTANCE TenantRegistry
                WITH listed <- registry,
                     rows <- tenants,
                     confirmed <- {r \in Signups : pc[r] = "created"},
                     Insiders <- {r \in Signups : Home(r) = Public}

\* signup implements TenantRegistry: rows never clash, only the signup that
\* inserted a row removes it, and never after it was answered 201, however
\* concurrent signups fail and roll back; with one exception, the rollback of a
\* signup for the slug "public", which drops the table with all its rows.
ImplementsRegistry == Registry!Spec

-----------------------------------------------------------------------------
(* What the code does not provide (checked by runs that expect a violation)  *)

\* README.md: "POST /auth/signup : creates tenant, schema, and owner user".
CreatedKeepsOwner ==
    \A r \in Signups : pc[r] = "created" => OwnerRow(r) \in owners

\* A signup that meets no failing statement, no crash and no signup for the
\* same schema or e-mail is never rolled back.
RollbackHasCause ==
    \A r \in Signups :
        /\ pc[r] = "rolledback"
        /\ faults = 0 /\ crashes = 0
        => \E q \in Signups \ {r} :
              Home(q) = Home(r) \/ EmailOf[q] = EmailOf[r]
=============================================================================
