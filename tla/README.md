# A TLA+ model of the multi-tenancy backend

The program (`src/`) is a NestJS service that gives every tenant a PostgreSQL
schema of its own. It runs as a cluster of Node processes (`ecosystem.config.js`,
PM2, `instances: 'max'`), each with its own memory, over one PostgreSQL database
and one Redis. Its only test requests `GET /`; everything that can go wrong
between two `await`s, two requests, two workers or two statements is untested.
That is what this project is about.

Line numbers below are of `src/src/...` unless they say otherwise.

## 1. The system

| Component | State | Operations | Talks to |
|---|---|---|---|
| Onboarding, `auth/auth.service.ts` `signup` | none of its own; local `tenant` | find, insert, create schema, provision, save owner; catch block: drop, delete, disconnect | tenants table, provisioning, schemas |
| Login, `auth.service.ts` `login` | none | status check, `getDataSource`, select, password, last-login update, tokens | provisioning, tokens |
| Provisioning, `database/tenant-datasource.service.ts` | map schema name -> DataSource, one per worker (`common/cache/index.cache.ts`) | `provision`, `getDataSource`, `deleteConnection` | PostgreSQL pools, migrations |
| Tenants table, `tenant/entities/tenant.entity.ts` | rows; UNIQUE slug, schema name, owner e-mail | find, insert, delete | |
| Tenant schemas and migrations | schemas, their tables, their `migrations` bookkeeping | create, migrate, drop | |
| Tenant middleware, `common/middleware/tenant.middleware.ts` | `req.tenant` | slug from host or header, 404 | tenants table |
| Invitations, `tenant/tenant.service.ts` | public table `invitations` (status, dates, token) | invite, accept, revoke | tenants' `users` |
| Cleanup cron, `tenant-invitation-cleanup.service.ts` | none | daily UPDATE | invitations |
| Tokens, `token/token.service.ts`, `redis/` | Redis `refresh-token:<user>` with a time to live; one connection per worker and its queue of commands | issue; reconnect, give up | Redis, JWT library |
| JWT guard, `auth/guard`, `auth/strategy` | none | accept or 401 | |
| HTTP pipeline, `app.create.ts:50-56` | response cache by URL, one per worker | log, cache, error, success envelope, timeout | all handlers |
| Products, changelogs, feedback | tables in the tenant's schema | create, page, update | provisioning |
| Notifications, `UserService` | none | none: empty classes | |

How they interact: a request passes the middleware (which reads the tenants row),
the guard, the interceptors and the handler; the handler gets a DataSource from
the worker's map and issues statements. Nothing is shared between workers but the
database and Redis. Within a worker, every `await` lets other requests run. There
is no transaction that spans two statements, no lock, and no retry.

What is hard:

- **check-then-act**: signup's `findOne` and INSERT, invite's `findOne` and INSERT,
  accept's user check and INSERT, revoke's read and UPDATE;
- **compensation by hand**: signup undoes four steps in a catch block that knows
  only whether a local variable is assigned, and the undoing may itself fail;
- **a map written across awaits**: provisioning reads and writes the map of
  DataSources before and after awaiting pools, while other calls use them;
- **half-done work**: a user is saved in one schema and the invitation updated in
  another; a failure or crash in between is left to the daily sweep;
- **crashes**: a worker that dies loses its map and its calls in the middle of
  such sequences; the rows stay;
- **unconditional updates**: accept, revoke and expiry update by id whatever the
  row's status is by then;
- **commands that wait**: a SET whose connection closes is sent again, later, maybe
  after its client was told 408, or rejected although Redis executed it;
- **two units of time**: Redis counts seconds, `jsonwebtoken` reads a string of
  digits as milliseconds and its own clock in whole seconds;
- **names that clash**: a slug is used as the name of a schema as it is; `public`
  passes its pattern, and PostgreSQL keeps 63 bytes of a name;
- **pages of a moving list**: a client takes one page after the other, in two or
  three statements each, while others write, and some of them from a cache that
  knows neither their age nor their tenant.

`PROJECT.json` lists each hazard at its line with the properties aimed at it.

What makes each component correct: onboarding reports success only for a tenant
that is all there, and leaves nothing behind otherwise; provisioning never hands
a call another tenant's DataSource, nor a destroyed one that a later call could
find again; an accepted invitation has its user, once, and a settled invitation
stays settled; the cron expires only what is stale and eventually everything
that is; the response cache answers with what the handler would; a timed-out
request took effect or not, but once; tokens and their records agree; pages
partition the rows.

## 2. Modules

| Module | Models | Lines of code |
|---|---|---|
| `TenantRegistry` | the abstract specification of what signup promises of the tenants table | - |
| `TenantSignup` | signup, login to its first query, provisioning, the tenants table, schemas, migrations, crashes | `auth.service.ts` 34-102, `tenant-datasource.service.ts` 17-54, `tenant.middleware.ts` 12-44 |
| `TenantSignupProofs` | theorems about it | |
| `MCTenantSignup` | constants for TLC | |
| `Invitations` | invite, accept, revoke, the cleanup cron, time | `tenant.service.ts` 29-130, `tenant-invitation-cleanup.service.ts` 16-27 |
| `InvitationsProofs` | theorems about it | |
| `MCInvitations` | constants for TLC | |
| `TenantMembership` | the abstract specification of what invitations promise of a tenant's members | - |
| `Gateway` | middleware, guard, interceptors, response cache, timeout, an abstract handler | `tenant.middleware.ts` 12-44, `jwt.guard.ts` 19-35, `app.create.ts` 50-56, `common/interceptors/` |
| `GatewayProofs` | theorems about it | |
| `MCGateway` | constants for TLC | |
| `Sessions` | extends `Gateway` with the login handler, the tokens, the refresh records in Redis and the connections to it | `auth.service.ts` 83-136, `token.service.ts` 22-75, `redis/`, `jwt.strategy.ts` 8-19 |
| `SessionsProofs` | theorems about it | |
| `MCSessions` | constants for TLC | |
| `Catalog` | products, changelogs, feedback: the writes to a tenant's schema | `products.service.ts` 12-25, `changelogs.service.ts` 15-20, `feedback.service.ts` 15-92 |
| `ChangelogPages` | extends `Catalog` with clients that page through the changelogs, and the response cache in front of them | `changelogs.service.ts` 22-66, `cache.interceptor.ts` 9-24 |
| `ProductPages` | extends `ChangelogPages` with clients that page through the products, behind the same cache | `products.service.ts` 27-65, `cache.interceptor.ts` 9-24 |
| `TenantStore` | the abstract specification of what a tenant's tables promise those who write to them | - |
| `CatalogProofs`, `ChangelogPagesProofs`, `ProductPagesProofs` | theorems about them | |
| `MCCatalog` | constants for TLC | |

### TenantSignup

A call (a signup or a login) is a process with a program counter `pc`; one action
is the code from one `await` to the next. `tenants` are the rows of the public
table (a row is identified by the signup that inserted it), `saved` the signups
whose local variable `tenant` is assigned: the two differ when an INSERT commits
and its answer is lost, and the catch block looks at the second. `schemas`,
`tables` and `migrated` are the PostgreSQL schemas, those with the tenant tables,
and those whose bookkeeping table records the migration. `owners` are users rows
`<<signup, schema>>`. `cache` is the map of each worker, `open` the DataSources
with `isInitialized`, `ds` what a call holds. A DataSource is named by the call
that built it; `SlugOf[d]` is then the schema it was configured for. `registry` says
whether the table `tenants` exists.

`signup` is FindExisting, InsertTenant, CreateSchema, Provision (Initialize,
PlanMigrations, RunMigrations, StoreDataSource), SaveOwner; its catch block is
DropSchema, DeleteTenant, BeginDisconnect, EndDisconnect. An exception in the try
block leads to `"drop"`; one in the catch block skips the rest of it (`"stuck"`).
`login` is ResolveTenant (the middleware), GetDataSource, Provision if the map has
no entry, QueryUsers.

The schema name is the slug (`auth.service.ts:35`), and PostgreSQL cuts what is
longer than 63 bytes. So the map of DataSources and the UNIQUE constraints go by the
slug, statements by `SchemaOf[slug]` (`Home` of a call), which need not be different
for different slugs. A slug may also name the schema `Public`, which is there from the
beginning: `CREATE SCHEMA IF NOT EXISTS` then does nothing, and the rollback's
`DROP SCHEMA ... CASCADE` removes the tenants table with all its rows (DropSchema).
From then on lookups and INSERTs fail, and every other statement may, since the
functions that column defaults call went too; nothing in the repository creates the
table again. Whether TypeORM finds its own bookkeeping table under a name that was cut
is left open: PlanMigrations does, and where it would not, that is a StatementFails.

`MigrationSchema` says which schema the statements of the tenant migration name
when they are run for a given schema. The checked-in file names `"tenant_acme"`
always (`migrations/tenant/1781867683948-add-index-to-products.ts:7`): with that
value no signup succeeds (the slug pattern of `auth/dto/index.dto.ts` has no
underscore, so no tenant is called that), which the run `signup_migration` shows.
The other runs use a migration that names the schema it is run for, so that the
rest of the system can be seen at work. The theorems hold for every value of it,
the checked-in one included.

Environment: a statement may fail without effect; the INSERT of the tenants row
may commit and lose its answer (for other statements a lost answer leads to no
state that a failure or a crash does not also lead to in what the properties see);
a worker may crash and come back with an empty map.

### TenantRegistry and the refinement

`TenantRegistry` knows the rows in the table, the confirmed signups and whether there
is a table, and four steps: Reserve a row that clashes with none, Confirm it, Release
it if it is not confirmed, and Wipe: an unconfirmed signup for the schema the table is
in takes the table away. `TenantSignup` implements it with `listed <- registry,
rows <- tenants, confirmed <- {r : pc[r] = "created"}` (`ImplementsRegistry`,
checked and proved): whatever the interleaving, the failures and the crashes, rows
never clash, only the signup that inserted a row withdraws it, and none is
withdrawn after it was answered, until a signup for `public` is rolled back. That
such a step has to be in the specification of the table is a defect of the code: the
pattern of `auth/dto/index.dto.ts:10` lets the slug through. What the registry does
*not* promise, an owner and a schema for every confirmed row, is what the code breaks
in other ways too (`signup_rival`).

### Invitations

`status` of each invitation (`"none"` before it is stored), the two timestamps as
sets, `users` as rows `<<tenant, e-mail>>`, and time as the set `expired` of
invitations past their `expiresAt`: an invitation enters it once, at any moment
after it was stored. `Earlier` are invitations that were answered before the
behaviour begins, as if their requests had run alone. `held` is the row a call has
read and goes on with (`const invitation`). Invite is FindPending, FindInvitee, StoreInvitation; accept is
FindByToken, CheckExpiry, MarkExpired or FindMember, SaveUser, MarkAccepted; revoke
is FindRevocable, MarkRevoked; a worker's cron job is SweepBegin, which reads the
date, and SweepUpdate. `getDataSource` is part of the step that queries through it
and its failure one of StatementFails. FindRevocable picks any pending row of the
e-mail, of any tenant, since the query has neither a tenant nor an order.

`Contested` are the tenants for whose slug rival signups are served. DropSchema is
such a rival's rollback seen from here: at any time, and any number of times, the
tenant's users go, its owner among them. After that a statement on the table fails
(UsersMissing) or, if another signup has made the schema again, finds it empty.
`dropped` remembers which tenants that happened to. That the rollback of a signup for
`public` removes the table `invitations` itself is TenantSignup's matter and not in
this module, as if no slug were `public`.

The same `Crash` as in TenantSignup stops the calls and the sweep of a worker.
`UserAnswerLost` is the INSERT of a user that commits although the accept sees an
error: the member is there, the invitation stays pending and its retry is refused.

### TenantMembership and the refinement

`TenantMembership` knows the members of tenants, the tenants that ever lost theirs,
the invitations sent and those used, and four steps: Send, Join (somebody invited
becomes a member), Use (the invitation counts as accepted: its member is there, is no
owner, and no other invitation of that member was used; or the tenant has lost its
members) and Wipe (a contested tenant loses them all). `Invitations` implements it
with `members <- users, wiped <- dropped, invited <- {i : status[i] # "none"}, used <- acceptedAt`
(`ImplementsMembership`, checked and proved). The other transitions of `status`,
the sweep and the revocation among them, are stutters of it: they may overwrite a
status but never who is a member or which invitations were used.

### Gateway

A request is a process; `pc` is what its client knows (`"sent"`, past the middleware
`"resolved"`, past the cache `"open"`, then `"ok"`, `"error"`, `"timeout"` or
`"lost"`), `handler` how far the handler's promise is. The two are separate because
they come apart: the timeout unsubscribes from the stream and answers 408, and the
promise runs on. `done` are the requests whose handler committed, `answer` the
response a client got, named by the request whose handler produced it, `cached` the
`CacheWrapper` of each worker.

Resolve and LookupFails are the middleware, Reject the guard. Replay and Handle are
the two branches of `CacheInterceptor` (the check and the subscription to the rest;
what is between them and the first line of the handler are promises already
resolved, and nothing of it is visible to another request). Return is the success
envelope and the `tap` that fills the cache, Throw the error envelope, which passes
the `tap` by; each of them reaches the client and the cache only while `pc` is
`"open"`. A handler may throw before or after its effect; without a tenant a route
that reads `tenant.schemaName` can only throw. Logging changes no state. The rows of
the tenants table are a constant here (`Known`): how they change is TenantSignup's
matter. Commit stands for any handler; the map names `createProduct`, the first one.

### Sessions

`Sessions` replaces the abstract handler of the login requests by
`AuthService.login` with `TokenService.createToken`, and leaves all other requests
to Gateway. It is a composition: every step is a step of Gateway or leaves its
variables alone (`ImplementsGateway`, checked and proved), so what Gateway promises
of responses, cache and timeout holds with the real handler inside.

`step` is what a login's handler awaits: `"query"` (the DataSource and the users
row), `"verify"` (argon2), `"queued"` or `"executed"` (the SET of the hash; Redis has
executed it over the present connection, or not), `"rejected"`. FindUser, IssueTokens,
ExecuteSet, AnswerLogin and LoginFails are the code between those awaits. A token
and its hash are named by the login they were issued to: `record[u]` is the login
whose hash is in `refresh-token:<u>`, `keptUntil[u]` the end of its time to live.
Nothing in the program deletes or reads that record. `earlier[l]` is history: the
logins that were over when `l` began.

`conn` and `attempts` are the client of each worker (`redis.module.ts`; ioredis as
it documents those options). A connection that closes, or an attempt that fails,
puts executed commands back into the queue, to be sent again, or rejects them all
at every `maxRetriesPerRequest + 1`st attempt; `retryStrategy` gives up for good
after ten, and from then on every command is rejected at once. ioredis sends a
worker's commands in order; the model lets them be executed in any order, which
includes that one. Redis keeps what it was given until its time to live is over.

The clock `now` counts milliseconds. `Lifetime` is what `jsonwebtoken` makes of
`expiresIn`: `ConfigService.get<number>` does not convert, the value is a string of
digits, read as milliseconds, and `exp` is rounded down to a second. The guard
compares it with whole seconds (`Expired`). A request with a token is sent after
some client got the response that carries it, kept or not (`HandedOut`).

### Catalog, ChangelogPages and ProductPages

`Catalog` is what goes on behind Gateway's Commit for the routes that write to a
tenant's schema. A row is named by the request that inserted it; what it refers to
(`RefProduct`, `RefChangelog`) is what the client put into the body, any id at all,
of another tenant too. `rows` are the rows of all tenants, `present` the schemas
that exist. A request is at `"start"` before its first statement, `"stored"` when
its row is there and the answer on its way; a refused one (404, or a constraint) is
`"refused"`, one with a failing statement `"error"`.

DropSchema and CreateSchema are steps of TenantSignup seen from here: a losing
signup may drop the schema of an active tenant in the middle of a request
(`signup_rival`), and a later one may create it anew, empty. So a product or a
changelog that createFeedback looked up may be gone when it saves; the foreign keys
decide then. createFeedback does not compare the product of the changelog with its
own; that they agree follows from `products.tenant_schema` being UNIQUE inside a
schema where it has one value.

`Update` is `feedback.service.ts:74`. TypeORM rejects an UPDATE that names a
property the entity does not have; a PUT that got this far has a `feedbackId`,
which is none. The promise is held by nobody. Two things may come of it: the program
installs no handler for unhandled rejections, so that Node ends the process in the
same turn of the event loop, before the read-back of line 75 is answered (Unhandled;
`Loses` are the requests that this, or a crash, takes along); or something outside the
program listens for them, as PM2's wrapper may in cluster mode, and the row as it was
is answered with 200 (Update). Nothing is updated either way.

`ChangelogPages` composes these writers with readers: a walk asks for page 1 and then
for `meta.nextPage` until it is null. Each GET goes to any worker, and first to that
worker's response cache: the routes are behind `CacheInterceptor`
(`app.create.ts:50-56`, `cache.interceptor.ts:12`). `kept` are the pages the workers
keep, by `Url`, the query string, which names the product but no tenant. If the page is
kept, it is replayed as it was (Replay), whatever was written since. If not, the
handler runs, three statements with writers between any two, FindListed, ReadRows,
ReadCount, and its answer is kept until the worker ends (EndPages). A GET that fails
or takes too long ends the walk and keeps nothing (ReadFails). `CreatedAt` fixes the
timestamp each changelog takes; since it is the start of its transaction, rows become
visible in any order. TypeORM counts the total by a second statement, or takes it from
a page that is not full: ReadCount may use either. `seen`, `before`, `repeated` and
`fresh` are history: what the walk was given, what was there when it read page 1, what
it was given twice, and whether no page was replayed to it. A client may stop at any
time.

`ProductPages` adds walks through the products, with `page` and `limit` any integers
and `Matching` the products a search finds. Their URL names no tenant at all, so a
page kept for one is replayed to the clients of another (ShopReplay). `getProducts`
has no ORDER BY: `Shelves` is any set of rows of the right size. With `limit=0` TypeORM
writes LIMIT 0 or no LIMIT at all, depending on its version, and the model allows both;
a negative offset or limit is refused by PostgreSQL (ShopFails). `owing` is history:
what was there when a walk asked for its first page and has not been given to it.

A walk that is replayed a page may miss entries, be given some twice, or be given
another tenant's: pages of different ages do not fit together. So the properties of
pages are stated of walks whose GETs all ran their handler (`fresh`, `shopFresh`);
without that condition TLC refutes each of them in a few steps, and no document of the
repository promises otherwise. What holds of every walk, replayed or not, is that it
ends (`WalkEnds`). A GET without a query string has the URL of the POST of the same
route and may be given that one's response; the walks modelled always name their page
and limit.

### TenantStore and the refinement

`TenantStore` knows the stored rows, the requests whose row may still enter, those
that will hear of theirs, those that did, and the tenants that were ever wiped. Its
steps are Add (a row enters beside the rows it refers to, all of its own tenant, and
within the limit of one product per tenant), Confirm (of a row that is there, or went
with its whole tenant), GiveUp (any requests end without a row or without an answer)
and Wipe. `Catalog` implements it (`ImplementsStore`, checked and proved). The lookups,
which may be stale when the INSERT comes, are stutters of it: what Add demands, the
constraints of the tables enforce. Crashes, failing statements and the unhandled
rejection of a PUT are GiveUps of many requests at once.

## 3. Runs

Each run of `PROJECT.json` is one `.cfg`.

| Run | Instance | Shows |
|---|---|---|
| `signup_race` | 3 signups (two for one slug on two workers, the third for `public` with the first one's e-mail), a login, 2 workers, 2 failing statements, 1 crash | isolation, the map of DataSources, how a pool drops out of it, what gets a signup rolled back, the tenants table and its end, the refinement |
| `signup_live` | 2 rival signups, a third for another slug that is cut to the same schema, and a login, on one worker; 1 crash, fairness | every call ends; an owner is lost only to a signup for its schema |
| `signup_rival` (violation) | 2 signups, no faults | a created tenant loses its owner to a rival's rollback |
| `signup_migration` (violation) | 2 unrelated signups, the checked-in migration | a signup is rolled back for no reason of its own |
| `invite_safe` | 3 invitations of one e-mail, two of one tenant, one answered before; 2 accepts, 1 revocation, sweeps of 1 worker, any drops of the tenant's schema, 1 failing statement or crash, fairness of time and sweep | what the unconditional updates still guarantee, the refinement, and that no invitation stays pending for ever |
| `invite_revoke` (violation) | 1 invitation, 1 accept, 1 revocation | a revocation overwrites an acceptance |
| `invite_duplicate` (violation) | 2 invitations, 1 accept, 1 revocation | two pending invitations for one e-mail and tenant |
| `sessions_login` | 2 logins of one user on a worker, a request with the first one's token on another; 2 outages of Redis or crashes (at most 1 crash), access tokens of 600 s, a clock with 0 and 601 s; fairness | the record in Redis never goes back, outlives its token and is stored before the token is used; no login waits for a client that has given up; the pipeline's promises hold with the real handler; every login settles and every admitted client is answered |
| `sessions_expiry` (violation) | the same requests, `JWT_ACCESS_EXPIRES=900`, no faults | a token is refused as expired in the second it was issued in |
| `gateway_replay` (violation) | 2 POSTs to one URL, no crash | the second one is answered without having been handled |
| `catalog_pages` | 2 products, 3 changelogs, 2 feedbacks, 1 PUT of one tenant, 2 walks through its changelogs and 1 each through the products of two tenants with pages of one row, 2 workers that keep pages, 1 failing statement, crash or dropped schema; fairness of the walks through changelogs | references resolve, answers are true, fresh walks through changelogs and products miss and repeat nothing, walks end; the refinement |
| `catalog_update` (violation) | 1 product, 1 changelog, 1 feedback, 1 PUT, nothing goes wrong | a PUT updates nothing |

**Bounds.** Three signups are the least with a rival for the slug and another for
the e-mail at once, so that a refused INSERT, a rollback and a success may all
overlap; the third one's slug is `public`, so that its rollback ends the table in the
middle of the others' lives. The login adds a second user of the same pools and a
second `provision()`. Two workers are the least with separate maps; the live run has
one, where calls share pools, and has its third signup under another slug of the same
schema. There no statement fails: it is what the calls do to each other that could
keep one waiting, and a failing statement only takes a call nearer to its end
(`CallsAdvance`). In `signup_race` `MaxFaults = 2` lets a step of the try block and then
one of the catch block fail; `MaxCrashes = 1` suffices because a crash removes
calls and a map and never brings one back. For invitations, three of them give a
duplicate and another tenant's at the same e-mail; two accepts race by two tokens.
`MaxMishaps = 1` is a joint bound for failing statements and crashes, one of which
leaves an accept half done; the drops of the tenant's schema are not bounded. (With two
mishaps the run takes more than four minutes, 1.5 million states, and passes
too.) One worker is enough to have a sweep race with calls and with a restart;
what two sweeps at once do, the theorems cover.

`sessions_login` has two logins of one user because a record can only go back when
there are two; the third request is the one that uses a token. `RetryLimit = 2` and
`PerRequest = 1` stand for 10 and 3: with them a command can be kept across one
failed attempt, be rejected by the next, and the client give up at the third, which
are all the cases `Closed` distinguishes. The clock has an instant before and one
after the end of an access token; that the record outlives the refresh token at any
instant is proved. `MaxMishaps = 2` (connections that close, and crashes) is the
least for a SET that is sent again and then rejected.

`catalog_pages` has the least that can go wrong of each kind: two products for the
UNIQUE constraint, a feedback on the second with a changelog of the first, three
changelogs so that one may push another to the next page between two GETs while an old
page is still kept; the second walk is the one that finds pages kept by the first, for
the products one of another tenant. The walks through changelogs ask for `limit=0`,
which the code raises to 1; those through products for `limit=1`, with which a second
page of an unordered list may repeat the first, if only there could be two products.
Other values of page and limit are the theorem's. `MaxMishaps = 1`: a failing
statement, a crash and a dropped schema each do their harm alone.

Walks and requests are many processes that have little to do with each other, and the
run looks at enough of their interleavings, not at all (`ApartSpec` in `MCCatalog`): at
behaviours without walks, with every interleaving of requests; and at behaviours in
which changelogs, or products, are read, one walk after the other, with everything that
workers, failing GETs, drops and inserts do at any point of a walk. That loses nothing
the properties see. A walk writes nothing a request reads (`ShopRefinesPages`); of a
request it sees the row it inserts and not the statements before; of other walks it
sees only the pages of its own kind that they left behind, and which pages those can be
does not depend on whether the other walk has ended. The theorems are about the
unreduced `ShopSpec` and `PagesSpec`.

The theorems have no bounds at all.

`CHECK_DEADLOCK FALSE` in the signup runs: requests are a finite set, and the system
rests when all are answered. The gateway and catalog runs rest likewise. In the
invitation runs the cron job goes on for ever and deadlock is checked.

**Fairness.** `CallsEnd` assumes that a started call goes on: statements answer or
fail within the driver's timeouts, and the event loop runs what is ready. It does
not assume that a request arrives, nor anything about faults and crashes, whose
number the bounds limit: after the last of them the system must recover by itself.

`PendingSettles` assumes that time passes and that the cron job comes round on every
worker, and nothing of calls, which may stop half way.

`LoginSettles` assumes that each promise a login's handler awaits settles once the
client has a connection or has rejected the command, and that the client's timer
for its next attempt fires, whether that attempt succeeds or not. `AdmittedIsTold`
assumes besides that the guard and the cache come to an end, since they wait for
nothing outside the process, and that the timer of the timeout fires. Handlers of
other requests are not fair, they may hang before or after their effect; nor are
outages.

`WalkEnds` assumes that a GET's statements return, or fail, and that the client goes
on; writers are not fair.

Every property has a mutant, a plausible slip in one of the mapped definitions
under which TLC finds it violated (`PROJECT.json`, operators named `...Mut...`).

## 4. What is proved

The seven modules named `...Proofs` prove every safety property of the passing runs
and the four refinements, for all values of the constants: any numbers of
requests, tenants and workers, any assignment of slugs, e-mails and workers, any
migration target, any number of faults, outages and crashes, any retry limits, any
clock, any page, limit, search and cut of slugs. They assume only what the modules' `ASSUME`s
say: requests of different kinds are different, the routing functions are functions,
the bounds are numbers; for the pages, that changelogs and products are finitely
many and no two changelogs have the same timestamp; for the sessions, that the
refresh token's lifetime is at most seven days, whatever its unit.

*Types* (`TypeCorrect`) are inductive as stated; they include that a call about to
use a DataSource or an invitation holds one.

*Connections.* `TenantIsolation` and `CachedIsOpen` are not inductive: a step may write into the map a DataSource of which they say nothing.
`ConnInv` adds that what is in a map or a variable was handed out by `provision()`
for that very worker and schema, that a call before its `cache.set` holds nothing,
and that a DataSource is open while it is being migrated. `CachedIsOpen` then
follows because the key `deleteConnection` removes after its await holds either the
DataSource it destroyed or a later one. `PoolDropsOutOnlyToRival` is an action property:
the key of an open pool is written only by the `cache.set` of a call of the same slug
and worker, and deleted only by a rollback that destroyed something else. The second is
a leak the code has (`tenant-datasource.service.ts:51-52`): the pool is in no map, and
nobody will close it.

*Rows.* `RowInv` says where in its life a signup has its row, that `saved` and the
table agree from the INSERT to the delete, and that rows never clash. From it follow
the refinement (`RefinesRegistry`: Init maps to Init, every step to a step or a
stutter), and `OwnerLostOnlyToRival`: the one who drops a created tenant's schema
is for that schema, and if it is for the slug too a row of its own would clash, so it
has none. All of it is claimed while the table exists (`RegistryStays`). `UnrivalledKeepsOwner`
needs in addition that tables are only in schemas that exist. `LeftRowHasCause`
needs `Compensated`: every row is known to a signup that goes on with it (it will
answer 201 or delete it), or that signup was lost with its worker, is stuck in its
catch block, or never learnt of its row.

*Rollbacks.* `RollbackHasReason` is about what a signup never meets while it is alone
in its schema, so `UndisturbedInv` follows such a signup step by step (`Smooth`: its
schema is there from the CREATE on, is migrated by itself alone, its pool is its own
and open), until it is disturbed (`Disturbed`), which it then stays (`DisturbedStable`).
`OthersStep` shows that a call that is not at work in its schema takes nothing of this
away. A rival is not the only call that can disturb it: the row is ACTIVE before the
schema is ready, so a login for the same slug may run the migration first, and the
signup's own then fails. Model checking found that reason; it is listed among
the hazards (`tenant-datasource.service.ts:38`).

*Progress.* `CallsAdvance` is the safety half of `CallsEnd`: no step takes a call back
to one it has left (`Rank`), so what fairness has to add is only that steps are taken.

*Invitations.* `AcceptInv` says that an accept past SaveUser has its user, that an
invitation somebody holds is stored, and that an unfinished invite has stored
nothing; `AcceptedHasUser`, `OneAcceptPerMember` and `SettledStaysUnlessRaced`
follow. `ExpiryInv` adds that what a sweep or an accept took for stale is stale.
The drops of a schema are in it as the only way for a user to go (`Monotone`,
`HasUser`). `InvitedInv` says that a user who is not an owner signup created (`Founder`)
was invited; with it `PendingMemberHasCause` is shown case by case: stored too late,
saved now, or already there. `EarlierInv` adds to a pending invitation that was
answered before that an invite for the same user has got no further than its first
query. For the refinement `MembershipInv` says that an accept past SaveUser
is for nobody who owns the tenant, and that an invitation marked accepted has the
accept that did it: with `OneAcceptPerMember`, no second one is ever used before the schema is dropped.

*Gateway.* What a client got is sound only if what was kept is, so the properties are
not inductive. `GateInv` says that a kept response is one whose own client was told
`"ok"` and whose handler committed, for that URL in that worker (`Sound`, which no
step takes back), and that until a crash every success is still kept.
`SucceededIsNotRepeated` follows: a handler starts only where nothing is kept.

*Sessions.* `GatewayImplemented` goes step by step: a login's `step` says how far
Gateway's handler is (`ControlInv`), so ExecuteSet is a Commit or, the second time, a
stutter, and the rest Return and Throw. The pipeline's theorems then hold by citing
them. `ControlInv` also says that `earlier` holds only logins that are over; a SET
that waits, or is sent again, belongs to a login that is not, so it cannot bring back
what was over when another began: hence `RecordNeverGoesBack`. `RecordInv` adds that a
record is that of a login of its user that has stored it (`RecordIsStored`), that no
token is signed in the future, and that the time to live ends seven days after the
signature or later (`KeptFromSignature`). `RecordOutlivesToken` then compares seven
days with the token's lifetime, rounded down twice.

`GivenUpHasNoneWaiting` is inductive: the attempt at which `retryStrategy` gives up
rejects what waits, and a command that comes later is rejected at once. `TokenWindow`
puts the guard's decision, in rounded seconds, between two bounds in milliseconds
(`ExpiryWindow`). With a lifetime of fewer than 1000, the documented 900 for one, the
lifetime is no second at all, and since nothing is signed in the future
(`SignedInThePast`) no request with a token ever passes, whatever else happens
(`DocumentedExpiryServesNobody`).

*Catalog.* `ReferencesResolve` is inductive only because a drop takes all rows of a
schema at once and every reference stays within one. With `OneProduct` (no two
products in a schema) it gives `FeedbackOnItsProduct`: the two products are rows of
one schema. `AnsweredIsStored` needs that a row is there from the INSERT on, before
the answer (`StoredInv`). `RefinesStore` takes each action to one of TenantStore's:
Save to Add or GiveUp, since its own condition is what Add demands; Answer to Confirm,
by `StoredInv`; every other step only moves requests forward (`Moves`) and is a GiveUp.
The walks are added without changing what writers do (`ShopRefinesPages`), so all of
this holds of the specification with walks as well.

*Pages.* A row's position is the number of newer rows, so it never gets smaller
while the row is there (`RowsStep`, `ListedStep`). `WalkInv` says what a walk owes:
unless it was replayed a page, of the rows there when it began it has seen those
positioned before the page it is about to read, and, having read it, those before its end. When nextPage is null the
page's end is past the total (`LastPage`, the arithmetic of `Math.ceil`), so it has
seen all (`NoEntryMissed`).

`ShiftInv` says that, while the
list is what it was, what a walk has seen lies before the page it is about to read:
pages of such a list do not overlap (`RepeatedOnlyIfShifted`). For the products,
`OwingInv` says that a walk from the first page on owes nothing that is still there:
its first SELECT returns the one product there can be (`OneProduct`), in whatever
order. With `limit=0` it may return nothing; such a walk ends only when the count is
0, and a product that is gone does not come back (`NoProductMissed`).

*The positive half of what fails.* The runs that expect a violation refute statements
without conditions. Where the code keeps such a statement under a condition that
names the culprit, that is proved: `DistinctSchemasKeepOwners` and
`TemplatedRollbackHasCause` (signup), `UnsharedMeansHandled` (response cache),
`SpacedInvitesHold` (duplicate invitations), `TokenWindow` (expiry),
`SettledStaysUnlessRaced` (revocation). `UpdateTakesEffect` has none: no PUT updates
anything.

**Only model-checked:** the liveness properties `CallsEnd`, `PendingSettles`,
`LoginSettles`, `AdmittedIsTold` and `WalkEnds`: temporal reasoning under fairness is
out of the prover's reach.

## 5. What is not modelled

- Text, envelopes, logging, Swagger, CORS, validation patterns, Docker, CI, the
  `warehouse.sql` exercise: no state, or none of the running system.
- Password hashing: a pause with no state; the steps around it are separate
  anyway.
- `down()` migrations, and the migration that names `temporary_tenant_template`:
  run by hand. `database.module.ts:24` looks for public migrations in a directory
  the repository does not have; the models start from a database whose public
  tables exist.
- `encodeCursor`, `decodeCursor`, `ResponseBuilder`, `NotificationService`,
  `UserService`: nothing calls them, or they are empty.
- `accept-invitation` sits behind the JWT guard (`tenant.controller.ts:17`), so
  somebody must call it who already has a token; the model lets anybody call it.
- The UPDATE of `last_login_at` in `auth.service.ts:120`: the table has no such
  column (`last_login_date`), the statement fails each time, and `.catch` logs it.
  It changes no state.
- `RedisService.get`, `del`, `sadd`, `srem`, `smembers` and `getClient` have no
  callers: nobody reads or deletes a refresh record, and no route takes a refresh
  token. `onModuleDestroy`, which quits the connection ("graceful shutdown",
  `src/README.md`), does not run on a signal, since `main.ts` never calls
  `enableShutdownHooks`: a worker that is stopped is the models' crash.
- Memory: response cache entries and pools that `runMigrations` leaves open are kept
  for good, and no document promises a bound.
- The end of the table `invitations` when a signup for `public` is rolled back: in
  TenantSignup that takes the table `tenants`; Invitations, Gateway and Catalog describe
  the system before.
- Which tenant's invitation a revocation takes when several match its e-mail: the
  model lets it take any, and nothing says which is right.

## 6. Plan

In order of importance; 1 to 8 are done.

1. `TenantRegistry`, `TenantSignup`, `TenantSignupProofs`: onboarding and
   connections.
2. `Invitations`, `InvitationsProofs`: membership.
3. `Gateway`, `GatewayProofs`: middleware, guard, response cache and timeout around
   an abstract handler.
4. `Catalog`, `ChangelogPages` and their proofs: the tenant's data and its pages.
5. `Sessions`, `SessionsProofs`: tokens, their Redis records, concurrent logins, the
   two units of time; Gateway with its real login handler inside.
6. `TenantMembership`: what invitations promise, and the refinement.
7. `ProductPages`, `ProductPagesProofs`: the pages of products, from any query
   string.
8. `TenantStore`: what the tables of a tenant promise, and the refinement.
9. `Catalog` behind Gateway, as `Sessions` is: a replayed POST and a row that was
   never stored, in one model.
