\* Rival signups, one for the slug "public" with the e-mail of the first, a
\* login in between, two failing statements, one crash.
CONSTANTS
    r1 = r1  r2 = r2  r3 = r3  l1 = l1  w1 = w1  w2 = w2
    acme = acme  acmeToo = acmeToo  beta = beta
    tenant_acme = tenant_acme  public = public
    ann = ann  bob = bob
    Signups <- SignupsDef
    Logins = {l1}
    Workers = {w1, w2}
    Slugs = {acme, public}
    SchemaNames = {acme, public, tenant_acme}
    SchemaOf <- SchemaDef
    Public = public
    SlugOf <- SlugRace
    EmailOf <- EmailDef
    WorkerOf <- WorkerDef
    MigrationSchema <- Templated
    NoDS = NoDS
    MaxFaults = 2
    MaxCrashes = 1

SPECIFICATION Spec
INVARIANTS
    TypeOK
    TenantIsolation
    CachedIsOpen
    UnrivalledKeepsOwner
    LeftRowHasCause
    RollbackHasReason
PROPERTIES
    PoolDropsOutOnlyToRival
    OwnerLostOnlyToRival
    ImplementsRegistry

\* Every request is answered once; then the system rests.
CHECK_DEADLOCK FALSE
