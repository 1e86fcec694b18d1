\* Two rival signups, one for another slug of the same schema, and a login, all
\* on one worker, with one crash: every call is answered.
CONSTANTS
    r1 = r1  r2 = r2  r3 = r3  l1 = l1  w1 = w1  w2 = w2
    acme = acme  acmeToo = acmeToo  beta = beta
    tenant_acme = tenant_acme  public = public
    ann = ann  bob = bob
    Signups <- SignupsDef
    Logins = {l1}
    Workers = {w1}
    Slugs = {acme, acmeToo}
    SchemaNames = {acme, public}
    SchemaOf <- SchemaDef
    Public = public
    SlugOf <- SlugLive
    EmailOf <- EmailDef
    WorkerOf <- WorkerLive
    MigrationSchema <- Templated
    NoDS = NoDS
    MaxFaults = 0
    MaxCrashes = 1

SPECIFICATION FairSpec
PROPERTIES
    CallsEnd
    OwnerLostOnlyToRival

\* Every request is answered once; then the system rests.
CHECK_DEADLOCK FALSE
