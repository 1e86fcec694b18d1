\* Two signups that race for one slug on two workers.
CONSTANTS
    r1 = r1  r2 = r2  r3 = r3  l1 = l1  w1 = w1  w2 = w2
    acme = acme  acmeToo = acmeToo  beta = beta
    tenant_acme = tenant_acme  public = public
    ann = ann  bob = bob
    Signups = {r1, r2}
    Logins = {}
    Workers = {w1, w2}
    Slugs = {acme}
    SchemaNames = {acme, public}
    SchemaOf <- SchemaDef
    Public = public
    SlugOf <- SlugDef
    EmailOf <- EmailDef
    WorkerOf <- WorkerDef
    MigrationSchema <- Templated
    NoDS = NoDS
    MaxFaults = 0
    MaxCrashes = 0

SPECIFICATION Spec
INVARIANT CreatedKeepsOwner
CHECK_DEADLOCK FALSE
