\* Two invite requests for one e-mail, an accept, a revocation.
CONSTANTS
    i1 = i1  i2 = i2  i3 = i3  a1 = a1  a2 = a2  v1 = v1
    w1 = w1  acme = acme  beta = beta  ann = ann  bob = bob
    Invites = {i1, i2}
    Earlier = {}
    Accepts = {a1}
    Revokes = {v1}
    Workers = {w1}
    Tenants = {acme, beta}
    Emails = {ann, bob}
    Contested = {}
    TenantOf <- TenantDef
    MailOf <- MailDef
    TokenOf <- TokenDef
    WorkerOf <- WorkerDef
    Owners <- OwnersDef
    Nil = Nil
    MaxMishaps = 0

SPECIFICATION Spec
INVARIANT NoDuplicatePending
