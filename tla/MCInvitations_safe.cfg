\* Two invitations of one member by one tenant and one of another tenant that
\* was pending before, accepts of both tokens, a revocation, sweeps, one failing
\* statement or crash, and a rival signup that drops acme's schema: what calls
\* leave pending, the sweep settles.
CONSTANTS
    i1 = i1  i2 = i2  i3 = i3  a1 = a1  a2 = a2  v1 = v1
    w1 = w1  acme = acme  beta = beta  ann = ann  bob = bob
    Invites = {i1, i2, i3}
    Earlier = {i3}
    Accepts = {a1, a2}
    Revokes = {v1}
    Workers = {w1}
    Tenants = {acme, beta}
    Emails = {ann, bob}
    Contested = {acme}
    TenantOf <- TenantDef
    MailOf <- MailDef
    TokenOf <- TokenDef
    WorkerOf <- WorkerDef
    Owners <- OwnersDef
    Nil = Nil
    MaxMishaps = 1

SPECIFICATION FairSpec
INVARIANTS
    TypeOK
    AcceptedHasUser
    OneAcceptPerMember
    ExpiredOnlyWhenStale
    PendingMemberHasCause
PROPERTIES
    SettledStaysUnlessRaced
    PendingSettles
    ImplementsMembership
