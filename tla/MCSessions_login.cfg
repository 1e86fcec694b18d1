\* Two logins of one user, that also fail, hang, time out and share a worker's
\* cache; a request with the token of one; connections to Redis that close, a
\* crash; access tokens that expire, and others that do not.
CONSTANTS
    l1 = l1  l2 = l2  b1 = b1  w1 = w1  w2 = w2
    login_url = login_url  products = products  acme = acme  ann = ann
    Requests = {l1, l2, b1}
    Workers = {w1, w2}
    Urls = {login_url, products}
    Slugs = {acme}
    UrlOf <- UrlDef
    SlugOf <- SlugDef
    WorkerOf <- WorkerDef
    Known = {acme}
    Unguarded = {l1, l2}
    Bearers = {b1}
    Scoped = {l1, l2, b1}
    None = None
    MaxCrashes = 1
    Logins = {l1, l2}
    Users = {ann}
    UserOf <- UserDef
    Activated = {l1, l2}
    PasswordOk = {l1, l2}
    TokenOf <- TokenDef
    AccessExpires = 600000
    RefreshExpires = 604800
    RetryLimit = 2
    PerRequest = 1
    Instants = {0, 601000}
    MaxMishaps = 2

SPECIFICATION FairSessionSpec
INVARIANTS
    SessionTypeOK
    RecordNeverGoesBack
    UnheldRecordHasCause
    RecordOutlivesToken
    ServedSessionWasStored
    GivenUpHasNoneWaiting
    SuccessTookEffect
    LateIsNeverReplayed
PROPERTIES
    ImplementsGateway
    SucceededIsNotRepeated
    LoginSettles
    AdmittedIsTold

\* Every request is answered once; then the system rests.
CHECK_DEADLOCK FALSE
