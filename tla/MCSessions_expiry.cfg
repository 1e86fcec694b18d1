\* A login and a request with its token, under the documented environment.
CONSTANTS
    l1 = l1  l2 = l2  b1 = b1  w1 = w1  w2 = w2
    login_url = login_url  products = products  acme = acme  ann = ann
    Requests = {l1, l2, b1}
    Workers = {w1, w2}
    Urls = {login_url, products}
    Slugs = {acme}
    UrlOf <- UrlDef
    SlugOf <- SlugDef
    WorkerOf <- WorkerDef
    Known = {acme}
    Unguarded = {l1, l2}
    Bearers = {b1}
    Scoped = {l1, l2, b1}
    None = None
    MaxCrashes = 0
    Logins = {l1, l2}
    Users = {ann}
    UserOf <- UserDef
    Activated = {l1, l2}
    PasswordOk = {l1, l2}
    TokenOf <- TokenDef
    AccessExpires = 900
    RefreshExpires = 604800
    RetryLimit = 2
    PerRequest = 1
    Instants = {0, 601000}
    MaxMishaps = 0

SPECIFICATION SessionSpec
PROPERTY UnexpiredTokenPasses
CHECK_DEADLOCK FALSE
