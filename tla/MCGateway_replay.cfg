\* Two clients create products on one worker.
CONSTANTS
    r1 = r1  r2 = r2  w1 = w1  products = products  acme = acme
    Requests = {r1, r2}
    Workers = {w1}
    Urls = {products}
    Slugs = {acme}
    UrlOf <- UrlDef
    SlugOf <- SlugDef
    WorkerOf <- WorkerDef
    Known = {acme}
    Unguarded = {}
    Bearers = {r1, r2}
    Scoped = {r1, r2}
    None = None
    MaxCrashes = 0

SPECIFICATION Spec
INVARIANT SuccessMeansHandled
CHECK_DEADLOCK FALSE
