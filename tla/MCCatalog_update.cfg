\* A product, a changelog, a feedback on both and a PUT of it; nothing else goes
\* wrong.
CONSTANTS
    p1 = p1  p2 = p2  c1 = c1  c2 = c2  c3 = c3  f1 = f1  f2 = f2  u1 = u1
    acme = acme  globex = globex  w1 = w1  w2 = w2  r1 = r1  r2 = r2  s1 = s1  s2 = s2
    Products = {p1}
    Changelogs = {c1}
    Feedbacks = {f1}
    Updates = {u1}
    Schemas = {acme, globex}
    Workers = {w1, w2}
    SchemaOf <- SchemaDef
    WorkerOf <- WorkerDef
    RefProduct <- ProductDef
    RefChangelog <- ChangelogDef
    RefFeedback <- FeedbackDef
    None = None
    MaxMishaps = 0
    Readers = {}
    ReadSchema <- ReadSchemaDef
    ReadProduct <- ReadProductDef
    Limit <- LimitDef
    CreatedAt <- CreatedAtDef
    Shoppers = {}
    ShopSchema <- ShopSchemaDef
    ShopPage <- ShopPageDef
    ShopLimit <- ShopLimitDef
    Search <- SearchDef
    Matching <- MatchingDef

SPECIFICATION ShopSpec
INVARIANT UpdateTakesEffect
CHECK_DEADLOCK FALSE
