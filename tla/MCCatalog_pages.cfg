\* Two products, three changelogs, two feedbacks and an update, on two workers
\* with a response cache each; two clients that walk through the changelogs and
\* two through the products, read from a table or from a kept page; a failing
\* statement, a crash or a dropped schema.
CONSTANTS
    p1 = p1  p2 = p2  c1 = c1  c2 = c2  c3 = c3  f1 = f1  f2 = f2  u1 = u1
    acme = acme  globex = globex  w1 = w1  w2 = w2  r1 = r1  r2 = r2  s1 = s1  s2 = s2
    Products = {p1, p2}
    Changelogs = {c1, c2, c3}
    Feedbacks = {f1, f2}
    Updates = {u1}
    Schemas = {acme, globex}
    Workers = {w1, w2}
    SchemaOf <- SchemaDef
    WorkerOf <- WorkerDef
    RefProduct <- ProductDef
    RefChangelog <- ChangelogDef
    RefFeedback <- FeedbackDef
    None = None
    MaxMishaps = 1
    Readers = {r1, r2}
    ReadSchema <- ReadSchemaDef
    ReadProduct <- ReadProductDef
    Limit <- LimitDef
    CreatedAt <- CreatedAtDef
    Shoppers = {s1, s2}
    ShopSchema <- ShopSchemaDef
    ShopPage <- ShopPageDef
    ShopLimit <- ShopLimitDef
    Search <- SearchDef
    Matching <- MatchingDef

SPECIFICATION ApartSpec
INVARIANTS
    TypeOK
    ReferencesResolve
    FeedbackOnItsProduct
    AnsweredIsStored
    NoEntryMissed
    RepeatedOnlyIfShifted
    NoProductMissed
PROPERTIES
    WalkEnds
    ImplementsStore

\* Every request is answered once; then the system rests.
CHECK_DEADLOCK FALSE
