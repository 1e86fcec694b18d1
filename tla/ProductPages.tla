------------------------------ MODULE ProductPages ------------------------------
(***************************************************************************)
(* Clients that read a tenant's products page by page, along meta.nextPage, *)
(* beside the writers of Catalog and the readers of ChangelogPages.        *)
(*                                                                         *)
(* getProducts is two statements, the rows of the page in no order, and    *)
(* their total.  Its page and limit come from the query string, any        *)
(* integers.  The URL names no tenant: a worker replays the page it kept   *)
(* to the clients of every tenant.                                         *)
(***************************************************************************)
EXTENDS ChangelogPages

CONSTANTS
    Shoppers,       \* walks through the pages of products
    ShopSchema,     \* shopper -> tenant.schemaName
    ShopPage,       \* shopper -> the query parameter page of its first GET
    ShopLimit,      \* shopper -> the query parameter limit
    Search,         \* shopper -> the query parameter search
    Matching        \* search -> the products whose title is ILIKE it

ASSUME ShopperAssumption ==
    /\ ShopSchema \in [Shoppers -> Schemas]
    /\ ShopPage \in [Shoppers -> Int] /\ ShopLimit \in [Shoppers -> Int]
    /\ \A s \in Shoppers : Matching[Search[s]] \in SUBSET Products
    /\ IsFiniteSet(Products)

VARIABLES
    shopAt,     \* where each walk is
    asked,      \* the page it asks for
    shopServer, \* the worker whose handler serves its GET
    shelf,      \* the rows that the SELECT of its page returned
    shelves,    \* CacheInterceptor.cache of each worker: its pages of products
    owing,      \* history: the products that were there when it asked for its
                \* first page and that it was not given so far
    shopFresh   \* whether no page was replayed to it

shopVars == <<shopAt, asked, shopServer, shelf, shelves, owing, shopFresh>>
shelfVars == <<allVars, shopVars>>

ShopInit ==
    /\ PagesInit
    /\ shopAt = [s \in Shoppers |-> "rows"]
    /\ asked = ShopPage
    /\ shopServer = [s \in Shoppers |-> None]
    /\ shelf = [s \in Shoppers |-> {}]
    /\ shelves = {}
    /\ owing = [s \in Shoppers |-> {}]
    /\ shopFresh = [s \in Shoppers |-> TRUE]

-----------------------------------------------------------------------------
(* The arithmetic of getProducts                                             *)

\* Math.min(limit, 200)
Take(s) == IF ShopLimit[s] > 200 THEN 200 ELSE ShopLimit[s]

\* taken from page before it is raised to 1
Skip(s) == (asked[s] - 1) * Take(s)

\* Math.max(page, 1)
PageNo(s) == IF asked[s] < 1 THEN 1 ELSE asked[s]

\* page < Math.ceil(total / limit); total / 0 is Infinity, 0 / 0 is NaN
HasNextPage(s, n) == IF Take(s) = 0 THEN n > 0 ELSE PageNo(s) < TotalPages(n, Take(s))

-----------------------------------------------------------------------------
(* What the SELECT returns                                                   *)

Stock(s) == {p \in rows \cap Matching[Search[s]] : SchemaOf[p] = ShopSchema[s]}

\* How many rows: for take(0) TypeORM writes LIMIT 0 or, in other versions, no
\* LIMIT at all.
Sizes(s) ==
    LET left == Cardinality(Stock(s)) - Skip(s) IN
    IF left < 0 THEN {0}
    ELSE IF Take(s) = 0 THEN {0, left}
    ELSE {IF Take(s) < left THEN Take(s) ELSE left}

\* Any so many of them: there is no ORDER BY.
Shelves(s) == {rs \in SUBSET Stock(s) : Cardinality(rs) \in Sizes(s)}

-----------------------------------------------------------------------------
(* GET /products, behind the response cache                                  *)

ShopUrl(s) == [page |-> asked[s], limit |-> ShopLimit[s], search |-> Search[s]]

ShelvedBy(w, url) == {k \in shelves : k.worker = w /\ k.url = url}

\* What a walk finds when it asks for its first page is what it should be given.
Due(s) == IF asked[s] = ShopPage[s] THEN Stock(s) ELSE owing[s]

\* The client is given a page and asks for nextPage until it is null.
Shown(s, due, rs, more) ==
    /\ owing' = [owing EXCEPT ![s] = due \ rs]
    /\ shopAt' = [shopAt EXCEPT ![s] = IF more THEN "rows" ELSE "done"]
    /\ asked' = IF more THEN [asked EXCEPT ![s] = PageNo(s) + 1] ELSE asked
    /\ shopServer' = [shopServer EXCEPT ![s] = None]
    /\ shelf' = [shelf EXCEPT ![s] = {}]

\* A statement fails, as it does for a negative OFFSET or LIMIT and for a table
\* that is gone, or the GET takes too long: 500 or 408, and nothing is kept
ShopFails(s) ==
    /\ shopAt[s] = "count" \/ \E w \in Workers : ShelvedBy(w, ShopUrl(s)) = {}
    /\ shopAt[s] \in {"rows", "count"}
    /\ shopAt' = [shopAt EXCEPT ![s] = "stopped"]
    /\ UNCHANGED <<allVars, asked, shopServer, shelf, shelves, owing, shopFresh>>

\* The GET goes to any worker; one that kept no such page selects it.
GetMany(s) ==
    /\ shopAt[s] = "rows"
    /\ Skip(s) \geq 0 /\ Take(s) \geq 0 /\ ShopSchema[s] \in present
    /\ \E w \in Workers :
        /\ ShelvedBy(w, ShopUrl(s)) = {}
        /\ shopServer' = [shopServer EXCEPT ![s] = w]
    /\ shopAt' = [shopAt EXCEPT ![s] = "count"]
    /\ \E rs \in Shelves(s) : shelf' = [shelf EXCEPT ![s] = rs]
    /\ owing' = [owing EXCEPT ![s] = Due(s)]
    /\ UNCHANGED <<allVars, asked, shelves, shopFresh>>

GetCount(s) ==
    LET more == HasNextPage(s, Cardinality(Stock(s))) IN
    /\ shopAt[s] = "count" /\ ShopSchema[s] \in present
    /\ Shown(s, owing[s], shelf[s], more)
    /\ shelves' = (shelves \ ShelvedBy(shopServer[s], ShopUrl(s))) \cup
                  {[worker |-> shopServer[s], url |-> ShopUrl(s),
                    given |-> shelf[s], more |-> more]}
    /\ UNCHANGED <<allVars, shopFresh>>

\* cache.has: the page as it was when that worker answered this URL, maybe to a
\* client of another tenant
ShopReplay(s) ==
    /\ shopAt[s] = "rows"
    /\ \E w \in Workers : \E k \in ShelvedBy(w, ShopUrl(s)) : Shown(s, Due(s), k.given, k.more)
    /\ shopFresh' = [shopFresh EXCEPT ![s] = FALSE]
    /\ UNCHANGED <<allVars, shelves>>

Shop(s) == ShopFails(s) \/ GetMany(s) \/ GetCount(s) \/ ShopReplay(s)

\* A worker takes the pages it kept along, and the GETs it serves.
EndShelves(w) ==
    /\ EndPages(w)
    /\ shelves' = {k \in shelves : k.worker # w}
    /\ shopAt' = [s \in Shoppers |->
                    IF shopServer[s] = w /\ shopAt[s] = "count" THEN "stopped" ELSE shopAt[s]]
    /\ UNCHANGED <<asked, shopServer, shelf, owing, shopFresh>>

ShopNext ==
    \/ PagesGo /\ UNCHANGED shopVars
    \/ \E s \in Shoppers : Shop(s)
    \/ \E w \in Workers : EndShelves(w)

ShopSpec == ShopInit /\ [][ShopNext]_shelfVars

\* As FairPagesSpec; nothing is assumed of these clients.
FairShopSpec == ShopSpec /\ \A r \in Readers : WF_allVars(Read(r))

-----------------------------------------------------------------------------
(* Properties *)

\* A walk that began at the first page and came to its end without a replayed page
\* was given every product that was there at its beginning and still is, although
\* the pages are cut from a list without an order, and counted by a second
\* statement: that no page repeats what another one leaves out is due to the
\* UNIQUE tenant_schema alone.
NoProductMissed ==
    \A s \in Shoppers :
        shopAt[s] = "done" /\ ShopPage[s] <= 1 /\ shopFresh[s] => owing[s] \cap Stock(s) = {}
=============================================================================
