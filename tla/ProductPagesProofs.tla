--------------------------- MODULE ProductPagesProofs ---------------------------
(***************************************************************************)
(* Theorems about ProductPages: walks along nextPage from the first page on, *)
(* to which no old page is replayed, miss no product that was there at      *)
(* their beginning, for any number of clients, workers, limits and writers. *)
(*                                                                         *)
(* The argument: a tenant has at most one product (OneProduct), so the     *)
(* first SELECT of a walk that starts at page 1 returns it, whatever the   *)
(* order.  With limit 0 nothing may be returned, but then a walk only ends *)
(* when the count is 0, and no product comes back once it is gone.         *)
(***************************************************************************)
EXTENDS ProductPages, ChangelogPagesProofs

\* A product request inserts once: what was there has left its start.
InsertedOnce ==
    /\ \A p \in rows \cap Products : pc[p] # "start"
    /\ \A s \in Shoppers : \A p \in owing[s] : pc[p] # "start"

\* What a fresh walk from the first page on still owes of the present products.
OwingInv ==
    \A s \in Shoppers : ShopPage[s] <= 1 /\ shopFresh[s] =>
        /\ Take(s) # 0 /\ shopAt[s] = "count" => owing[s] \cap Stock(s) \subseteq shelf[s]
        /\ Take(s) # 0 /\ shopAt[s] = "rows" => owing[s] \cap Stock(s) = {}
        /\ shopAt[s] = "done" => owing[s] \cap Stock(s) = {}

ShopTypeOK ==
    /\ shopAt \in [Shoppers -> {"rows", "count", "done", "stopped"}]
    /\ asked \in [Shoppers -> Int]
    /\ shelf \in [Shoppers -> SUBSET Products]
    /\ owing \in [Shoppers -> SUBSET Products]
    /\ shopFresh \in [Shoppers -> BOOLEAN]

ShopInv == TypeOK /\ RefInv /\ ShopTypeOK /\ InsertedOnce /\ OwingInv

-----------------------------------------------------------------------------
(* Counting                                                                  *)

\* limit is cut off at 200.
LEMMA TakeType == \A s \in Shoppers : Take(s) \in Int
BY ShopperAssumption DEF Take

\* The products of a tenant can be counted; there is at most one.
LEMMA StockCount ==
    ASSUME TypeOK, OneProduct, NEW s \in Shoppers, Stock(s) # {}
    PROVE \E p \in Products : Stock(s) = {p} /\ Cardinality(Stock(s)) = 1
<1>1. PICK p \in Products : p \in Stock(s)
    BY ShopperAssumption DEF Stock
<1>2. Stock(s) = {p}
    BY <1>1, ShopperAssumption DEF Stock, OneProduct
<1> QED
    BY <1>2, FS_Singleton

\* The first SELECT of a walk from the first page on leaves nothing out, unless
\* its limit is 0.
LEMMA FirstShelf ==
    ASSUME TypeOK, OneProduct, NEW s \in Shoppers, ShopPage[s] <= 1,
           asked[s] = ShopPage[s], Skip(s) >= 0, Take(s) > 0,
           NEW rs \in Shelves(s)
    PROVE Stock(s) \ rs = {}
<1> SUFFICES ASSUME Stock(s) # {} PROVE Stock(s) \ rs = {}
    OBVIOUS
<1>1. PICK p \in Products : Stock(s) = {p} /\ Cardinality(Stock(s)) = 1
    BY StockCount
<1>2. Take(s) \in Int /\ asked[s] \in Int
    BY TakeType, ShopperAssumption
<1>3. Skip(s) = 0
    <2>1. asked[s] = 1
        <3>1. ~ (asked[s] < 1)
            BY <1>2 DEF Skip
        <3> QED
            BY <1>2, <3>1
    <2> QED
        BY <1>2, <2>1 DEF Skip
<1>4. Cardinality(rs) = 1 /\ rs \in SUBSET {p}
    BY <1>1, <1>2, <1>3 DEF Shelves, Sizes
<1>5. rs # {}
    BY <1>4, FS_EmptySet
<1> QED
    BY <1>1, <1>4, <1>5

-----------------------------------------------------------------------------
(* Steps                                                                     *)

\* A step of Catalog keeps the products, adds one from its start, or drops some;
\* and no request returns to its start.
LEMMA ProductsStep ==
    ASSUME TypeOK, [Next]_vars
    PROVE /\ \A p \in Products : p \in rows' => p \in rows \/ pc[p] = "start"
          /\ \A p \in Products : p \in rows' /\ p \notin rows => pc'[p] # "start"
          /\ \A q \in Requests : pc'[q] = "start" => pc[q] = "start"
<1> USE KindAssumption DEF TypeOK, Requests, Creates, Goto, NoRowChanges, Waiting
<1>1. CASE \E r \in Requests : CreateProduct(r)
    BY <1>1 DEF CreateProduct, Save
<1>2. CASE \E r \in Requests : CreateChangelog(r) \/ SaveFeedback(r)
    BY <1>2 DEF CreateChangelog, SaveFeedback, Save
<1>3. CASE \E r \in Requests :
                FindProduct(r) \/ FindChangelog(r) \/ FindFeedback(r) \/ FindProductOfUpdate(r)
    BY <1>3 DEF FindProduct, FindChangelog, FindFeedback, FindProductOfUpdate, Find
<1>4. CASE \E r \in Requests : Answer(r) \/ StatementFails(r) \/ Update(r)
    BY <1>4 DEF Answer, StatementFails, Update
<1>5. CASE \E w \in Workers : WorkerEnds(w)
    BY <1>5 DEF WorkerEnds, Crash, Unhandled, Loses
<1>6. CASE \E s \in Schemas : DropSchema(s) \/ CreateSchema(s)
    BY <1>6 DEF DropSchema, CreateSchema
<1>7. CASE UNCHANGED vars
    BY <1>7 DEF vars
<1> QED
    BY <1>1, <1>2, <1>3, <1>4, <1>5, <1>6, <1>7 DEF Next, Go, Create, Put

\* A reader of changelogs only reads the tables.
LEMMA ReadersOnlyRead == \A r \in Readers : Read(r) => UNCHANGED vars
BY DEF Read, FindListed, ReadRows, ReadCount, Replay, ReadFails

\* What the end of a worker, or a step of others, leaves of the walks: they are as
\* they were, or stopped.
LeftAlone ==
    /\ UNCHANGED <<asked, shelf, owing, shopFresh>>
    /\ shopAt' \in [Shoppers -> {"rows", "count", "done", "stopped"}]
    /\ \A s \in Shoppers : shopAt'[s] = "stopped" \/ shopAt'[s] = shopAt[s]

\* A step of the writers, of a reader of changelogs, or the end of a worker keeps
\* ShopInv.
LEMMA OthersStep ==
    ASSUME ShopInv, [Next]_vars, LeftAlone
    PROVE ShopInv'
<1> USE DEF ShopInv
<1>1. TypeOK' /\ RefInv'
    BY StepType, StepRef
<1>2. ShopTypeOK'
    BY DEF ShopTypeOK, LeftAlone
<1>3. InsertedOnce'
    BY ProductsStep DEF InsertedOnce, LeftAlone, ShopTypeOK, Requests, Creates
<1>4. \A s \in Shoppers : owing[s] \cap Stock(s)' \subseteq owing[s] \cap Stock(s)
    BY ProductsStep, ShopperAssumption DEF InsertedOnce, Stock, ShopTypeOK
<1>5. OwingInv'
    BY <1>4 DEF OwingInv, LeftAlone, Take
<1> QED
    BY <1>1, <1>2, <1>3, <1>5

\* A step of a walk keeps ShopInv.
LEMMA ShopperStep ==
    ASSUME ShopInv, NEW q \in Shoppers, Shop(q)
    PROVE ShopInv'
<1> USE DEF ShopInv
<1>0. /\ UNCHANGED allVars /\ UNCHANGED vars
      /\ \A s \in Shoppers : Stock(s)' = Stock(s) /\ Take(s)' = Take(s)
    BY DEF Shop, ShopFails, GetMany, GetCount, ShopReplay, allVars, vars, Stock, Take
<1>1. TypeOK' /\ RefInv'
    BY <1>0, StepType, StepRef
<1>2. /\ Stock(q) \in SUBSET Products /\ PageNo(q) \in Nat \ {0}
      /\ Due(q) \in SUBSET Products /\ Due(q) \subseteq owing[q] \cup Stock(q)
    BY ShopperAssumption DEF Stock, PageNo, ShopTypeOK, Due
<1>3. ASSUME NEW due \in SUBSET Products, NEW rs, NEW more, Shown(q, due, rs, more)
      PROVE /\ shopAt' \in [Shoppers -> {"rows", "count", "done", "stopped"}]
            /\ asked' \in [Shoppers -> Int]
            /\ shelf' \in [Shoppers -> SUBSET Products]
            /\ owing' \in [Shoppers -> SUBSET Products]
            /\ owing'[q] = due \ rs
            /\ \A s \in Shoppers : s # q =>
                shopAt'[s] = shopAt[s] /\ shelf'[s] = shelf[s] /\ owing'[s] = owing[s]
    BY <1>2, <1>3 DEF Shown, ShopTypeOK
<1>4. CASE ShopFails(q)
    <2>1. LeftAlone
        BY <1>4 DEF ShopFails, LeftAlone, ShopTypeOK
    <2> QED
        BY <1>0, <2>1, OthersStep
<1>5. ASSUME ShopTypeOK', \A s \in Shoppers : owing'[s] \subseteq owing[s] \cup Stock(s)
      PROVE InsertedOnce'
    <2>1. \A s \in Shoppers : Stock(s) \subseteq rows \cap Products
        BY ShopperAssumption DEF Stock
    <2>2. pc' = pc /\ rows' = rows
        BY <1>0 DEF vars
    <2> QED
        BY <1>5, <2>1, <2>2 DEF InsertedOnce
<1>6. CASE GetMany(q)
    <2>1. PICK rs \in Shelves(q) :
             /\ shelf' = [shelf EXCEPT ![q] = rs]
             /\ shopAt' = [shopAt EXCEPT ![q] = "count"]
             /\ owing' = [owing EXCEPT ![q] = Due(q)]
             /\ UNCHANGED <<asked, shopFresh>>
        BY <1>6 DEF GetMany
    <2>2. ShopTypeOK'
        BY <1>2, <2>1 DEF ShopTypeOK, Shelves
    <2>3. InsertedOnce'
        BY <1>2, <1>5, <2>1, <2>2 DEF ShopTypeOK
    <2>4. ASSUME ShopPage[q] <= 1, shopFresh[q], Take(q) # 0
          PROVE Due(q) \cap Stock(q) \subseteq rs
        <3>1. CASE asked[q] = ShopPage[q]
            <4>1. Skip(q) >= 0 /\ Take(q) > 0
                BY <1>6, <2>4, TakeType DEF GetMany
            <4> QED
                BY <2>4, <3>1, <4>1, FirstShelf DEF RefInv, Due
        <3>2. CASE asked[q] # ShopPage[q]
            BY <1>6, <2>4, <3>2 DEF GetMany, OwingInv, Due
        <3> QED
            BY <3>1, <3>2
    <2>5. OwingInv'
        BY <1>0, <2>1, <2>4 DEF OwingInv, ShopTypeOK
    <2> QED
        BY <1>1, <2>2, <2>3, <2>5
<1>7. CASE GetCount(q)
    <2> DEFINE more == HasNextPage(q, Cardinality(Stock(q)))
    <2>1. Shown(q, owing[q], shelf[q], more) /\ shopAt[q] = "count" /\ shopFresh' = shopFresh
        BY <1>7 DEF GetCount
    <2>2. ShopTypeOK'
        BY <1>3, <2>1 DEF ShopTypeOK
    <2>3. shopAt'[q] = IF more THEN "rows" ELSE "done"
        BY <2>1 DEF Shown, ShopTypeOK
    <2>4. ASSUME ~more, Take(q) = 0 PROVE Stock(q) = {}
        <3>1. ~ (Cardinality(Stock(q)) > 0)
            BY <2>4 DEF HasNextPage
        <3> QED
            BY <3>1, StockCount DEF RefInv
    <2> HIDE DEF more
    <2>5. /\ owing'[q] = owing[q] \ shelf[q]
          /\ \A s \in Shoppers : s # q =>
                shopAt'[s] = shopAt[s] /\ shelf'[s] = shelf[s] /\ owing'[s] = owing[s]
        BY <1>3, <2>1 DEF ShopTypeOK
    <2>6. InsertedOnce'
        BY <1>5, <2>2, <2>5
    <2>7. ASSUME ShopPage[q] <= 1, shopFresh[q], Take(q) # 0 \/ ~more
          PROVE owing'[q] \cap Stock(q) = {}
        BY <2>1, <2>4, <2>5, <2>7 DEF OwingInv
    <2>8. OwingInv'
        BY <1>0, <2>1, <2>3, <2>5, <2>7 DEF OwingInv
    <2> QED
        BY <1>1, <2>2, <2>6, <2>8
<1>8. CASE ShopReplay(q)
    <2>1. PICK k \in shelves : Shown(q, Due(q), k.given, k.more)
        BY <1>8 DEF ShopReplay, ShelvedBy
    <2>2. shopFresh' = [shopFresh EXCEPT ![q] = FALSE]
        BY <1>8 DEF ShopReplay
    <2>3. ShopTypeOK'
        BY <1>2, <1>3, <2>1, <2>2 DEF ShopTypeOK
    <2>4. \A s \in Shoppers : s # q =>
            shopAt'[s] = shopAt[s] /\ shelf'[s] = shelf[s] /\ owing'[s] = owing[s]
        BY <1>2, <1>3, <2>1
    <2>5. InsertedOnce'
        BY <1>2, <1>3, <1>5, <2>1, <2>3, <2>4
    <2>6. OwingInv'
        BY <1>0, <2>2, <2>4 DEF OwingInv, ShopTypeOK
    <2> QED
        BY <1>1, <2>3, <2>5, <2>6
<1> QED
    BY <1>4, <1>6, <1>7, <1>8 DEF Shop

\* A walk from the first page on that came to its end without a replayed page was
\* given every product that was there when it began and still is.
THEOREM NoProductMissedHolds == ShopSpec => []NoProductMissed
<1>1. ShopInit => ShopInv
    <2> SUFFICES ASSUME ShopInit PROVE ShopInv
        OBVIOUS
    <2>1. TypeOK /\ RefInv
        BY InitType, InitRef DEF ShopInit, PagesInit
    <2> QED
        BY <2>1, ShopperAssumption
           DEF ShopInit, PagesInit, Init, ShopInv, ShopTypeOK, InsertedOnce, OwingInv
<1>2. ShopInv /\ [ShopNext]_shelfVars => ShopInv'
    <2> SUFFICES ASSUME ShopInv, [ShopNext]_shelfVars PROVE ShopInv'
        OBVIOUS
    <2>1. CASE PagesGo /\ UNCHANGED shopVars
        <3>1. [Next]_vars
            BY <2>1, ReadersOnlyRead DEF PagesGo, Next
        <3>2. LeftAlone
            BY <2>1 DEF LeftAlone, shopVars, ShopInv, ShopTypeOK
        <3> QED
            BY <3>1, <3>2, OthersStep
    <2>2. CASE \E s \in Shoppers : Shop(s)
        BY <2>2, ShopperStep
    <2>3. ASSUME NEW w \in Workers, EndShelves(w) PROVE ShopInv'
        <3>1. Next
            BY <2>3 DEF EndShelves, EndPages, Next
        <3>2. LeftAlone
            BY <2>3 DEF EndShelves, LeftAlone, ShopInv, ShopTypeOK
        <3> QED
            BY <3>1, <3>2, OthersStep
    <2>4. CASE UNCHANGED shelfVars
        <3>1. LeftAlone /\ UNCHANGED vars
            BY <2>4 DEF LeftAlone, shelfVars, shopVars, allVars, ShopInv, ShopTypeOK
        <3> QED
            BY <3>1, OthersStep
    <2> QED
        BY <2>1, <2>2, <2>3, <2>4 DEF ShopNext
<1>3. ShopInv => NoProductMissed
    BY DEF ShopInv, OwingInv, NoProductMissed
<1> QED
    BY <1>1, <1>2, <1>3, PTL DEF ShopSpec

-----------------------------------------------------------------------------
(* Writers, changelog walks and product walks together                       *)

\* A walk leaves to the others what is theirs, and a worker ends for all of them.
LEMMA WalksOnlyRead ==
    /\ [ShopNext]_shelfVars => [PagesNext]_allVars
    /\ [PagesNext]_allVars => [Next]_vars
<1>1. ASSUME NEW s \in Shoppers, Shop(s) PROVE UNCHANGED allVars
    BY <1>1 DEF Shop, ShopFails, GetMany, GetCount, ShopReplay
<1>2. [ShopNext]_shelfVars => [PagesNext]_allVars
    BY <1>1 DEF ShopNext, PagesNext, EndShelves, shelfVars
<1>3. [PagesNext]_allVars => [Next]_vars
    BY ReadersOnlyRead DEF PagesNext, PagesGo, EndPages, Next, allVars
<1> QED
    BY <1>2, <1>3

\* GET requests change nothing that the writers, or walks of the other kind, depend
\* on: the system with clients that page through products implements the one
\* without them, and that the writers alone. So all that is proved of those holds
\* of the whole.
THEOREM ShopRefinesPages == ShopSpec => PagesSpec /\ Spec
<1>1. (ShopInit => PagesInit) /\ (PagesInit => Init)
    BY DEF ShopInit, PagesInit
<1> QED
    BY <1>1, WalksOnlyRead, PTL DEF ShopSpec, PagesSpec, Spec
=============================================================================
