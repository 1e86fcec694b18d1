------------------------------- MODULE MCCatalog -------------------------------
(* Constants of Catalog, ChangelogPages and ProductPages for TLC. *)
EXTENDS ProductPages

CONSTANTS p1, p2, c1, c2, c3, f1, f2, u1, acme, globex, w1, w2, r1, r2, s1, s2

\* Everybody is at acme, where two products compete; f2 names the second of them
\* and a changelog of the first.
SchemaDef == [r \in Requests |-> acme]
WorkerDef == [r \in Requests |-> IF r \in {f1, u1} THEN w1 ELSE w2]
ProductDef == [r \in Requests \ Products |-> IF r = f2 THEN p2 ELSE p1]
ChangelogDef == [r \in Feedbacks |-> c1]
FeedbackDef == [r \in Updates |-> f1]

ReadSchemaDef == [r \in Readers |-> acme]
ReadProductDef == [r \in Readers |-> p1]
LimitDef == [r \in Readers |-> 0]
ShopSchemaDef == [s \in Shoppers |-> IF s = s2 THEN globex ELSE acme]
ShopPageDef == [s \in Shoppers |-> 1]
ShopLimitDef == [s \in Shoppers |-> 1]
SearchDef == [s \in Shoppers |-> None]
MatchingDef == [q \in {None} |-> Products]
CreatedAtDef == [c \in Changelogs |-> IF c = c1 THEN 1 ELSE IF c = c2 THEN 2 ELSE 3]

-----------------------------------------------------------------------------
(* A walk writes nothing that requests look at, sees of a request only the    *)
(* row it inserts, and hears of other walks only through the pages kept of    *)
(* its own kind.  So it is enough to look at behaviours of two sorts: those   *)
(* without walks, and those in which either changelogs or products are read,  *)
(* one walk after the other, with all that workers, failing GETs and requests *)
(* that insert what is read do in between; a request that inserts nothing is  *)
(* one that does not come.                                                    *)

Begun ==
    {r \in Readers : at[r] # "find" \/ page[r] # 1} \cup
    {s \in Shoppers : shopAt[s] # "rows" \/ asked[s] # ShopPage[s]}
Over ==
    {r \in Readers : at[r] \in {"done", "stopped"}} \cup
    {s \in Shoppers : shopAt[s] \in {"done", "stopped"}}

\* Whether nothing happened but inserts that matter to walk x.
OnlyInserts(x, step) ==
    \A r \in Requests :
        \/ step[r] = "start"
        \/ /\ step[r] \in {"stored", "lost"}
           /\ r \in IF x \in Readers THEN {ReadProduct[x]} \cup Changelogs ELSE Products

MayWalk(x) ==
    \/ x \in Begun
    \/ /\ Begun \subseteq Over
       /\ Begun \subseteq (IF x \in Readers THEN Readers ELSE Shoppers)
       /\ OnlyInserts(x, pc)
       /\ x = r2 => r1 \in Over

ApartNext ==
    \/ /\ Go /\ UNCHANGED <<readVars, shopVars>>
       /\ \A x \in Begun : OnlyInserts(x, pc')
    \/ \E r \in Readers : MayWalk(r) /\ Read(r) /\ UNCHANGED shopVars
    \/ \E s \in Shoppers : MayWalk(s) /\ Shop(s)
    \/ \E w \in Workers : EndShelves(w)

\* The fairness of FairShopSpec, of which this is all that one walk after the
\* other needs.
ApartSpec ==
    /\ ShopInit /\ [][ApartNext]_shelfVars
    /\ WF_allVars(\E r \in Readers : Read(r))
=============================================================================
