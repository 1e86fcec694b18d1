----------------------------- MODULE CatalogProofs -----------------------------
(***************************************************************************)
(* Theorems about Catalog, for any tenants, workers and requests, with any  *)
(* references among them.                                                  *)
(***************************************************************************)
EXTENDS Catalog, TLAPS

\* createProduct puts the schema into a UNIQUE column of a table of that schema.
OneProduct ==
    \A p, q \in rows \cap Products : SchemaOf[p] = SchemaOf[q] => p = q

RefInv == ReferencesResolve /\ OneProduct

\* A row is there from its INSERT on.
StoredInv ==
    \A r \in Creates :
        (pc[r] \in {"stored", "ok"} /\ SchemaOf[r] \notin dropped) => r \in rows

-----------------------------------------------------------------------------
(* Types                                                                     *)

\* The initial state has the types.
LEMMA InitType == Init => TypeOK
BY BoundAssumption DEF Init, TypeOK, Waiting, Ended

\* Every step keeps the types.
LEMMA StepType == TypeOK /\ [Next]_vars => TypeOK'
<1> SUFFICES ASSUME TypeOK, [Next]_vars PROVE TypeOK'
    OBVIOUS
<1> USE BoundAssumption, KindAssumption, ReferenceAssumption
    DEF TypeOK, Waiting, Ended, Goto, NoRowChanges, Requests, Creates
<1>1. ASSUME NEW r \in Requests, CreateProduct(r) PROVE TypeOK'
    BY <1>1 DEF CreateProduct, Save
<1>2. ASSUME NEW r \in Requests, CreateChangelog(r) PROVE TypeOK'
    BY <1>2 DEF CreateChangelog, Save
<1>3. ASSUME NEW r \in Requests, FindProduct(r) PROVE TypeOK'
    BY <1>3 DEF FindProduct, Find
<1>4. ASSUME NEW r \in Requests, FindChangelog(r) PROVE TypeOK'
    BY <1>4 DEF FindChangelog, Find
<1>5. ASSUME NEW r \in Requests, SaveFeedback(r) PROVE TypeOK'
    BY <1>5 DEF SaveFeedback, Save
<1>6. ASSUME NEW r \in Requests, Answer(r) PROVE TypeOK'
    BY <1>6 DEF Answer
<1>7. ASSUME NEW r \in Requests, FindFeedback(r) PROVE TypeOK'
    BY <1>7 DEF FindFeedback, Find
<1>8. ASSUME NEW r \in Requests, FindProductOfUpdate(r) PROVE TypeOK'
    BY <1>8 DEF FindProductOfUpdate, Find
<1>9. ASSUME NEW r \in Requests, Update(r) PROVE TypeOK'
    BY <1>9 DEF Update
<1>10. ASSUME NEW r \in Requests, StatementFails(r) PROVE TypeOK'
    BY <1>10 DEF StatementFails, Mishap
<1>11. ASSUME NEW w \in Workers, WorkerEnds(w) PROVE TypeOK'
    BY <1>11 DEF WorkerEnds, Crash, Unhandled, Mishap
<1>12. ASSUME NEW s \in Schemas, DropSchema(s) \/ CreateSchema(s) PROVE TypeOK'
    BY <1>12 DEF DropSchema, CreateSchema, Mishap
<1>13. CASE UNCHANGED vars
    BY <1>13 DEF vars
<1> QED
    BY <1>1, <1>2, <1>3, <1>4, <1>5, <1>6, <1>7, <1>8, <1>9, <1>10, <1>11, <1>12, <1>13
       DEF Next, Go, Create, Put

\* Types; only rows of creating requests are stored.
THEOREM TypeCorrect == Spec => []TypeOK
<1>1. Init => TypeOK
    BY InitType
<1>2. TypeOK /\ [Next]_vars => TypeOK'
    BY StepType
<1> QED
    BY <1>1, <1>2, PTL DEF Spec

-----------------------------------------------------------------------------
(* References                                                                *)

\* At first there are no rows.
LEMMA InitRef == Init => RefInv
BY DEF Init, RefInv, ReferencesResolve, OneProduct

\* Only saves and drops change rows: a save adds one whose references resolve,
\* a drop takes whole tenants.
LEMMA StepRef == TypeOK /\ RefInv /\ [Next]_vars => RefInv'
<1> SUFFICES ASSUME TypeOK, RefInv, [Next]_vars PROVE RefInv'
    OBVIOUS
<1> USE KindAssumption, ReferenceAssumption DEF TypeOK, RefInv, Requests, Creates
<1>1. ASSUME rows' = rows PROVE RefInv'
    BY <1>1 DEF ReferencesResolve, OneProduct
<1>2. ASSUME NEW r \in Requests, CreateProduct(r) PROVE RefInv'
    <2>1. CASE rows' = rows
        BY <1>1, <2>1
    <2>2. CASE rows' = rows \cup {r} /\ ProductUnique(r)
        <3>1. r \in Products
            BY <1>2 DEF CreateProduct
        <3>2. ReferencesResolve'
            BY <2>2, <3>1 DEF ReferencesResolve
        <3>3. OneProduct'
            BY <2>2, <3>1 DEF OneProduct, ProductUnique, Visible
        <3> QED
            BY <3>2, <3>3
    <2> QED
        BY <1>2, <2>1, <2>2 DEF CreateProduct, Save
<1>3. ASSUME NEW r \in (Changelogs \cup Feedbacks), Save(r, ForeignKeys(r)) PROVE RefInv'
    <2>1. CASE rows' = rows
        BY <1>1, <2>1
    <2>2. CASE rows' = rows \cup {r} /\ ForeignKeys(r)
        <3>1. ReferencesResolve'
            BY <2>2 DEF ReferencesResolve, ForeignKeys, Visible
        <3>2. OneProduct'
            BY <2>2 DEF OneProduct
        <3> QED
            BY <3>1, <3>2
    <2> QED
        BY <1>3, <2>1, <2>2 DEF Save
<1>4. ASSUME NEW r \in Requests, FindProduct(r) \/ FindChangelog(r) \/ Answer(r) \/ Put(r)
      PROVE RefInv'
    BY <1>1, <1>4 DEF FindProduct, FindChangelog, Answer, Put, FindFeedback,
        FindProductOfUpdate, Update, Find, NoRowChanges
<1>5. ASSUME NEW r \in Requests, StatementFails(r) PROVE RefInv'
    BY <1>1, <1>5 DEF StatementFails
<1>6. ASSUME NEW w \in Workers, WorkerEnds(w) PROVE RefInv'
    BY <1>1, <1>6 DEF WorkerEnds, Crash, Unhandled, NoRowChanges
<1>7. ASSUME NEW s \in Schemas, DropSchema(s) PROVE RefInv'
    BY <1>7 DEF DropSchema, ReferencesResolve, OneProduct
<1>8. ASSUME NEW s \in Schemas, CreateSchema(s) PROVE RefInv'
    BY <1>1, <1>8 DEF CreateSchema
<1>9. CASE UNCHANGED vars
    BY <1>1, <1>9 DEF vars
<1> QED
    BY <1>2, <1>3, <1>4, <1>5, <1>6, <1>7, <1>8, <1>9
       DEF Next, Go, Create, CreateChangelog, SaveFeedback

\* RefInv holds in every reachable state.
LEMMA RefCorrect == Spec => []RefInv
<1>1. Init => RefInv
    BY InitRef
<1>2. TypeOK /\ RefInv /\ [Next]_vars => RefInv'
    BY StepRef
<1> QED
    BY <1>1, <1>2, TypeCorrect, PTL DEF Spec

\* Every reference resolves in the tenant's own schema.
THEOREM ReferencesResolveHolds == Spec => []ReferencesResolve
<1>1. RefInv => ReferencesResolve
    BY DEF RefInv
<1> QED
    BY <1>1, RefCorrect, PTL

\* A feedback and its changelog belong to one product: both products are rows of
\* one schema, which has one.
THEOREM FeedbackOnItsProductHolds == Spec => []FeedbackOnItsProduct
<1>1. TypeOK /\ RefInv => FeedbackOnItsProduct
    <2> SUFFICES ASSUME TypeOK, RefInv, NEW r \in rows \cap Feedbacks,
                        RefChangelog[r] # None
                 PROVE RefProduct[RefChangelog[r]] = RefProduct[r]
        BY DEF FeedbackOnItsProduct
    <2> USE KindAssumption, ReferenceAssumption DEF RefInv, Requests, Creates
    <2> DEFINE c == RefChangelog[r]
    <2>1. RefProduct[r] \in rows /\ SchemaOf[RefProduct[r]] = SchemaOf[r]
        BY DEF ReferencesResolve
    <2>2. c \in rows \cap Changelogs /\ SchemaOf[c] = SchemaOf[r]
        BY DEF ReferencesResolve
    <2>3. RefProduct[c] \in rows /\ SchemaOf[RefProduct[c]] = SchemaOf[c]
        BY <2>2 DEF ReferencesResolve
    <2>4. RefProduct[r] \in Products /\ RefProduct[c] \in Products
        BY <2>2
    <2> QED
        BY <2>1, <2>2, <2>3, <2>4 DEF OneProduct
<1> QED
    BY <1>1, TypeCorrect, RefCorrect, PTL

-----------------------------------------------------------------------------
(* Answers                                                                   *)

\* Every step keeps StoredInv: only a drop takes rows.
LEMMA StepStored == TypeOK /\ StoredInv /\ [Next]_vars => StoredInv'
<1> SUFFICES ASSUME TypeOK, StoredInv, [Next]_vars PROVE StoredInv'
    OBVIOUS
<1> USE KindAssumption, ReferenceAssumption
    DEF TypeOK, StoredInv, Requests, Creates, Waiting, Goto, NoRowChanges
<1>1. ASSUME NEW r \in Creates, NEW admitted, Save(r, admitted) PROVE StoredInv'
    BY <1>1 DEF Save
<1>2. ASSUME NEW r \in Requests, FindProduct(r) \/ FindChangelog(r) PROVE StoredInv'
    BY <1>2 DEF FindProduct, FindChangelog, Find
<1>3. ASSUME NEW r \in Requests, Answer(r) PROVE StoredInv'
    BY <1>3 DEF Answer
<1>4. ASSUME NEW r \in Requests, FindFeedback(r) \/ FindProductOfUpdate(r) PROVE StoredInv'
    BY <1>4 DEF FindFeedback, FindProductOfUpdate, Find
<1>5. ASSUME NEW r \in Requests, Update(r) PROVE StoredInv'
    BY <1>5 DEF Update
<1>6. ASSUME NEW r \in Requests, StatementFails(r) PROVE StoredInv'
    BY <1>6 DEF StatementFails
<1>7. ASSUME NEW w \in Workers, WorkerEnds(w) PROVE StoredInv'
    BY <1>7 DEF WorkerEnds, Crash, Unhandled, Loses
<1>8. ASSUME NEW s \in Schemas, DropSchema(s) PROVE StoredInv'
    BY <1>8 DEF DropSchema
<1>9. ASSUME NEW s \in Schemas, CreateSchema(s) PROVE StoredInv'
    BY <1>9 DEF CreateSchema
<1>10. CASE UNCHANGED vars
    BY <1>10 DEF vars
<1> QED
    BY <1>1, <1>2, <1>3, <1>4, <1>5, <1>6, <1>7, <1>8, <1>9, <1>10
       DEF Next, Go, Create, Put, CreateProduct, CreateChangelog, SaveFeedback

\* StoredInv holds in every reachable state.
LEMMA StoredCorrect == Spec => []StoredInv
<1>1. Init => StoredInv
    BY DEF Init, StoredInv, Requests, Creates
<1>2. TypeOK /\ StoredInv /\ [Next]_vars => StoredInv'
    BY StepStored
<1> QED
    BY <1>1, <1>2, TypeCorrect, PTL DEF Spec

\* What was answered 201 is stored, unless its schema was dropped.
THEOREM AnsweredIsStoredHolds == Spec => []AnsweredIsStored
<1>1. StoredInv => AnsweredIsStored
    BY DEF StoredInv, AnsweredIsStored
<1> QED
    BY <1>1, StoredCorrect, PTL

-----------------------------------------------------------------------------
(* The handlers implement TenantStore                                        *)

Undecided == {r \in Creates : pc[r] \in {"start"} \cup Waiting}
Unanswered == {r \in Creates : pc[r] = "stored"}
Confirmed == {r \in Creates : pc[r] = "ok"}

\* Initial states map to initial states.
LEMMA InitStore == Init => Store!Init
BY DEF Init, Store!Init, Requests, Creates

\* A save stores the row or gives the request up.
LEMMA SaveStore ==
    ASSUME TypeOK, NEW r \in Creates, NEW admitted, r \in Undecided, Save(r, admitted),
           admitted => /\ \A x \in References[r] : Visible(r, x)
                       /\ r \in Products => ProductUnique(r)
    PROVE  Store!Next
<1> USE DEF Requests
<1>1. UNCHANGED dropped /\ Confirmed' = Confirmed
    BY DEF Save, Goto, TypeOK, Confirmed, Undecided, Waiting
<1>2. CASE admitted /\ SchemaOf[r] \in present
    <2>1. rows' = rows \cup {r} /\ Undecided' = Undecided \ {r}
          /\ Unanswered' = Unanswered \cup {r}
        BY <1>2 DEF Save, Goto, TypeOK, Undecided, Unanswered, Waiting
    <2>2. /\ \A x \in References[r] : x \in rows /\ SchemaOf[x] = SchemaOf[r]
          /\ r \in Products => \A p \in rows \cap Products : SchemaOf[p] # SchemaOf[r]
        BY <1>2 DEF Visible, ProductUnique
    <2>3. Store!Add(r)
        BY <1>1, <2>1, <2>2 DEF Store!Add, Undecided, Unanswered, Confirmed
    <2> QED
        BY <2>3 DEF Store!Next
<1>3. CASE ~(admitted /\ SchemaOf[r] \in present)
    <2>1. UNCHANGED rows /\ Undecided' \subseteq Undecided /\ Unanswered' \subseteq Unanswered
        BY <1>3 DEF Save, Goto, TypeOK, Undecided, Unanswered, Waiting
    <2>2. Store!GiveUp
        BY <1>1, <2>1 DEF Store!GiveUp, Undecided, Unanswered, Confirmed
    <2> QED
        BY <2>2 DEF Store!Next
<1> QED
    BY <1>2, <1>3

\* A request goes on or comes to an end, without its row entering and without
\* having been told of it.
Moves(r) ==
    \/ pc'[r] = pc[r]
    \/ /\ pc[r] \in {"start"} \cup Waiting
       /\ pc'[r] \in Waiting
    \/ /\ pc[r] \in {"start", "stored"} \cup Waiting
       /\ pc'[r] \in Ended \ {"ok"}

\* Steps that move requests so are GiveUp, or nothing to TenantStore.
LEMMA MovesGiveUp ==
    ASSUME UNCHANGED <<rows, dropped>>, \A r \in Creates : Moves(r)
    PROVE  Store!Next
<1>1. Undecided' \subseteq Undecided
    BY DEF Moves, Undecided, Waiting, Ended
<1>2. Unanswered' \subseteq Unanswered /\ Confirmed' = Confirmed
    BY DEF Moves, Unanswered, Confirmed, Waiting, Ended
<1>3. Store!GiveUp
    BY <1>1, <1>2 DEF Store!GiveUp, Undecided, Unanswered, Confirmed
<1> QED
    BY <1>3 DEF Store!Next

\* Every step maps to a step of TenantStore or to a stutter.
LEMMA StepStore ==
    TypeOK /\ StoredInv /\ [Next]_vars => [Store!Next]_(Store!vars)
<1> SUFFICES ASSUME TypeOK, StoredInv, [Next]_vars PROVE [Store!Next]_(Store!vars)
    OBVIOUS
<1> USE KindAssumption, ReferenceAssumption DEF Requests, Goto, NoRowChanges
<1>1. ASSUME NEW r \in Requests, CreateProduct(r) PROVE Store!Next
    <2>1. r \in Creates /\ r \in Undecided /\ References[r] = {} /\ r \in Products
        BY <1>1 DEF CreateProduct, Creates, Undecided, References
    <2> QED
        BY <1>1, <2>1, SaveStore DEF CreateProduct
<1>2. ASSUME NEW r \in Requests, CreateChangelog(r) \/ SaveFeedback(r) PROVE Store!Next
    <2>1. r \in (Changelogs \cup Feedbacks) /\ Save(r, ForeignKeys(r))
          /\ r \in Creates /\ r \in Undecided /\ r \notin Products
        BY <1>2 DEF CreateChangelog, SaveFeedback, Creates, Undecided, Waiting
    <2>2. ForeignKeys(r) => \A x \in References[r] : Visible(r, x)
        BY <2>1 DEF ForeignKeys, References
    <2> QED
        BY <2>1, <2>2, SaveStore
<1>3. ASSUME NEW r \in Requests, FindProduct(r) \/ FindChangelog(r) PROVE Store!Next
    <2>1. UNCHANGED <<rows, dropped>> /\ \A c \in Creates : Moves(c)
        BY <1>3 DEF FindProduct, FindChangelog, Find, TypeOK, Moves, Waiting, Ended
    <2> QED
        BY <2>1, MovesGiveUp
<1>4. ASSUME NEW r \in Requests, Answer(r) PROVE [Store!Next]_(Store!vars)
    <2>1. UNCHANGED <<rows, dropped>> /\ pc[r] = "stored" /\ pc' = [pc EXCEPT ![r] = "ok"]
        BY <1>4 DEF Answer
    <2>2. CASE r \in Creates
        <3>1. r \in Unanswered /\ Undecided' = Undecided
              /\ Unanswered' = Unanswered \ {r} /\ Confirmed' = Confirmed \cup {r}
            BY <2>1, <2>2 DEF TypeOK, Undecided, Unanswered, Confirmed, Waiting
        <3>2. r \in rows \/ SchemaOf[r] \in dropped
            BY <2>1, <2>2 DEF StoredInv
        <3>3. Store!Confirm(r)
            BY <2>1, <3>1, <3>2 DEF Store!Confirm, Undecided, Unanswered, Confirmed
        <3> QED
            BY <2>2, <3>3 DEF Store!Next
    <2>3. CASE r \notin Creates
        <3>1. \A c \in Creates : Moves(c)
            BY <2>1, <2>3 DEF TypeOK, Moves
        <3> QED
            BY <2>1, <3>1, MovesGiveUp
    <2> QED
        BY <2>2, <2>3
<1>5. ASSUME NEW r \in Requests, Put(r) PROVE Store!Next
    <2>1. CASE FindFeedback(r) \/ FindProductOfUpdate(r)
        <3>1. UNCHANGED <<rows, dropped>> /\ \A c \in Creates : Moves(c)
            BY <2>1 DEF FindFeedback, FindProductOfUpdate, Find, TypeOK, Creates, Moves
        <3> QED
            BY <3>1, MovesGiveUp
    <2>2. CASE Update(r)
        <3>1. UNCHANGED <<rows, dropped>> /\ \A c \in Creates : Moves(c)
            BY <2>2 DEF Update, TypeOK, Creates, Moves
        <3> QED
            BY <3>1, MovesGiveUp
    <2> QED
        BY <1>5, <2>1, <2>2 DEF Put
<1>6. ASSUME NEW r \in Requests, StatementFails(r) PROVE Store!Next
    <2>1. UNCHANGED <<rows, dropped>> /\ \A c \in Creates : Moves(c)
        BY <1>6 DEF StatementFails, TypeOK, Moves, Ended
    <2> QED
        BY <2>1, MovesGiveUp
<1>7. ASSUME NEW w \in Workers, WorkerEnds(w) PROVE Store!Next
    <2>1. UNCHANGED <<rows, dropped>> /\ \A c \in Creates : Moves(c)
        BY <1>7 DEF WorkerEnds, Crash, Unhandled, Loses, Moves, Ended, Creates
    <2> QED
        BY <2>1, MovesGiveUp
<1>8. ASSUME NEW s \in Schemas, DropSchema(s) PROVE Store!Next
    <2>1. Store!Wipe(s)
        BY <1>8 DEF DropSchema, Store!Wipe
    <2> QED
        BY <2>1 DEF Store!Next
<1>9. ASSUME NEW s \in Schemas, CreateSchema(s) PROVE Store!Next
    <2>1. UNCHANGED <<rows, dropped>> /\ \A c \in Creates : Moves(c)
        BY <1>9 DEF CreateSchema, Moves
    <2> QED
        BY <2>1, MovesGiveUp
<1>10. CASE UNCHANGED vars
    BY <1>10 DEF vars, Store!vars
<1> QED
    BY <1>1, <1>2, <1>3, <1>4, <1>5, <1>6, <1>7, <1>8, <1>9, <1>10
       DEF Next, Go, Create

\* However requests of any workers interleave, fail and end with their process, a
\* row enters whole, beside the rows it names, whoever was answered 201 finds it,
\* and none goes but with the whole tenant.
THEOREM RefinesStore == Spec => ImplementsStore
<1>1. Init => Store!Init
    BY InitStore
<1>2. TypeOK /\ StoredInv /\ [Next]_vars => [Store!Next]_(Store!vars)
    BY StepStore
<1> QED
    BY <1>1, <1>2, TypeCorrect, StoredCorrect, PTL
       DEF Spec, ImplementsStore, Store!Spec
=============================================================================
