-------------------------------- MODULE Catalog --------------------------------
(***************************************************************************)
(* Products, changelogs and feedback: the requests that write to a tenant's *)
(* schema, after the pipeline has let them through.                        *)
(*                                                                         *)
(* A row is identified by the request that inserted it, its id included;   *)
(* clients name ids freely, those of other tenants too.  The rollback of a *)
(* rival signup may drop a schema in the middle (TenantSignup), and a later *)
(* signup may create it anew.  getDataSource is part of the first statement *)
(* and its failure one of StatementFails.                                  *)
(***************************************************************************)
EXTENDS Naturals

CONSTANTS
    Products, Changelogs, Feedbacks,    \* POST requests, and so their rows
    Updates,                            \* PUT /feedback
    Schemas,
    Workers,            \* Node processes
    SchemaOf,           \* request -> tenant.schemaName
    WorkerOf,           \* request -> who serves it
    RefProduct,         \* request but the first kind -> dto.productId
    RefChangelog,       \* feedback request -> dto.changelogId or None
    RefFeedback,        \* PUT request -> dto.feedbackId
    None,               \* undefined
    MaxMishaps          \* bound: failing statements, crashes, dropped schemas

Creates == Products \cup Changelogs \cup Feedbacks
Requests == Creates \cup Updates

ASSUME KindAssumption ==
    /\ Products \cap (Changelogs \cup Feedbacks \cup Updates) = {}
    /\ Changelogs \cap (Feedbacks \cup Updates) = {}
    /\ Feedbacks \cap Updates = {}
    /\ None \notin Requests
ASSUME ReferenceAssumption ==
    /\ SchemaOf \in [Requests -> Schemas]
    /\ WorkerOf \in [Requests -> Workers]
    /\ RefProduct \in [Requests \ Products -> Products]
    /\ RefChangelog \in [Feedbacks -> Changelogs \cup {None}]
    /\ RefFeedback \in [Updates -> Feedbacks]
ASSUME BoundAssumption == MaxMishaps \in Nat

VARIABLES
    pc,         \* where each request is
    rows,       \* the rows of all tenants' tables
    updated,    \* the feedback whose UPDATE took effect
    present,    \* the schemas that exist, with their tables
    dropped,    \* those that were ever dropped
    mishaps

vars == <<pc, rows, updated, present, dropped, mishaps>>

Waiting == {"changelog", "insert", "product", "update"}
Ended == {"ok", "refused", "error", "lost", "unhandled"}

Init ==
    /\ pc = [r \in Requests |-> "start"]
    /\ rows = {} /\ updated = {}
    /\ present = Schemas /\ dropped = {}
    /\ mishaps = 0

Goto(r, step) == pc' = [pc EXCEPT ![r] = step]
NoRowChanges == UNCHANGED <<rows, updated, present, dropped, mishaps>>
Mishap == mishaps < MaxMishaps /\ mishaps' = mishaps + 1

-----------------------------------------------------------------------------
(* The tables                                                                *)

Visible(r, id) == id \in rows /\ SchemaOf[id] = SchemaOf[r]

\* No UNIQUE constraint.
ProductUniqueMutNone(r) == TRUE

\* UNIQUE ("tenant_schema"), a column in which createProduct puts the schema
ProductUnique(r) == \A p \in Products : ~ Visible(r, p)

\* No foreign keys, only lookups.
ForeignKeysMutNone(r) == TRUE

\* product_id and change_log_id refer to the tables of the same schema
ForeignKeys(r) ==
    /\ Visible(r, RefProduct[r])
    /\ (r \in Feedbacks /\ RefChangelog[r] # None) => Visible(r, RefChangelog[r])

\* save() without await: the answer does not wait for the row.
SaveMutNotAwaited(r, admitted) ==
    /\ Goto(r, "stored")
    /\ rows' \in {rows, IF admitted THEN rows \cup {r} ELSE rows}
    /\ UNCHANGED <<updated, present, dropped, mishaps>>

\* Repository.save: INSERT, unless a constraint refuses it or the table is gone
Save(r, admitted) ==
    /\ IF admitted /\ SchemaOf[r] \in present
       THEN Goto(r, "stored") /\ rows' = rows \cup {r}
       ELSE Goto(r, "refused") /\ UNCHANGED rows
    /\ UNCHANGED <<updated, present, dropped, mishaps>>

\* findOne and the 404
Find(r, id, step) ==
    /\ Goto(r, IF Visible(r, id) THEN step ELSE "refused")
    /\ NoRowChanges

-----------------------------------------------------------------------------
(* POST /products, /changelogs, /feedback                                    *)

\* An upsert: a second product takes the first one's place.
CreateProductMutReplaces(r) ==
    /\ r \in Products /\ pc[r] = "start"
    /\ Goto(r, "stored")
    /\ rows' = {q \in rows : ~(q \in Products /\ SchemaOf[q] = SchemaOf[r])} \cup {r}
    /\ UNCHANGED <<updated, present, dropped, mishaps>>

CreateProduct(r) == r \in Products /\ pc[r] = "start" /\ Save(r, ProductUnique(r))

CreateChangelog(r) == r \in Changelogs /\ pc[r] = "start" /\ Save(r, ForeignKeys(r))

FindProduct(r) ==
    /\ r \in Feedbacks /\ pc[r] = "start"
    /\ Find(r, RefProduct[r], IF RefChangelog[r] = None THEN "insert" ELSE "changelog")

FindChangelog(r) ==
    /\ r \in Feedbacks /\ pc[r] = "changelog"
    /\ Find(r, RefChangelog[r], "insert")

SaveFeedback(r) == r \in Feedbacks /\ pc[r] = "insert" /\ Save(r, ForeignKeys(r))

\* The row is there and its answer on the way.
Answer(r) == pc[r] = "stored" /\ Goto(r, "ok") /\ NoRowChanges

-----------------------------------------------------------------------------
(* PUT /feedback                                                             *)

\* getFeedbackById
FindFeedback(r) ==
    /\ r \in Updates /\ pc[r] = "start"
    /\ Find(r, RefFeedback[r], "product")

FindProductOfUpdate(r) ==
    /\ r \in Updates /\ pc[r] = "product"
    /\ Find(r, RefProduct[r], "update")

\* What an UPDATE may set, and what the body of a PUT that came this far has.
Properties == {"content", "status", "priority", "type", "voteCount", "userId", "product", "changeLogs"}
Given == {"feedbackId", "productId"}

\* save(feedbackDto), which has no id and so inserts a second row.
UpdateMutSave(r) ==
    /\ r \in Updates /\ pc[r] = "update"
    /\ Goto(r, "ok") /\ rows' = rows \cup {r}
    /\ UNCHANGED <<updated, present, dropped, mishaps>>

\* update(feedbackId, feedbackDto) and the read-back that is answered, null if
\* the row is gone. Nobody holds the promise of the update.
Update(r) ==
    /\ r \in Updates /\ pc[r] = "update"
    /\ Goto(r, IF SchemaOf[r] \in present THEN "ok" ELSE "refused")
    /\ updated' = IF Given \subseteq Properties THEN updated \cup {RefFeedback[r]} ELSE updated
    /\ UNCHANGED <<rows, present, dropped, mishaps>>

-----------------------------------------------------------------------------
(* A worker ends                                                             *)

\* The requests that lose their answer when worker w ends.
Loses(w) == {r \in Requests : WorkerOf[r] = w /\ pc[r] \in Waiting \cup {"stored"}}

\* A name that is no property rejects the promise within the same turn. An
\* unhandled rejection ends a Node process before the read-back is answered,
\* unless something listens for it, as PM2 may in cluster mode (then: Update).
Unhandled(r) ==
    /\ r \in Updates /\ pc[r] = "update" /\ ~(Given \subseteq Properties)
    /\ pc' = [q \in Requests |->
                 IF q = r THEN "unhandled"
                 ELSE IF q \in Loses(WorkerOf[r]) THEN "lost" ELSE pc[q]]
    /\ NoRowChanges

Crash(w) ==
    /\ Mishap
    /\ pc' = [r \in Requests |-> IF r \in Loses(w) THEN "lost" ELSE pc[r]]
    /\ UNCHANGED <<rows, updated, present, dropped>>

WorkerEnds(w) == Crash(w) \/ \E r \in Requests : WorkerOf[r] = w /\ Unhandled(r)

-----------------------------------------------------------------------------
(* Environment                                                               *)

\* A statement fails, or its answer is lost after it took effect: 500
StatementFails(r) ==
    /\ pc[r] \in Waiting \cup {"start", "stored"}
    /\ Mishap
    /\ Goto(r, "error")
    /\ UNCHANGED <<rows, updated, present, dropped>>

\* A losing signup drops the schema of an active tenant ...
DropSchema(s) ==
    /\ s \in present
    /\ Mishap
    /\ present' = present \ {s}
    /\ dropped' = dropped \cup {s}
    /\ rows' = {q \in rows : SchemaOf[q] # s}
    /\ UNCHANGED <<pc, updated>>

\* ... and a new signup creates it again, empty.
CreateSchema(s) ==
    /\ s \notin present
    /\ present' = present \cup {s}
    /\ UNCHANGED <<pc, rows, updated, dropped, mishaps>>

-----------------------------------------------------------------------------

Create(r) ==
    \/ CreateProduct(r) \/ CreateChangelog(r)
    \/ FindProduct(r) \/ FindChangelog(r) \/ SaveFeedback(r)
    \/ Answer(r)

Put(r) == FindFeedback(r) \/ FindProductOfUpdate(r) \/ Update(r)

\* The workers stay.
Go ==
    \/ \E r \in Requests : Create(r) \/ Put(r) \/ StatementFails(r)
    \/ \E s \in Schemas : DropSchema(s) \/ CreateSchema(s)

Next == Go \/ \E w \in Workers : WorkerEnds(w)

Spec == Init /\ [][Next]_vars

-----------------------------------------------------------------------------
(* Properties *)

\* Types; only rows of creating requests are stored.
TypeOK ==
    /\ pc \in [Requests -> {"start", "stored"} \cup Waiting \cup Ended]
    /\ rows \subseteq Creates /\ updated \subseteq Feedbacks
    /\ present \subseteq Schemas /\ dropped \subseteq Schemas
    /\ mishaps \in 0..MaxMishaps

\* Every reference resolves in the tenant's own schema, although the rows it
\* names were looked up some awaits earlier, in a schema that may have been
\* dropped and created anew since (createFeedback, createChangeLogs).
ReferencesResolve ==
    \A r \in rows \ Products :
        /\ RefProduct[r] \in rows /\ SchemaOf[RefProduct[r]] = SchemaOf[r]
        /\ r \in Feedbacks /\ RefChangelog[r] # None =>
            RefChangelog[r] \in rows /\ SchemaOf[RefChangelog[r]] = SchemaOf[r]

\* A feedback and its changelog belong to one product.  createFeedback looks
\* both up and never compares them: that they agree is due to the UNIQUE
\* tenant_schema of products and to the foreign keys.
FeedbackOnItsProduct ==
    \A r \in rows \cap Feedbacks :
        RefChangelog[r] # None => RefProduct[RefChangelog[r]] = RefProduct[r]

\* What was answered 201 is stored, as long as the tenant's schema was not
\* dropped, whatever failed or crashed meanwhile.
AnsweredIsStored ==
    \A r \in Creates : (pc[r] = "ok" /\ SchemaOf[r] \notin dropped) => r \in rows

-----------------------------------------------------------------------------
(* What the tables promise *)

\* The rows a row refers to.
References ==
    [r \in Creates |->
        IF r \in Products THEN {}
        ELSE {RefProduct[r]} \cup
             IF r \in Feedbacks THEN {RefChangelog[r]} \ {None} ELSE {}]

Store == INSTANCE TenantStore
            WITH Singles <- Products,
                 Tenants <- Schemas,
                 TenantOf <- SchemaOf,
                 stored <- rows,
                 undecided <- {r \in Creates : pc[r] \in {"start"} \cup Waiting},
                 unanswered <- {r \in Creates : pc[r] = "stored"},
                 confirmed <- {r \in Creates : pc[r] = "ok"},
                 wiped <- dropped

\* The handlers implement TenantStore: however requests of any workers interleave,
\* fail, and end with their process, a row enters whole, beside the rows it
\* names, and none goes but with the whole tenant.
ImplementsStore == Store!Spec

-----------------------------------------------------------------------------
(* What the code does not provide (checked by a run that expects a violation) *)

\* README.md: "PUT /feedback : update feedback": once the UPDATE was issued, the
\* row is updated.
UpdateTakesEffect ==
    \A r \in Updates : pc[r] \in {"ok", "unhandled"} => RefFeedback[r] \in updated
=============================================================================
