------------------------- MODULE ChangelogPagesProofs --------------------------
(***************************************************************************)
(* Theorems about ChangelogPages: a walk along nextPage to which no old page *)
(* is replayed misses nothing, and repeats nothing of a list that stays as *)
(* it is, for any number of readers, workers, page sizes and writers.      *)
(*                                                                         *)
(* The argument: a row's position in the list is the number of newer rows. *)
(* Rows are only added, or all dropped together, so a position never gets   *)
(* smaller (RowsStep, ListedStep), and what was before the end of a page   *)
(* when that page was read can only have moved to a later one.             *)
(***************************************************************************)
EXTENDS ChangelogPages, CatalogProofs, FiniteSetTheorems

PagesTypeOK ==
    /\ at \in [Readers -> {"find", "rows", "count", "done", "stopped"}]
    /\ page \in [Readers -> Nat \ {0}]
    /\ given \in [Readers -> SUBSET Changelogs]
    /\ total \in [Readers -> Nat]
    /\ \A k \in kept : k.given \subseteq Changelogs
    /\ seen \in [Readers -> SUBSET Changelogs]
    /\ before \in [Readers -> SUBSET Changelogs]
    /\ fresh \in [Readers -> BOOLEAN]

\* A changelog request inserts once: what was there has left its start.
OnceInv ==
    /\ \A c \in rows \cap Changelogs : pc[c] # "start"
    /\ \A r \in Readers : \A c \in before[r] : pc[c] # "start"

Position(r, c) == Cardinality(Newer(r, c))
End(r) == Offset(r) + PageSize(r)

\* What a walk owes for a row that was there when it began and still is.
Owed(r, c) ==
    /\ at[r] \in {"find", "rows"} /\ Position(r, c) < Offset(r) => c \in seen[r]
    /\ at[r] = "count" /\ (Position(r, c) < End(r) \/ total[r] <= End(r))
        => c \in seen[r] \cup given[r]
    /\ at[r] = "done" => c \in seen[r]

WalkInv ==
    \A r \in Readers : fresh[r] => \A c \in before[r] \cap Listed(r) : Owed(r, c)

PagesInv == TypeOK /\ PagesTypeOK /\ OnceInv /\ WalkInv

-----------------------------------------------------------------------------
(* Arithmetic and counting                                                   *)

\* limit is clamped into 1..200.
LEMMA PageSizeType == \A r \in Readers : PageSize(r) \in 1..200
BY ReaderAssumption DEF PageSize, Clamp

\* Where nextPage is null, the page's end is past the total (Math.ceil).
LEMMA LastPage ==
    ASSUME NEW n \in Nat, NEW p \in Nat \ {0}, NEW limit \in 1..200,
           ~(p < TotalPages(n, limit))
    PROVE n <= (p - 1) * limit + limit
<1> DEFINE m == n + limit - 1
           k == m \div limit
<1>1. m \in Nat /\ k \in Nat
    OBVIOUS
<1>2. m < (k + 1) * limit
    OBVIOUS
<1>3. k <= p
    BY <1>1 DEF TotalPages
<1>4. (k + 1) * limit <= (p + 1) * limit
    BY <1>1, <1>3
<1>5. (p + 1) * limit = (p - 1) * limit + limit + limit
    OBVIOUS
<1> HIDE DEF k
<1> QED
    BY <1>1, <1>2, <1>4, <1>5

\* Offset counts from 0, page by page.
LEMMA OffsetStep ==
    ASSUME NEW p \in Nat \ {0}, NEW limit \in 1..200
    PROVE /\ (p - 1) * limit \in Nat
          /\ ((p + 1) - 1) * limit = (p - 1) * limit + limit
OBVIOUS

\* Counting sets of changelogs is monotonic.
LEMMA Counting ==
    ASSUME NEW B \in SUBSET Changelogs, NEW A \in SUBSET B
    PROVE /\ Cardinality(A) \in Nat /\ Cardinality(B) \in Nat
          /\ Cardinality(A) <= Cardinality(B)
<1>1. IsFiniteSet(B)
    BY FiniteAssumption, FS_Subset
<1>2. IsFiniteSet(A)
    BY <1>1, FS_Subset
<1> QED
    BY <1>1, <1>2, FS_Subset, FS_CardinalityType

\* Every listed row has fewer newer ones than there are rows.
LEMMA PositionBelowTotal ==
    ASSUME NEW r \in Readers, NEW c \in Listed(r)
    PROVE Position(r, c) < Cardinality(Listed(r))
<1>1. Listed(r) \in SUBSET Changelogs /\ c \in Changelogs
    BY DEF Listed
<1>2. IsFiniteSet(Listed(r))
    BY <1>1, FiniteAssumption, FS_Subset
<1>3. /\ IsFiniteSet(Listed(r) \ {c})
      /\ Cardinality(Listed(r) \ {c}) = Cardinality(Listed(r)) - 1
    BY <1>2, FS_RemoveElement
<1>4. Newer(r, c) \in SUBSET (Listed(r) \ {c})
    BY <1>1, ReaderAssumption DEF Newer
<1>5. Position(r, c) <= Cardinality(Listed(r) \ {c}) /\ Position(r, c) \in Nat
    BY <1>1, <1>4, Counting DEF Position
<1>6. Cardinality(Listed(r)) \in Nat
    BY <1>2, FS_CardinalityType
<1> QED
    BY <1>3, <1>5, <1>6

-----------------------------------------------------------------------------
(* Steps of the writers                                                      *)

\* A step of Catalog leaves the rows, adds one that was not there before, or
\* drops those of a schema; and no request returns to its start.
LEMMA RowsStep ==
    ASSUME TypeOK, [Next]_vars
    PROVE /\ \/ rows' = rows
             \/ \E q \in Creates : rows' = rows \cup {q} /\ pc'[q] # "start"
                                   /\ (q \in Changelogs => pc[q] = "start")
             \/ \E s \in Schemas : rows' = {q \in rows : SchemaOf[q] # s}
          /\ \A q \in Requests : pc'[q] = "start" => pc[q] = "start"
<1> USE KindAssumption DEF TypeOK, Requests, Creates, Goto, NoRowChanges, Waiting
<1>1. ASSUME NEW r \in Creates, NEW admitted, Save(r, admitted),
             r \in Changelogs => pc[r] = "start"
      PROVE /\ \/ rows' = rows
               \/ rows' = rows \cup {r} /\ pc'[r] # "start"
            /\ \A q \in Requests : pc'[q] = "start" => pc[q] = "start"
    BY <1>1 DEF Save
<1>2. ASSUME NEW r \in Requests, NEW id, NEW step, step # "start", Find(r, id, step)
      PROVE /\ rows' = rows
            /\ \A q \in Requests : pc'[q] = "start" => pc[q] = "start"
    BY <1>2 DEF Find
<1>3. CASE \E r \in Requests : CreateProduct(r) \/ CreateChangelog(r) \/ SaveFeedback(r)
    BY <1>1, <1>3 DEF CreateProduct, CreateChangelog, SaveFeedback
<1>4. CASE \E r \in Requests :
                FindProduct(r) \/ FindChangelog(r) \/ FindFeedback(r) \/ FindProductOfUpdate(r)
    BY <1>2, <1>4 DEF FindProduct, FindChangelog, FindFeedback, FindProductOfUpdate
<1>5. CASE \E r \in Requests : Answer(r) \/ StatementFails(r)
    BY <1>5 DEF Answer, StatementFails
<1>6. CASE \E r \in Requests : Update(r)
    BY <1>6 DEF Update
<1>7. CASE \E w \in Workers : WorkerEnds(w)
    BY <1>7 DEF WorkerEnds, Crash, Unhandled, Loses
<1>8. CASE \E s \in Schemas : DropSchema(s) \/ CreateSchema(s)
    BY <1>8 DEF DropSchema, CreateSchema
<1>9. CASE UNCHANGED vars
    BY <1>9 DEF vars
<1> QED
    BY <1>3, <1>4, <1>5, <1>6, <1>7, <1>8, <1>9 DEF Next, Go, Create, Put

\* So what was listed when a walk began, and still is after the step, was listed
\* before the step, and no closer to the front after it.
LEMMA ListedStep ==
    ASSUME TypeOK, OnceInv, [Next]_vars, NEW r \in Readers,
           NEW c \in before[r] \cap Listed(r)', before[r] \in SUBSET Changelogs
    PROVE c \in Listed(r) /\ Newer(r, c) \subseteq Newer(r, c)'
<1> USE KindAssumption DEF TypeOK, OnceInv, Creates, Requests
<1>1. CASE rows' = rows
    BY <1>1 DEF Listed, Newer
<1>2. ASSUME NEW q \in Creates, rows' = rows \cup {q},
             q \in Changelogs => pc[q] = "start"
      PROVE c \in Listed(r) /\ Newer(r, c) \subseteq Newer(r, c)'
    <2>1. c # q
        BY <1>2
    <2>2. Listed(r) \subseteq Listed(r)'
        BY <1>2 DEF Listed
    <2> QED
        BY <1>2, <2>1, <2>2 DEF Listed, Newer
<1>3. ASSUME NEW s \in Schemas, rows' = {q \in rows : SchemaOf[q] # s}
      PROVE c \in Listed(r) /\ Newer(r, c) \subseteq Newer(r, c)'
    <2>1. ReadSchema[r] # s
        BY <1>3 DEF Listed
    <2>2. Listed(r)' = Listed(r)
        BY <1>3, <2>1 DEF Listed
    <2> QED
        BY <2>2 DEF Newer
<1> QED
    BY <1>1, <1>2, <1>3, RowsStep

\* What the end of a worker, or a step of the writers, leaves of the walks: they
\* are as they were, or stopped.
Undisturbed ==
    /\ UNCHANGED <<page, seen, repeated, before, fresh>>
    /\ PagesTypeOK'
    /\ \A r \in Readers :
        \/ at'[r] = "stopped"
        \/ at'[r] = at[r] /\ given'[r] = given[r] /\ total'[r] = total[r]

\* Every step is one of the writers or of their worker's end, or one of a walk.
LEMMA PagesSteps ==
    ASSUME PagesTypeOK, [PagesNext]_allVars
    PROVE ([Next]_vars /\ Undisturbed) \/ \E r \in Readers : Read(r)
<1>1. CASE Go /\ UNCHANGED readVars
    BY <1>1 DEF Next, Undisturbed, PagesTypeOK, readVars, walkVars
<1>2. ASSUME NEW w \in Workers, EndPages(w) PROVE [Next]_vars /\ Undisturbed
    <2>1. Next
        BY <1>2 DEF EndPages, Next
    <2>2. PagesTypeOK'
        BY <1>2 DEF EndPages, PagesTypeOK
    <2> QED
        BY <1>2, <2>1, <2>2 DEF EndPages, Undisturbed, PagesTypeOK
<1>3. CASE UNCHANGED allVars
    BY <1>3 DEF Undisturbed, PagesTypeOK, allVars, readVars, walkVars
<1> QED
    BY <1>1, <1>2, <1>3 DEF PagesNext, PagesGo

\* A step of the writers, or none, keeps PagesInv.
LEMMA WriterStep == PagesInv /\ [Next]_vars /\ Undisturbed => PagesInv'
<1> SUFFICES ASSUME PagesInv, [Next]_vars, Undisturbed PROVE PagesInv'
    OBVIOUS
<1> USE DEF PagesInv, Undisturbed
<1>1. TypeOK'
    BY StepType
<1>2. PagesTypeOK'
    OBVIOUS
<1>3. OnceInv'
    <2>1. \A c \in Changelogs : pc[c] # "start" => pc'[c] # "start"
        BY RowsStep DEF Requests, Creates
    <2>2. \A c \in rows' \cap Changelogs : pc'[c] # "start"
        BY <2>1, RowsStep DEF OnceInv
    <2>3. \A r \in Readers : \A c \in before[r] : pc'[c] # "start"
        BY <2>1 DEF OnceInv, PagesTypeOK
    <2> QED
        BY <2>2, <2>3 DEF OnceInv
<1>4. WalkInv'
    <2> SUFFICES ASSUME NEW r \in Readers, fresh[r], NEW c \in before[r] \cap Listed(r)'
                 PROVE Owed(r, c)'
        BY DEF WalkInv
    <2>1. before[r] \in SUBSET Changelogs
        BY DEF PagesTypeOK
    <2>2. c \in Listed(r) /\ Newer(r, c) \subseteq Newer(r, c)'
        BY <2>1, ListedStep
    <2>3. Owed(r, c)
        BY <2>2 DEF WalkInv
    <2>4. Newer(r, c)' \in SUBSET Changelogs
        BY DEF Newer, Listed
    <2>5. Position(r, c) <= Position(r, c)' /\ Position(r, c) \in Nat /\ Position(r, c)' \in Nat
        BY <2>2, <2>4, Counting DEF Position
    <2>6. Offset(r)' = Offset(r) /\ PageSize(r)' = PageSize(r) /\ End(r)' = End(r)
        BY DEF Offset, PageSize, End
    <2>7. Offset(r) \in Nat /\ End(r) \in Nat
        BY PageSizeType, OffsetStep DEF PagesTypeOK, Offset, End
    <2>8. CASE at'[r] = "stopped"
        BY <2>8 DEF Owed
    <2>9. CASE at'[r] = at[r] /\ given'[r] = given[r] /\ total'[r] = total[r]
        BY <2>3, <2>5, <2>6, <2>7, <2>9 DEF Owed
    <2> QED
        BY <2>8, <2>9
<1> QED
    BY <1>1, <1>2, <1>3, <1>4

-----------------------------------------------------------------------------
(* Steps of the readers                                                      *)

\* A step of a reader does not touch the tables nor the walks of others.
LEMMA ReaderOnly ==
    ASSUME PagesTypeOK, NEW r \in Readers, Read(r)
    PROVE /\ UNCHANGED vars
          /\ \A q \in Readers : q # r =>
                /\ at'[q] = at[q] /\ page'[q] = page[q] /\ given'[q] = given[q]
                /\ total'[q] = total[q] /\ seen'[q] = seen[q] /\ repeated'[q] = repeated[q]
                /\ before'[q] = before[q] /\ fresh'[q] = fresh[q]
          /\ repeated \in [Readers -> SUBSET Changelogs]
                => repeated' \in [Readers -> SUBSET Changelogs]
<1> USE DEF PagesTypeOK, Served
<1>1. CASE FindListed(r)
    BY <1>1 DEF FindListed
<1>2. CASE ReadRows(r)
    BY <1>2 DEF ReadRows, Begin
<1>3. ASSUME NEW rs, NEW more, Receive(r, rs, more)
      PROVE /\ \A q \in Readers : q # r =>
                /\ at'[q] = at[q] /\ page'[q] = page[q] /\ given'[q] = given[q]
                /\ total'[q] = total[q] /\ seen'[q] = seen[q] /\ repeated'[q] = repeated[q]
            /\ repeated \in [Readers -> SUBSET Changelogs]
                => repeated' \in [Readers -> SUBSET Changelogs]
    BY <1>3 DEF Receive
<1>4. CASE ReadCount(r)
    BY <1>3, <1>4 DEF ReadCount
<1>5. CASE Replay(r)
    BY <1>3, <1>5 DEF Replay, Begin
<1>6. CASE ReadFails(r)
    BY <1>6 DEF ReadFails
<1> QED
    BY <1>1, <1>2, <1>4, <1>5, <1>6 DEF Read

\* What a walk is given is of the right type.
LEMMA ReaderTypes ==
    ASSUME PagesTypeOK, NEW r \in Readers, Read(r)
    PROVE PagesTypeOK'
<1>1. Listed(r) \in SUBSET Changelogs /\ OnPage(r) \in SUBSET Changelogs
      /\ Cardinality(Listed(r)) \in Nat
    BY Counting DEF Listed, OnPage
<1> USE <1>1 DEF PagesTypeOK, Served
<1>2. CASE FindListed(r)
    BY <1>2 DEF FindListed
<1>3. CASE ReadRows(r)
    BY <1>3 DEF ReadRows, Begin
<1>4. ASSUME NEW rs \in SUBSET Changelogs, NEW more \in BOOLEAN, Receive(r, rs, more)
      PROVE /\ at' \in [Readers -> {"find", "rows", "count", "done", "stopped"}]
            /\ page' \in [Readers -> Nat \ {0}]
            /\ given' \in [Readers -> SUBSET Changelogs] /\ total' \in [Readers -> Nat]
            /\ seen' \in [Readers -> SUBSET Changelogs]
    BY <1>4 DEF Receive, NextPage
<1>5. CASE ReadCount(r)
    <2>1. PICK n \in {total[r], Cardinality(Listed(r))} :
            LET more == page[r] < TotalPages(n, PageSize(r))
            IN  Receive(r, given[r], more) /\ Keep(server[r], Url(r), given[r], more)
        BY <1>5 DEF ReadCount
    <2>2. \A k \in kept' : k.given \subseteq Changelogs
        BY <2>1 DEF Keep
    <2> DEFINE more == page[r] < TotalPages(n, PageSize(r))
    <2>3. more \in BOOLEAN /\ Receive(r, given[r], more)
        BY <2>1
    <2> HIDE DEF more
    <2> QED
        BY <1>4, <1>5, <2>2, <2>3 DEF ReadCount
<1>6. CASE Replay(r)
    <2>1. PICK k \in kept : Receive(r, k.given, k.more)
        BY <1>6 DEF Replay, KeptBy
    <2>2. k.given \in SUBSET Changelogs
        OBVIOUS
    <2>3. /\ at' \in [Readers -> {"find", "rows", "count", "done", "stopped"}]
          /\ page' \in [Readers -> Nat \ {0}]
          /\ given' \in [Readers -> SUBSET Changelogs] /\ total' \in [Readers -> Nat]
          /\ seen' \in [Readers -> SUBSET Changelogs]
        BY <2>1, <2>2 DEF Receive, NextPage
    <2> QED
        BY <1>6, <2>3 DEF Replay, Begin
<1>7. CASE ReadFails(r)
    BY <1>7 DEF ReadFails
<1> QED
    BY <1>2, <1>3, <1>5, <1>6, <1>7 DEF Read

\* What a fresh walk is owed after a step of it.
LEMMA OwnWalk ==
    ASSUME PagesInv, NEW r \in Readers, Read(r), fresh'[r],
           NEW c \in before'[r] \cap Listed(r)
    PROVE Owed(r, c)'
<1> USE DEF PagesInv
<1>0. UNCHANGED vars
    BY ReaderOnly
<1>2. /\ PageSize(r) \in 1..200 /\ PageSize(r)' = PageSize(r)
      /\ Offset(r) \in Nat /\ End(r) \in Nat
    BY PageSizeType, OffsetStep DEF PagesTypeOK, PageSize, Offset, End
<1>3. /\ Listed(r)' = Listed(r) /\ Listed(r) \in SUBSET Changelogs
      /\ Position(r, c)' = Position(r, c) /\ Position(r, c) \in Nat
      /\ Position(r, c) = Cardinality(Newer(r, c))
    <2>1. Listed(r)' = Listed(r) /\ Listed(r) \in SUBSET Changelogs
        BY <1>0 DEF Listed, vars
    <2>2. Newer(r, c)' = Newer(r, c) /\ Newer(r, c) \in SUBSET Changelogs
        BY <2>1 DEF Newer
    <2> QED
        BY <2>1, <2>2, Counting DEF Position
<1>4. Cardinality(Listed(r)) \in Nat
    BY <1>3, Counting
<1>5. CASE FindListed(r)
    <2>1. /\ at[r] = "find" /\ at'[r] \in {"rows", "stopped"}
          /\ UNCHANGED <<page, seen, before, fresh>>
        BY <1>5 DEF FindListed, PagesTypeOK
    <2>2. Owed(r, c) /\ Offset(r)' = Offset(r)
        BY <2>1 DEF WalkInv, Offset, PageSize
    <2> QED
        BY <1>3, <2>1, <2>2 DEF Owed
<1>6. CASE ReadRows(r)
    <2>1. /\ at[r] = "rows" /\ at'[r] = "count" /\ page' = page /\ seen' = seen /\ fresh' = fresh
          /\ given'[r] = OnPage(r) /\ total'[r] = Cardinality(Listed(r))
        BY <1>6 DEF ReadRows, PagesTypeOK
    <2>2. Position(r, c) < Offset(r) => c \in seen[r]
        <3>1. CASE page[r] = 1
            <4>1. Offset(r) = 0
                BY <1>2, <3>1 DEF Offset
            <4> QED
                BY <1>3, <4>1
        <3>2. CASE page[r] # 1
            <4>1. c \in before[r] \cap Listed(r)
                BY <1>6, <3>2 DEF ReadRows, Begin
            <4> QED
                BY <2>1, <4>1 DEF WalkInv, Owed
        <3> QED
            BY <3>1, <3>2
    <2>3. Position(r, c) < End(r) => c \in seen'[r] \cup given'[r]
        BY <1>2, <1>3, <2>1, <2>2 DEF OnPage, End
    <2>4. total'[r] <= End(r) => c \in seen'[r] \cup given'[r]
        BY <1>2, <1>3, <1>4, <2>1, <2>3, PositionBelowTotal
    <2>5. End(r)' = End(r)
        BY <2>1 DEF End, Offset, PageSize
    <2> QED
        BY <1>3, <2>1, <2>3, <2>4, <2>5 DEF Owed
<1>7. CASE ReadCount(r)
    <2>1. PICK n \in {total[r], Cardinality(Listed(r))} :
            Receive(r, given[r], page[r] < TotalPages(n, PageSize(r)))
        BY <1>7 DEF ReadCount
    <2>2. at[r] = "count" /\ before' = before /\ fresh' = fresh
        BY <1>7 DEF ReadCount
    <2>3. seen'[r] = seen[r] \cup given[r]
        BY <2>1 DEF Receive, PagesTypeOK
    <2>4. Position(r, c) < End(r) \/ total[r] <= End(r) => c \in seen'[r]
        BY <2>2, <2>3 DEF WalkInv, Owed
    <2>5. CASE page[r] < TotalPages(n, PageSize(r))
        <3>1. at'[r] = "find" /\ page'[r] = page[r] + 1
            BY <2>1, <2>5 DEF Receive, NextPage, PagesTypeOK
        <3>2. Offset(r)' = End(r)
            BY <1>2, <3>1, OffsetStep DEF Offset, End, PagesTypeOK
        <3> QED
            BY <1>3, <2>4, <3>1, <3>2 DEF Owed
    <2>6. CASE ~(page[r] < TotalPages(n, PageSize(r)))
        <3>1. at'[r] = "done"
            BY <2>1, <2>6 DEF Receive, PagesTypeOK
        <3>2. n \in Nat
            BY <1>4 DEF PagesTypeOK
        <3>3. n <= End(r)
            BY <1>2, <2>6, <3>2, LastPage DEF End, Offset, PagesTypeOK
        <3>4. Position(r, c) < Cardinality(Listed(r))
            BY PositionBelowTotal
        <3>5. c \in seen'[r]
            BY <1>2, <1>3, <1>4, <2>4, <3>3, <3>4
        <3> QED
            BY <3>1, <3>5 DEF Owed
    <2> QED
        BY <2>5, <2>6
<1>8. CASE Replay(r)
    BY <1>8 DEF Replay, PagesTypeOK
<1>9. CASE ReadFails(r)
    BY <1>9 DEF ReadFails, Owed, PagesTypeOK
<1> QED
    BY <1>5, <1>6, <1>7, <1>8, <1>9 DEF Read

\* A step of a reader keeps PagesInv.
LEMMA ReaderStep ==
    ASSUME PagesInv, NEW r \in Readers, Read(r)
    PROVE PagesInv'
<1> USE DEF PagesInv
<1>0. UNCHANGED vars
    BY ReaderOnly
<1>1. TypeOK'
    BY <1>0 DEF TypeOK, vars
<1>2. PagesTypeOK'
    BY ReaderTypes
<1>3. OnceInv'
    <2>1. \A q \in Readers : before'[q] \subseteq before[q] \cup Listed(q)
        BY ReaderOnly DEF Read, FindListed, ReadRows, ReadCount, Replay, ReadFails, Begin,
                          PagesTypeOK
    <2>2. pc' = pc /\ rows' = rows
        BY <1>0 DEF vars
    <2> QED
        BY <2>1, <2>2 DEF OnceInv, Listed
<1>4. WalkInv'
    <2> SUFFICES ASSUME NEW q \in Readers, fresh'[q], NEW c \in (before[q] \cap Listed(q))'
                 PROVE Owed(q, c)'
        BY DEF WalkInv
    <2>1. Listed(q)' = Listed(q) /\ Newer(q, c)' = Newer(q, c)
        BY <1>0 DEF Listed, Newer, vars
    <2>2. CASE q = r
        BY <2>1, <2>2, OwnWalk
    <2>3. CASE q # r
        <3>1. /\ at'[q] = at[q] /\ page'[q] = page[q] /\ given'[q] = given[q]
              /\ total'[q] = total[q] /\ seen'[q] = seen[q]
              /\ before'[q] = before[q] /\ fresh'[q] = fresh[q]
            BY <2>3, ReaderOnly
        <3>2. Owed(q, c)
            BY <2>1, <3>1 DEF WalkInv
        <3> QED
            BY <2>1, <3>1, <3>2 DEF Owed, Position, Offset, PageSize, End
    <2> QED
        BY <2>2, <2>3
<1> QED
    BY <1>1, <1>2, <1>3, <1>4

-----------------------------------------------------------------------------

\* At first nothing is listed and nobody has begun.
LEMMA PagesInit1 == PagesInit => PagesInv
<1> SUFFICES ASSUME PagesInit PROVE PagesInv
    OBVIOUS
<1>1. TypeOK
    BY InitType DEF PagesInit
<1>2. PagesTypeOK /\ OnceInv /\ WalkInv
    BY DEF PagesInit, Init, PagesTypeOK, OnceInv, WalkInv
<1> QED
    BY <1>1, <1>2 DEF PagesInv

\* Every step keeps PagesInv.
LEMMA PagesStep == PagesInv /\ [PagesNext]_allVars => PagesInv'
BY PagesSteps, WriterStep, ReaderStep DEF PagesInv

\* A walk that came to its end without a replayed page was given every changelog
\* that was there at its beginning and still is.
THEOREM NoEntryMissedHolds == PagesSpec => []NoEntryMissed
<1>1. PagesInv => NoEntryMissed
    BY DEF PagesInv, WalkInv, Owed, NoEntryMissed
<1> QED
    BY <1>1, PagesInit1, PagesStep, PTL DEF PagesSpec

-----------------------------------------------------------------------------
(* Nothing is given twice from a list that stays as it is                    *)

\* The walk has read a page.
HasRead(r) == page[r] # 1 \/ at[r] \in {"count", "done", "stopped"}

\* Nothing was dropped or added since the walk read page 1.
Unshifted(r) == ReadSchema[r] \notin dropped /\ Listed(r) \subseteq before[r]

\* What a walk was given so far lies before the page it is about to read, or has
\* read and is about to be given.
Behind(r) ==
    /\ repeated[r] = {}
    /\ at[r] \in {"find", "rows", "count"} => \A c \in seen[r] : Position(r, c) < Offset(r)
    /\ at[r] = "count" =>
        \A c \in given[r] : Offset(r) <= Position(r, c) /\ Position(r, c) < End(r)

\* That, of one walk; before it has read a page it was given nothing.
NotShifted(r) ==
    /\ fresh[r] /\ ~HasRead(r) => seen[r] = {} /\ repeated[r] = {}
    /\ ReadSchema[r] \notin dropped => before[r] \subseteq Listed(r)
    /\ fresh[r] /\ HasRead(r) /\ Unshifted(r) => Behind(r)

ShiftInv ==
    /\ repeated \in [Readers -> SUBSET Changelogs]
    /\ \A r \in Readers : NotShifted(r)

\* Rows disappear only with their schema, and that is remembered.
LEMMA KeptStep ==
    ASSUME TypeOK, [Next]_vars
    PROVE /\ dropped \subseteq dropped'
          /\ \A q \in rows : SchemaOf[q] \notin dropped' => q \in rows'
<1>1. CASE \E r \in Requests : Create(r) \/ Put(r) \/ StatementFails(r)
    BY <1>1 DEF Create, Put, StatementFails, CreateProduct, CreateChangelog, FindProduct,
         FindChangelog, SaveFeedback, Answer, FindFeedback, FindProductOfUpdate, Update,
         Save, Find, NoRowChanges
<1>2. CASE \E w \in Workers : WorkerEnds(w)
    BY <1>2 DEF WorkerEnds, Crash, Unhandled, NoRowChanges
<1>3. CASE \E s \in Schemas : DropSchema(s) \/ CreateSchema(s)
    BY <1>3 DEF DropSchema, CreateSchema
<1>4. CASE UNCHANGED vars
    BY <1>4 DEF vars
<1> QED
    BY <1>1, <1>2, <1>3, <1>4 DEF Next, Go

\* A step of the writers or of their worker's end keeps ShiftInv: a list that is
\* unshifted after it is the same as before it.
LEMMA WriterShift ==
    TypeOK /\ PagesTypeOK /\ ShiftInv /\ [Next]_vars /\ Undisturbed => ShiftInv'
<1> SUFFICES ASSUME TypeOK, PagesTypeOK, ShiftInv, [Next]_vars, Undisturbed, NEW r \in Readers
             PROVE NotShifted(r)'
    BY DEF ShiftInv, Undisturbed
<1> USE DEF Undisturbed
<1>1. (fresh[r] /\ ~HasRead(r) => seen[r] = {} /\ repeated[r] = {})'
    BY DEF ShiftInv, NotShifted, HasRead
<1>2. ReadSchema[r] \notin dropped' =>
            ReadSchema[r] \notin dropped /\ Listed(r) \subseteq Listed(r)'
    BY KeptStep DEF Listed
<1>3. (ReadSchema[r] \notin dropped => before[r] \subseteq Listed(r))'
    BY <1>2 DEF ShiftInv, NotShifted
<1>4. ASSUME fresh[r], HasRead(r)', Unshifted(r)' PROVE Behind(r)'
    <2>1. Listed(r)' = Listed(r) /\ Unshifted(r)
        BY <1>2, <1>4 DEF ShiftInv, NotShifted, Unshifted
    <2>2. \A c : Newer(r, c)' = Newer(r, c)
        BY <2>1 DEF Newer
    <2>3. CASE at'[r] = "stopped"
        <3>1. repeated[r] = {}
            BY <1>4, <2>1 DEF ShiftInv, NotShifted, Behind
        <3> QED
            BY <2>3, <3>1 DEF Behind
    <2>4. CASE at'[r] = at[r] /\ given'[r] = given[r]
        <3>1. Behind(r)
            BY <1>4, <2>1, <2>4 DEF ShiftInv, NotShifted, HasRead
        <3> QED
            BY <2>2, <2>4, <3>1 DEF Behind, Position, Offset, End, PageSize
    <2> QED
        BY <2>3, <2>4
<1> QED
    BY <1>1, <1>3, <1>4 DEF NotShifted

\* A step of a reader keeps ShiftInv: the page it is given lies behind all it was
\* given before.
LEMMA ReaderShift ==
    ASSUME TypeOK, PagesTypeOK, ShiftInv, NEW q \in Readers, Read(q)
    PROVE ShiftInv'
<1>0. /\ UNCHANGED vars
      /\ \A r \in Readers : Listed(r)' = Listed(r)
      /\ \A r \in Readers : \A c : Newer(r, c)' = Newer(r, c)
    BY ReaderOnly DEF Listed, Newer, vars
<1>1. /\ PageSize(q) \in 1..200 /\ Offset(q) \in Nat /\ End(q) = Offset(q) + PageSize(q)
      /\ \A c : Position(q, c) \in Nat
    <2>1. \A c : Newer(q, c) \in SUBSET Changelogs
        BY DEF Newer, Listed
    <2> QED
        BY <2>1, Counting, PageSizeType, OffsetStep DEF Offset, End, PagesTypeOK, Position
<1>2. repeated' \in [Readers -> SUBSET Changelogs]
    BY ReaderOnly DEF ShiftInv
<1> SUFFICES ASSUME NEW r \in Readers PROVE NotShifted(r)'
    BY <1>2 DEF ShiftInv
<1>3. CASE r # q
    <2>1. /\ at'[r] = at[r] /\ page'[r] = page[r] /\ given'[r] = given[r]
          /\ seen'[r] = seen[r] /\ repeated'[r] = repeated[r]
          /\ before'[r] = before[r] /\ fresh'[r] = fresh[r]
        BY <1>3, ReaderOnly
    <2> QED
        BY <1>0, <2>1 DEF ShiftInv, NotShifted, HasRead, Unshifted, Behind, Position, Offset,
                          End, PageSize, vars
<1>4. CASE r = q /\ (FindListed(q) \/ ReadFails(q))
    <2>1. /\ \/ at[r] = "find" /\ at'[r] \in {"rows", "stopped"}
             \/ at[r] \in {"rows", "count"} /\ at'[r] = "stopped"
          /\ UNCHANGED <<page, seen, repeated, before, fresh>>
        BY <1>4 DEF FindListed, ReadFails, PagesTypeOK
    <2> QED
        BY <1>0, <2>1 DEF ShiftInv, NotShifted, HasRead, Unshifted, Behind, Position, Offset,
                          End, PageSize, vars
<1>5. CASE r = q /\ ReadRows(q)
    <2>1. /\ at[r] = "rows" /\ at'[r] = "count" /\ given'[r] = OnPage(r)
          /\ UNCHANGED <<page, seen, repeated, fresh>>
          /\ before'[r] = IF page[r] = 1 THEN Listed(r) ELSE before[r]
        BY <1>5 DEF ReadRows, Begin, PagesTypeOK
    <2>2. \A c \in OnPage(r) : Offset(r) <= Position(r, c) /\ Position(r, c) < End(r)
        BY <1>1, <1>5 DEF OnPage, Position
    <2>3. (ReadSchema[r] \notin dropped => before[r] \subseteq Listed(r))'
        BY <1>0, <2>1 DEF ShiftInv, NotShifted, vars
    <2>4. ASSUME fresh[r], Unshifted(r)' PROVE Behind(r)'
        <3>1. repeated[r] = {} /\ \A c \in seen[r] : Position(r, c) < Offset(r)
            <4>1. CASE page[r] = 1
                BY <2>1, <2>4, <4>1 DEF ShiftInv, NotShifted, HasRead
            <4>2. CASE page[r] # 1
                <5>1. HasRead(r) /\ Unshifted(r)
                    BY <1>0, <2>1, <2>4, <4>2 DEF HasRead, Unshifted, vars
                <5> QED
                    BY <2>1, <2>4, <5>1 DEF ShiftInv, NotShifted, Behind
            <4> QED
                BY <4>1, <4>2
        <3>2. /\ \A c : Position(r, c)' = Position(r, c)
              /\ End(r)' = End(r) /\ Offset(r)' = Offset(r)
            BY <1>0, <2>1 DEF Position, End, Offset, PageSize
        <3> QED
            BY <2>1, <2>2, <3>1, <3>2 DEF Behind
    <2> QED
        BY <2>1, <2>3, <2>4 DEF NotShifted, HasRead
<1>6. CASE r = q /\ ReadCount(q)
    <2>1. PICK more \in BOOLEAN : Receive(r, given[r], more)
        <3>1. \A n : (page[r] < TotalPages(n, PageSize(r))) \in BOOLEAN
            OBVIOUS
        <3> QED
            BY <1>6, <3>1 DEF ReadCount
    <2>2. /\ at[r] = "count" /\ before' = before /\ fresh' = fresh
          /\ seen'[r] = seen[r] \cup given[r]
          /\ repeated'[r] = repeated[r] \cup (seen[r] \cap given[r])
          /\ \/ at'[r] = "find" /\ page'[r] = page[r] + 1
             \/ at'[r] = "done" /\ page'[r] = page[r]
        BY <1>6, <2>1 DEF ReadCount, Receive, NextPage, PagesTypeOK, ShiftInv
    <2>3. HasRead(r) /\ HasRead(r)'
        BY <2>2 DEF HasRead, PagesTypeOK
    <2>4. (ReadSchema[r] \notin dropped => before[r] \subseteq Listed(r))'
        BY <1>0, <2>2 DEF ShiftInv, NotShifted, vars
    <2>5. ASSUME fresh[r], Unshifted(r)' PROVE Behind(r)'
        <3>1. Behind(r)
            BY <1>0, <2>2, <2>3, <2>5 DEF ShiftInv, NotShifted, Unshifted, vars
        <3>2. seen[r] \cap given[r] = {}
            BY <1>1, <1>6, <2>2, <3>1 DEF Behind
        <3>3. repeated'[r] = {}
            BY <2>2, <3>1, <3>2 DEF Behind
        <3>4. \A c \in seen'[r] : Position(r, c) < End(r)
            BY <1>1, <1>6, <2>2, <3>1 DEF Behind
        <3>5. \A c : Position(r, c)' = Position(r, c)
            BY <1>0 DEF Position
        <3>6. at'[r] = "find" => Offset(r)' = End(r)
            BY <1>1, <1>6, <2>2, OffsetStep DEF Offset, End, PageSize, PagesTypeOK
        <3> QED
            BY <2>2, <3>3, <3>4, <3>5, <3>6 DEF Behind
    <2> QED
        BY <2>2, <2>3, <2>4, <2>5 DEF NotShifted
<1>7. CASE r = q /\ Replay(q)
    <2>1. ~fresh'[r]
        BY <1>7 DEF Replay, PagesTypeOK
    <2>2. before'[r] \subseteq before[r] \cup Listed(r)
        BY <1>7 DEF Replay, Begin, PagesTypeOK
    <2> QED
        BY <1>0, <2>1, <2>2 DEF ShiftInv, NotShifted, vars
<1> QED
    BY <1>3, <1>4, <1>5, <1>6, <1>7 DEF Read

\* At first nobody was given anything.
LEMMA ShiftInit == PagesInit => ShiftInv
BY DEF PagesInit, ShiftInv, NotShifted, HasRead

\* A walk without a replayed page is given a changelog twice only when one was
\* added after it began, or the schema was dropped.
THEOREM RepeatedOnlyIfShiftedHolds == PagesSpec => []RepeatedOnlyIfShifted
<1>1. PagesInit => PagesInv /\ ShiftInv
    BY PagesInit1, ShiftInit
<1>2. PagesInv /\ ShiftInv /\ [PagesNext]_allVars => PagesInv' /\ ShiftInv'
    BY PagesStep, PagesSteps, WriterShift, ReaderShift DEF PagesInv
<1>3. ShiftInv => RepeatedOnlyIfShifted
    BY DEF ShiftInv, NotShifted, HasRead, Unshifted, Behind, RepeatedOnlyIfShifted
<1> QED
    BY <1>1, <1>2, <1>3, PTL DEF PagesSpec
=============================================================================
