---------------------------- MODULE ChangelogPages -----------------------------
(***************************************************************************)
(* Clients that read a product's changelogs page by page, from page 1 along *)
(* meta.nextPage, while the writers of Catalog go on.                      *)
(*                                                                         *)
(* getChangeLogByProductId is three statements: the product, the rows of   *)
(* the page (newest first), and their total.  Before it runs, the          *)
(* CacheInterceptor of the worker that serves the GET looks whether it     *)
(* answered that URL before, and then replays the page it kept.            *)
(***************************************************************************)
EXTENDS Catalog, Integers, FiniteSets

CONSTANTS
    Readers,        \* walks through the pages
    ReadSchema,     \* reader -> tenant.schemaName
    ReadProduct,    \* reader -> productId
    Limit,          \* reader -> the query parameter limit
    CreatedAt       \* changelog request -> the timestamp its INSERT takes

ASSUME ReaderAssumption ==
    /\ ReadSchema \in [Readers -> Schemas]
    /\ ReadProduct \in [Readers -> Products]
    /\ Limit \in [Readers -> Int]
    /\ CreatedAt \in [Changelogs -> Nat]
    /\ \A c, d \in Changelogs : CreatedAt[c] = CreatedAt[d] => c = d
ASSUME FiniteAssumption == IsFiniteSet(Changelogs)

VARIABLES
    at,         \* where each walk is
    page,       \* the page it is at
    server,     \* the worker whose handler serves its GET
    given,      \* the rows that the SELECT of its page returned
    total,      \* how many there were then
    kept,       \* CacheInterceptor.cache of each worker: the pages it answered
    seen,       \* history: the changelogs the walk was given so far
    repeated,   \* those it was given more than once
    before,     \* those that were there when it read page 1
    fresh       \* whether no page was replayed to it

walkVars == <<at, page, server, given, total, seen, repeated, before, fresh>>
readVars == <<walkVars, kept>>
allVars == <<vars, readVars>>

PagesInit ==
    /\ Init
    /\ at = [r \in Readers |-> "find"]
    /\ page = [r \in Readers |-> 1]
    /\ server = [r \in Readers |-> None]
    /\ given = [r \in Readers |-> {}] /\ total = [r \in Readers |-> 0]
    /\ kept = {}
    /\ seen = [r \in Readers |-> {}] /\ repeated = [r \in Readers |-> {}]
    /\ before = [r \in Readers |-> {}]
    /\ fresh = [r \in Readers |-> TRUE]

-----------------------------------------------------------------------------
(* The arithmetic of getChangeLogByProductId                                 *)

Clamp(low, n, high) == IF n < low THEN low ELSE IF n > high THEN high ELSE n

PageSize(r) == Clamp(1, Limit[r], 200)

\* Pages counted from 0.
OffsetMutOneBased(r) == page[r] * PageSize(r)

Offset(r) == (page[r] - 1) * PageSize(r)

\* Math.ceil(total / limit)
TotalPages(n, limit) == (n + limit - 1) \div limit

-----------------------------------------------------------------------------
(* What the SELECT returns                                                   *)

\* where: { productId }
Listed(r) ==
    {c \in rows \cap Changelogs :
        SchemaOf[c] = ReadSchema[r] /\ RefProduct[c] = ReadProduct[r]}

\* order: { createdAt: 'DESC' }
Newer(r, c) == {d \in Listed(r) : CreatedAt[d] > CreatedAt[c]}

\* take: limit + 1, to see whether there is more.
OnPageMutOneMore(r) ==
    {c \in Listed(r) :
        LET position == Cardinality(Newer(r, c))
        IN  Offset(r) <= position /\ position <= Offset(r) + PageSize(r)}

\* take, skip
OnPage(r) ==
    {c \in Listed(r) :
        LET position == Cardinality(Newer(r, c))
        IN  Offset(r) <= position /\ position < Offset(r) + PageSize(r)}

-----------------------------------------------------------------------------
(* The response cache                                                        *)

\* request.url of the GET: the tenant is not in it.
Url(r) == [product |-> ReadProduct[r], page |-> page[r], limit |-> Limit[r]]

KeptBy(w, url) == {k \in kept : k.worker = w /\ k.url = url}

\* cache.set, whatever was there
Keep(w, url, rs, more) ==
    kept' = (kept \ KeptBy(w, url)) \cup
            {[worker |-> w, url |-> url, given |-> rs, more |-> more]}

-----------------------------------------------------------------------------
(* GET /changelogs                                                           *)

\* The GET goes to any worker; one that kept no such page looks for the product.
FindListed(r) ==
    /\ at[r] = "find"
    /\ \E w \in Workers :
        /\ KeptBy(w, Url(r)) = {}
        /\ IF ReadProduct[r] \in rows /\ SchemaOf[ReadProduct[r]] = ReadSchema[r]
           THEN /\ at' = [at EXCEPT ![r] = "rows"]
                /\ server' = [server EXCEPT ![r] = w]
           ELSE at' = [at EXCEPT ![r] = "stopped"] /\ UNCHANGED server
    /\ UNCHANGED <<vars, page, given, total, kept, seen, repeated, before, fresh>>

\* What a walk finds when it reads page 1 is what it should be given.
Begin(r) == before' = IF page[r] = 1 THEN [before EXCEPT ![r] = Listed(r)] ELSE before

ReadRows(r) ==
    /\ at[r] = "rows" /\ ReadSchema[r] \in present
    /\ at' = [at EXCEPT ![r] = "count"]
    /\ given' = [given EXCEPT ![r] = OnPage(r)]
    /\ total' = [total EXCEPT ![r] = Cardinality(Listed(r))]
    /\ Begin(r)
    /\ UNCHANGED <<vars, page, server, kept, seen, repeated, fresh>>

\* The GET is over, and what its handler knew is gone.
Served(r) ==
    /\ server' = [server EXCEPT ![r] = None]
    /\ given' = [given EXCEPT ![r] = {}] /\ total' = [total EXCEPT ![r] = 0]

\* The page itself in place of the next one.
NextPageMutSame(r) == page[r]

\* meta.nextPage, where there is one
NextPage(r) == page[r] + 1

\* The client is given a page and asks for nextPage until it is null.
Receive(r, rs, more) ==
    /\ seen' = [seen EXCEPT ![r] = @ \cup rs]
    /\ repeated' = [repeated EXCEPT ![r] = @ \cup (seen[r] \cap rs)]
    /\ at' = [at EXCEPT ![r] = IF more THEN "find" ELSE "done"]
    /\ page' = IF more THEN [page EXCEPT ![r] = NextPage(r)] ELSE page
    /\ Served(r)

\* The total is counted by a second statement, unless the rows already tell it.
ReadCount(r) ==
    /\ at[r] = "count"
    /\ \E n \in {total[r], Cardinality(Listed(r))} :
        LET more == page[r] < TotalPages(n, PageSize(r)) IN
        /\ n = total[r] \/ ReadSchema[r] \in present
        /\ Receive(r, given[r], more)
        /\ Keep(server[r], Url(r), given[r], more)
    /\ UNCHANGED <<vars, before, fresh>>

\* cache.has: the page as it was when that worker answered this URL
Replay(r) ==
    /\ at[r] = "find"
    /\ \E w \in Workers : \E k \in KeptBy(w, Url(r)) : Receive(r, k.given, k.more)
    /\ Begin(r)
    /\ fresh' = [fresh EXCEPT ![r] = FALSE]
    /\ UNCHANGED <<vars, kept>>

\* A statement fails, as it does when the tables are gone, or the GET takes too
\* long: 500 or 408, and nothing is kept
ReadFails(r) ==
    /\ at[r] \in {"rows", "count"}
    /\ at' = [at EXCEPT ![r] = "stopped"]
    /\ Served(r)
    /\ UNCHANGED <<vars, page, kept, seen, repeated, before, fresh>>

Read(r) == FindListed(r) \/ ReadRows(r) \/ ReadCount(r) \/ Replay(r) \/ ReadFails(r)

\* A worker takes the pages it kept along, and the GETs it serves.
EndPages(w) ==
    /\ WorkerEnds(w)
    /\ kept' = {k \in kept : k.worker # w}
    /\ LET hit == {r \in Readers : server[r] = w}
       IN  /\ at' = [r \in Readers |-> IF r \in hit THEN "stopped" ELSE at[r]]
           /\ server' = [r \in Readers |-> IF r \in hit THEN None ELSE server[r]]
           /\ given' = [r \in Readers |-> IF r \in hit THEN {} ELSE given[r]]
           /\ total' = [r \in Readers |-> IF r \in hit THEN 0 ELSE total[r]]
    /\ UNCHANGED <<page, seen, repeated, before, fresh>>

PagesGo ==
    \/ Go /\ UNCHANGED readVars
    \/ \E r \in Readers : Read(r)

PagesNext == PagesGo \/ \E w \in Workers : EndPages(w)

PagesSpec == PagesInit /\ [][PagesNext]_allVars

\* A statement that was issued returns, and the client goes on.
FairPagesSpec == PagesSpec /\ \A r \in Readers : WF_allVars(Read(r))

-----------------------------------------------------------------------------
(* Properties *)

\* A walk that came to its end without a replayed page was given every changelog
\* that was there at its beginning and still is, although writers shift the pages
\* under it between any two statements: newest first, rows only ever move to
\* later pages.
NoEntryMissed ==
    \A r \in Readers :
        at[r] = "done" /\ fresh[r] => before[r] \cap Listed(r) \subseteq seen[r]

\* A walk without a replayed page is given a changelog twice only when one was
\* added after it began, or the schema was dropped: pages of a list that stays as
\* it is do not overlap.
RepeatedOnlyIfShifted ==
    \A r \in Readers : repeated[r] # {} /\ fresh[r] =>
        Listed(r) \ before[r] # {} \/ ReadSchema[r] \in dropped

\* Every walk ends, through old pages and new ones, since nextPage only grows and
\* no list is longer than there are changelogs.
WalkEnds == \A r \in Readers : <>(at[r] \in {"done", "stopped"})
=============================================================================
