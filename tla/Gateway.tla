------------------------------- MODULE Gateway --------------------------------
(***************************************************************************)
(* The way of a request through a worker: TenantMiddleware, JwtAuthGuard,  *)
(* the interceptors in the order app.create.ts installs them (cache, error *)
(* envelope, success envelope, timeout), the handler, and back.  Handlers  *)
(* are abstract: they commit their effect and return, or throw.            *)
(*                                                                         *)
(* A response is identified by the request whose handler produced it.      *)
(***************************************************************************)
EXTENDS Naturals

CONSTANTS
    Requests,
    Workers,            \* Node processes
    Urls,
    Slugs,
    UrlOf,              \* request -> request.url, the query string included
    SlugOf,             \* request -> its slug, None if absent or reserved
    WorkerOf,           \* request -> who serves it
    Known,              \* the slugs with a tenants row
    Unguarded,          \* requests to routes without JwtAuthGuard
    Bearers,            \* requests with a token that verifies until it expires
    Scoped,             \* requests to routes that read tenant.schemaName
    None,               \* undefined
    MaxCrashes          \* bound: worker crashes

ASSUME RoutingAssumption ==
    /\ UrlOf \in [Requests -> Urls]
    /\ SlugOf \in [Requests -> Slugs \cup {None}]
    /\ WorkerOf \in [Requests -> Workers]
    /\ Known \subseteq Slugs
    /\ Unguarded \subseteq Requests /\ Bearers \subseteq Requests
    /\ Scoped \subseteq Requests
    /\ None \notin Requests /\ None \notin Slugs
ASSUME BoundAssumption == MaxCrashes \in Nat

VARIABLES
    pc,             \* what the client has been told
    handler,        \* how far the handler's promise is
    done,           \* the requests whose handler committed its effect
    answer,         \* the response a client got: whose it is
    cached,         \* per worker: url -> response or None
    crashes

vars == <<pc, handler, done, answer, cached, crashes>>

Inside == {"resolved", "open"}
Told == {"ok", "error", "timeout"}
Running == {"running", "committed"}

Init ==
    /\ pc = [r \in Requests |-> "sent"]
    /\ handler = [r \in Requests |-> "none"]
    /\ done = {}
    /\ answer = [r \in Requests |-> None]
    /\ cached = [w \in Workers |-> [u \in Urls |-> None]]
    /\ crashes = 0

Goto(r, step) == pc' = [pc EXCEPT ![r] = step]
Handler(r, step) == handler' = [handler EXCEPT ![r] = step]

\* The response a worker keeps for the URL of a request.
Kept(r) == cached[WorkerOf[r]][UrlOf[r]]

-----------------------------------------------------------------------------
(* On the way in                                                             *)

\* TenantMiddleware.use: 404 for a slug without a row
Resolve(r) ==
    /\ pc[r] = "sent"
    /\ Goto(r, IF SlugOf[r] \in Known \cup {None} THEN "resolved" ELSE "error")
    /\ UNCHANGED <<handler, done, answer, cached, crashes>>

\* its findOne fails: 500
LookupFails(r) ==
    /\ pc[r] = "sent" /\ SlugOf[r] # None
    /\ Goto(r, "error")
    /\ UNCHANGED <<handler, done, answer, cached, crashes>>

\* handleRequest: 401, before any interceptor, for a missing, a wrong and an
\* expired token.  Tokens expire at any time here; Sessions has the clock.
Reject(r) ==
    /\ pc[r] = "resolved" /\ r \notin Unguarded
    /\ Goto(r, "error")
    /\ UNCHANGED <<handler, done, answer, cached, crashes>>

\* CacheInterceptor, has(url): the kept response, and no handler
Replay(r) ==
    /\ pc[r] = "resolved" /\ r \in Unguarded \cup Bearers
    /\ Kept(r) # None
    /\ Goto(r, "ok")
    /\ answer' = [answer EXCEPT ![r] = Kept(r)]
    /\ UNCHANGED <<handler, done, cached, crashes>>

\* next.handle(): the handler starts, and with it the timer
Handle(r) ==
    /\ pc[r] = "resolved" /\ r \in Unguarded \cup Bearers
    /\ Kept(r) = None
    /\ Goto(r, "open")
    /\ Handler(r, "running")
    /\ UNCHANGED <<done, answer, cached, crashes>>

-----------------------------------------------------------------------------
(* The handler, whether or not its client still waits                        *)

\* Its effect reaches the database; without a tenant, tenant.schemaName throws.
Commit(r) ==
    /\ handler[r] = "running"
    /\ ~(r \in Scoped /\ SlugOf[r] = None)
    /\ done' = done \cup {r}
    /\ Handler(r, "committed")
    /\ UNCHANGED <<pc, answer, cached, crashes>>

-----------------------------------------------------------------------------
(* On the way back                                                           *)

\* No tap: nothing is kept.
ReturnMutNotKept(r) ==
    /\ handler[r] = "committed"
    /\ Handler(r, "over")
    /\ IF pc[r] = "open"
       THEN Goto(r, "ok") /\ answer' = [answer EXCEPT ![r] = r]
       ELSE UNCHANGED <<pc, answer>>
    /\ UNCHANGED <<done, cached, crashes>>

\* The handler's promise, in place of the stream, fills the cache: a response
\* that comes after the 408 is kept too.
ReturnMutKeepsLate(r) ==
    /\ handler[r] = "committed"
    /\ Handler(r, "over")
    /\ cached' = [cached EXCEPT ![WorkerOf[r]][UrlOf[r]] = r]
    /\ IF pc[r] = "open"
       THEN Goto(r, "ok") /\ answer' = [answer EXCEPT ![r] = r]
       ELSE UNCHANGED <<pc, answer>>
    /\ UNCHANGED <<done, crashes>>

\* The promise resolves: through the envelope and tap(cache.set) to the
\* client, unless the timeout has unsubscribed.
Return(r) ==
    /\ handler[r] = "committed"
    /\ Handler(r, "over")
    /\ IF pc[r] = "open"
       THEN /\ Goto(r, "ok")
            /\ answer' = [answer EXCEPT ![r] = r]
            /\ cached' = [cached EXCEPT ![WorkerOf[r]][UrlOf[r]] = r]
       ELSE UNCHANGED <<pc, answer, cached>>
    /\ UNCHANGED <<done, crashes>>

\* The error envelope returned as a value: tap keeps it like a success.
ThrowMutKept(r) ==
    /\ handler[r] \in Running
    /\ Handler(r, "over")
    /\ IF pc[r] = "open"
       THEN /\ Goto(r, "error")
            /\ cached' = [cached EXCEPT ![WorkerOf[r]][UrlOf[r]] = r]
       ELSE UNCHANGED <<pc, cached>>
    /\ UNCHANGED <<done, answer, crashes>>

\* The promise rejects, before or after an effect: ErrorResponseInterceptor
\* answers and throws on, so that tap is passed by.
Throw(r) ==
    /\ handler[r] \in Running
    /\ Handler(r, "over")
    /\ IF pc[r] = "open" THEN Goto(r, "error") ELSE UNCHANGED pc
    /\ UNCHANGED <<done, answer, cached, crashes>>

\* A timer that is cleared by the handler's first answer from the database.
TimeoutMutOnlyBeforeEffect(r) ==
    /\ pc[r] = "open" /\ handler[r] = "running"
    /\ Goto(r, "timeout")
    /\ UNCHANGED <<handler, done, answer, cached, crashes>>

\* 20 s are over: 408.  The handler is not told.
Timeout(r) ==
    /\ pc[r] = "open"
    /\ Goto(r, "timeout")
    /\ UNCHANGED <<handler, done, answer, cached, crashes>>

\* A worker dies and is restarted with an empty cache.
Crash(w) ==
    /\ crashes < MaxCrashes
    /\ crashes' = crashes + 1
    /\ LET mine == {r \in Requests : WorkerOf[r] = w} IN
       /\ pc' = [r \in Requests |->
                    IF r \in mine /\ pc[r] \in Inside THEN "lost" ELSE pc[r]]
       /\ handler' = [r \in Requests |->
                    IF r \in mine /\ handler[r] \in Running THEN "over" ELSE handler[r]]
    /\ cached' = [cached EXCEPT ![w] = [u \in Urls |-> None]]
    /\ UNCHANGED <<done, answer>>

-----------------------------------------------------------------------------

Inward(r) == Resolve(r) \/ LookupFails(r) \/ Reject(r) \/ Replay(r) \/ Handle(r)
Outward(r) == Commit(r) \/ Return(r) \/ Throw(r)

Next ==
    \/ \E r \in Requests : Inward(r) \/ Outward(r) \/ Timeout(r)
    \/ \E w \in Workers : Crash(w)

Spec == Init /\ [][Next]_vars

\* The middleware, the guard and the timer always come to an end; a handler may
\* wait for ever.
Fairness ==
    \A r \in Requests : WF_vars(pc[r] = "resolved" /\ Inward(r)) /\ WF_vars(Timeout(r))

FairSpec == Spec /\ Fairness

-----------------------------------------------------------------------------
(* Properties *)

\* Types; a client that was told "ok" got a response.
TypeOK ==
    /\ pc \in [Requests -> {"sent", "lost"} \cup Inside \cup Told]
    /\ handler \in [Requests -> {"none", "over"} \cup Running]
    /\ done \subseteq Requests
    /\ answer \in [Requests -> Requests \cup {None}]
    /\ cached \in [Workers -> [Urls -> Requests \cup {None}]]
    /\ crashes \in 0..MaxCrashes
    /\ \A r \in Requests : pc[r] = "ok" => answer[r] # None

\* A success, replayed or not, is the response of a request for the same URL
\* that the same worker handled and that took effect, however handlers,
\* timeouts, failures and restarts interleave (CacheInterceptor outside
\* ErrorResponseInterceptor: errors are not kept).
SuccessTookEffect ==
    \A r \in Requests : pc[r] = "ok" =>
        /\ answer[r] \in done
        /\ UrlOf[answer[r]] = UrlOf[r] /\ WorkerOf[answer[r]] = WorkerOf[r]

\* No client gets a response whose own client was told 408 or 500: a handler that
\* outlives its timeout may commit, but its late response reaches nobody
\* (CacheInterceptor outside TimeoutInterceptor).
LateIsNeverReplayed ==
    \A r \in Requests : pc[r] = "ok" => pc[answer[r]] = "ok"

\* After a worker's first success for a URL no request for that URL gets past its
\* cache to a handler, until some worker is restarted: a retry of a request that
\* succeeded has no second effect there, and handlers already under way are the
\* only ones that still commit (CacheInterceptor).
SucceededIsNotRepeated ==
    [][\A r \in Requests :
        (handler[r] = "none" /\ handler'[r] = "running" /\ crashes = 0) =>
            ~ \E q \in Requests :
                pc[q] = "ok" /\ UrlOf[q] = UrlOf[r] /\ WorkerOf[q] = WorkerOf[r]]_vars

\* A request that passed the middleware is answered, or lost in a crash, even
\* when its handler waits for ever (TimeoutInterceptor).
AdmittedIsTold ==
    \A r \in Requests : pc[r] = "resolved" ~> pc[r] \in Told \cup {"lost"}

-----------------------------------------------------------------------------
(* What the code does not provide (checked by a run that expects a violation) *)

\* README.md: "POST /products : create product in tenant schema", and the like
\* for every other POST: a request that was answered with a success was handled.
SuccessMeansHandled == \A r \in Requests : pc[r] = "ok" => r \in done
=============================================================================
