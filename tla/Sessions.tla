------------------------------- MODULE Sessions -------------------------------
(***************************************************************************)
(* POST /auth/login behind the Gateway: AuthService.login, the tokens that *)
(* TokenService issues, the one refresh record per user in Redis, and the  *)
(* connection each worker has to Redis.  Every other request keeps the     *)
(* abstract handler of Gateway.                                            *)
(*                                                                         *)
(* A token, and the hash of it, is identified by the login it was issued   *)
(* to.  The clock counts milliseconds.                                     *)
(***************************************************************************)
EXTENDS Gateway

CONSTANTS
    Logins,             \* the requests that are POST /auth/login
    Users,
    UserOf,             \* login -> the user whose e-mail it gives
    Activated,          \* logins that find a users row with activated_at
    PasswordOk,         \* logins whose password argon2 verifies
    AccessExpires,      \* the digits of JWT_ACCESS_EXPIRES
    RefreshExpires,     \* the digits of JWT_REFRESH_EXPIRES
    RetryLimit,         \* retryStrategy gives up after so many attempts
    PerRequest,         \* maxRetriesPerRequest
    TokenOf,            \* bearer -> the login whose access token it carries
    Instants,           \* bound: the readings of the clock
    MaxMishaps          \* bound: connections to Redis that close, and crashes

\* REDIS_TTL, in seconds
OTP_TTL == 60 * 10
RefreshTtlMutOtp == OTP_TTL
REFRESH_TTL == 60 * 60 * 24 * 7

\* The number of seconds that jsonwebtoken makes of expiresIn, a string of
\* digits: ms() reads it as milliseconds, the sum with iat is rounded down.
Lifetime(digits) == digits \div 1000

ASSUME LoginsAssumption ==
    /\ Logins \subseteq Scoped \cap Unguarded /\ Logins \cap Bearers = {}
    /\ TokenOf \in [Bearers -> Logins]
    /\ UserOf \in [Logins -> Users]
    /\ Activated \subseteq Logins /\ PasswordOk \subseteq Logins
ASSUME LimitsAssumption ==
    /\ AccessExpires \in Nat /\ RefreshExpires \in Nat
    /\ RefreshExpires \leq 7 * 24 * 60 * 60 * 1000
    /\ RetryLimit \in Nat /\ PerRequest \in Nat
    /\ Instants \subseteq Nat /\ 0 \in Instants
    /\ MaxMishaps \in Nat

VARIABLES
    step,               \* what each login's handler awaits
    signed,             \* the instant a login's tokens were signed at
    earlier,            \* history: the logins that were over when one began
    record,             \* user -> the login whose token hash Redis keeps
    keptUntil,          \* user -> the instant the record expires at
    conn,               \* per worker: the connection to Redis
    attempts,           \* per worker: retryAttempts
    now,                \* the clock
    outages

tokens == <<signed, earlier>>
redis == <<record, keptUntil>>
links == <<conn, attempts>>
login == <<step, tokens, redis, links, now, outages>>
sessionVars == <<vars, login>>

\* "queued" and "executed": the SET waits for its answer; Redis has executed it
\* over the present connection, or not.
Steps == {"none", "query", "verify", "queued", "executed", "rejected", "over"}
InFlight == {"queued", "executed"}

SessionInit ==
    /\ Init
    /\ step = [l \in Logins |-> "none"]
    /\ signed = [l \in Logins |-> 0]
    /\ earlier = [l \in Logins |-> {}]
    /\ record = [u \in Users |-> None]
    /\ keptUntil = [u \in Users |-> 0]
    /\ conn = [w \in Workers |-> "ready"]
    /\ attempts = [w \in Workers |-> 0]
    /\ now = 0 /\ outages = 0

GoOn(l, next) == step' = [step EXCEPT ![l] = next]

-----------------------------------------------------------------------------
(* AuthService.login                                                         *)

\* The guard and the interceptors let the request through to the handler.
StartLogin(l) ==
    /\ Handle(l)
    /\ GoOn(l, "query")
    /\ earlier' = [earlier EXCEPT ![l] = {m \in Logins : handler[m] = "over"}]
    /\ UNCHANGED <<signed, redis, links, now, outages>>

\* A tenant, a row of it, activated_at; else 400, 401, 403 (LoginFails)
FindUser(l) ==
    /\ step[l] = "query"
    /\ SlugOf[l] # None /\ l \in Activated
    /\ GoOn(l, "verify")
    /\ UNCHANGED <<vars, tokens, redis, links, now, outages>>

\* set() not awaited: login answers while the command is on its way.
IssueTokensMutNotAwaited(l) ==
    /\ step[l] = "verify" /\ l \in PasswordOk
    /\ signed' = [signed EXCEPT ![l] = now]
    /\ GoOn(l, "queued")
    /\ Handler(l, "over")
    /\ IF pc[l] = "open"
       THEN Goto(l, "ok") /\ answer' = [answer EXCEPT ![l] = l]
       ELSE UNCHANGED <<pc, answer>>
    /\ UNCHANGED <<done, cached, crashes, earlier, redis, links, now, outages>>

\* A client that has given up queues commands like one that reconnects.
IssueTokensMutQueuesAlways(l) ==
    /\ step[l] = "verify" /\ l \in PasswordOk
    /\ signed' = [signed EXCEPT ![l] = now]
    /\ GoOn(l, "queued")
    /\ UNCHANGED <<vars, earlier, redis, links, now, outages>>

\* verify() resolves to true.  The UPDATE of last_login_at is sent off and not
\* awaited; both tokens are signed; redis.set is called, and rejects at once
\* when the client has given up on the connection.
IssueTokens(l) ==
    /\ step[l] = "verify" /\ l \in PasswordOk
    /\ signed' = [signed EXCEPT ![l] = now]
    /\ GoOn(l, IF conn[WorkerOf[l]] = "end" THEN "rejected" ELSE "queued")
    /\ UNCHANGED <<vars, earlier, redis, links, now, outages>>

\* The SET of a login that is over is sent again after a reconnection.
ExecuteSetMutAgain(l) ==
    /\ step[l] \in {"queued", "over"} /\ conn[WorkerOf[l]] = "ready"
    /\ record' = [record EXCEPT ![UserOf[l]] = l]
    /\ keptUntil' = [keptUntil EXCEPT ![UserOf[l]] = now + REFRESH_TTL * 1000]
    /\ GoOn(l, "executed")
    /\ IF handler[l] = "running" THEN Commit(l) ELSE UNCHANGED vars
    /\ UNCHANGED <<tokens, links, now, outages>>

\* SET refresh-token:<userId> ... EX: a first time, or again after the
\* connection closed before the answer.
ExecuteSet(l) ==
    /\ step[l] = "queued" /\ conn[WorkerOf[l]] = "ready"
    /\ record' = [record EXCEPT ![UserOf[l]] = l]
    /\ keptUntil' = [keptUntil EXCEPT ![UserOf[l]] = now + REFRESH_TTL * 1000]
    /\ GoOn(l, "executed")
    /\ IF handler[l] = "running" THEN Commit(l) ELSE UNCHANGED vars
    /\ UNCHANGED <<tokens, links, now, outages>>

\* The UPDATE of last_login_at awaited at the end: it names a column that the
\* table does not have.
AnswerLoginMutAwaitsUpdate(l) ==
    /\ step[l] = "executed"
    /\ Throw(l)
    /\ GoOn(l, "over")
    /\ UNCHANGED <<tokens, redis, links, now, outages>>

\* OK arrives: issueToken and login return.
AnswerLogin(l) ==
    /\ step[l] = "executed"
    /\ Return(l)
    /\ GoOn(l, "over")
    /\ UNCHANGED <<tokens, redis, links, now, outages>>

\* No tenant, no such user, not activated, wrong password; a statement or
\* getDataSource fails; the SET was rejected.
LoginFails(l) ==
    /\ step[l] \in {"query", "verify", "rejected"}
    /\ Throw(l)
    /\ GoOn(l, "over")
    /\ UNCHANGED <<tokens, redis, links, now, outages>>

-----------------------------------------------------------------------------
(* The Redis client of a worker (redis.module.ts)                            *)

Waiting(w) == {l \in Logins : WorkerOf[l] = w /\ step[l] \in InFlight}

GivesUpMutNever(n) == FALSE

\* retryStrategy(times): null once times > 10
GivesUp(n) == n > RetryLimit

FlushedMutNever(n) == FALSE

\* After the n-th attempt the waiting commands are rejected.
Flushed(n) == GivesUp(n) \/ n % (PerRequest + 1) = 0

\* What is not rejected is sent again over the next connection.
Closed(w) ==
    LET n == attempts[w] + 1 IN
    /\ attempts' = [attempts EXCEPT ![w] = n]
    /\ conn' = [conn EXCEPT ![w] = IF GivesUp(n) THEN "end" ELSE "reconnecting"]
    /\ step' = [l \in Logins |-> IF l \notin Waiting(w) THEN step[l]
                                 ELSE IF Flushed(n) THEN "rejected" ELSE "queued"]
    /\ UNCHANGED <<vars, tokens, redis, now>>

ConnectionCloses(w) ==
    /\ outages + crashes < MaxMishaps /\ outages' = outages + 1
    /\ conn[w] = "ready"
    /\ Closed(w)

ReconnectFails(w) ==
    /\ conn[w] = "reconnecting"
    /\ Closed(w)
    /\ UNCHANGED outages

\* "ready": retryAttempts is reset
Reconnects(w) ==
    /\ conn[w] = "reconnecting"
    /\ conn' = [conn EXCEPT ![w] = "ready"]
    /\ attempts' = [attempts EXCEPT ![w] = 0]
    /\ UNCHANGED <<vars, step, tokens, redis, now, outages>>

-----------------------------------------------------------------------------
(* The tokens                                                                *)

Second(t) == t \div 1000

\* jsonwebtoken: exp is compared with the clock in whole seconds.
Expired(l, digits) == Second(now) \geq Second(signed[l]) + Lifetime(digits)

\* Some client got the response with the tokens of login l, kept or not.
HandedOut(l) == \E q \in Logins : pc[q] = "ok" /\ answer[q] = l

\* What AccessJwtStrategy finds of a bearer's token.
TokenExpired(b) == Expired(TokenOf[b], AccessExpires)

-----------------------------------------------------------------------------
(* The environment                                                           *)

TimePasses ==
    /\ now' \in {t \in Instants : t > now}
    /\ UNCHANGED <<vars, step, tokens, redis, links, outages>>

\* A worker dies, with its commands, and is restarted with a new client.
SessionCrash(w) ==
    /\ outages + crashes < MaxMishaps /\ Crash(w)
    /\ step' = [l \in Logins |-> IF WorkerOf[l] = w /\ step[l] # "none"
                                 THEN "over" ELSE step[l]]
    /\ conn' = [conn EXCEPT ![w] = "ready"]
    /\ attempts' = [attempts EXCEPT ![w] = 0]
    /\ UNCHANGED <<tokens, redis, now, outages>>

-----------------------------------------------------------------------------

LoginStep(l) ==
    FindUser(l) \/ IssueTokens(l) \/ ExecuteSet(l) \/ AnswerLogin(l) \/ LoginFails(l)

Login(l) ==
    \/ StartLogin(l) \/ LoginStep(l)
    \/ (Resolve(l) \/ LookupFails(l) \/ Reject(l) \/ Replay(l) \/ Timeout(l))
       /\ UNCHANGED login

\* Any other request, sent once its client has its token, if it carries one
Other(r) ==
    /\ r \in Bearers => HandedOut(TokenOf[r])
    /\ \/ Resolve(r) \/ LookupFails(r) \/ Outward(r) \/ Timeout(r)
       \/ Reject(r) /\ (r \in Bearers => TokenExpired(r))
       \/ (Replay(r) \/ Handle(r)) /\ (r \in Bearers => ~TokenExpired(r))
    /\ UNCHANGED login

Reconnect(w) == ReconnectFails(w) \/ Reconnects(w)

SessionNext ==
    \/ \E l \in Logins : Login(l)
    \/ \E r \in Requests \ Logins : Other(r)
    \/ \E w \in Workers : ConnectionCloses(w) \/ Reconnect(w) \/ SessionCrash(w)
    \/ TimePasses

SessionSpec == SessionInit /\ [][SessionNext]_sessionVars

\* A handler's promises settle; the client's timer for the next attempt fires;
\* on the way in and the timeout as in Gateway.  Nothing is assumed of handlers
\* of other requests, outages and crashes.
SessionFairness ==
    /\ \A l \in Logins :
          /\ WF_sessionVars(LoginStep(l))
          /\ WF_sessionVars(pc[l] = "resolved" /\ Login(l))
    /\ \A r \in Requests \ Logins : WF_sessionVars(pc[r] = "resolved" /\ Other(r))
    /\ \A r \in Requests : WF_sessionVars(Timeout(r) /\ UNCHANGED login)
    /\ \A w \in Workers : WF_sessionVars(Reconnect(w))

FairSessionSpec == SessionSpec /\ SessionFairness

-----------------------------------------------------------------------------
(* Properties *)

\* Types.
SessionTypeOK ==
    /\ TypeOK
    /\ step \in [Logins -> Steps]
    /\ signed \in [Logins -> Instants]
    /\ earlier \in [Logins -> SUBSET Logins]
    /\ record \in [Users -> Logins \cup {None}]
    /\ keptUntil \in [Users -> Nat]
    /\ conn \in [Workers -> {"ready", "reconnecting", "end"}]
    /\ attempts \in [Workers -> 0..(RetryLimit + 1)]
    /\ now \in Instants
    /\ outages \in 0..MaxMishaps

\* Once a login has stored its hash, Redis never again holds the hash of a login
\* of that user which was over when this one began: SETs that are sent again
\* after a reconnection, handlers that outlive their 408, rejected commands and
\* crashes bring nothing back (createToken awaits redis.set).
RecordNeverGoesBack ==
    \A l \in done \cap Logins : record[UserOf[l]] \notin earlier[l]

\* While no connection to Redis closes and no worker dies, the record is that of
\* a login that hands its token out, or whose client was told 408 meanwhile.
UnheldRecordHasCause ==
    (outages = 0 /\ crashes = 0) =>
        \A u \in Users : record[u] # None =>
            step[record[u]] = "executed" \/ pc[record[u]] \in {"ok", "timeout"}

\* As long as the refresh token behind a record has not expired, neither has the
\* record, however late the SET was executed (REDIS_TTL.REFRESH_TOKEN against
\* JWT_REFRESH_EXPIRES).
RecordOutlivesToken ==
    \A u \in Users :
        record[u] # None /\ ~Expired(record[u], RefreshExpires) => now < keptUntil[u]

\* No request is served under a token whose login Redis has not heard of: hashes
\* are stored before tokens are handed out, also when they come from the cache.
ServedSessionWasStored ==
    \A b \in Bearers : handler[b] # "none" => TokenOf[b] \in done

\* When a worker's client has given up on Redis, which it does for good, no login
\* of that worker waits for it: neither one whose command was on its way, over
\* whichever connection, nor one that comes to redis.set later.
GivenUpHasNoneWaiting == \A w \in Workers : conn[w] = "end" => Waiting(w) = {}

\* A login's handler comes to an end, although its command may be sent again and
\* again and the connection may never come back: maxRetriesPerRequest and
\* retryStrategy reject what still waits.
LoginSettles == \A l \in Logins : step[l] = "query" ~> step[l] = "over"

\* The login handler is one of Gateway's handlers: it takes effect with its first
\* SET and answers after that.
ImplementsGateway == Spec

-----------------------------------------------------------------------------
(* What the code does not provide (checked by a run that expects a violation) *)

\* README.md: "JWT_ACCESS_EXPIRES=900", which token.service.ts reads as a number,
\* of seconds for jsonwebtoken: for that long a token that login handed out is
\* not refused.
UnexpiredTokenPasses ==
    [][\A b \in Bearers : pc[b] = "resolved" /\ pc'[b] = "error" =>
          Second(now) \geq Second(signed[TokenOf[b]]) + AccessExpires]_sessionVars
=============================================================================
