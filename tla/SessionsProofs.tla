---------------------------- MODULE SessionsProofs ----------------------------
(***************************************************************************)
(* Theorems about Sessions, for any logins, users, bearers, workers,       *)
(* lifetimes and limits.                                                   *)
(*                                                                         *)
(* Every step is one of Gateway's or leaves Gateway alone, so what         *)
(* GatewayProofs shows holds here.  ControlInv ties a login's step to its  *)
(* handler, RecordInv the record in Redis to the login that wrote it.      *)
(***************************************************************************)
EXTENDS Sessions, GatewayProofs

-----------------------------------------------------------------------------
(* Sessions implements Gateway                                               *)

\* A step of Sessions is a step of Gateway, or changes nothing of it.
LEMMA GatewayStep == [SessionNext]_sessionVars => [Next]_vars
<1> SUFFICES ASSUME [SessionNext]_sessionVars PROVE [Next]_vars
    OBVIOUS
<1> USE LoginsAssumption, RoutingAssumption
<1>1. ASSUME NEW l \in Logins, Login(l) PROVE [Next]_vars
    BY <1>1 DEF Login, StartLogin, LoginStep, FindUser, IssueTokens, ExecuteSet,
                AnswerLogin, LoginFails, Next, Inward, Outward
<1>2. ASSUME NEW r \in Requests \ Logins, Other(r) PROVE [Next]_vars
    BY <1>2 DEF Other, Next, Inward, Outward
<1>3. ASSUME NEW w \in Workers, ConnectionCloses(w) \/ Reconnect(w) \/ SessionCrash(w)
      PROVE [Next]_vars
    BY <1>3 DEF ConnectionCloses, Reconnect, ReconnectFails, Reconnects, Closed,
                SessionCrash, Next
<1>4. CASE TimePasses
    BY <1>4 DEF TimePasses
<1>5. CASE UNCHANGED sessionVars
    BY <1>5 DEF sessionVars, vars
<1> QED
    BY <1>1, <1>2, <1>3, <1>4, <1>5 DEF SessionNext

\* The login handler is one of Gateway's handlers: it takes effect with its first
\* SET and answers after that.
THEOREM GatewayImplemented == SessionSpec => ImplementsGateway
<1>1. SessionInit => Init
    BY DEF SessionInit
<1> QED
    BY <1>1, GatewayStep, PTL DEF SessionSpec, Spec, ImplementsGateway

\* What the Gateway guarantees for every handler holds behind it.
LEMMA GatewayCorrect == SessionSpec => [](TypeOK /\ GateInv)
BY GatewayImplemented, TypeCorrect, GateCorrect, PTL DEF ImplementsGateway

-----------------------------------------------------------------------------
(* Types                                                                     *)

\* The attempts of a client that has not given up are within the limit: what
\* keeps retryAttempts from growing for ever.
WithinLimit == \A w \in Workers : conn[w] # "end" => attempts[w] \leq RetryLimit

Typed == SessionTypeOK /\ WithinLimit

\* The initial state has the types.
LEMMA InitSessionType == SessionInit => Typed
BY InitType, LoginsAssumption, LimitsAssumption
   DEF SessionInit, SessionTypeOK, Steps, Typed, WithinLimit

\* Every step keeps the types.
LEMMA StepSessionType == Typed /\ [SessionNext]_sessionVars => Typed'
<1> SUFFICES ASSUME SessionTypeOK, WithinLimit, [SessionNext]_sessionVars PROVE Typed'
    BY DEF Typed
<1> USE LoginsAssumption, LimitsAssumption, RoutingAssumption, BoundAssumption
        DEF Steps, GoOn, WithinLimit
<1>0. TypeOK'
    BY GatewayStep, StepType DEF SessionTypeOK
<1> DEFINE Rest ==
    /\ step \in [Logins -> Steps]
    /\ signed \in [Logins -> Instants]
    /\ earlier \in [Logins -> SUBSET Logins]
    /\ record \in [Users -> Logins \cup {None}]
    /\ keptUntil \in [Users -> Nat]
    /\ conn \in [Workers -> {"ready", "reconnecting", "end"}]
    /\ attempts \in [Workers -> 0..(RetryLimit + 1)]
    /\ now \in Instants
    /\ outages \in 0..MaxMishaps
    /\ WithinLimit
<1>1. Rest
    BY DEF SessionTypeOK
<1>2. SUFFICES Rest'
    BY <1>0, <1>2 DEF SessionTypeOK, Typed
<1>3. CASE UNCHANGED login
    BY <1>1, <1>3 DEF login, tokens, redis, links
<1>4. ASSUME NEW l \in Logins, StartLogin(l) PROVE Rest'
    BY <1>1, <1>4 DEF StartLogin, redis, links
<1>5. ASSUME NEW l \in Logins, FindUser(l) PROVE Rest'
    BY <1>1, <1>5 DEF FindUser, tokens, redis, links
<1>6. ASSUME NEW l \in Logins, IssueTokens(l) PROVE Rest'
    BY <1>1, <1>6 DEF IssueTokens, redis, links
<1>7. ASSUME NEW l \in Logins, ExecuteSet(l) PROVE Rest'
    <2>1. now + REFRESH_TTL * 1000 \in Nat
        BY <1>1 DEF REFRESH_TTL
    <2> HIDE DEF REFRESH_TTL
    <2> QED
        BY <1>1, <1>7, <2>1 DEF ExecuteSet, tokens, links
<1>8. ASSUME NEW l \in Logins, AnswerLogin(l) \/ LoginFails(l) PROVE Rest'
    BY <1>1, <1>8 DEF AnswerLogin, LoginFails, tokens, redis, links
<1>9. ASSUME NEW w \in Workers, Closed(w), conn[w] # "end", outages' \in 0..MaxMishaps
      PROVE Rest'
    BY <1>1, <1>9 DEF Closed, GivesUp, tokens, redis
<1>10. ASSUME NEW w \in Workers, Reconnects(w) PROVE Rest'
    BY <1>1, <1>10 DEF Reconnects, tokens, redis
<1>11. ASSUME NEW w \in Workers, SessionCrash(w) PROVE Rest'
    BY <1>1, <1>11 DEF SessionCrash, tokens, redis
<1>12. CASE TimePasses
    BY <1>1, <1>12 DEF TimePasses, tokens, redis, links
<1>13. ASSUME NEW w \in Workers, ConnectionCloses(w) PROVE Rest'
    <2>1. outages' \in 0..MaxMishaps
        <3>1. crashes \in Nat /\ outages \in Nat
            BY <1>1 DEF SessionTypeOK, TypeOK
        <3> QED
            BY <1>13, <3>1 DEF ConnectionCloses
    <2> QED
        BY <1>9, <1>13, <2>1 DEF ConnectionCloses
<1>14. ASSUME NEW w \in Workers, ReconnectFails(w) PROVE Rest'
    <2>1. outages' \in 0..MaxMishaps
        BY <1>1, <1>14 DEF ReconnectFails
    <2> QED
        BY <1>9, <1>14, <2>1 DEF ReconnectFails
<1>15. ASSUME NEW l \in Logins, Login(l) PROVE Rest'
    BY <1>3, <1>4, <1>5, <1>6, <1>7, <1>8, <1>15 DEF Login, LoginStep
<1> QED
    BY <1>3, <1>10, <1>11, <1>12, <1>13, <1>14, <1>15
       DEF SessionNext, Other, Reconnect, sessionVars

\* They hold in every reachable state.
LEMMA AlwaysTyped == SessionSpec => []Typed
<1>1. SessionInit => Typed
    BY InitSessionType
<1>2. Typed /\ [SessionNext]_sessionVars => Typed'
    BY StepSessionType
<1> QED
    BY <1>1, <1>2, PTL DEF SessionSpec

\* Types; retryAttempts stays within its limit.
THEOREM SessionTypeCorrect == SessionSpec => []SessionTypeOK
<1>1. Typed => SessionTypeOK
    BY DEF Typed
<1> QED
    BY <1>1, AlwaysTyped, PTL

-----------------------------------------------------------------------------
(* A login's step, its handler and its request                               *)

\* What a login awaits says how far Gateway sees its handler.
HandlersAgree ==
    \A l \in Logins :
        /\ step[l] = "none" <=> handler[l] = "none"
        /\ step[l] = "over" <=> handler[l] = "over"
        /\ step[l] \in {"query", "verify"} => handler[l] = "running"
        /\ step[l] = "executed" => handler[l] = "committed"

\* A login that has not come to its handler has none; a handler that runs was
\* let in, and is not answered yet, but with 408.
LetIn ==
    \A l \in Logins :
        /\ pc[l] \in {"sent", "resolved"} => handler[l] = "none"
        /\ handler[l] \in Running => pc[l] \in {"open", "timeout"}

\* The effect is the SET, which comes after the tokens.
DoneIsLate ==
    \A l \in Logins \cap done : step[l] \notin {"none", "query", "verify"}

EarlierIsOver == \A l \in Logins, m \in Logins : m \in earlier[l] => handler[m] = "over"

\* While no connection has closed, no command is rejected or sent again.
Undisturbed ==
    outages = 0 =>
        /\ \A w \in Workers : conn[w] = "ready"
        /\ \A l \in Logins : step[l] # "rejected"
        /\ \A l \in Logins \cap done : step[l] # "queued"

ControlInv == HandlersAgree /\ LetIn /\ DoneIsLate /\ EarlierIsOver /\ Undisturbed

\* At first nothing has begun.
LEMMA InitControl == SessionInit => ControlInv
BY LoginsAssumption, RoutingAssumption
   DEF SessionInit, Init, ControlInv, HandlersAgree, LetIn, DoneIsLate,
       EarlierIsOver, Undisturbed, Running

\* Every step keeps ControlInv.
LEMMA StepControl == Typed /\ ControlInv /\ [SessionNext]_sessionVars => ControlInv'
<1> SUFFICES ASSUME Typed, ControlInv, [SessionNext]_sessionVars PROVE ControlInv'
    OBVIOUS
<1> USE LoginsAssumption, LimitsAssumption, RoutingAssumption
        DEF ControlInv, HandlersAgree, LetIn, DoneIsLate, EarlierIsOver, Undisturbed,
            Running, GoOn, Goto, Handler
<1>t. /\ step \in [Logins -> Steps] /\ conn \in [Workers -> {"ready", "reconnecting", "end"}]
      /\ earlier \in [Logins -> SUBSET Logins] /\ outages \in Nat
      /\ pc \in [Requests -> {"sent", "lost"} \cup Inside \cup Told]
      /\ handler \in [Requests -> {"none", "over"} \cup Running]
      /\ Logins \subseteq Requests
    BY DEF Typed, SessionTypeOK, TypeOK
<1>1. ASSUME NEW l \in Logins, StartLogin(l) PROVE ControlInv'
    BY <1>1, <1>t DEF StartLogin, Handle, redis, links
<1>2. ASSUME NEW l \in Logins, FindUser(l) \/ IssueTokens(l) PROVE ControlInv'
    BY <1>2, <1>t DEF FindUser, IssueTokens, vars, tokens, redis, links
<1>3. ASSUME NEW l \in Logins, ExecuteSet(l) PROVE ControlInv'
    BY <1>3, <1>t DEF ExecuteSet, Commit, vars, tokens, links
<1>4. ASSUME NEW l \in Logins, AnswerLogin(l) PROVE ControlInv'
    BY <1>4, <1>t DEF AnswerLogin, Return, tokens, redis, links
<1>5. ASSUME NEW l \in Logins, LoginFails(l) PROVE ControlInv'
    BY <1>5, <1>t DEF LoginFails, Throw, tokens, redis, links
<1>6. ASSUME NEW l \in Logins, UNCHANGED login,
             Resolve(l) \/ LookupFails(l) \/ Reject(l) \/ Replay(l) \/ Timeout(l)
      PROVE ControlInv'
    BY <1>6, <1>t DEF login, Resolve, LookupFails, Reject, Replay, Timeout,
                      tokens, redis, links
<1>7. ASSUME NEW r \in Requests \ Logins, Other(r) PROVE ControlInv'
    <2>1. \A l \in Logins : pc'[l] = pc[l] /\ handler'[l] = handler[l]
        BY <1>7, <1>t DEF Other, Resolve, LookupFails, Outward, Timeout, Reject, Replay,
                    Handle, Commit, Return, Throw
    <2>2. Logins \cap done' = Logins \cap done
        BY <1>7 DEF Other, Resolve, LookupFails, Outward, Timeout, Reject, Replay,
                    Handle, Commit, Return, Throw
    <2>3. UNCHANGED login
        BY <1>7 DEF Other
    <2> QED
        BY <2>1, <2>2, <2>3 DEF login, tokens, redis, links
<1>8. ASSUME NEW w \in Workers, ConnectionCloses(w) \/ ReconnectFails(w)
      PROVE ControlInv'
    <2>1. outages' # 0
        BY <1>8, <1>t DEF ConnectionCloses, ReconnectFails
    <2>2. /\ UNCHANGED <<vars, tokens>>
          /\ step' = [l \in Logins |-> IF l \notin Waiting(w) THEN step[l]
                          ELSE IF Flushed(attempts[w] + 1) THEN "rejected" ELSE "queued"]
        BY <1>8 DEF ConnectionCloses, ReconnectFails, Closed
    <2>3. HandlersAgree' /\ LetIn' /\ DoneIsLate' /\ EarlierIsOver'
        BY <2>2, <1>t DEF vars, tokens, Waiting, InFlight
    <2> QED
        BY <2>1, <2>3
<1>9. ASSUME NEW w \in Workers, Reconnects(w) PROVE ControlInv'
    BY <1>9, <1>t DEF Reconnects, vars, tokens, redis
<1>10. ASSUME NEW w \in Workers, SessionCrash(w) PROVE ControlInv'
    BY <1>10, <1>t DEF SessionCrash, Crash, tokens, redis, Inside
<1>11. CASE TimePasses \/ UNCHANGED sessionVars
    BY <1>11, <1>t DEF TimePasses, sessionVars, login, vars, tokens, redis, links
<1> QED
    BY <1>1, <1>2, <1>3, <1>4, <1>5, <1>6, <1>7, <1>8, <1>9, <1>10, <1>11
       DEF SessionNext, Login, LoginStep, Reconnect

\* ControlInv holds in every reachable state.
LEMMA ControlCorrect == SessionSpec => []ControlInv
<1>1. SessionInit => ControlInv
    BY InitControl
<1>2. Typed /\ ControlInv /\ [SessionNext]_sessionVars => ControlInv'
    BY StepControl
<1> QED
    BY <1>1, <1>2, AlwaysTyped, PTL DEF SessionSpec

-----------------------------------------------------------------------------
(* The record                                                                *)

\* The record of a user is one that a login of that user has stored.
RecordIsStored ==
    \A u \in Users : record[u] # None => record[u] \in Logins \cap done /\ UserOf[record[u]] = u

\* A stored login, while nothing disturbs it, is on its way to its client.
StoredIsHeld ==
    (outages = 0 /\ crashes = 0) =>
        \A l \in Logins \cap done : step[l] = "executed" \/ pc[l] \in {"ok", "timeout"}

SignedInThePast == \A l \in Logins : signed[l] \leq now

\* The TTL runs from the execution of the SET, not before the signature.
KeptFromSignature ==
    \A u \in Users :
        record[u] # None => signed[record[u]] + REFRESH_TTL * 1000 \leq keptUntil[u]

RecordInv ==
    /\ RecordIsStored /\ StoredIsHeld /\ SignedInThePast /\ KeptFromSignature
    /\ RecordNeverGoesBack /\ ServedSessionWasStored

\* The clock and what is signed are numbers.
LEMMA InstantsAreNat ==
    ASSUME SessionTypeOK
    PROVE  /\ signed \in [Logins -> Nat]
           /\ now \in Nat
           /\ \A b \in Bearers : TokenOf[b] \in Logins /\ signed[TokenOf[b]] \in Nat
<1>1. signed \in [Logins -> Nat] /\ now \in Nat
    <2>1. Instants \subseteq Nat
        BY LimitsAssumption
    <2>2. signed \in [Logins -> Instants] /\ now \in Instants
        BY DEF SessionTypeOK
    <2> QED
        BY <2>1, <2>2
<1>2. \A b \in Bearers : TokenOf[b] \in Logins
    BY LoginsAssumption
<1> QED
    BY <1>1, <1>2

\* At first Redis has no record.
LEMMA InitRecord == SessionInit => RecordInv
<1> SUFFICES ASSUME SessionInit PROVE RecordInv
    OBVIOUS
<1> USE LoginsAssumption, LimitsAssumption, RoutingAssumption DEF SessionInit, Init
<1>1. RecordIsStored /\ KeptFromSignature
    BY DEF RecordIsStored, KeptFromSignature
<1>2. StoredIsHeld /\ RecordNeverGoesBack
    BY DEF StoredIsHeld, RecordNeverGoesBack
<1>3. SignedInThePast
    BY DEF SignedInThePast
<1>4. ServedSessionWasStored
    BY DEF ServedSessionWasStored
<1> QED
    BY <1>1, <1>2, <1>3, <1>4 DEF RecordInv

\* What happens to a request with a token happens by a step of its own, or by the
\* end of its worker.
LEMMA BearerStep ==
    ASSUME TypeOK, [SessionNext]_sessionVars, NEW b \in Bearers
    PROVE  \/ Other(b)
           \/ \E w \in Workers : SessionCrash(w)
           \/ pc'[b] = pc[b] /\ handler'[b] = handler[b]
<1> USE LoginsAssumption, RoutingAssumption DEF Goto, Handler
<1>t. /\ pc \in [Requests -> {"sent", "lost"} \cup Inside \cup Told]
      /\ handler \in [Requests -> {"none", "over"} \cup Running]
    BY DEF TypeOK
<1> DEFINE Same == pc'[b] = pc[b] /\ handler'[b] = handler[b]
<1>1. ASSUME NEW l \in Logins, Login(l) PROVE Same
    <2>1. l # b
        OBVIOUS
    <2>2. CASE StartLogin(l)
        BY <1>t, <2>1, <2>2 DEF StartLogin, Handle
    <2>3. CASE LoginStep(l)
        BY <1>t, <2>1, <2>3 DEF LoginStep, FindUser, IssueTokens, ExecuteSet,
              AnswerLogin, LoginFails, Commit, Return, Throw, vars
    <2>4. CASE Resolve(l) \/ LookupFails(l) \/ Reject(l) \/ Replay(l) \/ Timeout(l)
        BY <1>t, <2>1, <2>4 DEF Resolve, LookupFails, Reject, Replay, Timeout
    <2> QED
        BY <1>1, <2>2, <2>3, <2>4 DEF Login
<1>2. ASSUME NEW w \in Workers, ConnectionCloses(w) \/ Reconnect(w) PROVE Same
    BY <1>2 DEF ConnectionCloses, Reconnect, ReconnectFails, Reconnects, Closed, vars
<1>3. ASSUME TimePasses \/ UNCHANGED sessionVars PROVE Same
    BY <1>3 DEF TimePasses, sessionVars, vars
<1>4. ASSUME NEW r \in Requests \ Logins, Other(r), r # b PROVE Same
    BY <1>t, <1>4 DEF Other, Resolve, LookupFails, Outward, Timeout, Reject,
          Replay, Handle, Commit, Return, Throw
<1> QED
    BY <1>1, <1>2, <1>3, <1>4 DEF SessionNext

\* A request with a token is handled only after some client got that token, and
\* a response with it is that of a login that has stored its hash.
LEMMA StepServed ==
    TypeOK /\ GateInv /\ ServedSessionWasStored /\ [SessionNext]_sessionVars
        => ServedSessionWasStored'
<1> SUFFICES ASSUME TypeOK, GateInv, ServedSessionWasStored, [SessionNext]_sessionVars,
                    NEW b \in Bearers, handler'[b] # "none"
             PROVE TokenOf[b] \in done'
    BY DEF ServedSessionWasStored
<1> USE LoginsAssumption, RoutingAssumption DEF TypeOK
<1>1. [Next]_vars
    BY GatewayStep
<1>2. done \subseteq done'
    BY <1>1 DEF Next, Inward, Outward, Resolve, LookupFails, Reject, Replay, Handle,
                Commit, Return, Throw, Timeout, Crash, vars
<1>3. CASE handler[b] # "none"
    BY <1>2, <1>3 DEF ServedSessionWasStored
<1>4. CASE handler[b] = "none"
    <2>1. Other(b)
        BY <1>4, BearerStep DEF SessionCrash, Crash, Running
    <2>2. HandedOut(TokenOf[b])
        BY <2>1 DEF Other
    <2>3. TokenOf[b] \in done
        BY <2>2 DEF HandedOut, GateInv, AnswerIsSound, Sound
    <2> QED
        BY <1>2, <2>3
<1> QED
    BY <1>3, <1>4

\* Every step keeps RecordInv.
LEMMA StepRecord ==
    Typed /\ GateInv /\ ControlInv /\ RecordInv /\ [SessionNext]_sessionVars => RecordInv'
<1> SUFFICES ASSUME Typed, GateInv, ControlInv, RecordInv, [SessionNext]_sessionVars
             PROVE RecordInv'
    OBVIOUS
<1> USE LoginsAssumption, LimitsAssumption, RoutingAssumption DEF RecordInv, ControlInv
<1> DEFINE Rest == /\ RecordIsStored /\ StoredIsHeld /\ SignedInThePast
                   /\ KeptFromSignature /\ RecordNeverGoesBack
<1>t. /\ step \in [Logins -> Steps] /\ signed \in [Logins -> Nat] /\ now \in Nat
      /\ record \in [Users -> Logins \cup {None}] /\ keptUntil \in [Users -> Nat]
      /\ earlier \in [Logins -> SUBSET Logins] /\ outages \in Nat /\ crashes \in Nat
      /\ pc \in [Requests -> {"sent", "lost"} \cup Inside \cup Told]
      /\ Logins \subseteq Requests
    <2>1. signed \in [Logins -> Nat] /\ now \in Nat
        BY InstantsAreNat DEF Typed
    <2>2. outages \in Nat /\ crashes \in Nat
        BY BoundAssumption DEF Typed, SessionTypeOK, TypeOK
    <2> QED
        BY <2>1, <2>2 DEF Typed, SessionTypeOK, TypeOK
<1>0. SUFFICES Rest'
    <2>1. ServedSessionWasStored'
        BY StepServed DEF Typed, SessionTypeOK
    <2> QED
        BY <1>0, <2>1
\* Steps that change neither Redis nor what has been signed and stored.
<1>1. ASSUME UNCHANGED <<record, keptUntil, signed, earlier, now>>,
             done' \cap Logins = done \cap Logins
      PROVE (RecordIsStored /\ SignedInThePast /\ KeptFromSignature /\ RecordNeverGoesBack)'
    BY <1>1 DEF RecordIsStored, SignedInThePast, KeptFromSignature, RecordNeverGoesBack
<1>2. ASSUME NEW l \in Logins, StartLogin(l) PROVE Rest'
    <2>1. l \notin done
        BY <1>2 DEF StartLogin, Handle, DoneIsLate, HandlersAgree, LetIn
    <2>2. RecordIsStored' /\ SignedInThePast' /\ KeptFromSignature'
        BY <1>2 DEF StartLogin, Handle, redis, links,
                    RecordIsStored, SignedInThePast, KeptFromSignature
    <2>3. StoredIsHeld'
        BY <1>2, <1>t, <2>1 DEF StartLogin, Handle, Goto, GoOn, StoredIsHeld
    <2>4. RecordNeverGoesBack'
        BY <1>2, <1>t, <2>1 DEF StartLogin, Handle, redis, RecordNeverGoesBack
    <2> QED
        BY <2>2, <2>3, <2>4
<1>3. ASSUME NEW l \in Logins, FindUser(l) PROVE Rest'
    <2>1. StoredIsHeld'
        BY <1>3, <1>t DEF FindUser, GoOn, vars, StoredIsHeld, DoneIsLate
    <2> QED
        BY <1>1, <1>3, <2>1 DEF FindUser, vars, tokens, redis
<1>4. ASSUME NEW l \in Logins, IssueTokens(l) PROVE Rest'
    <2>1. l \notin done
        BY <1>4 DEF IssueTokens, DoneIsLate
    <2>2. SignedInThePast'
        BY <1>4, <1>t DEF IssueTokens, SignedInThePast
    <2>3. RecordIsStored' /\ RecordNeverGoesBack' /\ KeptFromSignature'
        BY <1>4, <1>t, <2>1 DEF IssueTokens, vars, redis,
                    RecordIsStored, RecordNeverGoesBack, KeptFromSignature
    <2>4. StoredIsHeld'
        BY <1>4, <1>t, <2>1 DEF IssueTokens, GoOn, vars, StoredIsHeld
    <2> QED
        BY <2>2, <2>3, <2>4
<1>5. ASSUME NEW l \in Logins, ExecuteSet(l) PROVE Rest'
    <2>1. /\ step[l] = "queued" /\ UserOf[l] \in Users
          /\ record' = [record EXCEPT ![UserOf[l]] = l]
          /\ keptUntil' = [keptUntil EXCEPT ![UserOf[l]] = now + REFRESH_TTL * 1000]
          /\ step' = [step EXCEPT ![l] = "executed"]
          /\ UNCHANGED <<signed, earlier, now, outages, pc, crashes>>
        BY <1>5 DEF ExecuteSet, GoOn, tokens, vars, Commit
    <2>2. done' = done \cup {l}
        <3>0. handler[l] \in {"none", "over"} \cup Running
            BY <1>t DEF Typed, SessionTypeOK, TypeOK
        <3>1. handler[l] \in Running
            BY <2>1, <3>0 DEF HandlersAgree
        <3>2. handler[l] = "committed" => l \in done
            BY <1>t DEF GateInv, CommittedIsDone
        <3> QED
            BY <1>5, <3>1, <3>2 DEF ExecuteSet, Commit, Running, vars
    <2>3. RecordIsStored'
        BY <2>1, <2>2, <1>t DEF RecordIsStored
    <2>4. StoredIsHeld'
        BY <2>1, <2>2, <1>t DEF StoredIsHeld
    <2>5. SignedInThePast'
        BY <2>1 DEF SignedInThePast
    <2>6. KeptFromSignature'
        <3>1. signed[l] + REFRESH_TTL * 1000 \leq now + REFRESH_TTL * 1000
            BY <1>t DEF SignedInThePast, REFRESH_TTL
        <3> QED
            BY <2>1, <1>t, <3>1 DEF KeptFromSignature
    <2>7. RecordNeverGoesBack'
        <3>1. \A k \in Logins : l \notin earlier[k]
            BY <2>1 DEF EarlierIsOver, HandlersAgree
        <3> QED
            BY <2>1, <2>2, <3>1, <1>t DEF RecordNeverGoesBack
    <2> QED
        BY <2>3, <2>4, <2>5, <2>6, <2>7
<1>6. ASSUME NEW l \in Logins, AnswerLogin(l) PROVE Rest'
    <2>1. pc[l] \in {"open", "timeout"}
        BY <1>6 DEF AnswerLogin, HandlersAgree, LetIn, Running
    <2>2. StoredIsHeld'
        BY <1>6, <1>t, <2>1 DEF AnswerLogin, Return, Goto, GoOn, StoredIsHeld
    <2> QED
        BY <1>1, <1>6, <2>2 DEF AnswerLogin, Return, tokens, redis
<1>7. ASSUME NEW l \in Logins, LoginFails(l) PROVE Rest'
    <2>1. outages = 0 => l \notin done
        BY <1>7 DEF LoginFails, DoneIsLate, Undisturbed
    <2>2. StoredIsHeld'
        BY <1>7, <1>t, <2>1 DEF LoginFails, Throw, Goto, GoOn, StoredIsHeld
    <2> QED
        BY <1>1, <1>7, <2>2 DEF LoginFails, Throw, tokens, redis
<1>8. ASSUME NEW l \in Logins, UNCHANGED login,
             Resolve(l) \/ LookupFails(l) \/ Reject(l) \/ Replay(l) \/ Timeout(l)
      PROVE Rest'
    <2>1. pc[l] \in {"sent", "resolved"} => l \notin done
        BY DEF LetIn, HandlersAgree, DoneIsLate
    <2>2. done' = done /\ UNCHANGED <<crashes, outages, step>>
        BY <1>8 DEF login, Resolve, LookupFails, Reject, Replay, Timeout
    <2>3. StoredIsHeld'
        BY <1>8, <1>t, <2>1, <2>2
           DEF Resolve, LookupFails, Reject, Replay, Timeout, Goto, StoredIsHeld
    <2> QED
        BY <1>1, <1>8, <2>2, <2>3 DEF login, tokens, redis
<1>9. ASSUME NEW r \in Requests \ Logins, Other(r) PROVE Rest'
    <2>1. /\ \A l \in Logins : pc'[l] = pc[l]
          /\ Logins \cap done' = Logins \cap done /\ UNCHANGED crashes
        BY <1>9, <1>t DEF Other, Resolve, LookupFails, Outward, Timeout, Reject, Replay,
                    Handle, Commit, Return, Throw, Goto
    <2>2. UNCHANGED login
        BY <1>9 DEF Other
    <2>3. StoredIsHeld'
        BY <2>1, <2>2 DEF login, StoredIsHeld
    <2> QED
        BY <1>1, <2>1, <2>2, <2>3 DEF login, tokens, redis
<1>10. ASSUME NEW w \in Workers, ConnectionCloses(w) \/ ReconnectFails(w) PROVE Rest'
    <2>1. outages' # 0
        BY <1>10, <1>t DEF ConnectionCloses, ReconnectFails, Undisturbed
    <2>2. UNCHANGED <<vars, tokens, redis, now>>
        BY <1>10 DEF ConnectionCloses, ReconnectFails, Closed
    <2>3. StoredIsHeld'
        BY <2>1 DEF StoredIsHeld
    <2> QED
        BY <1>1, <2>2, <2>3 DEF vars, tokens, redis
<1>11. ASSUME NEW w \in Workers, Reconnects(w) PROVE Rest'
    <2>1. UNCHANGED <<vars, step, tokens, redis, now, outages>>
        BY <1>11 DEF Reconnects
    <2>2. StoredIsHeld'
        BY <2>1 DEF vars, StoredIsHeld
    <2> QED
        BY <1>1, <2>1, <2>2 DEF vars, tokens, redis
<1>12. ASSUME NEW w \in Workers, SessionCrash(w) PROVE Rest'
    <2>1. crashes' # 0 /\ UNCHANGED <<done, tokens, redis, now>>
        BY <1>12, <1>t DEF SessionCrash, Crash
    <2>2. StoredIsHeld'
        BY <2>1 DEF StoredIsHeld
    <2> QED
        BY <1>1, <2>1, <2>2 DEF tokens, redis
<1>13. CASE TimePasses
    <2>1. now' \in Nat /\ now < now' /\ UNCHANGED <<vars, step, tokens, redis, outages>>
        BY <1>13 DEF TimePasses
    <2>2. RecordIsStored' /\ KeptFromSignature' /\ RecordNeverGoesBack' /\ StoredIsHeld'
        BY <2>1 DEF vars, tokens, redis, RecordIsStored, KeptFromSignature,
                    RecordNeverGoesBack, StoredIsHeld
    <2>3. SignedInThePast'
        BY <2>1, <1>t DEF tokens, SignedInThePast
    <2> QED
        BY <2>2, <2>3
<1>14. CASE UNCHANGED sessionVars
    <2>1. StoredIsHeld'
        BY <1>14 DEF sessionVars, vars, login, StoredIsHeld
    <2> QED
        BY <1>1, <1>14, <2>1 DEF sessionVars, vars, login, tokens, redis
<1> QED
    BY <1>2, <1>3, <1>4, <1>5, <1>6, <1>7, <1>8, <1>9, <1>10, <1>11, <1>12, <1>13, <1>14
       DEF SessionNext, Login, LoginStep, Reconnect

\* RecordInv holds in every reachable state.
LEMMA RecordCorrect == SessionSpec => []RecordInv
<1>1. SessionInit => RecordInv
    BY InitRecord
<1>2. Typed /\ GateInv /\ ControlInv /\ RecordInv /\ [SessionNext]_sessionVars
        => RecordInv'
    BY StepRecord
<1> QED
    BY <1>1, <1>2, AlwaysTyped, GatewayCorrect, ControlCorrect, PTL DEF SessionSpec

\* Once a login has stored its hash, Redis never again holds that of a login
\* which was over before, in spite of SETs that are sent again, late handlers and
\* crashes.
THEOREM RecordNeverGoesBackHolds == SessionSpec => []RecordNeverGoesBack
<1>1. RecordInv => RecordNeverGoesBack
    BY DEF RecordInv
<1> QED
    BY <1>1, RecordCorrect, PTL

\* No request is served under a token whose login Redis has not heard of.
THEOREM ServedSessionWasStoredHolds == SessionSpec => []ServedSessionWasStored
<1>1. RecordInv => ServedSessionWasStored
    BY DEF RecordInv
<1> QED
    BY <1>1, RecordCorrect, PTL

\* While nothing fails, the record is that of a login that hands its token out,
\* or whose client was told 408 meanwhile.
THEOREM UnheldRecordHasCauseHolds == SessionSpec => []UnheldRecordHasCause
<1>1. RecordInv => UnheldRecordHasCause
    BY DEF RecordInv, RecordIsStored, StoredIsHeld, UnheldRecordHasCause
<1> QED
    BY <1>1, RecordCorrect, PTL

\* The record outlives the refresh token behind it, however late the SET is
\* executed, for every lifetime of at most seven days.
THEOREM RecordOutlivesTokenHolds == SessionSpec => []RecordOutlivesToken
<1>1. Typed /\ RecordInv => RecordOutlivesToken
    <2> SUFFICES ASSUME Typed, RecordInv, NEW u \in Users, record[u] # None,
                        ~Expired(record[u], RefreshExpires)
                 PROVE now < keptUntil[u]
        BY DEF RecordOutlivesToken
    <2>0. record[u] \in Logins
        BY DEF RecordInv, RecordIsStored
    <2>1. /\ record[u] \in Logins /\ signed[record[u]] \in Nat /\ now \in Nat
          /\ keptUntil[u] \in Nat
        BY <2>0, InstantsAreNat DEF Typed, SessionTypeOK
    <2>2. signed[record[u]] + 604800000 \leq keptUntil[u]
        BY DEF RecordInv, KeptFromSignature, REFRESH_TTL
    <2>3. now \div 1000 < signed[record[u]] \div 1000 + RefreshExpires \div 1000
        BY <2>1, LimitsAssumption DEF Expired, Second, Lifetime
    <2>4. now < signed[record[u]] + RefreshExpires
        BY <2>1, <2>3, LimitsAssumption
    <2> QED
        BY <2>1, <2>2, <2>4, LimitsAssumption
<1> QED
    BY <1>1, AlwaysTyped, RecordCorrect, PTL

-----------------------------------------------------------------------------
(* What the Gateway guarantees                                               *)

\* A success is the response of a request for the same URL that the same worker
\* handled and that took effect, logins included.
THEOREM SessionSuccessTookEffect == SessionSpec => []SuccessTookEffect
BY GatewayImplemented, SuccessTookEffectHolds, PTL DEF ImplementsGateway

\* No client gets tokens or another response that came after its own client's
\* 408 or 500.
THEOREM SessionLateIsNeverReplayed == SessionSpec => []LateIsNeverReplayed
BY GatewayImplemented, LateIsNeverReplayedHolds, PTL DEF ImplementsGateway

\* After a worker's first success for a URL its handlers are not run for that
\* URL again until a restart.
THEOREM SessionSucceededIsNotRepeated == SessionSpec => SucceededIsNotRepeated
BY GatewayImplemented, SucceededIsNotRepeatedHolds, PTL DEF ImplementsGateway

-----------------------------------------------------------------------------
(* The connection to Redis                                                   *)

\* Every step keeps GivenUpHasNoneWaiting.
LEMMA StepGivenUp ==
    SessionTypeOK /\ GivenUpHasNoneWaiting /\ [SessionNext]_sessionVars
        => GivenUpHasNoneWaiting'
<1> SUFFICES ASSUME SessionTypeOK, GivenUpHasNoneWaiting, [SessionNext]_sessionVars,
                    NEW w \in Workers, conn'[w] = "end",
                    NEW l \in Logins, WorkerOf[l] = w
             PROVE step'[l] \notin InFlight
    BY DEF GivenUpHasNoneWaiting, Waiting
<1> USE DEF InFlight, GoOn
<1>t. /\ step \in [Logins -> Steps]
      /\ conn \in [Workers -> {"ready", "reconnecting", "end"}]
    BY DEF SessionTypeOK
\* The client had given up before.
<1>o. ASSUME conn[w] = "end" PROVE step[l] \notin InFlight
    BY <1>o DEF GivenUpHasNoneWaiting, Waiting
<1>1. ASSUME NEW k \in Logins, StartLogin(k) \/ FindUser(k) PROVE step'[l] \notin InFlight
    BY <1>1, <1>o, <1>t DEF StartLogin, FindUser, links
<1>2. ASSUME NEW k \in Logins, IssueTokens(k) PROVE step'[l] \notin InFlight
    BY <1>2, <1>o, <1>t DEF IssueTokens, links
<1>3. ASSUME NEW k \in Logins, ExecuteSet(k) PROVE step'[l] \notin InFlight
    BY <1>3, <1>o, <1>t DEF ExecuteSet, links
<1>4. ASSUME NEW k \in Logins, AnswerLogin(k) \/ LoginFails(k)
      PROVE step'[l] \notin InFlight
    BY <1>4, <1>o, <1>t DEF AnswerLogin, LoginFails, links
<1>5. ASSUME NEW x \in Workers, Closed(x) PROVE step'[l] \notin InFlight
    <2>1. CASE x = w
        <3>1. GivesUp(attempts[w] + 1)
            BY <1>5, <1>t, <2>1 DEF Closed
        <3>2. Flushed(attempts[w] + 1)
            BY <3>1 DEF Flushed
        <3> QED
            BY <1>5, <2>1, <3>2 DEF Closed, Waiting
    <2>2. CASE x # w
        <3>1. l \notin Waiting(x) /\ conn[w] = "end"
            BY <1>5, <1>t, <2>2 DEF Closed, Waiting
        <3> QED
            BY <1>5, <1>o, <3>1 DEF Closed
    <2> QED
        BY <2>1, <2>2
<1>6. ASSUME NEW x \in Workers, Reconnects(x) PROVE step'[l] \notin InFlight
    BY <1>6, <1>o, <1>t DEF Reconnects
<1>7. ASSUME NEW x \in Workers, SessionCrash(x) PROVE step'[l] \notin InFlight
    BY <1>7, <1>o, <1>t DEF SessionCrash
<1>8. CASE UNCHANGED <<step, conn>>
    BY <1>8, <1>o
<1>9. ASSUME NEW k \in Logins, Login(k) PROVE step'[l] \notin InFlight
    BY <1>1, <1>2, <1>3, <1>4, <1>8, <1>9 DEF Login, LoginStep, login, links
<1>10. ASSUME NEW x \in Workers, ConnectionCloses(x) \/ Reconnect(x)
       PROVE step'[l] \notin InFlight
    BY <1>5, <1>6, <1>10 DEF ConnectionCloses, Reconnect, ReconnectFails
<1> QED
    BY <1>7, <1>8, <1>9, <1>10
       DEF SessionNext, Other, TimePasses, sessionVars, login, links

\* No login waits for a client that has given up on Redis (retryStrategy,
\* maxRetriesPerRequest): what makes logins end although it never comes back.
THEOREM GivenUpHasNoneWaitingHolds == SessionSpec => []GivenUpHasNoneWaiting
<1>1. SessionInit => GivenUpHasNoneWaiting
    BY DEF SessionInit, GivenUpHasNoneWaiting
<1>2. SessionTypeOK /\ GivenUpHasNoneWaiting /\ [SessionNext]_sessionVars
        => GivenUpHasNoneWaiting'
    BY StepGivenUp
<1> QED
    BY <1>1, <1>2, SessionTypeCorrect, PTL DEF SessionSpec

-----------------------------------------------------------------------------
(* How long an access token is good for                                      *)

\* What AccessJwtStrategy makes of the expiry, in milliseconds: both instants
\* and the lifetime are rounded down to seconds.
LEMMA ExpiryWindow ==
    ASSUME NEW l \in Logins, signed[l] \in Nat, now \in Nat
    PROVE  /\ ~Expired(l, AccessExpires) => now < signed[l] + AccessExpires
           /\ Expired(l, AccessExpires) => now + 2000 > signed[l] + AccessExpires
<1> USE LimitsAssumption DEF Expired, Second, Lifetime
<1>1. ASSUME ~Expired(l, AccessExpires) PROVE now < signed[l] + AccessExpires
    BY <1>1
<1>2. ASSUME Expired(l, AccessExpires) PROVE now + 2000 > signed[l] + AccessExpires
    BY <1>2
<1> QED
    BY <1>1, <1>2

\* How far the guard's decisions are from the configured lifetime, read in
\* milliseconds.
GuardWindow(b) ==
    pc[b] = "resolved" =>
        /\ pc'[b] \in {"open", "ok"} => now < signed[TokenOf[b]] + AccessExpires
        /\ pc'[b] = "error" => now + 2000 > signed[TokenOf[b]] + AccessExpires

\* The positive half of UnexpiredTokenPasses: the guard lets nobody in once
\* JWT_ACCESS_EXPIRES milliseconds, instead of the seconds it is meant to
\* count, are over, and refuses nobody earlier than two seconds before that
\* (TokenService, AccessJwtStrategy).
THEOREM TokenWindow == SessionSpec => [][\A b \in Bearers : GuardWindow(b)]_sessionVars
<1>1. SessionTypeOK /\ [SessionNext]_sessionVars
        => [\A b \in Bearers : GuardWindow(b)]_sessionVars
    <2> SUFFICES ASSUME SessionTypeOK, [SessionNext]_sessionVars, NEW b \in Bearers,
                        pc[b] = "resolved", pc'[b] \in {"open", "ok", "error"}
                 PROVE  GuardWindow(b)
        BY DEF GuardWindow
    <2>1. Other(b)
        BY BearerStep, LoginsAssumption, RoutingAssumption
           DEF SessionTypeOK, SessionCrash, Crash
    <2>2. /\ pc'[b] = "error" => TokenExpired(b)
          /\ pc'[b] # "error" => ~TokenExpired(b)
        BY <2>1, LoginsAssumption, RoutingAssumption
           DEF Other, Resolve, LookupFails, Outward, Timeout, Reject, Replay, Handle,
               Commit, Return, Throw, Goto, SessionTypeOK, TypeOK, Running
    <2>3. TokenOf[b] \in Logins /\ signed[TokenOf[b]] \in Nat /\ now \in Nat
        BY InstantsAreNat
    <2>4. /\ ~TokenExpired(b) => now < signed[TokenOf[b]] + AccessExpires
          /\ TokenExpired(b) => now + 2000 > signed[TokenOf[b]] + AccessExpires
        BY <2>3, ExpiryWindow DEF TokenExpired
    <2> QED
        BY <2>2, <2>4 DEF GuardWindow
<1> QED
    BY <1>1, SessionTypeCorrect, PTL DEF SessionSpec

\* No request with a token gets past the guard.
NobodyServed ==
    \A b \in Bearers :
        pc[b] \in {"sent", "resolved", "error", "lost"} /\ handler[b] = "none"

\* A token whose lifetime rounds down to no second has expired when it is signed.
LEMMA ExpiredAtOnce ==
    ASSUME AccessExpires < 1000, SessionTypeOK, SignedInThePast, NEW b \in Bearers
    PROVE  TokenExpired(b)
<1> DEFINE s == signed[TokenOf[b]]
<1>1. TokenOf[b] \in Logins /\ s \in Nat /\ now \in Nat
    BY InstantsAreNat
<1>2. s \leq now
    BY <1>1 DEF SignedInThePast
<1>3. s \div 1000 \leq now \div 1000 /\ AccessExpires \div 1000 = 0
    <2> HIDE DEF s
    <2> QED
        BY <1>1, <1>2, LimitsAssumption
<1> QED
    BY <1>1, <1>2, <1>3 DEF TokenExpired, Expired, Second, Lifetime

\* With fewer than 1000 for JWT_ACCESS_EXPIRES, such as the 900 that README.md
\* gives, no request that carries a token is ever handled or answered with a
\* success, whatever else happens: TokenService's lifetime is zero seconds.
THEOREM DocumentedExpiryServesNobody ==
    AccessExpires < 1000 => (SessionSpec => []NobodyServed)
<1> SUFFICES ASSUME AccessExpires < 1000 PROVE SessionSpec => []NobodyServed
    OBVIOUS
<1>1. SessionInit => NobodyServed
    BY LoginsAssumption, RoutingAssumption DEF SessionInit, Init, NobodyServed
<1>2. SessionTypeOK /\ RecordInv /\ NobodyServed /\ [SessionNext]_sessionVars
        => NobodyServed'
    <2> SUFFICES ASSUME SessionTypeOK, RecordInv, NobodyServed, [SessionNext]_sessionVars,
                        NEW b \in Bearers
                 PROVE  /\ pc'[b] \in {"sent", "resolved", "error", "lost"}
                        /\ handler'[b] = "none"
        BY DEF NobodyServed
    <2> USE LoginsAssumption, RoutingAssumption
    <2>1. pc[b] \in {"sent", "resolved", "error", "lost"} /\ handler[b] = "none"
        BY DEF NobodyServed
    <2>2. CASE Other(b)
        <3>1. TokenExpired(b)
            BY ExpiredAtOnce DEF RecordInv
        <3> QED
            BY <2>1, <2>2, <3>1
               DEF Other, Resolve, LookupFails, Outward, Timeout, Reject, Commit, Return,
                   Throw, Goto, Running, SessionTypeOK, TypeOK
    <2>3. ASSUME NEW w \in Workers, SessionCrash(w)
          PROVE  pc'[b] \in {"sent", "resolved", "error", "lost"} /\ handler'[b] = "none"
        BY <2>1, <2>3 DEF SessionCrash, Crash, Running
    <2> QED
        BY <2>1, <2>2, <2>3, BearerStep DEF SessionTypeOK
<1> QED
    BY <1>1, <1>2, SessionTypeCorrect, RecordCorrect, PTL DEF SessionSpec
=============================================================================
