----------------------------- MODULE GatewayProofs ----------------------------
(***************************************************************************)
(* Theorems about Gateway, for any requests, workers, URLs and tenants.    *)
(*                                                                         *)
(* Nothing a worker keeps says on its own where it came from.  GateInv     *)
(* adds that a kept response is one whose client was told "ok", and that,  *)
(* as long as nobody was restarted, every success is still kept.           *)
(***************************************************************************)
EXTENDS Gateway, TLAPS

\* Answer q is one that a client with the URL u of worker w may get.
Sound(q, u, w) == q \in done /\ pc[q] = "ok" /\ UrlOf[q] = u /\ WorkerOf[q] = w

KeptIsSound ==
    \A w \in Workers, u \in Urls :
        cached[w][u] # None => Sound(cached[w][u], u, w)

AnswerIsSound ==
    \A r \in Requests : pc[r] = "ok" => Sound(answer[r], UrlOf[r], WorkerOf[r])

CommittedIsDone == \A r \in Requests : handler[r] = "committed" => r \in done

SuccessIsKept ==
    crashes = 0 => \A r \in Requests : pc[r] = "ok" => Kept(r) # None

GateInv == KeptIsSound /\ AnswerIsSound /\ CommittedIsDone /\ SuccessIsKept

-----------------------------------------------------------------------------
(* Types                                                                     *)

\* The initial state has the types.
LEMMA InitType == Init => TypeOK
BY RoutingAssumption, BoundAssumption
   DEF Init, TypeOK, Inside, Told, Running

\* Every step of the pipeline, its handlers and its workers keeps the types.
LEMMA StepType == TypeOK /\ [Next]_vars => TypeOK'
<1> SUFFICES ASSUME TypeOK, [Next]_vars PROVE TypeOK'
    OBVIOUS
<1> USE RoutingAssumption, BoundAssumption DEF TypeOK, Inside, Told, Running, Goto, Handler
<1>1. ASSUME NEW r \in Requests, Resolve(r) PROVE TypeOK'
    BY <1>1 DEF Resolve
<1>2. ASSUME NEW r \in Requests, LookupFails(r) PROVE TypeOK'
    BY <1>2 DEF LookupFails
<1>3. ASSUME NEW r \in Requests, Reject(r) PROVE TypeOK'
    BY <1>3 DEF Reject
<1>4. ASSUME NEW r \in Requests, Replay(r) PROVE TypeOK'
    BY <1>4 DEF Replay, Kept
<1>5. ASSUME NEW r \in Requests, Handle(r) PROVE TypeOK'
    BY <1>5 DEF Handle
<1>6. ASSUME NEW r \in Requests, Commit(r) PROVE TypeOK'
    BY <1>6 DEF Commit
<1>7. ASSUME NEW r \in Requests, Return(r) PROVE TypeOK'
    <2>1. CASE pc[r] # "open"
        BY <1>7, <2>1 DEF Return
    <2>2. CASE pc[r] = "open"
        <3>1. pc' = [pc EXCEPT ![r] = "ok"] /\ answer' = [answer EXCEPT ![r] = r]
            BY <1>7, <2>2 DEF Return
        <3>2. cached' \in [Workers -> [Urls -> Requests \cup {None}]]
            <4> DEFINE row == [cached[WorkerOf[r]] EXCEPT ![UrlOf[r]] = r]
            <4>1. cached' = [cached EXCEPT ![WorkerOf[r]] = row]
                BY <1>7, <2>2 DEF Return
            <4>2. WorkerOf[r] \in Workers /\ UrlOf[r] \in Urls
                OBVIOUS
            <4>3. row \in [Urls -> Requests \cup {None}]
                BY <4>2
            <4> HIDE DEF row
            <4> QED
                BY <4>1, <4>2, <4>3
        <3>3. handler' \in [Requests -> {"none", "over"} \cup Running]
            BY <1>7 DEF Return
        <3>4. UNCHANGED <<done, crashes>>
            BY <1>7 DEF Return
        <3> QED
            BY <3>1, <3>2, <3>3, <3>4
    <2> QED
        BY <2>1, <2>2
<1>8. ASSUME NEW r \in Requests, Throw(r) PROVE TypeOK'
    BY <1>8 DEF Throw
<1>9. ASSUME NEW r \in Requests, Timeout(r) PROVE TypeOK'
    BY <1>9 DEF Timeout
<1>10. ASSUME NEW w \in Workers, Crash(w) PROVE TypeOK'
    BY <1>10 DEF Crash
<1>11. CASE UNCHANGED vars
    BY <1>11 DEF vars
<1> QED
    BY <1>1, <1>2, <1>3, <1>4, <1>5, <1>6, <1>7, <1>8, <1>9, <1>10, <1>11
       DEF Next, Inward, Outward

\* Types; a client that was told "ok" got a response.
THEOREM TypeCorrect == Spec => []TypeOK
<1>1. Init => TypeOK
    BY InitType
<1>2. TypeOK /\ [Next]_vars => TypeOK'
    BY StepType
<1> QED
    BY <1>1, <1>2, PTL DEF Spec

-----------------------------------------------------------------------------
(* The response cache                                                        *)

\* At first nothing is kept and nobody has been answered.
LEMMA InitGate == Init => GateInv
BY RoutingAssumption
   DEF Init, GateInv, KeptIsSound, AnswerIsSound, CommittedIsDone, SuccessIsKept, Sound

\* Every step keeps GateInv.
LEMMA StepGate == TypeOK /\ GateInv /\ [Next]_vars => GateInv'
<1> SUFFICES ASSUME TypeOK, GateInv, [Next]_vars PROVE GateInv'
    OBVIOUS
<1> USE RoutingAssumption, BoundAssumption
    DEF TypeOK, GateInv, Inside, Told, Running, Goto, Handler
\* Steps that neither succeed nor touch the cache.
<1>0. ASSUME NEW r \in Requests, pc[r] # "ok",
             pc' = [pc EXCEPT ![r] = pc'[r]], pc'[r] # "ok",
             done \subseteq done', answer' = answer, cached' = cached,
             crashes' = crashes
      PROVE (KeptIsSound /\ AnswerIsSound /\ SuccessIsKept)'
    BY <1>0 DEF KeptIsSound, AnswerIsSound, SuccessIsKept, Sound, Kept
<1>1. ASSUME NEW r \in Requests, Resolve(r) PROVE GateInv'
    <2>1. CommittedIsDone'
        BY <1>1 DEF Resolve, CommittedIsDone
    <2> QED
        BY <1>0, <1>1, <2>1 DEF Resolve
<1>2. ASSUME NEW r \in Requests, LookupFails(r) PROVE GateInv'
    <2>1. CommittedIsDone'
        BY <1>2 DEF LookupFails, CommittedIsDone
    <2> QED
        BY <1>0, <1>2, <2>1 DEF LookupFails
<1>3. ASSUME NEW r \in Requests, Reject(r) PROVE GateInv'
    <2>1. CommittedIsDone'
        BY <1>3 DEF Reject, CommittedIsDone
    <2> QED
        BY <1>0, <1>3, <2>1 DEF Reject
<1>4. ASSUME NEW r \in Requests, Replay(r) PROVE GateInv'
    <2>1. Sound(Kept(r), UrlOf[r], WorkerOf[r])
        BY <1>4 DEF Replay, Kept, KeptIsSound
    <2>2. \A q, u, w : q \in Requests /\ Sound(q, u, w) => Sound(q, u, w)'
        BY <1>4 DEF Replay, Sound
    <2>3. KeptIsSound'
        BY <1>4, <2>2 DEF Replay, KeptIsSound
    <2>4. AnswerIsSound'
        BY <1>4, <2>1, <2>2 DEF Replay, AnswerIsSound, Sound, Kept
    <2>5. CommittedIsDone'
        BY <1>4 DEF Replay, CommittedIsDone
    <2>6. SuccessIsKept'
        BY <1>4 DEF Replay, SuccessIsKept, Kept
    <2> QED
        BY <2>3, <2>4, <2>5, <2>6
<1>5. ASSUME NEW r \in Requests, Handle(r) PROVE GateInv'
    <2>1. CommittedIsDone'
        BY <1>5 DEF Handle, CommittedIsDone
    <2> QED
        BY <1>0, <1>5, <2>1 DEF Handle
<1>6. ASSUME NEW r \in Requests, Commit(r) PROVE GateInv'
    <2>1. CommittedIsDone'
        BY <1>6 DEF Commit, CommittedIsDone
    <2>2. (KeptIsSound /\ AnswerIsSound /\ SuccessIsKept)'
        BY <1>6 DEF Commit, KeptIsSound, AnswerIsSound, SuccessIsKept, Sound, Kept
    <2> QED
        BY <2>1, <2>2
<1>7. ASSUME NEW r \in Requests, Return(r) PROVE GateInv'
    <2>1. CommittedIsDone'
        BY <1>7 DEF Return, CommittedIsDone
    <2>2. CASE pc[r] # "open"
        BY <1>7, <2>1, <2>2
           DEF Return, KeptIsSound, AnswerIsSound, SuccessIsKept, Sound, Kept
    <2>3. CASE pc[r] = "open"
        <3>1. Sound(r, UrlOf[r], WorkerOf[r])'
            BY <1>7, <2>3 DEF Return, Sound, CommittedIsDone
        <3>2. \A q, u, w : q \in Requests /\ Sound(q, u, w) => Sound(q, u, w)'
            BY <1>7, <2>3 DEF Return, Sound
        <3>3. KeptIsSound'
            <4>1. \A w \in Workers, u \in Urls :
                    cached'[w][u] = IF w = WorkerOf[r] /\ u = UrlOf[r]
                                    THEN r ELSE cached[w][u]
                BY <1>7, <2>3 DEF Return
            <4> QED
                BY <3>1, <3>2, <4>1 DEF KeptIsSound
        <3>4. AnswerIsSound'
            BY <1>7, <2>3, <3>1, <3>2 DEF Return, AnswerIsSound, Sound
        <3>5. SuccessIsKept'
            BY <1>7, <2>3 DEF Return, SuccessIsKept, Kept
        <3> QED
            BY <2>1, <3>3, <3>4, <3>5
    <2> QED
        BY <2>2, <2>3
<1>8. ASSUME NEW r \in Requests, Throw(r) PROVE GateInv'
    <2>1. CommittedIsDone'
        BY <1>8 DEF Throw, CommittedIsDone
    <2>2. (KeptIsSound /\ AnswerIsSound /\ SuccessIsKept)'
        BY <1>8 DEF Throw, KeptIsSound, AnswerIsSound, SuccessIsKept, Sound, Kept
    <2> QED
        BY <2>1, <2>2
<1>9. ASSUME NEW r \in Requests, Timeout(r) PROVE GateInv'
    <2>1. CommittedIsDone'
        BY <1>9 DEF Timeout, CommittedIsDone
    <2> QED
        BY <1>0, <1>9, <2>1 DEF Timeout
<1>10. ASSUME NEW w \in Workers, Crash(w) PROVE GateInv'
    <2>1. \A q \in Requests : pc'[q] = "ok" <=> pc[q] = "ok"
        BY <1>10 DEF Crash
    <2>2. KeptIsSound'
        BY <1>10, <2>1 DEF Crash, KeptIsSound, Sound
    <2>3. AnswerIsSound'
        BY <1>10, <2>1 DEF Crash, AnswerIsSound, Sound
    <2>4. CommittedIsDone'
        BY <1>10 DEF Crash, CommittedIsDone
    <2>5. SuccessIsKept'
        BY <1>10 DEF Crash, SuccessIsKept
    <2> QED
        BY <2>2, <2>3, <2>4, <2>5
<1>11. CASE UNCHANGED vars
    BY <1>11 DEF vars, KeptIsSound, AnswerIsSound, CommittedIsDone, SuccessIsKept, Sound, Kept
<1> QED
    BY <1>1, <1>2, <1>3, <1>4, <1>5, <1>6, <1>7, <1>8, <1>9, <1>10, <1>11
       DEF Next, Inward, Outward

\* GateInv holds in every reachable state.
LEMMA GateCorrect == Spec => []GateInv
<1>1. Init => GateInv
    BY InitGate
<1>2. TypeOK /\ GateInv /\ [Next]_vars => GateInv'
    BY StepGate
<1> QED
    BY <1>1, <1>2, TypeCorrect, PTL DEF Spec

\* A success is the response of a request for the same URL that the same worker
\* handled and that took effect.
THEOREM SuccessTookEffectHolds == Spec => []SuccessTookEffect
<1>1. GateInv => SuccessTookEffect
    BY DEF GateInv, AnswerIsSound, Sound, SuccessTookEffect
<1> QED
    BY <1>1, GateCorrect, PTL

\* The positive half of SuccessMeansHandled: where no two requests give one worker
\* the same URL, every success is that of a request that was handled and took
\* effect.  Two requests for one URL are thus all that it takes to break it
\* (CacheInterceptor: the URL is the key, whatever the method).
THEOREM UnsharedMeansHandled ==
    (\A r, q \in Requests : r # q => UrlOf[r] # UrlOf[q] \/ WorkerOf[r] # WorkerOf[q])
        => (Spec => []SuccessMeansHandled)
<1> SUFFICES ASSUME \A r, q \in Requests :
                        r # q => UrlOf[r] # UrlOf[q] \/ WorkerOf[r] # WorkerOf[q]
             PROVE  Spec => []SuccessMeansHandled
    OBVIOUS
<1>1. TypeOK /\ SuccessTookEffect => SuccessMeansHandled
    BY DEF TypeOK, SuccessTookEffect, SuccessMeansHandled
<1> QED
    BY <1>1, TypeCorrect, SuccessTookEffectHolds, PTL

\* No client gets a response that came after its own client's 408 or 500.
THEOREM LateIsNeverReplayedHolds == Spec => []LateIsNeverReplayed
<1>1. GateInv => LateIsNeverReplayed
    BY DEF GateInv, AnswerIsSound, Sound, LateIsNeverReplayed
<1> QED
    BY <1>1, GateCorrect, PTL

\* After a worker's first success for a URL its handlers are not run for that
\* URL again until a restart.
THEOREM SucceededIsNotRepeatedHolds == Spec => SucceededIsNotRepeated
<1> DEFINE NotRepeated ==
        \A r \in Requests :
            (handler[r] = "none" /\ handler'[r] = "running" /\ crashes = 0) =>
                ~ \E q \in Requests :
                    pc[q] = "ok" /\ UrlOf[q] = UrlOf[r] /\ WorkerOf[q] = WorkerOf[r]
<1>1. TypeOK /\ GateInv /\ [Next]_vars => NotRepeated
    <2> SUFFICES ASSUME TypeOK, GateInv, [Next]_vars, NEW r \in Requests,
                        handler[r] = "none", handler'[r] = "running", crashes = 0,
                        NEW q \in Requests, pc[q] = "ok",
                        UrlOf[q] = UrlOf[r], WorkerOf[q] = WorkerOf[r]
                 PROVE FALSE
        OBVIOUS
    <2>1. Handle(r)
        BY DEF TypeOK, Next, Inward, Outward, vars, Handler,
               Resolve, LookupFails, Reject, Replay, Handle, Commit, Return, Throw,
               Timeout, Crash
    <2>2. Kept(q) # None
        BY DEF GateInv, SuccessIsKept
    <2> QED
        BY <2>1, <2>2 DEF Handle, Kept
<1> QED
    BY <1>1, TypeCorrect, GateCorrect, PTL DEF Spec, SucceededIsNotRepeated
=============================================================================
