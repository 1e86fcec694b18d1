-------------------------- MODULE InvitationsProofs ---------------------------
(***************************************************************************)
(* Theorems about Invitations, for any sets of requests, tenants, e-mails  *)
(* and workers, any duplicates among them, and any number of failing       *)
(* statements and crashes.                                                 *)
(***************************************************************************)
EXTENDS Invitations, TLAPS

(* Type correctness *)

\* Init satisfies the types.
LEMMA TypeInit == Init => TypeOK
<1> SUFFICES ASSUME Init PROVE TypeOK
  OBVIOUS
<1>1. status \in [Invites -> Statuses]
  BY DEF Init, Statuses
<1>2. pc \in [Calls -> {"idle", "stored"}]
  BY DEF Init
<1>3. /\ pc \in [Calls -> {"idle"} \cup Running \cup Ended]
      /\ \A c \in Calls : pc[c] \notin Holding
      /\ \A a \in Accepts : pc[a] \notin {"findUser", "save"}
  BY <1>2 DEF Holding, Ended, Calls
<1>4. /\ acceptedAt \subseteq Invites /\ revokedAt \subseteq Invites
      /\ expired \subseteq Invites /\ users \subseteq Tenants \X Emails
      /\ dropped \subseteq Contested
      /\ held \in [Calls -> Invites \cup {Nil}]
      /\ sweeping \subseteq Workers /\ cutoff \in [Workers -> SUBSET Invites]
  BY RequestsAssumption DEF Init
<1>5. faults \in Nat /\ crashes \in Nat /\ faults + crashes \leq MaxMishaps
  BY BoundsAssumption DEF Init
<1> QED
  BY <1>1, <1>3, <1>4, <1>5 DEF TypeOK

\* Every action keeps the types.
LEMMA TypeStep == TypeOK /\ [Next]_vars => TypeOK'
<1> SUFFICES ASSUME TypeOK, [Next]_vars PROVE TypeOK'
  OBVIOUS
<1> USE CallsAssumption, RequestsAssumption, BoundsAssumption
<1> USE DEF TypeOK, Goto, Running, Ended, Holding, Statuses, Calls, rows, tables, cron, budget
<1>1. ASSUME NEW i \in Invites, FindPending(i) \/ FindInvitee(i) \/ StoreInvitation(i)
      PROVE  TypeOK'
  BY <1>1 DEF FindPending, FindInvitee, StoreInvitation
<1>2. ASSUME NEW i \in Invites, Expire(i) PROVE TypeOK'
  BY <1>2 DEF Expire
<1>3. ASSUME NEW a \in Accepts, FindByToken(a) PROVE TypeOK'
  <2>1. CASE Pending(TokenOf[a])
    <3>1. pc' = [pc EXCEPT ![a] = "checkExpiry"] /\ held' = [held EXCEPT ![a] = TokenOf[a]]
      BY <1>3, <2>1 DEF FindByToken
    <3>2. TokenOf[a] \in Invites /\ TokenOf[a] # Nil
      OBVIOUS
    <3>3. \A c \in Calls : pc'[c] \in Holding => held'[c] # Nil
      BY <3>1, <3>2
    <3>4. \A b \in Accepts : pc'[b] \in {"findUser", "save"} => held'[b] # Nil
      BY <3>1, <3>2
    <3> QED
      BY <1>3, <3>1, <3>2, <3>3, <3>4 DEF FindByToken
  <2>2. CASE ~Pending(TokenOf[a])
    BY <1>3, <2>2 DEF FindByToken
  <2> QED
    BY <2>1, <2>2
<1>4. ASSUME NEW a \in Accepts, CheckExpiry(a) \/ MarkExpired(a) \/ FindMember(a)
      PROVE  TypeOK'
  BY <1>4 DEF CheckExpiry, MarkExpired, FindMember
<1>5. ASSUME NEW a \in Accepts, SaveUser(a) \/ UserAnswerLost(a) PROVE TypeOK'
  <2>1. pc[a] = "save" /\ Key(held[a]) \in Tenants \X Emails
    BY <1>5 DEF SaveUser, UserAnswerLost, Key
  <2> QED
    BY <1>5, <2>1 DEF SaveUser, UserAnswerLost
<1>6. ASSUME NEW a \in Accepts, MarkAccepted(a) PROVE TypeOK'
  <2>1. AcceptedRows(held[a]) \subseteq Invites
    BY <1>6 DEF MarkAccepted, AcceptedRows
  <2> QED
    BY <1>6, <2>1 DEF MarkAccepted
<1>7. ASSUME NEW r \in Revokes, FindRevocable(r) PROVE TypeOK'
  <2>1. CASE UNCHANGED held
    <3>1. pc' = [pc EXCEPT ![r] = "refused"] \/ pc' = [pc EXCEPT ![r] = "markRevoked"]
      BY <1>7 DEF FindRevocable
    <3>2. \A c \in Calls : pc'[c] \in Holding => held'[c] # Nil
      BY <1>7, <2>1 DEF FindRevocable
    <3> QED
      BY <1>7, <2>1, <3>1, <3>2 DEF FindRevocable
  <2>2. CASE ~UNCHANGED held
    <3>1. PICK i \in Invites : held' = [held EXCEPT ![r] = i]
                              /\ pc' = [pc EXCEPT ![r] = "markRevoked"]
      BY <1>7, <2>2 DEF FindRevocable
    <3>2. \A c \in Calls : pc'[c] \in Holding => held'[c] # Nil
      BY <3>1
    <3>3. \A b \in Accepts : pc'[b] \in {"findUser", "save"} => held'[b] # Nil
      BY <3>1
    <3> QED
      BY <1>7, <3>1, <3>2, <3>3 DEF FindRevocable
  <2> QED
    BY <2>1, <2>2
<1>8. ASSUME NEW r \in Revokes, MarkRevoked(r) PROVE TypeOK'
  BY <1>8 DEF MarkRevoked
<1>9. ASSUME NEW w \in Workers, SweepBegin(w) PROVE TypeOK'
  BY <1>9 DEF SweepBegin
<1>10. ASSUME NEW w \in Workers, SweepUpdate(w) \/ SweepFails(w) PROVE TypeOK'
  BY <1>10 DEF SweepUpdate, SweepFails, SweepEnds, Swept, Pending
<1>11. ASSUME NEW w \in Workers, Crash(w) PROVE TypeOK'
  BY <1>11 DEF Crash, SweepEnds
<1>12. ASSUME NEW c \in Calls, StatementFails(c) \/ UsersMissing(c) PROVE TypeOK'
  BY <1>12 DEF StatementFails, UsersMissing
<1>d. ASSUME NEW t \in Contested, DropSchema(t) PROVE TypeOK'
  BY <1>d DEF DropSchema
<1>13. CASE UNCHANGED vars
  BY <1>13 DEF vars
<1> QED
  BY <1>1, <1>2, <1>3, <1>4, <1>5, <1>6, <1>7, <1>8, <1>9, <1>10, <1>11, <1>12, <1>d,
     <1>13 DEF Next, Invite, Accept, Revoke, Sweep

\* Types hold in every reachable state.
THEOREM TypeCorrect == Spec => []TypeOK
BY TypeInit, TypeStep, PTL DEF Spec

-----------------------------------------------------------------------------
(* What steps may do *)

\* Users go only when their tenant's schema does.
UsersKept ==
    /\ dropped \subseteq dropped'
    /\ \A k \in users : k \in users' \/ k[1] \in dropped'

\* The tenant of a users row.
LEMMA KeyTenant == ASSUME NEW i PROVE Key(i)[1] = TenantOf[i]
BY DEF Key

\* Users go only with their tenant's schema, expiry and drops are never taken back,
\* and a stored invitation stays stored.
LEMMA Monotone ==
    ASSUME TypeOK, [Next]_vars
    PROVE  /\ UsersKept /\ expired \subseteq expired'
           /\ \A i \in Invites : status[i] # "none" => status'[i] # "none"
<1> USE DEF UsersKept, TypeOK, Goto, Calls, rows, tables, cron, budget
<1>1. ASSUME NEW i \in Invites, Invite(i) \/ Expire(i)
      PROVE  /\ UsersKept /\ expired \subseteq expired'
             /\ \A j \in Invites : status[j] # "none" => status'[j] # "none"
  BY <1>1 DEF Invite, FindPending, FindInvitee, StoreInvitation, Expire
<1>2. ASSUME NEW a \in Accepts, Accept(a) \/ UserAnswerLost(a)
      PROVE  /\ UsersKept /\ expired \subseteq expired'
             /\ \A j \in Invites : status[j] # "none" => status'[j] # "none"
  BY <1>2 DEF Accept, FindByToken, CheckExpiry, MarkExpired, FindMember, SaveUser,
              MarkAccepted, UserAnswerLost
<1>3. ASSUME NEW r \in Revokes, Revoke(r)
      PROVE  /\ UsersKept /\ expired \subseteq expired'
             /\ \A j \in Invites : status[j] # "none" => status'[j] # "none"
  BY <1>3 DEF Revoke, FindRevocable, MarkRevoked
<1>4. ASSUME NEW w \in Workers, Sweep(w) \/ SweepFails(w) \/ Crash(w)
      PROVE  /\ UsersKept /\ expired \subseteq expired'
             /\ \A j \in Invites : status[j] # "none" => status'[j] # "none"
  BY <1>4 DEF Sweep, SweepBegin, SweepUpdate, SweepFails, Crash
<1>5. ASSUME NEW c \in Calls, StatementFails(c) \/ UsersMissing(c)
      PROVE  /\ UsersKept /\ expired \subseteq expired'
             /\ \A j \in Invites : status[j] # "none" => status'[j] # "none"
  BY <1>5 DEF StatementFails, UsersMissing
<1>d. ASSUME NEW t \in Contested, DropSchema(t)
      PROVE  /\ UsersKept /\ expired \subseteq expired'
             /\ \A j \in Invites : status[j] # "none" => status'[j] # "none"
  BY <1>d DEF DropSchema
<1>6. CASE UNCHANGED vars
  BY <1>6 DEF vars
<1> QED
  BY <1>1, <1>2, <1>3, <1>4, <1>5, <1>d, <1>6 DEF Next

\* A call reads an invitation once, as its first step, and keeps it.
LEMMA HeldOnce ==
    ASSUME TypeOK, [Next]_vars, NEW c \in Calls
    PROVE  held'[c] # held[c] => pc[c] = "idle" /\ Pending(held'[c]) /\ UNCHANGED status
<1> USE DEF TypeOK, Goto, Calls, rows, tables, cron, budget
<1>1. ASSUME NEW i \in Invites, Invite(i) \/ Expire(i) PROVE UNCHANGED held
  BY <1>1 DEF Invite, FindPending, FindInvitee, StoreInvitation, Expire
<1>2. ASSUME NEW a \in Accepts, FindByToken(a), held'[c] # held[c]
      PROVE  pc[c] = "idle" /\ Pending(held'[c]) /\ UNCHANGED status
  BY <1>2 DEF FindByToken
<1>3. ASSUME NEW a \in Accepts, Accept(a) \/ UserAnswerLost(a), ~FindByToken(a)
      PROVE  UNCHANGED held
  BY <1>3 DEF Accept, CheckExpiry, MarkExpired, FindMember, SaveUser, MarkAccepted,
              UserAnswerLost
<1>4. ASSUME NEW r \in Revokes, FindRevocable(r), held'[c] # held[c]
      PROVE  pc[c] = "idle" /\ Pending(held'[c]) /\ UNCHANGED status
  BY <1>4 DEF FindRevocable
<1>5. ASSUME NEW r \in Revokes, MarkRevoked(r) PROVE UNCHANGED held
  BY <1>5 DEF MarkRevoked
<1>6. ASSUME NEW w \in Workers, Sweep(w) \/ SweepFails(w) \/ Crash(w)
      PROVE  UNCHANGED held
  BY <1>6 DEF Sweep, SweepBegin, SweepUpdate, SweepFails, Crash
<1>7. ASSUME NEW d \in Calls, StatementFails(d) \/ UsersMissing(d) PROVE UNCHANGED held
  BY <1>7 DEF StatementFails, UsersMissing
<1>d. ASSUME NEW t \in Contested, DropSchema(t) PROVE UNCHANGED held
  BY <1>d DEF DropSchema
<1>8. CASE UNCHANGED vars
  BY <1>8 DEF vars
<1> QED
  BY <1>1, <1>2, <1>3, <1>4, <1>5, <1>6, <1>7, <1>d, <1>8 DEF Next, Revoke

-----------------------------------------------------------------------------
(* Accepted invitations and their users *)

Admitting == {"markAccepted", "accepted"}

\* The invitation's user is there, or went with the tenant's schema.
HasUser(i) == Key(i) \in users \/ TenantOf[i] \in dropped

\* Once there, it stays or goes with the schema.
LEMMA HasUserStays ==
    ASSUME TypeOK, [Next]_vars, NEW i, HasUser(i) PROVE HasUser(i)'
BY Monotone, KeyTenant DEF HasUser, UsersKept, Key

\* The strengthening: an accept that got past SaveUser has its user; an
\* invitation some call holds is stored; an invite that is not through has
\* stored nothing.
AcceptInv ==
    /\ \A a \in Accepts : pc[a] \in Admitting => held[a] # Nil /\ HasUser(held[a])
    /\ \A c \in Calls : held[c] # Nil => status[held[c]] # "none"
    /\ \A i \in Invites : pc[i] \in {"idle", "findUser", "store"} => status[i] = "none"
    /\ \A c \in Calls : pc[c] = "idle" => held[c] = Nil

\* Init satisfies the strengthening.
LEMMA AcceptInit == Init => AcceptInv
BY RequestsAssumption DEF Init, AcceptInv, Admitting, HasUser, Calls

\* Only SaveUser takes an accept among the admitted.
LEMMA AdmittedBySave ==
    ASSUME TypeOK, [Next]_vars, NEW a \in Accepts, pc'[a] \in Admitting, pc[a] \notin Admitting
    PROVE  SaveUser(a) /\ Key(held[a]) \notin users
<1> USE CallsAssumption
<1> USE DEF TypeOK, Goto, Calls, Admitting, rows, tables, cron, budget
<1>1. ASSUME NEW i \in Invites, Invite(i) \/ Expire(i) PROVE FALSE
  BY <1>1 DEF Invite, FindPending, FindInvitee, StoreInvitation, Expire
<1>2. ASSUME NEW b \in Accepts, Accept(b) \/ UserAnswerLost(b)
      PROVE  SaveUser(a) /\ Key(held[a]) \notin users
  BY <1>2 DEF Accept, FindByToken, CheckExpiry, MarkExpired, FindMember, SaveUser,
              MarkAccepted, UserAnswerLost
<1>3. ASSUME NEW r \in Revokes, Revoke(r) PROVE FALSE
  BY <1>3 DEF Revoke, FindRevocable, MarkRevoked
<1>4. ASSUME NEW w \in Workers, Sweep(w) \/ SweepFails(w) \/ Crash(w) PROVE FALSE
  BY <1>4 DEF Sweep, SweepBegin, SweepUpdate, SweepFails, Crash
<1>5. ASSUME NEW c \in Calls, StatementFails(c) \/ UsersMissing(c) PROVE FALSE
  BY <1>5 DEF StatementFails, UsersMissing
<1>d. ASSUME NEW t \in Contested, DropSchema(t) PROVE FALSE
  BY <1>d DEF DropSchema
<1>6. CASE UNCHANGED vars
  BY <1>6 DEF vars
<1> QED
  BY <1>1, <1>2, <1>3, <1>4, <1>5, <1>d, <1>6 DEF Next

\* An invitation becomes stored only by the last step of its invite.
LEMMA StoredByInvite ==
    ASSUME TypeOK, AcceptInv, [Next]_vars, NEW i \in Invites,
           pc'[i] \in {"idle", "findUser", "store"}
    PROVE  pc[i] \in {"idle", "findUser", "store"} /\ status'[i] = "none"
<1> USE CallsAssumption
<1> USE DEF TypeOK, AcceptInv, Goto, Calls, rows, tables, cron, budget
<1>1. ASSUME NEW j \in Invites, Invite(j) \/ Expire(j)
      PROVE  pc[i] \in {"idle", "findUser", "store"} /\ status'[i] = "none"
  BY <1>1 DEF Invite, FindPending, FindInvitee, StoreInvitation, Expire
<1>2. ASSUME NEW a \in Accepts, Accept(a) \/ UserAnswerLost(a)
      PROVE  pc[i] \in {"idle", "findUser", "store"} /\ status'[i] = "none"
  <2>1. CASE MarkExpired(a) \/ MarkAccepted(a)
    BY <2>1 DEF MarkExpired, MarkAccepted, AcceptedRows, Holding
  <2>2. CASE ~(MarkExpired(a) \/ MarkAccepted(a))
    BY <1>2, <2>2 DEF Accept, FindByToken, CheckExpiry, FindMember, SaveUser,
                      UserAnswerLost
  <2> QED
    BY <2>1, <2>2
<1>3. ASSUME NEW r \in Revokes, Revoke(r)
      PROVE  pc[i] \in {"idle", "findUser", "store"} /\ status'[i] = "none"
  BY <1>3 DEF Revoke, FindRevocable, MarkRevoked, Holding
<1>4. ASSUME NEW w \in Workers, Sweep(w) \/ SweepFails(w) \/ Crash(w)
      PROVE  pc[i] \in {"idle", "findUser", "store"} /\ status'[i] = "none"
  BY <1>4 DEF Sweep, SweepBegin, SweepUpdate, SweepFails, Crash, Swept, Pending
<1>5. ASSUME NEW c \in Calls, StatementFails(c) \/ UsersMissing(c)
      PROVE  pc[i] \in {"idle", "findUser", "store"} /\ status'[i] = "none"
  BY <1>5 DEF StatementFails, UsersMissing
<1>d. ASSUME NEW t \in Contested, DropSchema(t)
      PROVE  pc[i] \in {"idle", "findUser", "store"} /\ status'[i] = "none"
  BY <1>d DEF DropSchema
<1>6. CASE UNCHANGED vars
  BY <1>6 DEF vars
<1> QED
  BY <1>1, <1>2, <1>3, <1>4, <1>5, <1>d, <1>6 DEF Next

\* No call goes back to its beginning.
LEMMA IdleOnce ==
    ASSUME TypeOK, [Next]_vars, NEW c \in Calls, pc'[c] = "idle"
    PROVE  pc[c] = "idle" /\ held'[c] = held[c]
<1> USE DEF TypeOK, Goto, Calls, rows, tables, cron, budget
<1>1. ASSUME NEW i \in Invites, Invite(i) \/ Expire(i)
      PROVE  pc[c] = "idle" /\ held'[c] = held[c]
  BY <1>1 DEF Invite, FindPending, FindInvitee, StoreInvitation, Expire
<1>2. ASSUME NEW a \in Accepts, Accept(a) \/ UserAnswerLost(a)
      PROVE  pc[c] = "idle" /\ held'[c] = held[c]
  BY <1>2 DEF Accept, FindByToken, CheckExpiry, MarkExpired, FindMember, SaveUser,
              MarkAccepted, UserAnswerLost
<1>3. ASSUME NEW r \in Revokes, Revoke(r)
      PROVE  pc[c] = "idle" /\ held'[c] = held[c]
  BY <1>3 DEF Revoke, FindRevocable, MarkRevoked
<1>4. ASSUME NEW w \in Workers, Sweep(w) \/ SweepFails(w) \/ Crash(w)
      PROVE  pc[c] = "idle" /\ held'[c] = held[c]
  BY <1>4 DEF Sweep, SweepBegin, SweepUpdate, SweepFails, Crash
<1>5. ASSUME NEW d \in Calls, StatementFails(d) \/ UsersMissing(d)
      PROVE  pc[c] = "idle" /\ held'[c] = held[c]
  BY <1>5 DEF StatementFails, UsersMissing
<1>d. ASSUME NEW t \in Contested, DropSchema(t)
      PROVE  pc[c] = "idle" /\ held'[c] = held[c]
  BY <1>d DEF DropSchema
<1>6. CASE UNCHANGED vars
  BY <1>6 DEF vars
<1> QED
  BY <1>1, <1>2, <1>3, <1>4, <1>5, <1>d, <1>6 DEF Next

\* The strengthening is inductive.
LEMMA AcceptStep == TypeOK /\ AcceptInv /\ [Next]_vars => AcceptInv'
<1> SUFFICES ASSUME TypeOK, AcceptInv, [Next]_vars PROVE AcceptInv'
  OBVIOUS
<1> USE CallsAssumption, TypeStep, HeldOnce, IdleOnce, Monotone
<1>1. ASSUME NEW a \in Accepts, pc'[a] \in Admitting
      PROVE  held'[a] # Nil /\ HasUser(held[a])'
  <2>1. CASE pc[a] \in Admitting
    <3>1. held[a] # Nil /\ HasUser(held[a]) /\ held'[a] = held[a]
      BY <2>1 DEF AcceptInv, Admitting, Calls
    <3> QED
      BY <3>1, HasUserStays DEF HasUser, Key
  <2>2. CASE pc[a] \notin Admitting
    <3>1. SaveUser(a)
      BY <1>1, <2>2, AdmittedBySave
    <3>2. held[a] # Nil /\ UNCHANGED held
      BY <3>1 DEF SaveUser, TypeOK
    <3>3. Key(held[a]) \in users'
      BY <3>1 DEF SaveUser
    <3> QED
      BY <3>2, <3>3 DEF HasUser, Key
  <2> QED
    BY <2>1, <2>2
<1>2. ASSUME NEW c \in Calls, held'[c] # Nil PROVE status'[held'[c]] # "none"
  <2>1. CASE held'[c] = held[c]
    BY <1>2, <2>1 DEF AcceptInv, TypeOK
  <2>2. CASE held'[c] # held[c]
    BY <2>2 DEF Pending
  <2> QED
    BY <2>1, <2>2
<1>3. ASSUME NEW i \in Invites, pc'[i] \in {"idle", "findUser", "store"}
      PROVE  status'[i] = "none"
  BY <1>3, StoredByInvite
<1>4. ASSUME NEW c \in Calls, pc'[c] = "idle" PROVE held'[c] = Nil
  BY <1>4 DEF AcceptInv
<1> QED
  BY <1>1, <1>2, <1>3, <1>4 DEF AcceptInv

\* Only MarkAccepted sets acceptedAt, of the invitation its accept holds.
LEMMA AcceptedByMark ==
    ASSUME TypeOK, [Next]_vars, NEW i \in acceptedAt' \ acceptedAt
    PROVE  \E a \in Accepts : pc[a] = "markAccepted" /\ i = held[a] /\ MarkAccepted(a)
<1> USE DEF rows, tables, cron, budget
<1>1. ASSUME NEW j \in Invites, Invite(j) \/ Expire(j) PROVE UNCHANGED acceptedAt
  BY <1>1 DEF Invite, FindPending, FindInvitee, StoreInvitation, Expire
<1>2. ASSUME NEW a \in Accepts, MarkAccepted(a)
      PROVE  pc[a] = "markAccepted" /\ i = held[a]
  BY <1>2 DEF MarkAccepted, AcceptedRows
<1>3. ASSUME NEW a \in Accepts, Accept(a) \/ UserAnswerLost(a), ~MarkAccepted(a)
      PROVE  UNCHANGED acceptedAt
  BY <1>3 DEF Accept, FindByToken, CheckExpiry, MarkExpired, FindMember, SaveUser,
              UserAnswerLost
<1>4. ASSUME NEW r \in Revokes, Revoke(r) PROVE UNCHANGED acceptedAt
  BY <1>4 DEF Revoke, FindRevocable, MarkRevoked
<1>5. ASSUME NEW w \in Workers, Sweep(w) \/ SweepFails(w) \/ Crash(w)
      PROVE  UNCHANGED acceptedAt
  BY <1>5 DEF Sweep, SweepBegin, SweepUpdate, SweepFails, Crash
<1>6. ASSUME NEW c \in Calls, StatementFails(c) \/ UsersMissing(c) PROVE UNCHANGED acceptedAt
  BY <1>6 DEF StatementFails, UsersMissing
<1>d. ASSUME NEW t \in Contested, DropSchema(t) PROVE UNCHANGED acceptedAt
  BY <1>d DEF DropSchema
<1>7. CASE UNCHANGED vars
  BY <1>7 DEF vars
<1> QED
  BY <1>1, <1>2, <1>3, <1>4, <1>5, <1>6, <1>d, <1>7 DEF Next

\* Nobody is marked accepted before the user is there.
LEMMA AcceptedHasUserStep ==
    TypeOK /\ AcceptInv /\ AcceptedHasUser /\ [Next]_vars => AcceptedHasUser'
<1> SUFFICES ASSUME TypeOK, AcceptInv, AcceptedHasUser, [Next]_vars, NEW i \in acceptedAt'
             PROVE  HasUser(i)'
  BY DEF AcceptedHasUser, HasUser, Key
<1>1. CASE i \in acceptedAt
  BY <1>1, HasUserStays DEF AcceptedHasUser, HasUser
<1>2. CASE i \notin acceptedAt
  <2>1. PICK a \in Accepts : pc[a] = "markAccepted" /\ i = held[a]
    BY <1>2, AcceptedByMark
  <2>2. HasUser(i)
    BY <2>1 DEF AcceptInv, Admitting
  <2> QED
    BY <2>2, HasUserStays
<1> QED
  BY <1>1, <1>2

\* The one that saves the user second finds it there.
LEMMA OneAcceptStep ==
    TypeOK /\ AcceptInv /\ OneAcceptPerMember /\ [Next]_vars => OneAcceptPerMember'
<1> SUFFICES ASSUME TypeOK, AcceptInv, OneAcceptPerMember, [Next]_vars,
                    NEW a \in Accepts, NEW b \in Accepts,
                    pc'[a] \in Admitting, pc'[b] \in Admitting,
                    Key(held'[a]) = Key(held'[b]), TenantOf[held'[a]] \notin dropped'
             PROVE  a = b
  BY DEF OneAcceptPerMember, Admitting, Key
<1>h. ASSUME NEW c \in Accepts, pc'[c] \in Admitting PROVE held'[c] = held[c]
  <2>1. CASE pc[c] \in Admitting
    BY <2>1, HeldOnce DEF Admitting, Calls
  <2>2. CASE pc[c] \notin Admitting
    BY <1>h, <2>2, AdmittedBySave DEF SaveUser
  <2> QED
    BY <2>1, <2>2
<1>k. /\ Key(held[a]) = Key(held[b]) /\ TenantOf[held[a]] = TenantOf[held[b]]
      /\ TenantOf[held[a]] \notin dropped
  BY <1>h, Monotone, KeyTenant DEF UsersKept
<1>1. CASE pc[a] \in Admitting /\ pc[b] \in Admitting
  BY <1>1, <1>k DEF OneAcceptPerMember, Admitting
<1>2. CASE pc[a] \in Admitting /\ pc[b] \notin Admitting
  BY <1>2, <1>k, AdmittedBySave DEF AcceptInv, HasUser
<1>3. CASE pc[a] \notin Admitting /\ pc[b] \in Admitting
  BY <1>3, <1>k, AdmittedBySave DEF AcceptInv, HasUser
<1>4. CASE pc[a] \notin Admitting /\ pc[b] \notin Admitting
  <2>1. SaveUser(a) /\ SaveUser(b)
    BY <1>4, AdmittedBySave
  <2>2. Key(held[a]) \notin users
    BY <1>4, AdmittedBySave
  <2>3. pc' = [pc EXCEPT ![a] = "markAccepted"] /\ pc' = [pc EXCEPT ![b] = "markAccepted"]
    BY <2>1, <2>2, <1>k DEF SaveUser, Goto
  <2> QED
    BY <1>4, <2>3 DEF TypeOK, Calls, Admitting
<1> QED
  BY <1>1, <1>2, <1>3, <1>4

\* The induction that carries both.
LEMMA AcceptInvariant ==
    Spec => [](TypeOK /\ AcceptInv /\ AcceptedHasUser /\ OneAcceptPerMember)
<1>1. Init => TypeOK /\ AcceptInv /\ AcceptedHasUser /\ OneAcceptPerMember
  BY TypeInit, AcceptInit DEF Init, AcceptedHasUser, OneAcceptPerMember, Calls
<1>2. TypeOK /\ AcceptInv /\ AcceptedHasUser /\ OneAcceptPerMember /\ [Next]_vars =>
        (TypeOK /\ AcceptInv /\ AcceptedHasUser /\ OneAcceptPerMember)'
  BY TypeStep, AcceptStep, AcceptedHasUserStep, OneAcceptStep
<1> QED
  BY <1>1, <1>2, PTL DEF Spec

\* An accepted invitation has its user, in the tenant it was for.
THEOREM AcceptedHasUserHolds == Spec => []AcceptedHasUser
BY AcceptInvariant, PTL

\* At most one accept per tenant and e-mail gets past saving the user.
THEOREM OneAcceptHolds == Spec => []OneAcceptPerMember
BY AcceptInvariant, PTL

-----------------------------------------------------------------------------
(* Expiry *)

\* The strengthening: what a sweep or an accept took for stale is stale.
ExpiryInv ==
    /\ ExpiredOnlyWhenStale
    /\ \A a \in Accepts : pc[a] = "markExpired" => held[a] \in expired
    /\ \A w \in Workers : cutoff[w] \subseteq expired

\* The strengthening is inductive.
LEMMA ExpiryStep == TypeOK /\ ExpiryInv /\ [Next]_vars => ExpiryInv'
<1> SUFFICES ASSUME TypeOK, ExpiryInv, [Next]_vars PROVE ExpiryInv'
  OBVIOUS
<1> USE CallsAssumption
<1> USE DEF TypeOK, ExpiryInv, ExpiredOnlyWhenStale, Goto, Calls, rows, tables, cron, budget
<1>1. ASSUME NEW i \in Invites, Invite(i) \/ Expire(i) PROVE ExpiryInv'
  BY <1>1 DEF Invite, FindPending, FindInvitee, StoreInvitation, Expire
<1>2. ASSUME NEW a \in Accepts,
             FindByToken(a) \/ CheckExpiry(a) \/ FindMember(a) \/ SaveUser(a)
                \/ UserAnswerLost(a)
      PROVE  ExpiryInv'
  BY <1>2 DEF FindByToken, CheckExpiry, FindMember, SaveUser, UserAnswerLost
<1>3. ASSUME NEW a \in Accepts, MarkExpired(a) \/ MarkAccepted(a) PROVE ExpiryInv'
  BY <1>3 DEF MarkExpired, MarkAccepted, AcceptedRows, Holding
<1>4. ASSUME NEW r \in Revokes, Revoke(r) PROVE ExpiryInv'
  BY <1>4 DEF Revoke, FindRevocable, MarkRevoked
<1>5. ASSUME NEW w \in Workers, Sweep(w) \/ SweepFails(w) PROVE ExpiryInv'
  BY <1>5 DEF Sweep, SweepBegin, SweepUpdate, SweepFails, SweepEnds, Swept
<1>6. ASSUME NEW w \in Workers, Crash(w) PROVE ExpiryInv'
  BY <1>6 DEF Crash, SweepEnds
<1>7. ASSUME NEW c \in Calls, StatementFails(c) \/ UsersMissing(c) PROVE ExpiryInv'
  BY <1>7 DEF StatementFails, UsersMissing
<1>d. ASSUME NEW t \in Contested, DropSchema(t) PROVE ExpiryInv'
  BY <1>d DEF DropSchema
<1>8. CASE UNCHANGED vars
  BY <1>8 DEF vars
<1> QED
  BY <1>1, <1>2, <1>3, <1>4, <1>5, <1>6, <1>7, <1>d, <1>8 DEF Next, Accept

\* No sweep and no accept expires an invitation before its time.
THEOREM ExpiryHolds == Spec => []ExpiredOnlyWhenStale
<1>1. Init => TypeOK /\ ExpiryInv
  BY TypeInit DEF Init, ExpiryInv, ExpiredOnlyWhenStale, Calls
<1>2. TypeOK /\ ExpiryInv /\ [Next]_vars => TypeOK' /\ ExpiryInv'
  BY TypeStep, ExpiryStep
<1>3. ExpiryInv => ExpiredOnlyWhenStale
  BY DEF ExpiryInv
<1> QED
  BY <1>1, <1>2, <1>3, PTL DEF Spec

-----------------------------------------------------------------------------
(* Settled invitations *)

Settled(i) == status[i] \notin {"none", "PENDING"}

\* A settled invitation that no running call holds keeps its status.
LEMMA SettledStep ==
    ASSUME TypeOK, AcceptInv, [Next]_vars, NEW i \in Invites, Settled(i),
           \A c \in Calls : pc[c] \in Running => held[c] # i
    PROVE  status'[i] = status[i]
<1> USE DEF TypeOK, Settled, Calls, Running, rows, tables, cron, budget
<1>1. ASSUME NEW j \in Invites, Invite(j) \/ Expire(j) PROVE status'[i] = status[i]
  BY <1>1 DEF Invite, FindPending, FindInvitee, StoreInvitation, Expire, AcceptInv
<1>2. ASSUME NEW a \in Accepts, Accept(a) \/ UserAnswerLost(a)
      PROVE  status'[i] = status[i]
  BY <1>2 DEF Accept, FindByToken, CheckExpiry, MarkExpired, FindMember, SaveUser,
              MarkAccepted, AcceptedRows, UserAnswerLost
<1>3. ASSUME NEW r \in Revokes, Revoke(r) PROVE status'[i] = status[i]
  BY <1>3 DEF Revoke, FindRevocable, MarkRevoked
<1>4. ASSUME NEW w \in Workers, Sweep(w) \/ SweepFails(w) \/ Crash(w)
      PROVE  status'[i] = status[i]
  BY <1>4 DEF Sweep, SweepBegin, SweepUpdate, SweepFails, Crash, Swept, Pending
<1>5. ASSUME NEW c \in Calls, StatementFails(c) \/ UsersMissing(c) PROVE status'[i] = status[i]
  BY <1>5 DEF StatementFails, UsersMissing
<1>d. ASSUME NEW t \in Contested, DropSchema(t) PROVE status'[i] = status[i]
  BY <1>d DEF DropSchema
<1>6. CASE UNCHANGED vars
  BY <1>6 DEF vars
<1> QED
  BY <1>1, <1>2, <1>3, <1>4, <1>5, <1>d, <1>6 DEF Next

\* A settled invitation changes only under a call that read it as pending.
THEOREM SettledHolds == Spec => SettledStaysUnlessRaced
<1>1. TypeOK /\ AcceptInv /\ [Next]_vars =>
        [\A i \in Invites :
            (/\ status[i] \notin {"none", "PENDING"}
             /\ \A c \in Calls : pc[c] \in Running => held[c] # i)
            => status'[i] = status[i]]_vars
  BY SettledStep DEF Settled
<1> QED
  BY <1>1, AcceptInvariant, PTL DEF Spec, SettledStaysUnlessRaced

-----------------------------------------------------------------------------
(* Pending invitations of members *)

\* A users row that signup created and no drop has removed.
Founder(k) == k \in Owners /\ k[1] \notin dropped

\* The strengthening: a user who is no such owner was invited, and an invite about
\* to be stored, or pending, is for no such owner.
InvitedInv ==
    /\ \A k \in users : Founder(k) \/ \E j \in Invites : Key(j) = k /\ status[j] # "none"
    /\ \A i \in Invites : pc[i] = "store" => ~Founder(Key(i))
    /\ \A k : Founder(k) => k \in users
    /\ \A i \in Invites : Pending(i) => ~Founder(Key(i))

\* Only SaveUser, its answer lost or not, adds a user: the invited one.
LEMMA UsersGrow ==
    ASSUME TypeOK, [Next]_vars, NEW k \in users' \ users
    PROVE  \E a \in Accepts : k = Key(held[a]) /\ held[a] \in Invites
                             /\ (SaveUser(a) \/ UserAnswerLost(a))
<1> USE DEF rows, tables, cron, budget
<1>1. ASSUME NEW j \in Invites, Invite(j) \/ Expire(j) PROVE UNCHANGED users
  BY <1>1 DEF Invite, FindPending, FindInvitee, StoreInvitation, Expire
<1>2. ASSUME NEW a \in Accepts, SaveUser(a) \/ UserAnswerLost(a)
      PROVE  k = Key(held[a]) /\ held[a] \in Invites
  BY <1>2 DEF SaveUser, UserAnswerLost, TypeOK, Calls
<1>3. ASSUME NEW a \in Accepts, Accept(a), ~SaveUser(a) PROVE UNCHANGED users
  BY <1>3 DEF Accept, FindByToken, CheckExpiry, MarkExpired, FindMember, MarkAccepted
<1>4. ASSUME NEW r \in Revokes, Revoke(r) PROVE UNCHANGED users
  BY <1>4 DEF Revoke, FindRevocable, MarkRevoked
<1>5. ASSUME NEW w \in Workers, Sweep(w) \/ SweepFails(w) \/ Crash(w)
      PROVE  UNCHANGED users
  BY <1>5 DEF Sweep, SweepBegin, SweepUpdate, SweepFails, Crash
<1>6. ASSUME NEW c \in Calls, StatementFails(c) \/ UsersMissing(c) PROVE UNCHANGED users
  BY <1>6 DEF StatementFails, UsersMissing
<1>d. ASSUME NEW t \in Contested, DropSchema(t) PROVE UNCHANGED users
  BY <1>d DEF DropSchema
<1>7. CASE UNCHANGED vars
  BY <1>7 DEF vars
<1> QED
  BY <1>1, <1>2, <1>3, <1>4, <1>5, <1>6, <1>d, <1>7 DEF Next

\* Only StoreInvitation makes an invitation pending.
LEMMA PendingByStore ==
    ASSUME TypeOK, [Next]_vars, NEW i \in Invites, status'[i] = "PENDING", ~Pending(i)
    PROVE  StoreInvitation(i)
<1> USE DEF TypeOK, Pending, rows, tables, cron, budget
<1>1. ASSUME NEW j \in Invites, Invite(j) \/ Expire(j) PROVE StoreInvitation(i)
  BY <1>1 DEF Invite, FindPending, FindInvitee, StoreInvitation, Expire
<1>2. ASSUME NEW a \in Accepts, Accept(a) \/ UserAnswerLost(a) PROVE FALSE
  BY <1>2 DEF Accept, FindByToken, CheckExpiry, MarkExpired, FindMember, SaveUser,
              MarkAccepted, UserAnswerLost
<1>3. ASSUME NEW r \in Revokes, Revoke(r) PROVE FALSE
  BY <1>3 DEF Revoke, FindRevocable, MarkRevoked
<1>4. ASSUME NEW w \in Workers, Sweep(w) \/ SweepFails(w) \/ Crash(w) PROVE FALSE
  BY <1>4 DEF Sweep, SweepBegin, SweepUpdate, SweepFails, Crash
<1>5. ASSUME NEW c \in Calls, StatementFails(c) \/ UsersMissing(c) PROVE FALSE
  BY <1>5 DEF StatementFails, UsersMissing
<1>d. ASSUME NEW t \in Contested, DropSchema(t) PROVE FALSE
  BY <1>d DEF DropSchema
<1>6. CASE UNCHANGED vars
  BY <1>6 DEF vars
<1> QED
  BY <1>1, <1>2, <1>3, <1>4, <1>5, <1>d, <1>6 DEF Next

\* A drop leaves the tenant no users.
LEMMA DropsOut ==
    ASSUME TypeOK, [Next]_vars, NEW k, k[1] \in dropped' \ dropped
    PROVE  k \notin users'
<1> USE DEF rows, tables, cron, budget
<1>1. ASSUME NEW j \in Invites, Invite(j) \/ Expire(j) PROVE UNCHANGED dropped
  BY <1>1 DEF Invite, FindPending, FindInvitee, StoreInvitation, Expire
<1>2. ASSUME NEW a \in Accepts, Accept(a) \/ UserAnswerLost(a) PROVE UNCHANGED dropped
  BY <1>2 DEF Accept, FindByToken, CheckExpiry, MarkExpired, FindMember, SaveUser,
              MarkAccepted, UserAnswerLost
<1>3. ASSUME NEW r \in Revokes, Revoke(r) PROVE UNCHANGED dropped
  BY <1>3 DEF Revoke, FindRevocable, MarkRevoked
<1>4. ASSUME NEW w \in Workers, Sweep(w) \/ SweepFails(w) \/ Crash(w)
      PROVE  UNCHANGED dropped
  BY <1>4 DEF Sweep, SweepBegin, SweepUpdate, SweepFails, Crash
<1>5. ASSUME NEW c \in Calls, StatementFails(c) \/ UsersMissing(c)
      PROVE  UNCHANGED dropped
  BY <1>5 DEF StatementFails, UsersMissing
<1>6. ASSUME NEW t \in Contested, DropSchema(t) PROVE k \notin users'
  BY <1>6 DEF DropSchema
<1>7. CASE UNCHANGED vars
  BY <1>7 DEF vars
<1> QED
  BY <1>1, <1>2, <1>3, <1>4, <1>5, <1>6, <1>7 DEF Next

\* An invite gets to "store" only by finding no such user.
LEMMA StoreAfterFind ==
    ASSUME TypeOK, [Next]_vars, NEW i \in Invites, pc'[i] = "store", pc[i] # "store"
    PROVE  Key(i) \notin users
<1> USE CallsAssumption
<1> USE DEF TypeOK, Goto, Calls, rows, tables, cron, budget
<1>1. ASSUME NEW j \in Invites, Invite(j) \/ Expire(j) PROVE Key(i) \notin users
  BY <1>1 DEF Invite, FindPending, FindInvitee, StoreInvitation, Expire
<1>2. ASSUME NEW a \in Accepts, Accept(a) \/ UserAnswerLost(a) PROVE FALSE
  BY <1>2 DEF Accept, FindByToken, CheckExpiry, MarkExpired, FindMember, SaveUser,
              MarkAccepted, UserAnswerLost
<1>3. ASSUME NEW r \in Revokes, Revoke(r) PROVE FALSE
  BY <1>3 DEF Revoke, FindRevocable, MarkRevoked
<1>4. ASSUME NEW w \in Workers, Sweep(w) \/ SweepFails(w) \/ Crash(w) PROVE FALSE
  BY <1>4 DEF Sweep, SweepBegin, SweepUpdate, SweepFails, Crash
<1>5. ASSUME NEW c \in Calls, StatementFails(c) \/ UsersMissing(c) PROVE FALSE
  BY <1>5 DEF StatementFails, UsersMissing
<1>d. ASSUME NEW t \in Contested, DropSchema(t) PROVE FALSE
  BY <1>d DEF DropSchema
<1>6. CASE UNCHANGED vars
  BY <1>6 DEF vars
<1> QED
  BY <1>1, <1>2, <1>3, <1>4, <1>5, <1>d, <1>6 DEF Next

\* The strengthening is inductive.
LEMMA InvitedStep == TypeOK /\ AcceptInv /\ InvitedInv /\ [Next]_vars => InvitedInv'
<1> SUFFICES ASSUME TypeOK, AcceptInv, InvitedInv, [Next]_vars PROVE InvitedInv'
  OBVIOUS
<1> USE Monotone
<1>0. ASSUME NEW k, Founder(k)' PROVE Founder(k) /\ k \in users'
  <2>1. k[1] \notin dropped' /\ Founder(k)
    BY <1>0 DEF Founder, UsersKept
  <2> QED
    BY <2>1 DEF InvitedInv, UsersKept
<1>1. ASSUME NEW k \in users', ~Founder(k)'
      PROVE  \E j \in Invites : Key(j) = k /\ status'[j] # "none"
  <2>1. CASE k \in users /\ ~Founder(k)
    BY <2>1 DEF InvitedInv
  <2>2. CASE k \notin users
    <3>1. PICK a \in Accepts : k = Key(held[a]) /\ held[a] \in Invites
      BY <2>2, UsersGrow
    <3>2. status[held[a]] # "none"
      BY <3>1, CallsAssumption DEF AcceptInv, Calls
    <3> QED
      BY <3>1, <3>2
  <2>3. CASE k \in users /\ Founder(k)
    \* A drop that ends a founder removes the row.
    BY <1>1, <2>3, DropsOut DEF Founder
  <2> QED
    BY <2>1, <2>2, <2>3
<1>2. ASSUME NEW i \in Invites, pc'[i] = "store" PROVE ~Founder(Key(i))'
  BY <1>2, <1>0, StoreAfterFind DEF InvitedInv, Founder, Key
<1>3. ASSUME NEW i \in Invites, status'[i] = "PENDING" PROVE ~Founder(Key(i))'
  BY <1>3, <1>0, PendingByStore DEF InvitedInv, StoreInvitation, Founder, Key
<1> QED
  BY <1>0, <1>1, <1>2, <1>3 DEF InvitedInv, Pending, Founder, Key

\* faults and crashes only count up; before them a call leaves "markAccepted"
\* by marking its invitation.
LEMMA MarkedOrMarking ==
    ASSUME TypeOK, [Next]_vars, faults' = 0, crashes' = 0,
           NEW a \in Accepts, pc[a] = "markAccepted"
    PROVE  /\ faults = 0 /\ crashes = 0
           /\ (pc'[a] = "markAccepted" /\ held'[a] = held[a]) \/ MarkAccepted(a)
<1> USE CallsAssumption, BoundsAssumption
<1> USE DEF TypeOK, Goto, Calls, rows, tables, cron, budget
<1>1. ASSUME NEW j \in Invites, Invite(j) \/ Expire(j)
      PROVE  UNCHANGED budget /\ pc'[a] = "markAccepted" /\ held'[a] = held[a]
  BY <1>1 DEF Invite, FindPending, FindInvitee, StoreInvitation, Expire
<1>2. ASSUME NEW b \in Accepts, Accept(b)
      PROVE  UNCHANGED budget
             /\ ((pc'[a] = "markAccepted" /\ held'[a] = held[a]) \/ MarkAccepted(a))
  BY <1>2 DEF Accept, FindByToken, CheckExpiry, MarkExpired, FindMember, SaveUser,
              MarkAccepted
<1>3. ASSUME NEW r \in Revokes, Revoke(r)
      PROVE  UNCHANGED budget /\ pc'[a] = "markAccepted" /\ held'[a] = held[a]
  BY <1>3 DEF Revoke, FindRevocable, MarkRevoked
<1>4. ASSUME NEW w \in Workers, Sweep(w)
      PROVE  UNCHANGED budget /\ pc'[a] = "markAccepted" /\ held'[a] = held[a]
  BY <1>4 DEF Sweep, SweepBegin, SweepUpdate
<1>5. ~ \E c \in Calls : StatementFails(c)
  BY DEF StatementFails
<1>d. ASSUME NEW c \in Calls, UsersMissing(c)
      PROVE  UNCHANGED budget /\ pc'[a] = "markAccepted" /\ held'[a] = held[a]
  BY <1>d DEF UsersMissing
<1>e. ASSUME NEW t \in Contested, DropSchema(t)
      PROVE  UNCHANGED budget /\ pc'[a] = "markAccepted" /\ held'[a] = held[a]
  BY <1>e DEF DropSchema
<1>6. ~ \E b \in Accepts : UserAnswerLost(b)
  BY DEF UserAnswerLost
<1>7. ~ \E w \in Workers : SweepFails(w) \/ Crash(w)
  BY DEF SweepFails, Crash
<1>8. CASE UNCHANGED vars
  BY <1>8 DEF vars
<1> QED
  BY <1>1, <1>2, <1>3, <1>4, <1>5, <1>d, <1>e, <1>6, <1>7,
     <1>8 DEF Next

\* The cause a pending invitation of a member has.
Cause(i) ==
    \/ \E a \in Accepts : pc[a] = "markAccepted" /\ held[a] = i
    \/ \E j \in Invites \ {i} : Key(j) = Key(i) /\ status[j] # "none"

\* An invitation stored for somebody who is a user by then is not the first.
LEMMA StoredTooLate ==
    ASSUME TypeOK, AcceptInv, InvitedInv, [Next]_vars,
           NEW i \in Invites, StoreInvitation(i), Key(i) \in users'
    PROVE  Cause(i)'
<1>1. Key(i) \in users /\ ~Founder(Key(i)) /\ status[i] = "none"
  BY DEF StoreInvitation, InvitedInv, AcceptInv, tables
<1>2. PICK j \in Invites : Key(j) = Key(i) /\ status[j] # "none"
  BY <1>1 DEF InvitedInv
<1>3. j # i /\ status'[j] # "none"
  BY <1>1, <1>2, Monotone
<1> QED
  BY <1>2, <1>3 DEF Cause

\* The accept that saves the user of a pending invitation is that invitation's,
\* and about to mark it, or another invitation's of the same user.
LEMMA SavedNow ==
    ASSUME TypeOK, AcceptInv, [Next]_vars, faults' = 0,
           NEW i \in Invites, Key(i) \in users' \ users
    PROVE  Cause(i)'
<1>1. PICK a \in Accepts : Key(i) = Key(held[a]) /\ held[a] \in Invites
                           /\ (SaveUser(a) \/ UserAnswerLost(a))
  BY UsersGrow
<1>2. ~UserAnswerLost(a)
  BY BoundsAssumption DEF UserAnswerLost, TypeOK
<1>3. pc' = [pc EXCEPT ![a] = "markAccepted"] /\ UNCHANGED held
  BY <1>1, <1>2 DEF SaveUser, Goto
<1>4. pc'[a] = "markAccepted" /\ held'[a] = held[a]
  BY <1>3 DEF TypeOK, Calls
<1>5. CASE held[a] = i
  BY <1>4, <1>5 DEF Cause
<1>6. CASE held[a] # i
  <2>1. held[a] # Nil /\ status[held[a]] # "none"
    BY <1>1, CallsAssumption DEF AcceptInv, Calls
  <2>2. status'[held[a]] # "none"
    BY <1>1, <2>1, Monotone
  <2> QED
    BY <1>1, <1>6, <2>2 DEF Cause
<1> QED
  BY <1>5, <1>6

\* A cause lasts as long as the invitation is pending.
LEMMA CauseLasts ==
    ASSUME TypeOK, [Next]_vars, faults' = 0, crashes' = 0,
           NEW i \in Invites, status'[i] = "PENDING", Cause(i)
    PROVE  Cause(i)'
<1>1. CASE \E a \in Accepts : pc[a] = "markAccepted" /\ held[a] = i
  <2>1. PICK a \in Accepts : pc[a] = "markAccepted" /\ held[a] = i
    BY <1>1
  <2>2. ~MarkAccepted(a)
    BY <2>1 DEF MarkAccepted, AcceptedRows
  <2>3. pc'[a] = "markAccepted" /\ held'[a] = i
    BY <2>1, <2>2, MarkedOrMarking
  <2> QED
    BY <2>3 DEF Cause
<1>2. CASE \E j \in Invites \ {i} : Key(j) = Key(i) /\ status[j] # "none"
  BY <1>2, Monotone DEF Cause
<1> QED
  BY <1>1, <1>2 DEF Cause

\* faults and crashes never go back to 0.
LEMMA BudgetGrows ==
    ASSUME TypeOK, [Next]_vars, faults' = 0, crashes' = 0
    PROVE  faults = 0 /\ crashes = 0
<1> USE BoundsAssumption
<1> USE DEF TypeOK, rows, tables, cron, budget
<1>1. ASSUME NEW j \in Invites, Invite(j) \/ Expire(j) PROVE UNCHANGED budget
  BY <1>1 DEF Invite, FindPending, FindInvitee, StoreInvitation, Expire
<1>2. ASSUME NEW b \in Accepts, Accept(b) PROVE UNCHANGED budget
  BY <1>2 DEF Accept, FindByToken, CheckExpiry, MarkExpired, FindMember, SaveUser,
              MarkAccepted
<1>3. ASSUME NEW r \in Revokes, Revoke(r) PROVE UNCHANGED budget
  BY <1>3 DEF Revoke, FindRevocable, MarkRevoked
<1>4. ASSUME NEW w \in Workers, Sweep(w) PROVE UNCHANGED budget
  BY <1>4 DEF Sweep, SweepBegin, SweepUpdate
<1>5. ~ \E c \in Calls : StatementFails(c)
  BY DEF StatementFails
<1>d. ASSUME NEW c \in Calls, UsersMissing(c) PROVE UNCHANGED budget
  BY <1>d DEF UsersMissing
<1>e. ASSUME NEW t \in Contested, DropSchema(t) PROVE UNCHANGED budget
  BY <1>e DEF DropSchema
<1>6. ~ \E b \in Accepts : UserAnswerLost(b)
  BY DEF UserAnswerLost
<1>7. ~ \E w \in Workers : SweepFails(w) \/ Crash(w)
  BY DEF SweepFails, Crash
<1>8. CASE UNCHANGED vars
  BY <1>8 DEF vars
<1> QED
  BY <1>1, <1>2, <1>3, <1>4, <1>5, <1>d, <1>e, <1>6, <1>7,
     <1>8 DEF Next

\* Every pending invitation of a member keeps or gets a cause.
LEMMA PendingMemberStep ==
    TypeOK /\ AcceptInv /\ InvitedInv /\ PendingMemberHasCause /\ [Next]_vars
        => PendingMemberHasCause'
<1> SUFFICES ASSUME TypeOK, AcceptInv, InvitedInv, PendingMemberHasCause, [Next]_vars,
                    faults' = 0, crashes' = 0,
                    NEW i \in Invites, status'[i] = "PENDING", Key(i) \in users'
             PROVE  Cause(i)'
  BY DEF PendingMemberHasCause, Cause, Pending, Key
<1>1. CASE ~Pending(i)
  BY <1>1, PendingByStore, StoredTooLate
<1>2. CASE Pending(i) /\ Key(i) \notin users
  BY <1>2, SavedNow
<1>3. CASE Pending(i) /\ Key(i) \in users
  <2>1. Cause(i)
    BY <1>3, BudgetGrows DEF PendingMemberHasCause, Cause
  <2> QED
    BY <2>1, CauseLasts
<1> QED
  BY <1>1, <1>2, <1>3

\* Undisturbed, a pending invitation of a member is being marked, or is one of
\* several stored for the same user.
THEOREM PendingMemberHolds == Spec => []PendingMemberHasCause
<1>1. ASSUME Init PROVE InvitedInv /\ PendingMemberHasCause
  <2>1. \A i \in Invites : Pending(i) => Key(i) \notin Owners
    BY <1>1, RequestsAssumption DEF Init, Pending, Key
  <2>2. \A i \in Invites : pc[i] # "store"
    BY <1>1 DEF Init, Calls
  <2>3. InvitedInv
    BY <1>1, <2>1, <2>2 DEF Init, InvitedInv, Founder
  <2> QED
    BY <1>1, <2>1, <2>3 DEF Init, PendingMemberHasCause
<1>2. TypeOK /\ AcceptInv /\ InvitedInv /\ PendingMemberHasCause /\ [Next]_vars
        => InvitedInv' /\ PendingMemberHasCause'
  BY InvitedStep, PendingMemberStep
<1> QED
  BY <1>1, <1>2, AcceptInvariant, PTL DEF Spec
-----------------------------------------------------------------------------
(* What invitations promise *)

\* Owners stay members and no accept is for one, until the schema is dropped; what
\* is marked accepted is so by an accept that is through.
MembershipInv ==
    /\ \A k : Founder(k) => k \in users
    /\ \A a \in Accepts : pc[a] \in Admitting => ~Founder(Key(held[a]))
    /\ \A i \in acceptedAt : \E a \in Accepts : pc[a] = "accepted" /\ held[a] = i

\* An accept that is through stays so.
LEMMA AcceptedStays ==
    ASSUME TypeOK, [Next]_vars, NEW a \in Accepts, pc[a] = "accepted"
    PROVE  pc'[a] = "accepted" /\ held'[a] = held[a]
<1> USE CallsAssumption
<1> USE DEF TypeOK, Goto, Calls, rows, tables, cron, budget
<1>1. pc'[a] = "accepted"
  <2>1. ASSUME NEW i \in Invites, Invite(i) \/ Expire(i) PROVE pc'[a] = "accepted"
    BY <2>1 DEF Invite, FindPending, FindInvitee, StoreInvitation, Expire
  <2>2. ASSUME NEW b \in Accepts, Accept(b) \/ UserAnswerLost(b)
        PROVE  pc'[a] = "accepted"
    BY <2>2 DEF Accept, FindByToken, CheckExpiry, MarkExpired, FindMember, SaveUser,
                MarkAccepted, UserAnswerLost
  <2>3. ASSUME NEW r \in Revokes, Revoke(r) PROVE pc'[a] = "accepted"
    BY <2>3 DEF Revoke, FindRevocable, MarkRevoked
  <2>4. ASSUME NEW w \in Workers, Sweep(w) \/ SweepFails(w) \/ Crash(w)
        PROVE  pc'[a] = "accepted"
    BY <2>4 DEF Sweep, SweepBegin, SweepUpdate, SweepFails, Crash, Running
  <2>5. ASSUME NEW c \in Calls, StatementFails(c) \/ UsersMissing(c) PROVE pc'[a] = "accepted"
    BY <2>5 DEF StatementFails, UsersMissing, Running
  <2>d. ASSUME NEW t \in Contested, DropSchema(t) PROVE pc'[a] = "accepted"
    BY <2>d DEF DropSchema
  <2>6. CASE UNCHANGED vars
    BY <2>6 DEF vars
  <2> QED
    BY <2>1, <2>2, <2>3, <2>4, <2>5, <2>d, <2>6 DEF Next
<1> QED
  BY <1>1, HeldOnce

\* The strengthening is inductive.
LEMMA MembershipStep ==
    TypeOK /\ AcceptInv /\ MembershipInv /\ [Next]_vars => MembershipInv'
<1> SUFFICES ASSUME TypeOK, AcceptInv, MembershipInv, [Next]_vars PROVE MembershipInv'
  OBVIOUS
<1>1. ASSUME NEW k, Founder(k)' PROVE Founder(k) /\ k \in users'
  <2>1. k[1] \notin dropped' /\ Founder(k)
    BY <1>1, Monotone DEF Founder, UsersKept
  <2> QED
    BY <2>1, Monotone DEF MembershipInv, UsersKept
<1>2. ASSUME NEW a \in Accepts, pc'[a] \in Admitting PROVE ~Founder(Key(held[a]))'
  <2>1. CASE pc[a] \in Admitting
    <3>1. ~Founder(Key(held[a])) /\ held'[a] = held[a]
      BY <2>1, HeldOnce DEF MembershipInv, Admitting, Calls
    <3> QED
      BY <3>1, Monotone DEF Founder, UsersKept, Key
  <2>2. CASE pc[a] \notin Admitting
    <3>1. SaveUser(a) /\ Key(held[a]) \notin users
      BY <1>2, <2>2, AdmittedBySave
    <3>2. ~Founder(Key(held[a])) /\ UNCHANGED <<dropped, held>>
      BY <3>1 DEF MembershipInv, SaveUser
    <3> QED
      BY <3>2 DEF Founder, Key
  <2> QED
    BY <2>1, <2>2
<1>3. ASSUME NEW i \in acceptedAt'
      PROVE  \E a \in Accepts : pc'[a] = "accepted" /\ held'[a] = i
  <2>1. CASE i \in acceptedAt
    BY <2>1, AcceptedStays DEF MembershipInv
  <2>2. CASE i \notin acceptedAt
    <3>1. PICK a \in Accepts : held[a] = i /\ MarkAccepted(a)
      BY <2>2, AcceptedByMark
    <3> QED
      BY <3>1 DEF MarkAccepted, Goto, TypeOK, Calls
  <2> QED
    BY <2>1, <2>2
<1> QED
  BY <1>1, <1>2, <1>3 DEF MembershipInv, Founder, Key

Sent == {i \in Invites : status[i] # "none"}

\* Marking an invitation accepted is the abstract Use of it, or marks it again.
LEMMA MarkIsUse ==
    ASSUME TypeOK, AcceptInv, OneAcceptPerMember, MembershipInv, AcceptedHasUser,
           NEW a \in Accepts, MarkAccepted(a)
    PROVE  Membership!Use(held[a]) \/ (UNCHANGED <<tables, acceptedAt>> /\ Sent' = Sent)
<1> USE DEF TypeOK, Calls, Holding
<1>1. pc[a] = "markAccepted" /\ held[a] \in Invites /\ status[held[a]] # "none"
  BY DEF MarkAccepted, AcceptInv
<1>2. /\ acceptedAt' = acceptedAt \cup {held[a]} /\ UNCHANGED tables
      /\ status' = [i \in Invites |-> IF i = held[a] THEN "ACCEPTED" ELSE status[i]]
  BY DEF MarkAccepted, AcceptedRows
<1>3. Sent' = Sent
  BY <1>1, <1>2 DEF Sent
<1>4. TenantOf[held[a]] \in dropped \/ Membership!FirstOfMember(held[a])
  <2> SUFFICES ASSUME TenantOf[held[a]] \notin dropped
               PROVE  Membership!FirstOfMember(held[a])
    OBVIOUS
  <2>1. Key(held[a]) \in users \ Owners
    BY <1>1, KeyTenant DEF AcceptInv, MembershipInv, Admitting, HasUser, Founder
  <2>2. ASSUME NEW j \in acceptedAt PROVE Key(j) # Key(held[a])
    <3>1. PICK b \in Accepts : pc[b] = "accepted" /\ held[b] = j
      BY DEF MembershipInv
    <3>2. b # a
      BY <1>1, <3>1
    <3> QED
      BY <1>1, <3>1, <3>2 DEF OneAcceptPerMember
  <2> QED
    BY <2>1, <2>2 DEF Membership!FirstOfMember, Membership!Invitee, Key
<1>5. CASE held[a] \in acceptedAt
  BY <1>2, <1>3, <1>5
<1>6. CASE held[a] \notin acceptedAt
  BY <1>1, <1>2, <1>3, <1>4, <1>6 DEF Membership!Use, Sent, tables
<1> QED
  BY <1>5, <1>6

\* Every step is one of TenantMembership, or changes nothing of it.
LEMMA MembershipRefined ==
    ASSUME TypeOK, AcceptInv, OneAcceptPerMember, MembershipInv, AcceptedHasUser,
           [Next]_vars
    PROVE  [Membership!Next]_(Membership!vars)
<1> DEFINE Same == UNCHANGED tables /\ acceptedAt' = acceptedAt /\ Sent' = Sent
<1>0. Same => UNCHANGED Membership!vars
  BY DEF Membership!vars, Sent, tables
<1> USE CallsAssumption
<1> USE DEF TypeOK, Goto, Calls, rows, tables, cron, budget, Holding
<1>1. ASSUME NEW i \in Invites, StoreInvitation(i) PROVE Membership!Send(i)
  <2>1. /\ status[i] = "none" /\ status' = [status EXCEPT ![i] = "PENDING"]
        /\ UNCHANGED tables /\ acceptedAt' = acceptedAt
    BY <1>1 DEF StoreInvitation, AcceptInv
  <2>2. Sent' = Sent \cup {i} /\ i \notin Sent
    BY <2>1 DEF Sent
  <2> QED
    BY <2>1, <2>2 DEF Membership!Send, Sent
<1>2. ASSUME NEW i \in Invites, FindPending(i) \/ FindInvitee(i) \/ Expire(i) PROVE Same
  BY <1>2 DEF FindPending, FindInvitee, Expire, Sent
<1>3. ASSUME NEW a \in Accepts, SaveUser(a) \/ UserAnswerLost(a)
      PROVE  Membership!Join(held[a]) \/ Same
  <2>1. held[a] \in Invites /\ held[a] \in Sent
    BY <1>3 DEF SaveUser, UserAnswerLost, AcceptInv, Sent
  <2>2. UNCHANGED <<status, acceptedAt, dropped>>
    BY <1>3 DEF SaveUser, UserAnswerLost
  <2>3. \/ users' = users
        \/ Key(held[a]) \notin users /\ users' = users \cup {Key(held[a])}
    BY <1>3 DEF SaveUser, UserAnswerLost
  <2> QED
    BY <2>1, <2>2, <2>3 DEF Membership!Join, Membership!Invitee, Key, Sent
<1>4. ASSUME NEW a \in Accepts, MarkAccepted(a) PROVE Membership!Use(held[a]) \/ Same
  BY <1>4, MarkIsUse
<1>5. ASSUME NEW a \in Accepts, FindByToken(a) \/ CheckExpiry(a) \/ FindMember(a)
      PROVE  Same
  BY <1>5 DEF FindByToken, CheckExpiry, FindMember, Sent
<1>6. ASSUME NEW a \in Accepts, MarkExpired(a) PROVE Same
  <2>1. status' = [status EXCEPT ![held[a]] = "EXPIRED"] /\ status[held[a]] # "none"
    BY <1>6 DEF MarkExpired, AcceptInv
  <2> QED
    BY <1>6, <2>1 DEF MarkExpired, Sent
<1>7. ASSUME NEW r \in Revokes, FindRevocable(r) PROVE Same
  BY <1>7 DEF FindRevocable, Sent
<1>8. ASSUME NEW r \in Revokes, MarkRevoked(r) PROVE Same
  <2>1. status' = [status EXCEPT ![held[r]] = "REVOKED"] /\ status[held[r]] # "none"
    BY <1>8 DEF MarkRevoked, AcceptInv
  <2> QED
    BY <1>8, <2>1 DEF MarkRevoked, Sent
<1>9. ASSUME NEW w \in Workers, SweepUpdate(w) PROVE Same
  <2>1. \A i \in Invites : status'[i] = "none" <=> status[i] = "none"
    BY <1>9 DEF SweepUpdate, Swept, Pending
  <2> QED
    BY <1>9, <2>1 DEF SweepUpdate, Sent
<1>10. ASSUME NEW w \in Workers, SweepBegin(w) \/ SweepFails(w) \/ Crash(w) PROVE Same
  BY <1>10 DEF SweepBegin, SweepFails, Crash, Sent
<1>11. ASSUME NEW c \in Calls, StatementFails(c) \/ UsersMissing(c) PROVE Same
  BY <1>11 DEF StatementFails, UsersMissing, Sent
<1>d. ASSUME NEW t \in Contested, DropSchema(t) PROVE Membership!Next
  BY <1>d DEF DropSchema, Membership!Wipe, Membership!Next, Sent
<1>12. CASE UNCHANGED vars
  BY <1>0, <1>12 DEF vars, Sent
<1>13. ASSUME NEW a \in Accepts, pc[a] \in {"save", "markAccepted"} PROVE held[a] \in Invites
  BY <1>13
<1>14. ASSUME NEW a \in Accepts, SaveUser(a) \/ UserAnswerLost(a) \/ MarkAccepted(a)
       PROVE  Membership!Next \/ Same
  <2>1. held[a] \in Invites
    BY <1>13, <1>14 DEF SaveUser, UserAnswerLost, MarkAccepted
  <2> QED
    BY <1>3, <1>4, <1>14, <2>1 DEF Membership!Next
<1>15. ASSUME NEW i \in Invites, StoreInvitation(i) PROVE Membership!Next
  BY <1>1, <1>15 DEF Membership!Next
<1> HIDE DEF Same
<1> QED
  BY <1>0, <1>2, <1>5, <1>6, <1>7, <1>8, <1>9, <1>10, <1>11, <1>d, <1>12, <1>14, <1>15
     DEF Next, Invite, Accept, Revoke, Sweep

\* Invitations implements TenantMembership.
THEOREM RefinesMembership == Spec => ImplementsMembership
<1>1. Init => MembershipInv /\ Membership!Init
  <2> SUFFICES ASSUME Init PROVE MembershipInv /\ Membership!Init
    OBVIOUS
  <2>1. {i \in Invites : status[i] # "none"} = Earlier
    BY RequestsAssumption DEF Init
  <2>2. \A a \in Accepts : pc[a] = "idle"
    BY CallsAssumption, RequestsAssumption DEF Init, Calls
  <2> QED
    BY <2>1, <2>2 DEF Init, MembershipInv, Membership!Init, Admitting, Founder
<1>2. TypeOK /\ AcceptInv /\ MembershipInv /\ [Next]_vars => MembershipInv'
  BY MembershipStep
<1>3. TypeOK /\ AcceptInv /\ OneAcceptPerMember /\ MembershipInv /\ AcceptedHasUser
        /\ [Next]_vars => [Membership!Next]_(Membership!vars)
  BY MembershipRefined
<1> QED
  BY <1>1, <1>2, <1>3, AcceptInvariant, PTL DEF Spec, ImplementsMembership, Membership!Spec

-----------------------------------------------------------------------------
(* Duplicate invitations *)

\* A second pending invitation for a user takes two invites that are under way
\* at once: one that comes after the first was answered is refused for as long
\* as the first is pending.
EarlierIsNotDuplicated ==
    \A j \in Earlier, i \in Invites \ Earlier :
        Pending(j) /\ Key(i) = Key(j) => status[i] = "none"

\* The strengthening: an invite that finds it is refused before "findUser".
EarlierInv ==
    /\ \A j \in Earlier : pc[j] = "stored"
    /\ \A j \in Earlier, i \in Invites \ Earlier :
           Pending(j) /\ Key(i) = Key(j) =>
               status[i] = "none" /\ pc[i] \notin {"findUser", "store"}

\* Only its own invite stores an invitation.
LEMMA StoredByItsInvite ==
    ASSUME TypeOK, AcceptInv, [Next]_vars, NEW i \in Invites,
           status[i] = "none", status'[i] # "none"
    PROVE  StoreInvitation(i)
<1> USE DEF TypeOK, AcceptInv, Pending, Calls, rows, tables, cron, budget
<1>1. ASSUME NEW j \in Invites, Invite(j) \/ Expire(j) PROVE StoreInvitation(i)
  BY <1>1 DEF Invite, FindPending, FindInvitee, StoreInvitation, Expire
<1>2. ASSUME NEW a \in Accepts, Accept(a) \/ UserAnswerLost(a) PROVE FALSE
  <2>1. CASE MarkExpired(a) \/ MarkAccepted(a)
    BY <2>1 DEF MarkExpired, MarkAccepted, AcceptedRows, Holding
  <2>2. CASE ~(MarkExpired(a) \/ MarkAccepted(a))
    BY <1>2, <2>2 DEF Accept, FindByToken, CheckExpiry, FindMember, SaveUser,
                      UserAnswerLost
  <2> QED
    BY <2>1, <2>2
<1>3. ASSUME NEW r \in Revokes, Revoke(r) PROVE FALSE
  BY <1>3 DEF Revoke, FindRevocable, MarkRevoked, Holding
<1>4. ASSUME NEW w \in Workers, Sweep(w) \/ SweepFails(w) \/ Crash(w) PROVE FALSE
  BY <1>4 DEF Sweep, SweepBegin, SweepUpdate, SweepFails, Crash, Swept
<1>5. ASSUME NEW c \in Calls, StatementFails(c) \/ UsersMissing(c) PROVE FALSE
  BY <1>5 DEF StatementFails, UsersMissing
<1>d. ASSUME NEW t \in Contested, DropSchema(t) PROVE FALSE
  BY <1>d DEF DropSchema
<1>6. CASE UNCHANGED vars
  BY <1>6 DEF vars
<1> QED
  BY <1>1, <1>2, <1>3, <1>4, <1>5, <1>d, <1>6 DEF Next

\* An invite goes on past its first query only if that finds nothing pending.
LEMMA PastFindPending ==
    ASSUME TypeOK, [Next]_vars, NEW i \in Invites,
           pc'[i] \in {"findUser", "store"}, pc[i] \notin {"findUser", "store"}
    PROVE  \A j \in Invites : Pending(j) => Key(j) # Key(i)
<1> USE CallsAssumption
<1> USE DEF TypeOK, Goto, Calls, rows, tables, cron, budget
<1>1. ASSUME NEW k \in Invites, Invite(k) \/ Expire(k)
      PROVE  \A j \in Invites : Pending(j) => Key(j) # Key(i)
  BY <1>1 DEF Invite, FindPending, FindInvitee, StoreInvitation, Expire
<1>2. ASSUME NEW a \in Accepts, Accept(a) \/ UserAnswerLost(a) PROVE FALSE
  BY <1>2 DEF Accept, FindByToken, CheckExpiry, MarkExpired, FindMember, SaveUser,
              MarkAccepted, UserAnswerLost
<1>3. ASSUME NEW r \in Revokes, Revoke(r) PROVE FALSE
  BY <1>3 DEF Revoke, FindRevocable, MarkRevoked
<1>4. ASSUME NEW w \in Workers, Sweep(w) \/ SweepFails(w) \/ Crash(w) PROVE FALSE
  BY <1>4 DEF Sweep, SweepBegin, SweepUpdate, SweepFails, Crash
<1>5. ASSUME NEW c \in Calls, StatementFails(c) \/ UsersMissing(c) PROVE FALSE
  BY <1>5 DEF StatementFails, UsersMissing
<1>d. ASSUME NEW t \in Contested, DropSchema(t) PROVE FALSE
  BY <1>d DEF DropSchema
<1>6. CASE UNCHANGED vars
  BY <1>6 DEF vars
<1> QED
  BY <1>1, <1>2, <1>3, <1>4, <1>5, <1>d, <1>6 DEF Next

\* An invite that was answered 201 stays so.
LEMMA StoredStays ==
    ASSUME TypeOK, [Next]_vars, NEW i \in Invites, pc[i] = "stored"
    PROVE  pc'[i] = "stored"
<1> USE CallsAssumption
<1> USE DEF TypeOK, Goto, Calls, Running, rows, tables, cron, budget
<1>1. ASSUME NEW k \in Invites, Invite(k) \/ Expire(k) PROVE pc'[i] = "stored"
  BY <1>1 DEF Invite, FindPending, FindInvitee, StoreInvitation, Expire
<1>2. ASSUME NEW a \in Accepts, Accept(a) \/ UserAnswerLost(a) PROVE pc'[i] = "stored"
  BY <1>2 DEF Accept, FindByToken, CheckExpiry, MarkExpired, FindMember, SaveUser,
              MarkAccepted, UserAnswerLost
<1>3. ASSUME NEW r \in Revokes, Revoke(r) PROVE pc'[i] = "stored"
  BY <1>3 DEF Revoke, FindRevocable, MarkRevoked
<1>4. ASSUME NEW w \in Workers, Sweep(w) \/ SweepFails(w) \/ Crash(w)
      PROVE  pc'[i] = "stored"
  BY <1>4 DEF Sweep, SweepBegin, SweepUpdate, SweepFails, Crash
<1>5. ASSUME NEW c \in Calls, StatementFails(c) \/ UsersMissing(c) PROVE pc'[i] = "stored"
  BY <1>5 DEF StatementFails, UsersMissing
<1>d. ASSUME NEW t \in Contested, DropSchema(t) PROVE pc'[i] = "stored"
  BY <1>d DEF DropSchema
<1>6. CASE UNCHANGED vars
  BY <1>6 DEF vars
<1> QED
  BY <1>1, <1>2, <1>3, <1>4, <1>5, <1>d, <1>6 DEF Next

\* The strengthening is inductive.
LEMMA EarlierStep == TypeOK /\ AcceptInv /\ EarlierInv /\ [Next]_vars => EarlierInv'
<1> SUFFICES ASSUME TypeOK, AcceptInv, EarlierInv, [Next]_vars PROVE EarlierInv'
  OBVIOUS
<1>1. ASSUME NEW j \in Earlier PROVE j \in Invites /\ pc[j] = "stored" /\ pc'[j] = "stored"
  BY RequestsAssumption, StoredStays DEF EarlierInv
<1>2. ASSUME NEW j \in Earlier, NEW i \in Invites \ Earlier,
             status'[j] = "PENDING", Key(i) = Key(j)
      PROVE  status'[i] = "none" /\ pc'[i] \notin {"findUser", "store"}
  <2>1. Pending(j)
    BY <1>1, <1>2, PendingByStore DEF StoreInvitation
  <2>2. status[i] = "none" /\ pc[i] \notin {"findUser", "store"}
    BY <1>2, <2>1 DEF EarlierInv
  <2>3. status'[i] = "none"
    BY <2>2, StoredByItsInvite DEF StoreInvitation
  <2>4. pc'[i] \notin {"findUser", "store"}
    BY <1>1, <1>2, <2>1, <2>2, PastFindPending
  <2> QED
    BY <2>3, <2>4
<1> QED
  BY <1>1, <1>2 DEF EarlierInv, Pending

\* No invite duplicates an invitation that was answered before it came, however
\* accepts, revocations, sweeps, failures and crashes interleave with it.
THEOREM EarlierIsNotDuplicatedHolds == Spec => []EarlierIsNotDuplicated
<1>1. ASSUME Init PROVE EarlierInv
  <2>1. pc = [c \in Calls |-> IF c \in Earlier THEN "stored" ELSE "idle"]
    BY <1>1 DEF Init
  <2>2. Earlier \subseteq Invites /\ Invites \subseteq Calls
    BY RequestsAssumption DEF Calls
  <2>3. \A j \in Earlier : pc[j] = "stored"
    BY <2>1, <2>2
  <2>4. \A i \in Invites \ Earlier : pc[i] = "idle"
    BY <2>1, <2>2
  <2>5. \A i \in Invites \ Earlier : status[i] = "none"
    BY <1>1 DEF Init
  <2> QED
    BY <2>3, <2>4, <2>5 DEF EarlierInv
<1>2. TypeOK /\ AcceptInv /\ EarlierInv /\ [Next]_vars => EarlierInv'
  BY EarlierStep
<1>3. EarlierInv => EarlierIsNotDuplicated
  BY DEF EarlierInv, EarlierIsNotDuplicated
<1> QED
  BY <1>1, <1>2, <1>3, AcceptInvariant, PTL DEF Spec

\* The positive half of NoDuplicatePending: where of any two invites for one
\* user one was answered before the other came, no two invitations for one user
\* are pending at once.
THEOREM SpacedInvitesHold ==
    (\A i, j \in Invites : i # j /\ Key(i) = Key(j) => (i \in Earlier) # (j \in Earlier))
        => (Spec => []NoDuplicatePending)
<1> SUFFICES ASSUME \A i, j \in Invites :
                        i # j /\ Key(i) = Key(j) => (i \in Earlier) # (j \in Earlier)
             PROVE  Spec => []NoDuplicatePending
  OBVIOUS
<1>1. EarlierIsNotDuplicated => NoDuplicatePending
  BY DEF EarlierIsNotDuplicated, NoDuplicatePending, Pending
<1> QED
  BY <1>1, EarlierIsNotDuplicatedHolds, PTL
=============================================================================
