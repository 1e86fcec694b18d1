----------------------------- MODULE Invitations ------------------------------
(***************************************************************************)
(* Tenant membership: TenantService (invite, accept, revoke) and the daily *)
(* TenantInvitationCleanupService, over the public table "invitations" and *)
(* the tenants' "users" tables.  Every await is a step boundary.           *)
(*                                                                         *)
(* An invitation is identified by the invite request that stores it; a     *)
(* users row by <<tenant, e-mail>>, which users.email UNIQUE makes a key.  *)
(* A tenant's schema may be dropped at any time by the rollback of a rival  *)
(* signup (TenantSignup), and its users go with it.                        *)
(***************************************************************************)
EXTENDS Naturals

CONSTANTS
    Invites,            \* POST /tenant/invite requests
    Earlier,            \* those among them that were answered 201 before
    Accepts,            \* POST /tenant/accept-invitation requests
    Revokes,            \* POST /tenant/revoke-invitation requests
    Workers,            \* Node processes
    Tenants, Emails,
    Contested,          \* the tenants for whose slug rival signups are served
    TenantOf,           \* invite -> the inviter's tenant
    MailOf,             \* invite or revoke -> dto.email
    TokenOf,            \* accept -> the invitation its token belongs to
    WorkerOf,           \* call -> who serves it
    Owners,             \* users rows that signup created: <<tenant, e-mail>>
    Nil,                \* no invitation held
    MaxMishaps          \* bound: statements that fail, and worker crashes

Calls == Invites \cup Accepts \cup Revokes

ASSUME CallsAssumption ==
    /\ Invites \cap Accepts = {}
    /\ Revokes \cap (Invites \cup Accepts) = {}
    /\ Nil \notin Invites
ASSUME RequestsAssumption ==
    /\ TenantOf \in [Invites -> Tenants]
    /\ MailOf \in [Invites \cup Revokes -> Emails]
    /\ TokenOf \in [Accepts -> Invites]
    /\ WorkerOf \in [Calls -> Workers]
    /\ Owners \subseteq Tenants \X Emails
    /\ Contested \subseteq Tenants
    /\ Earlier \subseteq Invites
    /\ \A i \in Earlier : <<TenantOf[i], MailOf[i]>> \notin Owners
ASSUME BoundsAssumption == MaxMishaps \in Nat

VARIABLES
    status,                 \* of each invitation; "none" before it is stored
    acceptedAt, revokedAt,  \* the invitations that carry the timestamp
    expired,                \* the invitations whose expiresAt is in the past
    users,                  \* rows of the users tables
    dropped,                \* tenants whose schema was dropped at some time
    pc,                     \* what each call does next
    held,                   \* the invitation a call has read (`invitation`)
    sweeping,               \* the workers whose cron job awaits its UPDATE
    cutoff,                 \* per worker: what was past `now` when it began
    faults, crashes

rows == <<status, acceptedAt, revokedAt>>
tables == <<users, dropped>>
cron == <<sweeping, cutoff>>
budget == <<faults, crashes>>
vars == <<rows, expired, tables, pc, held, cron, budget>>

Statuses == {"none", "PENDING", "ACCEPTED", "REVOKED", "EXPIRED"}
Running == {"findUser", "store", "checkExpiry", "markExpired", "save",
            "markAccepted", "markRevoked"}
Ended == {"stored", "accepted", "revoked", "refused", "lost"}
Holding == {"checkExpiry", "markExpired", "markAccepted", "markRevoked"}

\* The users row an invitation is for.
Key(i) == <<TenantOf[i], MailOf[i]>>

Init ==
    /\ status = [i \in Invites |-> IF i \in Earlier THEN "PENDING" ELSE "none"]
    /\ acceptedAt = {} /\ revokedAt = {} /\ expired = {}
    /\ users = Owners /\ dropped = {}
    /\ pc = [c \in Calls |-> IF c \in Earlier THEN "stored" ELSE "idle"]
    /\ held = [c \in Calls |-> Nil]
    /\ sweeping = {}
    /\ cutoff = [w \in Workers |-> {}]
    /\ faults = 0 /\ crashes = 0

Goto(c, step) == pc' = [pc EXCEPT ![c] = step]
Pending(i) == status[i] = "PENDING"

-----------------------------------------------------------------------------
(* inviteUserToTenant                                                        *)

\* findOne({ email, tenantSchema, status: PENDING })
FindPending(i) ==
    /\ pc[i] = "idle"
    /\ Goto(i, IF \E j \in Invites : Pending(j) /\ Key(j) = Key(i)
               THEN "refused" ELSE "findUser")
    /\ UNCHANGED <<rows, expired, tables, held, cron, budget>>

\* getDataSource(schema), findOne({ email }) in its users
FindInvitee(i) ==
    /\ pc[i] = "findUser"
    /\ Goto(i, IF Key(i) \in users THEN "refused" ELSE "store")
    /\ UNCHANGED <<rows, expired, tables, held, cron, budget>>

\* save(invitation): status defaults to PENDING, expiresAt is a day ahead
StoreInvitation(i) ==
    /\ pc[i] = "store"
    /\ status' = [status EXCEPT ![i] = "PENDING"]
    /\ Goto(i, "stored")
    /\ UNCHANGED <<acceptedAt, revokedAt, expired, tables, held, cron, budget>>

-----------------------------------------------------------------------------
(* acceptTenantInvitation                                                    *)

\* No check that a row was found.
FindByTokenMutUnchecked(a) ==
    /\ pc[a] = "idle"
    /\ held' = [held EXCEPT ![a] = IF Pending(TokenOf[a]) THEN TokenOf[a] ELSE Nil]
    /\ Goto(a, "checkExpiry")
    /\ UNCHANGED <<rows, expired, tables, cron, budget>>

\* findOne({ token, status: PENDING }); the status check that follows repeats
\* the condition on the row just read.
FindByToken(a) ==
    /\ pc[a] = "idle"
    /\ IF Pending(TokenOf[a])
       THEN held' = [held EXCEPT ![a] = TokenOf[a]] /\ Goto(a, "checkExpiry")
       ELSE Goto(a, "refused") /\ UNCHANGED held
    /\ UNCHANGED <<rows, expired, tables, cron, budget>>

\* invitation.expiresAt < new Date()
CheckExpiry(a) ==
    /\ pc[a] = "checkExpiry"
    /\ Goto(a, IF held[a] \in expired THEN "markExpired" ELSE "findUser")
    /\ UNCHANGED <<rows, expired, tables, held, cron, budget>>

\* update(invitation.id, EXPIRED), then 400
MarkExpired(a) ==
    /\ pc[a] = "markExpired"
    /\ status' = [status EXCEPT ![held[a]] = "EXPIRED"]
    /\ Goto(a, "refused")
    /\ UNCHANGED <<acceptedAt, revokedAt, expired, tables, held, cron, budget>>

FindMember(a) ==
    /\ pc[a] = "findUser"
    /\ Goto(a, IF Key(held[a]) \in users THEN "refused" ELSE "save")
    /\ UNCHANGED <<rows, expired, tables, held, cron, budget>>

\* save() as an upsert: no unique violation.
SaveUserMutUpsert(a) ==
    /\ pc[a] = "save"
    /\ users' = users \cup {Key(held[a])}
    /\ Goto(a, "markAccepted")
    /\ UNCHANGED <<rows, expired, dropped, held, cron, budget>>

\* save(user): users.email is UNIQUE
SaveUser(a) ==
    /\ pc[a] = "save"
    /\ IF Key(held[a]) \in users
       THEN Goto(a, "refused") /\ UNCHANGED users
       ELSE users' = users \cup {Key(held[a])} /\ Goto(a, "markAccepted")
    /\ UNCHANGED <<rows, expired, dropped, held, cron, budget>>

\* update({ email }, ACCEPTED) in place of update(id, ACCEPTED)
AcceptedRowsMutByEmail(i) ==
    {j \in Invites : MailOf[j] = MailOf[i] /\ status[j] # "none"}

\* A condition that matches no row.
AcceptedRowsMutNone(i) == {}

\* update(invitation.id, ...)
AcceptedRows(i) == {i}

\* Unconditional: whatever the status is by now, it becomes ACCEPTED.
MarkAccepted(a) ==
    /\ pc[a] = "markAccepted"
    /\ LET target == AcceptedRows(held[a]) IN
       /\ status' = [i \in Invites |-> IF i \in target THEN "ACCEPTED" ELSE status[i]]
       /\ acceptedAt' = acceptedAt \cup target
    /\ Goto(a, "accepted")
    /\ UNCHANGED <<revokedAt, expired, tables, held, cron, budget>>

-----------------------------------------------------------------------------
(* revokeInvitation                                                          *)

\* findOne({ email, status: PENDING }): some such row, of any tenant
FindRevocable(r) ==
    /\ pc[r] = "idle"
    /\ LET match == {i \in Invites : Pending(i) /\ MailOf[i] = MailOf[r]} IN
       \/ /\ match = {}
          /\ Goto(r, "refused")
          /\ UNCHANGED held
       \/ \E i \in match :
             held' = [held EXCEPT ![r] = i] /\ Goto(r, "markRevoked")
    /\ UNCHANGED <<rows, expired, tables, cron, budget>>

\* update(invitation.id, REVOKED), unconditional too
MarkRevoked(r) ==
    /\ pc[r] = "markRevoked"
    /\ status' = [status EXCEPT ![held[r]] = "REVOKED"]
    /\ revokedAt' = revokedAt \cup {held[r]}
    /\ Goto(r, "revoked")
    /\ UNCHANGED <<acceptedAt, expired, tables, held, cron, budget>>

-----------------------------------------------------------------------------
(* expireStaleInvitations, on every worker                                   *)

\* const now = new Date()
SweepBegin(w) ==
    /\ w \notin sweeping
    /\ sweeping' = sweeping \cup {w}
    /\ cutoff' = [cutoff EXCEPT ![w] = expired]
    /\ UNCHANGED <<rows, expired, tables, pc, held, budget>>

SweepEnds(w) ==
    /\ sweeping' = sweeping \ {w}
    /\ cutoff' = [cutoff EXCEPT ![w] = {}]

SweptMutAnyStatus(w) == {i \in cutoff[w] : status[i] # "none"}
SweptMutAnyDate(w) == {i \in Invites : Pending(i)}

\* where status = PENDING and expiresAt < now
Swept(w) == {i \in cutoff[w] : Pending(i)}

SweepUpdateMutDryRun(w) ==
    /\ w \in sweeping
    /\ SweepEnds(w)
    /\ UNCHANGED <<rows, expired, tables, pc, held, budget>>

\* one UPDATE
SweepUpdate(w) ==
    /\ w \in sweeping
    /\ status' = [i \in Invites |-> IF i \in Swept(w) THEN "EXPIRED" ELSE status[i]]
    /\ SweepEnds(w)
    /\ UNCHANGED <<acceptedAt, revokedAt, expired, tables, pc, held, budget>>

-----------------------------------------------------------------------------
(* What the environment may do                                               *)

\* A day after it was stored an invitation is past its expiresAt.
Expire(i) ==
    /\ status[i] # "none" /\ i \notin expired
    /\ expired' = expired \cup {i}
    /\ UNCHANGED <<rows, tables, pc, held, cron, budget>>

\* A statement, or getDataSource, fails without effect: 500.
StatementFails(c) ==
    /\ faults + crashes < MaxMishaps
    /\ pc[c] \in Running \ {"checkExpiry"}
    /\ faults' = faults + 1
    /\ Goto(c, "refused")
    /\ UNCHANGED <<rows, expired, tables, held, cron, crashes>>

\* A rival signup for the slug rolls back, at any time: DROP SCHEMA ... CASCADE.
DropSchema(t) ==
    /\ users' = {k \in users : k[1] # t}
    /\ dropped' = dropped \cup {t}
    /\ UNCHANGED <<rows, expired, pc, held, cron, budget>>

\* The tenant whose users a call asks for.
Tenant(c) == TenantOf[IF c \in Invites THEN c ELSE held[c]]

\* After that the table is missing: 500.  (If another signup for the slug has made
\* it again by now, the statement finds it empty.)
UsersMissing(c) ==
    /\ pc[c] \in {"findUser", "save"} /\ Tenant(c) \in dropped
    /\ Goto(c, "refused")
    /\ UNCHANGED <<rows, expired, tables, held, cron, budget>>

\* The INSERT of the user commits but its answer is lost.
UserAnswerLost(a) ==
    /\ faults + crashes < MaxMishaps
    /\ pc[a] = "save" /\ Key(held[a]) \notin users
    /\ faults' = faults + 1
    /\ users' = users \cup {Key(held[a])}
    /\ Goto(a, "refused")
    /\ UNCHANGED <<rows, expired, dropped, held, cron, crashes>>

SweepFails(w) ==
    /\ faults + crashes < MaxMishaps
    /\ w \in sweeping
    /\ faults' = faults + 1
    /\ SweepEnds(w)
    /\ UNCHANGED <<rows, expired, tables, pc, held, crashes>>

\* A worker dies and is restarted: its calls and its sweep are lost.
Crash(w) ==
    /\ faults + crashes < MaxMishaps
    /\ crashes' = crashes + 1
    /\ pc' = [c \in Calls |-> IF WorkerOf[c] = w /\ pc[c] \in Running
                              THEN "lost" ELSE pc[c]]
    /\ SweepEnds(w)
    /\ UNCHANGED <<rows, expired, tables, held, faults>>

-----------------------------------------------------------------------------

Invite(i) == FindPending(i) \/ FindInvitee(i) \/ StoreInvitation(i)

Accept(a) ==
    FindByToken(a) \/ CheckExpiry(a) \/ MarkExpired(a) \/ FindMember(a)
    \/ SaveUser(a) \/ MarkAccepted(a)

Revoke(r) == FindRevocable(r) \/ MarkRevoked(r)

Sweep(w) == SweepBegin(w) \/ SweepUpdate(w)

Next ==
    \/ \E i \in Invites : Invite(i) \/ Expire(i)
    \/ \E a \in Accepts : Accept(a) \/ UserAnswerLost(a)
    \/ \E r \in Revokes : Revoke(r)
    \/ \E w \in Workers : Sweep(w) \/ SweepFails(w) \/ Crash(w)
    \/ \E c \in Calls : StatementFails(c) \/ UsersMissing(c)
    \/ \E t \in Contested : DropSchema(t)

Spec == Init /\ [][Next]_vars

\* Time passes; every worker's cron job comes round again and its UPDATE is
\* answered.  Nothing is assumed of calls: they may stop half way.
Fairness ==
    /\ \A i \in Invites : WF_vars(Expire(i))
    /\ \A w \in Workers : WF_vars(Sweep(w))

FairSpec == Spec /\ Fairness

-----------------------------------------------------------------------------
(* Properties *)

\* Types; a call that goes on with an invitation has read one.
TypeOK ==
    /\ status \in [Invites -> Statuses]
    /\ acceptedAt \subseteq Invites /\ revokedAt \subseteq Invites
    /\ expired \subseteq Invites
    /\ users \subseteq Tenants \X Emails /\ dropped \subseteq Contested
    /\ pc \in [Calls -> {"idle"} \cup Running \cup Ended]
    /\ held \in [Calls -> Invites \cup {Nil}]
    /\ \A c \in Calls : pc[c] \in Holding => held[c] # Nil
    /\ \A a \in Accepts : pc[a] \in {"findUser", "save"} => held[a] # Nil
    /\ sweeping \subseteq Workers /\ cutoff \in [Workers -> SUBSET Invites]
    /\ faults \in Nat /\ crashes \in Nat /\ faults + crashes \leq MaxMishaps

\* An invitation that was ever marked accepted has its user in its own tenant,
\* whatever revocations, sweeps, crashes and other invitations did meanwhile
\* (the user is saved before the UPDATE of the invitation), until the tenant's
\* schema is dropped.
AcceptedHasUser ==
    \A i \in acceptedAt : Key(i) \in users \/ TenantOf[i] \in dropped

\* Two accepts for the same tenant and e-mail, by one token or by two, never
\* both get past saving the user (users.email UNIQUE), unless the tenant's
\* schema was dropped.
OneAcceptPerMember ==
    \A a, b \in Accepts :
        /\ pc[a] \in {"markAccepted", "accepted"}
        /\ pc[b] \in {"markAccepted", "accepted"}
        /\ Key(held[a]) = Key(held[b]) /\ TenantOf[held[a]] \notin dropped
        => a = b

\* No invitation becomes EXPIRED before its expiresAt: not by a sweep whose
\* `now` is old by the time its UPDATE runs, nor by an accept.
ExpiredOnlyWhenStale == \A i \in Invites : status[i] = "EXPIRED" => i \in expired

\* Without failing statements and crashes, but with any drops of schemas, an
\* invitation stays PENDING beside its user only while its accept is about to
\* mark it, or because a second invitation for the same user was stored.
PendingMemberHasCause ==
    (faults = 0 /\ crashes = 0) =>
        \A i \in Invites : Pending(i) /\ Key(i) \in users =>
            \/ \E a \in Accepts : pc[a] = "markAccepted" /\ held[a] = i
            \/ \E j \in Invites \ {i} : Key(j) = Key(i) /\ status[j] # "none"

\* Once an invitation is settled and no call in flight has read it before, its
\* status never changes again: sweeps and later requests leave it alone.
SettledStaysUnlessRaced ==
    [][\A i \in Invites :
        (/\ status[i] \notin {"none", "PENDING"}
         /\ \A c \in Calls : pc[c] \in Running => held[c] # i)
        => status'[i] = status[i]]_vars

\* An invitation does not stay pending for ever, although an accept may save
\* the user and never reach the UPDATE: the sweep settles what calls leave.
PendingSettles == \A i \in Invites : []<>~Pending(i)

-----------------------------------------------------------------------------
(* What invitations promise                                                  *)

Membership == INSTANCE TenantMembership
                  WITH members <- users, wiped <- dropped,
                       invited <- {i \in Invites : status[i] # "none"},
                       used <- acceptedAt

\* The requests implement TenantMembership: whatever accepts, revocations, sweeps,
\* duplicates, lost answers and crashes do, only who was invited becomes a member,
\* members go only with their tenant's schema, and until then each member's
\* invitation is marked accepted at most once, an owner's never.
ImplementsMembership == Membership!Spec

-----------------------------------------------------------------------------
(* What the code does not provide (checked by runs that expect a violation)  *)

\* README.md: "POST /tenant/revoke-invitation : revoke pending invitation".
\* An invitation that has been accepted is none.
AcceptedIsNotRevoked ==
    [][\A i \in Invites : status[i] = "ACCEPTED" => status'[i] # "REVOKED"]_vars

\* tenant.service.ts refuses a second pending invitation for one e-mail and
\* tenant (DuplicateResourceException).
NoDuplicatePending ==
    \A i, j \in Invites : Pending(i) /\ Pending(j) /\ Key(i) = Key(j) => i = j
=============================================================================
