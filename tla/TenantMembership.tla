--------------------------- MODULE TenantMembership ---------------------------
(***************************************************************************)
(* What invitations promise of a tenant's members, without saying how:     *)
(* beside the owners only those become members who were invited, members   *)
(* go only all at once, with their tenant's schema, and until that of      *)
(* several invitations for one member at most one is ever counted as       *)
(* accepted.  Invitations implements this specification.                   *)
(***************************************************************************)

CONSTANTS
    Invites,            \* the invitations
    Earlier,            \* those that are there at first
    Contested,          \* the tenants that may lose their members
    TenantOf, MailOf,   \* whom each is for
    Owners              \* members without an invitation

VARIABLES
    members,        \* <<tenant, e-mail>>
    wiped,          \* the tenants that lost all their members at some time
    invited,        \* the invitations that were sent
    used            \* those that were accepted

vars == <<members, wiped, invited, used>>

\* Whom an invitation is for.
Invitee(i) == <<TenantOf[i], MailOf[i]>>

Init == members = Owners /\ wiped = {} /\ invited = Earlier /\ used = {}

Send(i) ==
    /\ i \notin invited
    /\ invited' = invited \cup {i}
    /\ UNCHANGED <<members, wiped, used>>

\* An invited person becomes a member.
Join(i) ==
    /\ i \in invited /\ Invitee(i) \notin members
    /\ members' = members \cup {Invitee(i)}
    /\ UNCHANGED <<wiped, invited, used>>

\* The first of its member's invitations to be used, and no owner's.
FirstOfMember(i) ==
    /\ Invitee(i) \in members \ Owners
    /\ \A j \in used : Invitee(j) # Invitee(i)

\* The invitation is counted as accepted.
Use(i) ==
    /\ i \in invited \ used
    /\ TenantOf[i] \in wiped \/ FirstOfMember(i)
    /\ used' = used \cup {i}
    /\ UNCHANGED <<members, wiped, invited>>

\* A tenant loses its members, its owner among them.
Wipe(t) ==
    /\ members' = {m \in members : m[1] # t}
    /\ wiped' = wiped \cup {t}
    /\ UNCHANGED <<invited, used>>

Next ==
    \/ \E i \in Invites : Send(i) \/ Join(i) \/ Use(i)
    \/ \E t \in Contested : Wipe(t)

Spec == Init /\ [][Next]_vars
=============================================================================
