---------------------------- MODULE MCInvitations -----------------------------
(* Constants of Invitations for TLC. *)
EXTENDS Invitations

CONSTANTS i1, i2, i3, a1, a2, v1, w1, acme, beta, ann, bob

\* Two invitations of ann to acme, one to beta.
TenantDef == [i \in Invites |-> IF i = i3 THEN beta ELSE acme]
MailDef == [c \in Invites \cup Revokes |-> ann]
\* Each accept has the token of one of those for acme.
TokenDef == [a \in Accepts |-> IF a = a2 THEN i2 ELSE i1]
WorkerDef == [c \in Calls |-> w1]
OwnersDef == {<<acme, bob>>, <<beta, bob>>}
=============================================================================
