---------------------------- MODULE TenantRegistry ----------------------------
(***************************************************************************)
(* What signup promises of the public table "tenants", without saying how: *)
(* a signup reserves a row nobody else's slug or owner e-mail clashes      *)
(* with, and then either is confirmed, for good, or releases the row.      *)
(* The promise ends with the table: a signup for the schema the table is   *)
(* in may take it away.  TenantSignup implements this specification.       *)
(***************************************************************************)

CONSTANTS
    Signups,            \* the signup requests
    Insiders,           \* those for the schema of the table itself
    SlugOf, EmailOf     \* what each asks for

VARIABLES
    listed,         \* the table exists
    rows,           \* the signups whose row is in the table
    confirmed       \* the signups that were answered "created"

vars == <<listed, rows, confirmed>>

\* Two signups want the same slug or the same owner e-mail.
Clash(r, q) == SlugOf[r] = SlugOf[q] \/ EmailOf[r] = EmailOf[q]

Init == listed = TRUE /\ rows = {} /\ confirmed = {}

\* A unique row enters the table.
Reserve(r) ==
    /\ listed
    /\ r \notin rows
    /\ \A q \in rows : ~Clash(r, q)
    /\ rows' = rows \cup {r}
    /\ UNCHANGED <<listed, confirmed>>

\* While there is a table, success is reported only for a row in it.
Confirm(r) ==
    /\ r \notin confirmed
    /\ listed => r \in rows
    /\ confirmed' = confirmed \cup {r}
    /\ UNCHANGED <<listed, rows>>

\* An unconfirmed row is withdrawn.
Release(r) ==
    /\ r \in rows \ confirmed
    /\ rows' = rows \ {r}
    /\ UNCHANGED <<listed, confirmed>>

\* An unconfirmed signup for the table's own schema takes the table away.
Wipe(r) ==
    /\ r \in Insiders \ confirmed
    /\ listed' = FALSE
    /\ rows' = {}
    /\ UNCHANGED confirmed

Next == \E r \in Signups : Reserve(r) \/ Confirm(r) \/ Release(r) \/ Wipe(r)

Spec == Init /\ [][Next]_vars
=============================================================================
