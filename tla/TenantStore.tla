------------------------------ MODULE TenantStore ------------------------------
(***************************************************************************)
(* What a tenant's tables promise those who write to them, without saying  *)
(* how: a row enters once, beside the rows it refers to and within its     *)
(* tenant's limit, and whoever was told of it finds it there until the     *)
(* whole tenant is wiped.  Catalog implements this specification.          *)
(***************************************************************************)

CONSTANTS
    Creates,        \* the requests to insert a row, and so the rows
    Singles,        \* those of which a tenant has at most one
    Tenants,
    TenantOf,       \* row -> tenant
    References      \* row -> the rows it refers to

VARIABLES
    stored,         \* the rows
    undecided,      \* requests whose row may still enter
    unanswered,     \* requests whose row entered and that hear of it next
    confirmed,      \* requests that were told of their row
    wiped           \* tenants that ever lost all of their rows

vars == <<stored, undecided, unanswered, confirmed, wiped>>

Init ==
    /\ stored = {} /\ undecided = Creates
    /\ unanswered = {} /\ confirmed = {} /\ wiped = {}

\* A row enters.
Add(r) ==
    /\ r \in undecided
    /\ \A x \in References[r] : x \in stored /\ TenantOf[x] = TenantOf[r]
    /\ r \in Singles => \A p \in stored \cap Singles : TenantOf[p] # TenantOf[r]
    /\ stored' = stored \cup {r}
    /\ undecided' = undecided \ {r}
    /\ unanswered' = unanswered \cup {r}
    /\ UNCHANGED <<confirmed, wiped>>

\* Success is reported once, for a row that is there or went with its tenant.
Confirm(r) ==
    /\ r \in unanswered
    /\ r \in stored \/ TenantOf[r] \in wiped
    /\ unanswered' = unanswered \ {r}
    /\ confirmed' = confirmed \cup {r}
    /\ UNCHANGED <<stored, undecided, wiped>>

\* Some requests are refused, fail or are lost: no row enters or goes.
GiveUp ==
    /\ undecided' \in SUBSET undecided
    /\ unanswered' \in SUBSET unanswered
    /\ UNCHANGED <<stored, confirmed, wiped>>

\* A tenant loses its rows, all of them at once.
Wipe(t) ==
    /\ stored' = {r \in stored : TenantOf[r] # t}
    /\ wiped' = wiped \cup {t}
    /\ UNCHANGED <<undecided, unanswered, confirmed>>

Next ==
    \/ GiveUp
    \/ \E r \in Creates : Add(r) \/ Confirm(r)
    \/ \E t \in Tenants : Wipe(t)

Spec == Init /\ [][Next]_vars
=============================================================================
