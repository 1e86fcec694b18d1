---------------------------- MODULE MCTenantSignup ----------------------------
(* Constants of TenantSignup for TLC. *)
EXTENDS TenantSignup

CONSTANTS r1, r2, r3, l1, w1, w2, acme, acmeToo, beta, tenant_acme, public, ann, bob

\* Two signups for one slug on two workers, one for another slug with the
\* e-mail of the first, a login for the first slug.
SignupsDef == {r1, r2, r3}
EmailDef == [r \in Signups |-> IF r = r2 THEN bob ELSE ann]
SlugDef == [c \in Calls |-> IF c = r3 THEN beta ELSE acme]
WorkerDef == [c \in Calls |-> IF c \in {r2, l1} THEN w2 ELSE w1]

\* The third signup is for the slug "public".
SlugRace == [c \in Calls |-> IF c = r3 THEN public ELSE acme]

\* The third signup has a slug of its own that PostgreSQL cuts to the schema of
\* the other two; all calls are on one worker.
SlugLive == [c \in Calls |-> IF c = r3 THEN acmeToo ELSE acme]
WorkerLive == [c \in Calls |-> w1]

\* A slug that is not cut, and one that is.
SchemaDef == [s \in Slugs |-> IF s = acmeToo THEN acme ELSE s]

\* A migration whose statements name the schema they are run for.
Templated == [s \in SchemaNames |-> s]
\* The statements of 1781867683948-add-index-to-products.ts.
CheckedIn == [s \in SchemaNames |-> tenant_acme]
=============================================================================
