------------------------------ MODULE MCSessions ------------------------------
(* Constants of Sessions for TLC. *)
EXTENDS Sessions

CONSTANTS l1, l2, b1, w1, w2, login_url, products, acme, ann

\* Two logins of ann on one worker, and a request with the token of the first.
UrlDef == [r \in Requests |-> IF r \in Logins THEN login_url ELSE products]
SlugDef == [r \in Requests |-> acme]
WorkerDef == [r \in Requests |-> IF r \in Logins THEN w1 ELSE w2]
UserDef == [l \in Logins |-> ann]
TokenDef == [b \in Bearers |-> l1]
=============================================================================
