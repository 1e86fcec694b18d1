------------------------------ MODULE MCGateway -------------------------------
(* Constants of Gateway for TLC. *)
EXTENDS Gateway

CONSTANTS r1, r2, w1, products, acme

UrlDef == [r \in Requests |-> products]
SlugDef == [r \in Requests |-> acme]
WorkerDef == [r \in Requests |-> w1]
=============================================================================
