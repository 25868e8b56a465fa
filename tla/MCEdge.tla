------------------------------- MODULE MCEdge -------------------------------
(* A small instance of Edge for TLC. *)
EXTENDS Edge, TLC

CONSTANTS h1, h2, h3, p1, i1

\* Three connections and a publisher, all of one address.
OneAddress == (h1 :> i1) @@ (h2 :> i1) @@ (h3 :> i1) @@ (p1 :> i1)
=============================================================================
