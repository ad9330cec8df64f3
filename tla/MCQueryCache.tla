----------------------------- MODULE MCQueryCache -----------------------------
(* Small instances of QueryCache for TLC. *)
EXTENDS QueryCache

CONSTANTS c1, c2, c3, k1, k2
=============================================================================
