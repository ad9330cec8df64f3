--------------------------- MODULE MCIndexJobQueue ---------------------------
(* Small instances of IndexJobQueue for TLC. *)
EXTENDS IndexJobQueue

CONSTANTS k1, k2, p1, p2, h1, h2, w1, w2

\* What the sources submit: a save and a checkout of the working tree's branch,
\* a move of another branch, a maintenance job, and path-level jobs.
Save(k, ps) == [key |-> k, paths |-> ps, priority |-> 0, sequence |-> 0, refHead |-> None]
Ref(k, p, h) == [key |-> k, paths |-> {}, priority |-> p, sequence |-> 0, refHead |-> h]
PathRef(k, ps, h) == [key |-> k, paths |-> ps, priority |-> 1, sequence |-> 0, refHead |-> h]

MixedRequests ==
    UNION {{Save(k, {}), Save(k, {p1}), Ref(k, 1, h1), Ref(k, 2, h2), PathRef(k, {p2}, h1)} :
              k \in {k1, k2}}
=============================================================================
