---------------------------- MODULE MCRefreshLoop ----------------------------
(* Small instances of RefreshLoop for TLC. *)
EXTENDS RefreshLoop

CONSTANTS main, dev

UpTo(saves, commits, checkouts, advances, failures, hiccups) ==
    [saves |-> saves, commits |-> commits, checkouts |-> checkouts, advances |-> advances,
     failures |-> failures, hiccups |-> hiccups]

Situation(watch, moves, bounds) == [watch |-> watch, moves |-> moves, bounds |-> bounds]

\* One checkout only: a HEAD that leaves and returns between two snapshots is not
\* seen.  Under --watch every three of the user's actions, and two with a failing
\* pass; under plain serve, where the tree may also move during the startup pass,
\* failing passes and git commands as well.
SmallSetups ==
    {Situation(TRUE, {}, b) : b \in {UpTo(1, 1, 1, 0, 0, 0), UpTo(1, 0, 1, 1, 0, 0),
                                     UpTo(0, 1, 1, 1, 0, 0), UpTo(1, 1, 0, 1, 0, 0),
                                     UpTo(1, 0, 1, 0, 1, 0), UpTo(1, 1, 0, 0, 1, 0)}}
    \cup
    {Situation(FALSE, {"tree"}, b) : b \in {UpTo(1, 1, 1, 0, 0, 0), UpTo(0, 1, 1, 1, 1, 1),
                                            UpTo(1, 0, 1, 0, 1, 1)}}

OneCheckout == {Situation(FALSE, {"tree"}, UpTo(0, 0, 1, 0, 0, 0))}
CommitAndHiccup == {Situation(FALSE, {}, UpTo(0, 1, 0, 0, 0, 1))}
=============================================================================
