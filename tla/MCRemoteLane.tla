----------------------------- MODULE MCRemoteLane -----------------------------
(* Small instances of RemoteLane for TLC. *)
EXTENDS RemoteLane

CONSTANT b1

UpTo(pushes, commits, checkouts, fetches, failures, restarts) ==
    [pushes |-> pushes, commits |-> commits, checkouts |-> checkouts, fetches |-> fetches,
     failures |-> failures, restarts |-> restarts]

LaneBounds == UpTo(1, 1, 1, 1, 2, 1)
=============================================================================
