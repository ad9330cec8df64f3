--------------------------- MODULE MCUpstreamSignal ---------------------------
(* Small instances of UpstreamSignal for TLC. *)
EXTENDS UpstreamSignal

CONSTANTS b1, b2

UpTo(moves, unreadable, failures) ==
    [moves |-> moves, unreadable |-> unreadable, failures |-> failures]

SignalBounds == UpTo(2, 1, 1)
=============================================================================
