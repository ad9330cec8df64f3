----------------------------- MODULE MCBundleOpen -----------------------------
(* Small instances of BundleOpen for TLC. *)
EXTENDS BundleOpen, TLC

CONSTANTS p1, p2, p3

Met(v, lost, damaged) == [version |-> v, missing |-> lost, corrupt |-> damaged]

\* A current bundle, one of each upgrade, a new and an unknown one, a damaged one,
\* two that lost a core table.
SmallSituations ==
    {Met(v, {}, FALSE) : v \in {0, 5, 8, 11, 17, Current}}
    \cup {Met(Current, {}, TRUE), Met(Current, {"module_members"}, FALSE),
          Met(17, {"chunks"}, FALSE)}

NewBundle == {Met(0, {}, FALSE)}

Symmetry == Permutations(Processes)
=============================================================================
