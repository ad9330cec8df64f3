---------------------------- MODULE MCBranchStore ----------------------------
(* Small instances of BranchStore for TLC. *)
EXTENDS BranchStore, TLC

CONSTANTS b1, b2

\* One file moves between two modules when a package marker comes or goes; a
\* second one may have the module of the first.
OneFile(f) == [p \in {"f"} |-> f]
TwoFiles(f, g) == [p \in {"f", "g"} |-> IF p = "f" THEN f ELSE g]

At(blob, module) == [blob |-> blob, module |-> module]

SmallCopies == [x |-> [a |-> 1], xx |-> [a |-> 2]]

Situation(trees, keys, between) == [trees |-> trees, keys |-> keys, between |-> between]

Plain   == OneFile(At("x", "m"))
Twice   == OneFile(At("xx", "m"))
Moved   == OneFile(At("x", "src.m"))
Sharing == TwoFiles(At("x", "m"), At("x", "m"))

SmallSituations == {Situation({Plain, Twice, Moved}, {1}, FALSE),
                    Situation({Plain, Sharing}, {1}, FALSE),
                    Situation({Plain, Twice}, {1, 2}, FALSE)}

\* The two together.
MovedAndSharing == {Situation({Moved, Sharing}, {1}, FALSE)}

Symmetry == Permutations(Branches)
=============================================================================
