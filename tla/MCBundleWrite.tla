---------------------------- MODULE MCBundleWrite ----------------------------
(* Small instances of BundleWrite for TLC. *)
EXTENDS BundleWrite, TLC

CONSTANTS p1, p2, a, b, c, w1, w2

UpTo(edits, passes, forced, failures, crashes, damages) ==
    [edits |-> edits, passes |-> passes, forced |-> forced, failures |-> failures,
     crashes |-> crashes, damages |-> damages]

Bag(as, bs, cs) == [t \in {a, b, c} |-> CASE t = a -> as [] t = b -> bs [] t = c -> cs]

\* One chunk, two equal ones, another one, two different ones; c has no vector.
SmallReadings == {Bag(1, 0, 0), Bag(2, 0, 0), Bag(0, 1, 0), Bag(1, 0, 1)}

\* Edits with every package in a pass twice, then each kind of trouble.
SmallBounds == {UpTo(2, 2, 0, 1, 0, 0), UpTo(1, 2, 0, 0, 1, 0), UpTo(1, 2, 0, 0, 0, 1),
                UpTo(1, 1, 1, 0, 1, 0), UpTo(0, 1, 1, 1, 0, 0)}

OneCrash == {UpTo(0, 2, 0, 0, 1, 0)}

\* Neither the packages nor the workers differ.
Symmetry == Permutations({p1, p2}) \cup Permutations({w1, w2})
=============================================================================
