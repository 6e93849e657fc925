-------------------------- MODULE MCPreflightCache --------------------------
EXTENDS PreflightCache, TLC

CONSTANTS r1, r2, k1, k2, k3

TwoRequests == {r1, r2}
ThreeKeys == {k1, k2, k3}

\* Two keys that collide and a third whose window overlaps theirs.
TwoCollide == (k1 :> 0) @@ (k2 :> 0) @@ (k3 :> 7)

Symmetry == Permutations(Callers)
=============================================================================
