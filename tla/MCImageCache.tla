---------------------------- MODULE MCImageCache ----------------------------
EXTENDS ImageCache, TLC

CONSTANTS t1, t2, t3, k1, k2, f1, f2, f3, f4, k3, cut

OneThread == {t1}
TwoThreads == {t1, t2}
TwoKeys == {k1, k2}
ThreeKeys == {k1, k2, k3}
ThreeKeysAndCut == {k1, k2, k3, cut}
ThreeFiles == {f1, f2, f3}
FourFiles == {f1, f2, f3, f4}

\* Names that fit their index record.
Whole == [n \in IndexNames |-> n]
\* One name that fits and two that agree in their first 255 characters.
TwoAgree == [n \in IndexNames |-> IF n = k1 THEN k1 ELSE cut]

\* max_cache_size without a limit.
Unlimited == -1

Symmetry == Permutations(Threads) \cup Permutations(Files) \cup Permutations(Keys)
\* The keys of TwoAgree that can change places.
LongSymmetry == Permutations(Threads) \cup Permutations(Files) \cup Permutations({k2, k3})
=============================================================================
