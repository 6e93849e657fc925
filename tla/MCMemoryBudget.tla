---------------------------- MODULE MCMemoryBudget ----------------------------
(* Model-checking instances of the memory budget.                           *)
EXTENDS MemoryBudget, TLC

CONSTANTS t1, t2

TwoThreads == {t1, t2}

\* The enforcing tier with a tile lane, and the observing tier with every
\* decode in the full lane.
BothTiers ==
    {[mode |-> "ADVANCED", threshold |-> 2], [mode |-> "BASIC", threshold |-> 0]}

\* With a budget of 4 and SIZE_MAX 9: nothing, half the budget, all of it, and
\* an estimate that never fits and overflows next to one that does.
SomeEstimates == {0, 2, 4, 7}

==============================================================================
