----------------------------- MODULE MCAdmission -----------------------------
(* Model-checking instances of the admission pool.                          *)
EXTENDS AdmissionRefinement, TLC

CONSTANTS r1, r2, r3, r4

FourRequests == {r1, r2, r3, r4}

Symmetry == Permutations(Requests)

==============================================================================
