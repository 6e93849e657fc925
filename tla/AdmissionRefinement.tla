------------------------- MODULE AdmissionRefinement -------------------------
(* The admission pool implements its contract.                             *)
EXTENDS Admission

\* A request counts as running from the moment acquire answers Admitted until
\* its global permit is dropped.
Phase(p, o) ==
    IF p = "idle" THEN "new"
    ELSE IF p = "running" THEN "running"
    ELSE IF o = "admitted" THEN "over"
    ELSE IF o = "none" THEN "asking" ELSE "refused"

phaseBar == [r \in Requests |-> Phase(pc[r], outcome[r])]

Contract ==
    INSTANCE AdmissionContract WITH
        phase <- phaseBar,
        kind <- kind,
        Workers <- permits_total,
        FullCap <- IF Mode = "advanced" THEN full_max ELSE permits_total

\* Whatever the interleaving, the pool behaves like its contract: never more
\* than nthreads requests run, never more than full_max fulls in advanced
\* mode, and none runs that was refused.
ImplementsContract == Contract!Spec

==============================================================================
