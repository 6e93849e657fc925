-------------------------- MODULE AdmissionContract --------------------------
(***************************************************************************)
(* What the admission pool promises the HTTP handlers, without semaphores, *)
(* queues or gauges: a request asks, and is either started while there is  *)
(* a worker for it or refused; what is started ends.  Admission implements *)
(* this specification (AdmissionRefinement).                               *)
(***************************************************************************)
EXTENDS Naturals, FiniteSets

CONSTANTS
    Requests,
    Workers,       \* how many requests may run at once
    FullCap        \* how many of them may be fulls

VARIABLES phase, kind

cvars == <<phase, kind>>

Running == {r \in Requests : phase[r] = "running"}

RunningFulls == {r \in Running : kind[r] = "full"}

Init ==
    /\ phase = [r \in Requests |-> "new"]
    /\ kind = [r \in Requests |-> "tile"]

Ask(r, k) ==
    /\ phase[r] = "new"
    /\ phase' = [phase EXCEPT ![r] = "asking"]
    /\ kind' = [kind EXCEPT ![r] = k]

Start(r) ==
    /\ phase[r] = "asking"
    /\ Cardinality(Running) < Workers
    /\ kind[r] = "full" => Cardinality(RunningFulls) < FullCap
    /\ phase' = [phase EXCEPT ![r] = "running"]
    /\ UNCHANGED kind

Refuse(r) ==
    /\ phase[r] = "asking"
    /\ phase' = [phase EXCEPT ![r] = "refused"]
    /\ UNCHANGED kind

Finish(r) ==
    /\ phase[r] = "running"
    /\ phase' = [phase EXCEPT ![r] = "over"]
    /\ UNCHANGED kind

Next ==
    \E r \in Requests :
        \/ \E k \in {"tile", "full"} : Ask(r, k)
        \/ Start(r) \/ Refuse(r) \/ Finish(r)

Spec == Init /\ [][Next]_cvars

==============================================================================
