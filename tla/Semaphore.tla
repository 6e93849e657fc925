------------------------------ MODULE Semaphore ------------------------------
(***************************************************************************)
(* The fair counting semaphore the admission pool is built from            *)
(* (tokio::sync::Semaphore, an external library, modelled from how         *)
(* src/throttling/rust/lib.rs uses it: one permit per call).  A semaphore  *)
(* is a record: the free permits, the FIFO queue of parked acquirers and   *)
(* the set of actors a permit is assigned to.  A released permit is        *)
(* assigned to the head of the queue at once, before that acquirer runs    *)
(* again, so an actor can be in held while it still sits in its await.     *)
(***************************************************************************)
EXTENDS Integers, Sequences, FiniteSets

SemaphoreType(Actors) == [free: Nat, queue: Seq(Actors), held: SUBSET Actors]

NewSemaphore(permits) == [free |-> permits, queue |-> <<>>, held |-> {}]

HasFree(s) == s.free > 0

Take(s, a) == [free |-> s.free - 1, queue |-> s.queue, held |-> s.held \cup {a}]

Park(s, a) == [free |-> s.free, queue |-> Append(s.queue, a), held |-> s.held]

\* Dropping a permit: the head of the queue gets it, or it becomes free.
Release(s, a) ==
    IF s.queue = <<>>
    THEN [free |-> s.free + 1, queue |-> s.queue, held |-> s.held \ {a}]
    ELSE [free |-> s.free, queue |-> Tail(s.queue),
          held |-> (s.held \ {a}) \cup {Head(s.queue)}]

Without(q, a) ==
    LET k == CHOOSE j \in DOMAIN q : q[j] = a
    IN  [i \in 1 .. (Len(q) - 1) |-> q[IF i < k THEN i ELSE i + 1]]

\* Dropping an acquire future: a permit that was already assigned to it is
\* given back, otherwise the actor leaves the queue.
Abandon(s, a) ==
    IF a \in s.held
    THEN Release(s, a)
    ELSE [free |-> s.free, queue |-> Without(s.queue, a), held |-> s.held]

Elements(q) == {q[i] : i \in DOMAIN q}

Queued(s) == Elements(s.queue)

NoRepeats(q) == \A i, j \in DOMAIN q : q[i] = q[j] => i = j

\* Nobody is parked twice or parked while holding, and nobody is parked while
\* a permit is free.
Sound(s, A) ==
    /\ s \in SemaphoreType(A)
    /\ NoRepeats(s.queue)
    /\ Queued(s) \cap s.held = {}
    /\ s.queue # <<>> => s.free = 0

Permits(s) == s.free + Cardinality(s.held)

==============================================================================
