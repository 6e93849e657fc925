------------------------------ MODULE Admission ------------------------------
(***************************************************************************)
(* The two-lane admission pool of the Rust shell                           *)
(* (src/throttling/rust/lib.rs) with the requests that go through it       *)
(* (src/server-rs/src/routes.rs).  One request is one run of               *)
(* Admission::acquire followed by an engine dispatch.  Every atomic        *)
(* operation of the pool is a step of its own, because the shell's         *)
(* runtime is multi-threaded: the queue-depth check and the gauge it       *)
(* reads, the two semaphores of a full, and the drops on the way out all   *)
(* interleave with other requests.                                         *)
(***************************************************************************)
EXTENDS Semaphore

CONSTANTS
    Requests,      \* the requests of one run
    Mode,          \* AdmissionMode: "basic" or "advanced"
    Nthreads,      \* permits_total, after auto-detection
    RatioNum,      \* tiles_thread_ratio = RatioNum / RatioDen
    RatioDen,
    MaxWaiting     \* max_waiting, the full partition's queue depth

ASSUME AdmissionAssumption ==
    /\ IsFiniteSet(Requests)
    /\ Mode \in {"basic", "advanced"}
    /\ Nthreads \in Nat \ {0}
    /\ RatioDen \in Nat /\ RatioNum \in 1 .. (RatioDen - 1)
    /\ MaxWaiting \in Nat

------------------------------------------------------------------------------
(* Sizing (Admission::new): f64::round of total * ratio, clamped so that   *)
(* both partitions keep a thread; one worker disables the lanes.           *)

RoundedShare(total, num, den) == (2 * total * num + den) \div (2 * den)

Clamp(x, lo, hi) == IF x < lo THEN lo ELSE IF x > hi THEN hi ELSE x

TileMin(total, num, den) ==
    IF total < 2 THEN 0 ELSE Clamp(RoundedShare(total, num, den), 1, total - 1)

UncappedFullMax(total, num, den) == total

FullMax(total, num, den) == total - TileMin(total, num, den)

permits_total == Nthreads

tile_min == TileMin(Nthreads, RatioNum, RatioDen)

full_max == FullMax(Nthreads, RatioNum, RatioDen)

------------------------------------------------------------------------------
VARIABLES
    pc,            \* where each request is
    kind,          \* AdmissionKind of each request
    outcome,       \* what acquire answered
    global,        \* the semaphore sized to permits_total
    full,          \* the semaphore sized to full_max
    waiting,       \* the tile_waiting and full_waiting gauges
    shed,          \* the tile_shed_total and full_shed_total counters
    shadow         \* full_shadow_rejected_total

vars == <<pc, kind, outcome, global, full, waiting, shed, shadow>>

Kinds == {"tile", "full"}

PCs == {"idle", "try_full", "try_global", "unfull", "depth", "guard",
        "poll_full", "await_full", "poll_global", "await_global",
        "acquired", "running", "drop_full", "exit_full", "exit_guard", "done"}

Outcomes == {"none", "admitted", "shed", "timed_out", "cancelled"}

Capped(r) == kind[r] = "full" /\ Mode = "advanced"

Goto(r, label) == pc' = [pc EXCEPT ![r] = label]

Answer(r, o) == outcome' = [outcome EXCEPT ![r] = o]

CountShed(r) == shed' = [shed EXCEPT ![kind[r]] = @ + 1]

Init ==
    /\ pc = [r \in Requests |-> "idle"]
    /\ kind = [r \in Requests |-> "tile"]
    /\ outcome = [r \in Requests |-> "none"]
    /\ global = NewSemaphore(permits_total)
    /\ full = NewSemaphore(full_max)
    /\ waiting = [k \in Kinds |-> 0]
    /\ shed = [k \in Kinds |-> 0]
    /\ shadow = 0

\* acquire(kind): a tile goes for the global permit, a full for its sub-pool.
Acquire(r, k) ==
    /\ pc[r] = "idle"
    /\ kind' = [kind EXCEPT ![r] = k]
    /\ Goto(r, IF k = "tile" THEN "try_global" ELSE "try_full")
    /\ UNCHANGED <<outcome, global, full, waiting, shed, shadow>>

TryFullSkipsCap(r) ==
    /\ pc[r] = "try_full"
    /\ full' = IF HasFree(full) THEN Take(full, r) ELSE full
    /\ Goto(r, "try_global")
    /\ UNCHANGED <<kind, outcome, global, waiting, shed, shadow>>

\* full.try_acquire_owned().  Without a permit an advanced full queues; a
\* basic one is counted as a would-be rejection and goes on.
TryFull(r) ==
    /\ pc[r] = "try_full"
    /\ IF HasFree(full)
       THEN /\ full' = Take(full, r)
            /\ Goto(r, "try_global")
            /\ UNCHANGED shadow
       ELSE /\ UNCHANGED full
            /\ Goto(r, IF Mode = "advanced" THEN "depth" ELSE "try_global")
            /\ shadow' = IF Mode = "basic" THEN shadow + 1 ELSE shadow
    /\ UNCHANGED <<kind, outcome, global, waiting, shed>>

\* global.try_acquire_owned(), the fast path of every lane.
TryGlobal(r) ==
    /\ pc[r] = "try_global"
    /\ IF HasFree(global)
       THEN /\ global' = Take(global, r)
            /\ Goto(r, "running")
            /\ Answer(r, "admitted")
       ELSE /\ UNCHANGED <<global, outcome>>
            /\ Goto(r, IF kind[r] = "tile" THEN "guard"
                       ELSE IF Mode = "advanced" THEN "unfull" ELSE "depth")
    /\ UNCHANGED <<kind, full, waiting, shed, shadow>>

DropFullWakesNobody(r) ==
    /\ pc[r] = "unfull"
    /\ full' = [full EXCEPT !.held = @ \ {r}, !.free = @ + 1]
    /\ Goto(r, "depth")
    /\ UNCHANGED <<kind, outcome, global, waiting, shed, shadow>>

\* Advanced: the full permit is dropped rather than pinned while blocked.
DropFull(r) ==
    /\ pc[r] = "unfull"
    /\ full' = Release(full, r)
    /\ Goto(r, "depth")
    /\ UNCHANGED <<kind, outcome, global, waiting, shed, shadow>>

\* The queue-depth check of the full partition: a load of the gauge.
CheckDepth(r) ==
    /\ pc[r] = "depth"
    /\ IF MaxWaiting = 0 \/ waiting["full"] >= MaxWaiting
       THEN /\ CountShed(r)
            /\ Answer(r, "shed")
            /\ Goto(r, IF r \in full.held THEN "exit_full" ELSE "done")
       ELSE /\ Goto(r, "guard")
            /\ UNCHANGED <<outcome, shed>>
    /\ UNCHANGED <<kind, global, full, waiting, shadow>>

GuardGlobalFirst(r) ==
    /\ pc[r] = "guard"
    /\ waiting' = [waiting EXCEPT ![kind[r]] = @ + 1]
    /\ Goto(r, "poll_global")
    /\ UNCHANGED <<kind, outcome, global, full, shed, shadow>>

\* WaitGuard::new: the gauge of the request's partition goes up.
Guard(r) ==
    /\ pc[r] = "guard"
    /\ waiting' = [waiting EXCEPT ![kind[r]] = @ + 1]
    /\ Goto(r, IF Capped(r) THEN "poll_full" ELSE "poll_global")
    /\ UNCHANGED <<kind, outcome, global, full, shed, shadow>>

\* First poll of full.acquire_owned(): the full-lane-first order.
PollFull(r) ==
    /\ pc[r] = "poll_full"
    /\ IF HasFree(full)
       THEN full' = Take(full, r) /\ Goto(r, "poll_global")
       ELSE full' = Park(full, r) /\ Goto(r, "await_full")
    /\ UNCHANGED <<kind, outcome, global, waiting, shed, shadow>>

\* The parked full runs again with the sub-pool permit assigned to it.
WakeFull(r) ==
    /\ pc[r] = "await_full"
    /\ r \in full.held
    /\ Goto(r, "poll_global")
    /\ UNCHANGED <<kind, outcome, global, full, waiting, shed, shadow>>

\* First poll of global.acquire_owned().
PollGlobal(r) ==
    /\ pc[r] = "poll_global"
    /\ IF HasFree(global)
       THEN global' = Take(global, r) /\ Goto(r, "acquired")
       ELSE global' = Park(global, r) /\ Goto(r, "await_global")
    /\ UNCHANGED <<kind, outcome, full, waiting, shed, shadow>>

\* The parked request runs again with the global permit assigned to it.
WakeGlobal(r) ==
    /\ pc[r] = "await_global"
    /\ r \in global.held
    /\ Goto(r, "acquired")
    /\ UNCHANGED <<kind, outcome, global, full, waiting, shed, shadow>>

\* acquire returns Admitted; its WaitGuard is dropped.
Admit(r) ==
    /\ pc[r] = "acquired"
    /\ waiting' = [waiting EXCEPT ![kind[r]] = @ - 1]
    /\ Answer(r, "admitted")
    /\ Goto(r, "running")
    /\ UNCHANGED <<kind, global, full, shed, shadow>>

\* The pending acquire future is dropped: a parked request leaves its queue,
\* one that was just assigned a permit hands it on.
AbandonWait(r) ==
    /\ pc[r] \in {"await_full", "await_global"}
    /\ IF pc[r] = "await_full"
       THEN full' = Abandon(full, r) /\ UNCHANGED global
       ELSE global' = Abandon(global, r) /\ UNCHANGED full
    /\ Goto(r, IF Capped(r) THEN "exit_full" ELSE "exit_guard")
    /\ UNCHANGED <<kind, waiting, shadow>>

\* queue_timeout elapses while the request is parked.  (The shed counter is
\* only ever incremented and exported, so it may be bumped with the timer.)
Timeout(r) == AbandonWait(r) /\ CountShed(r) /\ Answer(r, "timed_out")

\* The client disconnects: the handler's future is dropped where it waits.
\* Nothing is counted.  A dispatched request cannot be dropped this way (its
\* permit moved into the blocking task).
Cancel(r) == AbandonWait(r) /\ Answer(r, "cancelled") /\ UNCHANGED shed

\* The full permit a rejected request still holds is dropped.
ExitFull(r) ==
    /\ pc[r] = "exit_full"
    /\ full' = IF r \in full.held THEN Release(full, r) ELSE full
    /\ Goto(r, IF Mode = "advanced" THEN "exit_guard" ELSE "done")
    /\ UNCHANGED <<kind, outcome, global, waiting, shed, shadow>>

\* Its WaitGuard is dropped; a basic full drops its full permit after that.
ExitGuard(r) ==
    /\ pc[r] = "exit_guard"
    /\ waiting' = [waiting EXCEPT ![kind[r]] = @ - 1]
    /\ Goto(r, IF r \in full.held THEN "exit_full" ELSE "done")
    /\ UNCHANGED <<kind, outcome, global, full, shed, shadow>>

\* The blocking task returns and drops its Permit: the global permit first,
\* the full one after it (field order).
FinishGlobal(r) ==
    /\ pc[r] = "running"
    /\ global' = Release(global, r)
    /\ Goto(r, IF r \in full.held THEN "drop_full" ELSE "done")
    /\ UNCHANGED <<kind, outcome, full, waiting, shed, shadow>>

FinishFullForgets(r) ==
    /\ pc[r] = "drop_full"
    /\ full' = [full EXCEPT !.held = @ \ {r}]
    /\ Goto(r, "done")
    /\ UNCHANGED <<kind, outcome, global, waiting, shed, shadow>>

FinishFull(r) ==
    /\ pc[r] = "drop_full"
    /\ full' = Release(full, r)
    /\ Goto(r, "done")
    /\ UNCHANGED <<kind, outcome, global, waiting, shed, shadow>>

\* The steps the runtime takes for a request by itself.
Run(r) ==
    \/ TryFull(r) \/ TryGlobal(r) \/ DropFull(r) \/ CheckDepth(r)
    \/ Guard(r) \/ PollFull(r) \/ WakeFull(r) \/ PollGlobal(r)
    \/ WakeGlobal(r) \/ Admit(r) \/ ExitFull(r) \/ ExitGuard(r)
    \/ FinishFull(r)

Next ==
    \E r \in Requests :
        \/ \E k \in Kinds : Acquire(r, k)
        \/ Run(r)
        \/ Timeout(r)
        \/ Cancel(r)
        \/ FinishGlobal(r)

Spec == Init /\ [][Next]_vars

------------------------------------------------------------------------------
(* Properties.                                                             *)

Fulls == {r \in Requests : kind[r] = "full"}

Guarded == {"poll_full", "await_full", "poll_global", "await_global",
            "acquired", "exit_guard"}

Waiters(k) ==
    {r \in Requests :
        /\ kind[r] = k
        /\ pc[r] \in Guarded \/ (pc[r] = "exit_full" /\ Mode = "advanced")}

\* Every variable of the pool keeps its type.
TypeOK ==
    /\ pc \in [Requests -> PCs]
    /\ kind \in [Requests -> Kinds]
    /\ outcome \in [Requests -> Outcomes]
    /\ global \in SemaphoreType(Requests)
    /\ full \in SemaphoreType(Requests)
    /\ waiting \in [Kinds -> Int]
    /\ shed \in [Kinds -> Nat]
    /\ shadow \in Nat

\* No permit is ever lost or duplicated, whichever of admission, timeout,
\* cancellation and hand-over a request goes through: the free permits and
\* the assigned ones add up to the pool's size.
PermitsConserved ==
    /\ global.free + Cardinality(global.held) = permits_total
    /\ full.free + Cardinality(full.held) = full_max

\* The global permit is held from the wake-up to the end of the work.
GlobalPlaces ==
    \A r \in Requests :
        /\ pc[r] \in {"acquired", "running"} => r \in global.held
        /\ pc[r] = "await_global" => r \in global.held \cup Queued(global)
        /\ r \in Queued(global) => pc[r] = "await_global"
        /\ r \in global.held => pc[r] \in {"await_global", "acquired", "running"}

\* The sub-pool permit of a capped full is held from before it turns to the
\* global semaphore until after it let go of that (lib.rs:401-404).
FullPlaces ==
    \A r \in Requests :
        /\ pc[r] = "await_full" => r \in full.held \cup Queued(full)
        /\ r \in Queued(full) => pc[r] = "await_full"
        /\ r \in full.held =>
              /\ kind[r] = "full"
              /\ pc[r] \notin {"idle", "try_full", "poll_full", "done"}
              /\ Mode = "advanced" => pc[r] \notin {"depth", "guard", "exit_guard"}
        /\ pc[r] = "try_full" => kind[r] = "full"
        /\ pc[r] \in {"unfull", "drop_full"} => r \in full.held
        /\ pc[r] \in {"unfull", "poll_full", "await_full"} => Capped(r)
        /\ Capped(r) /\ pc[r] \in {"try_global", "poll_global", "await_global",
                                   "acquired", "running"} => r \in full.held

\* A request holds, and is parked on, exactly what its place in acquire calls
\* for: the full-lane-first order on every path in and out.
PermitPlaces == GlobalPlaces /\ FullPlaces

\* No wake-up is lost: nobody is parked while a permit is free.
NoLostWakeup ==
    /\ global.queue # <<>> => global.free = 0
    /\ full.queue # <<>> => full.free = 0

\* Advanced mode: the fulls that hold or contend for a global permit never
\* exceed full_max, so tile_min global permits stay reachable by tiles
\* (lib.rs:6-9 and the full-lane-first comment at 401-404).
TileFloor ==
    Mode = "advanced" =>
        Cardinality(Fulls \cap (global.held \cup Queued(global))) <= permits_total - tile_min

\* A waiting tile waits behind tiles: when one is queued for the global
\* permit, tiles already have at least the tile floor (lib.rs:354-355).
TileBlocksBehindTiles ==
    Queued(global) \ Fulls # {} => Cardinality(global.held \ Fulls) >= tile_min

\* What the metrics say is what happened: every full that runs beyond the full
\* cap has been counted by full_shadow_rejected_total; the waiting gauges are
\* exactly the requests between the two ends of their WaitGuard, on every way
\* out of acquire (lib.rs:497-498); each rejection is counted once in its own
\* partition, a cancelled request in none.
OvercommitIsCounted ==
    /\ Cardinality(Fulls \cap global.held) <= full_max + shadow
    /\ \A k \in Kinds :
          /\ waiting[k] = Cardinality(Waiters(k))
          /\ shed[k] = Cardinality({r \in Requests : kind[r] = k /\ outcome[r] \in {"shed", "timed_out"}})

------------------------------------------------------------------------------
(* Liveness.  The runtime polls every runnable task (weak fairness of Run  *)
(* and of a waiting task's wake-up); that much is part of FairSpec.  Two   *)
(* further assumptions are kept apart and stated where they are used:      *)
(* engine work ends, and queue timers fire.                                *)

FairSpec == Spec /\ \A r \in Requests : WF_vars(Run(r))

EngineWorkEnds == \A r \in Requests : WF_vars(FinishGlobal(r))

TimersFire == \A r \in Requests : WF_vars(Timeout(r))

\* If engine work ends, every request that entered acquire is answered and
\* gives everything back, without any timer: the two semaphores cannot
\* deadlock and FIFO hand-over starves nobody.
\* Even if running work never ends, no request stays in acquire for ever: the
\* queue timer answers it.
AllFinish ==
    /\ EngineWorkEnds => \A r \in Requests : (pc[r] # "idle") ~> (pc[r] = "done")
    /\ TimersFire => \A r \in Requests : (pc[r] # "idle") ~> (outcome[r] # "none")

==============================================================================
