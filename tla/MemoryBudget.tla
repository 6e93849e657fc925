----------------------------- MODULE MemoryBudget -----------------------------
(***************************************************************************)
(* The engine's full-lane memory budget (SipiMemoryBudget and              *)
(* MemoryBudgetGuard, src/throttling/cpp) as the serve path of             *)
(* src/ffi/serve_image.cpp uses it: a decode reserves its estimate through *)
(* a compare-and-swap loop, the reservation travels from the function's    *)
(* guard to the encode producer's, and the guard's destructor gives it     *)
(* back after the image buffer is freed.  The used-bytes gauge is set from *)
(* values read before the set.                                             *)
(***************************************************************************)
EXTENDS Integers, FiniteSets

CONSTANTS
    Threads,       \* serve calls, one decode each
    Configs,       \* the configurations under study: mode and threshold
    Budget,        \* _budget, the full lane's bytes
    SizeMax,       \* SIZE_MAX
    Estimates      \* estimated peak bytes a request may have

ASSUME BudgetAssumption ==
    /\ IsFiniteSet(Threads)
    /\ Configs \subseteq [mode : {"BASIC", "ADVANCED"}, threshold : Nat]
    /\ SizeMax \in Nat /\ Budget \in 0 .. (SizeMax - 1)
    /\ Estimates \subseteq 0 .. SizeMax

VARIABLES
    conf,          \* the configuration, fixed at startup
    used,          \* _used
    gauge,         \* decode_memory_used_bytes
    pc,
    bytes,         \* the request's estimate
    current,       \* the local copy of _used in the two CAS loops
    result,        \* MemoryBudgetResult, as the caller tells its cases apart
    guards,        \* which of the request's guards are armed
    image,         \* the decoded buffer is allocated
    answer         \* HTTP status, 0 while there is none

vars == <<conf, used, gauge, pc, bytes, current, result, guards, image, answer>>

PCs == {"idle", "load", "cas", "publish", "check", "decoded", "encode",
        "unwind", "release", "rcas", "reread", "republish", "done"}

Results == {"none", "allowed", "over", "too_large", "exhausted"}

AdmissionMode == conf.mode

\* large_decode_threshold_bytes
Threshold == conf.threshold

Goto(t, label) == pc' = [pc EXCEPT ![t] = label]

Init ==
    /\ conf \in Configs
    /\ used = 0
    /\ gauge = 0
    /\ pc = [t \in Threads |-> "idle"]
    /\ bytes = [t \in Threads |-> 0]
    /\ current = [t \in Threads |-> 0]
    /\ result = [t \in Threads |-> "none"]
    /\ guards = [t \in Threads |-> {}]
    /\ image = [t \in Threads |-> FALSE]
    /\ answer = [t \in Threads |-> 0]

\* The lane decision: a decode below the threshold bypasses the budget.
Estimate(t, b) ==
    /\ pc[t] = "idle"
    /\ bytes' = [bytes EXCEPT ![t] = b]
    /\ Goto(t, IF b >= Threshold THEN "load" ELSE "check")
    /\ UNCHANGED <<used, gauge, current, result, guards, image, answer>>

\* try_acquire reads _used; zero bytes are allowed without a charge.
Load(t) ==
    /\ pc[t] = "load"
    /\ current' = [current EXCEPT ![t] = used]
    /\ IF bytes[t] = 0
       THEN Goto(t, "publish") /\ result' = [result EXCEPT ![t] = "allowed"]
       ELSE Goto(t, "cas") /\ UNCHANGED result
    /\ UNCHANGED <<used, gauge, bytes, guards, image, answer>>

\* The sum, saturated at SIZE_MAX.
Desired(c, b) == IF b <= SizeMax - c THEN c + b ELSE SizeMax

\* exceeds_budget_alone tells a permanent refusal from a transient one.
RefusedAs(b) == IF b > Budget THEN "too_large" ELSE "exhausted"

CasNoRefresh(t) ==
    LET desired == Desired(current[t], bytes[t])
    IN  /\ pc[t] = "cas"
        /\ IF desired > Budget /\ AdmissionMode = "ADVANCED"
           THEN /\ result' = [result EXCEPT ![t] = RefusedAs(bytes[t])]
                /\ Goto(t, "publish")
                /\ UNCHANGED <<used, current>>
           ELSE /\ used = current[t]
                /\ used' = desired
                /\ current' = [current EXCEPT ![t] = desired]
                /\ result' = [result EXCEPT ![t] = IF desired > Budget THEN "over" ELSE "allowed"]
                /\ Goto(t, "publish")
        /\ UNCHANGED <<gauge, bytes, guards, image, answer>>

\* One round of the loop: refuse on the value last seen, or swap it if _used
\* still has it; a failed swap brings the new value.
Cas(t) ==
    LET desired == Desired(current[t], bytes[t])
    IN  /\ pc[t] = "cas"
        /\ \/ /\ desired > Budget
              /\ AdmissionMode = "ADVANCED"
              /\ result' = [result EXCEPT ![t] = RefusedAs(bytes[t])]
              /\ Goto(t, "publish")
              /\ UNCHANGED <<used, current>>
           \/ /\ desired <= Budget \/ AdmissionMode = "BASIC"
              /\ used = current[t]
              /\ used' = desired
              /\ current' = [current EXCEPT ![t] = desired]
              /\ result' = [result EXCEPT ![t] = IF desired > Budget THEN "over" ELSE "allowed"]
              /\ Goto(t, "publish")
           \/ /\ desired <= Budget \/ AdmissionMode = "BASIC"
              /\ used # current[t]
              /\ current' = [current EXCEPT ![t] = used]
              /\ UNCHANGED <<used, result, pc>>
        /\ UNCHANGED <<gauge, bytes, guards, image, answer>>

\* The caller sets the gauge to result.used and answers a refusal, 413 for a
\* request that can never fit and 503 otherwise, or arms its guard.
Publish(t) ==
    /\ pc[t] = "publish"
    /\ gauge' = current[t]
    /\ IF result[t] \in {"too_large", "exhausted"}
       THEN /\ answer' = [answer EXCEPT ![t] = IF result[t] = "too_large" THEN 413 ELSE 503]
            /\ Goto(t, "done")
            /\ UNCHANGED guards
       ELSE /\ guards' = [guards EXCEPT ![t] = {"serve"}]
            /\ Goto(t, "check")
            /\ UNCHANGED answer
    /\ UNCHANGED <<used, bytes, current, result, image>>

\* cancelled() before the decode or after the transforms.
ClientGone(t) ==
    /\ pc[t] \in {"check", "decoded"}
    /\ answer' = [answer EXCEPT ![t] = 499]
    /\ Goto(t, "unwind")
    /\ UNCHANGED <<used, gauge, bytes, current, result, guards, image>>

Decode(t) ==
    /\ pc[t] = "check"
    /\ image' = [image EXCEPT ![t] = TRUE]
    /\ Goto(t, "decoded")
    /\ UNCHANGED <<used, gauge, bytes, current, result, guards, answer>>

\* read, rotate, quality, watermark or the cache file's creation failed.
Fail(t) ==
    /\ pc[t] = "decoded"
    /\ answer' = [answer EXCEPT ![t] = 500]
    /\ Goto(t, "unwind")
    /\ UNCHANGED <<used, gauge, bytes, current, result, guards, image>>

HandOverCopies(t) ==
    /\ pc[t] = "decoded"
    /\ guards' = [guards EXCEPT ![t] = IF @ = {} THEN @ ELSE @ \cup {"producer"}]
    /\ Goto(t, "encode")
    /\ UNCHANGED <<used, gauge, bytes, current, result, image, answer>>

HandOverReleases(t) ==
    /\ pc[t] = "decoded"
    /\ guards' = [guards EXCEPT ![t] = {}]
    /\ used' = IF guards[t] = {} THEN used ELSE used - bytes[t]
    /\ Goto(t, "encode")
    /\ UNCHANGED <<gauge, bytes, current, result, image, answer>>

\* The producer is built: the guard's move constructor disarms the local one.
HandOver(t) ==
    /\ pc[t] = "decoded"
    /\ guards' = [guards EXCEPT ![t] = IF @ = {} THEN @ ELSE {"producer"}]
    /\ Goto(t, "encode")
    /\ UNCHANGED <<used, gauge, bytes, current, result, image, answer>>

\* The response is committed; the encode ends, or fails, after that.
Encode(t) ==
    /\ pc[t] = "encode"
    /\ answer' = [answer EXCEPT ![t] = 200]
    /\ Goto(t, "unwind")
    /\ UNCHANGED <<used, gauge, bytes, current, result, guards, image>>

\* Destructors: the image goes before the guard, whichever object owns both.
FreeImage(t) ==
    /\ pc[t] = "unwind"
    /\ image' = [image EXCEPT ![t] = FALSE]
    /\ Goto(t, "release")
    /\ UNCHANGED <<used, gauge, bytes, current, result, guards, answer>>

\* An armed guard calls release(bytes), which reads _used first.
ReleaseLoad(t) ==
    /\ pc[t] = "release"
    /\ IF guards[t] = {}
       THEN Goto(t, "done") /\ UNCHANGED current
       ELSE /\ current' = [current EXCEPT ![t] = used]
            /\ Goto(t, "rcas")
    /\ UNCHANGED <<used, gauge, bytes, result, guards, image, answer>>

\* One round of release's loop, clamped at zero; zero bytes change nothing.
ReleaseCas(t) ==
    /\ pc[t] = "rcas"
    /\ \/ /\ used = current[t] \/ bytes[t] = 0
          /\ used' = IF bytes[t] = 0 THEN used
                     ELSE IF current[t] >= bytes[t] THEN current[t] - bytes[t] ELSE 0
          /\ \E g \in guards[t] : guards' = [guards EXCEPT ![t] = @ \ {g}]
          /\ Goto(t, "reread")
          /\ UNCHANGED current
       \/ /\ used # current[t] /\ bytes[t] # 0
          /\ current' = [current EXCEPT ![t] = used]
          /\ UNCHANGED <<used, guards, pc>>
    /\ UNCHANGED <<gauge, bytes, result, image, answer>>

\* on_release reads used() and then sets the gauge.
Reread(t) ==
    /\ pc[t] = "reread"
    /\ current' = [current EXCEPT ![t] = used]
    /\ Goto(t, "republish")
    /\ UNCHANGED <<used, gauge, bytes, result, guards, image, answer>>

Republish(t) ==
    /\ pc[t] = "republish"
    /\ gauge' = current[t]
    /\ Goto(t, "release")
    /\ UNCHANGED <<used, bytes, current, result, guards, image, answer>>

Step(t) ==
    \/ Load(t) \/ Cas(t) \/ Publish(t) \/ ClientGone(t) \/ Decode(t) \/ Fail(t)
    \/ HandOver(t) \/ Encode(t) \/ FreeImage(t) \/ ReleaseLoad(t)
    \/ ReleaseCas(t) \/ Reread(t) \/ Republish(t)

Next ==
    /\ \E t \in Threads : (\E b \in Estimates : Estimate(t, b)) \/ Step(t)
    /\ UNCHANGED conf

Spec == Init /\ [][Next]_vars

\* A serve thread keeps running, except that the encode waits for its client
\* and may never return.
FairSpec ==
    /\ Spec
    /\ \A t \in Threads : WF_vars(Step(t) /\ pc[t] # "encode" /\ UNCHANGED conf)

------------------------------------------------------------------------------
\* Every variable keeps its type; the byte counts stay within size_t.
TypeOK ==
    /\ conf \in Configs
    /\ used \in 0 .. SizeMax
    /\ gauge \in 0 .. SizeMax
    /\ pc \in [Threads -> PCs]
    /\ bytes \in [Threads -> 0 .. SizeMax]
    /\ current \in [Threads -> 0 .. SizeMax]
    /\ result \in [Threads -> Results]
    /\ guards \in [Threads -> SUBSET {"serve", "producer"}]
    /\ image \in [Threads -> BOOLEAN]
    /\ answer \in [Threads -> {0, 200, 413, 499, 500, 503}]

Reserved(t) ==
    \/ pc[t] = "publish" /\ result[t] \in {"allowed", "over"}
    \/ guards[t] # {}

\* The sum of the estimates of the calls in S, each byte counted by itself.
Bytes(S) == Cardinality({p \in S \X (1 .. SizeMax) : p[2] <= bytes[p[1]]})

Reservations == {t \in Threads : Reserved(t)}

FullLaneImages == {t \in Threads : image[t] /\ bytes[t] >= Threshold}

\* The counter is never above the bytes of the reservations in flight, and back
\* at zero when all requests are over, although a sum may saturate.  In advanced
\* mode it is exact, whatever the order of the swaps, and the reservations stay
\* within the budget, although each thread decides on a value of _used it read
\* earlier.  Every variable keeps its type.
UsedIsExact ==
    /\ TypeOK
    /\ used <= Bytes(Reservations)
    /\ (\A t \in Threads : pc[t] \in {"idle", "done"}) => used = 0
    /\ AdmissionMode = "ADVANCED" =>
          used = Bytes(Reservations) /\ Bytes(Reservations) <= Budget

\* A full-lane image buffer is only ever alive under a reservation: the budget
\* is released after the buffer is freed (serve_image.cpp, budget_guard_).
BuffersAreReserved == FullLaneImages \subseteq Reservations

\* Every request gets to its encode or to its end, and from the end of the
\* encode to the return of its bytes, even if other clients never read: the
\* CAS loops end and no thread waits for another.
AllReturn ==
    \A t \in Threads : (pc[t] \notin {"idle", "encode"}) ~> (pc[t] \in {"encode", "done"})

==============================================================================
