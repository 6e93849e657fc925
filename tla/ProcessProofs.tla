---------------------------- MODULE ProcessProofs ----------------------------
(***************************************************************************)
(* Proofs about what the requests of one process share: the memory budget  *)
(* (MemoryBudget), the decision cache (PreflightCache), and the life of    *)
(* the process itself, from its start to the end of its drain (Server).    *)
(* The three are separate specifications with variables of their own.      *)
(***************************************************************************)
EXTENDS MemoryBudget, PreflightCache, Server, FiniteSetTheorems, WellFoundedInduction, TLAPS

-----------------------------------------------------------------------------
(***************************************************************************)
(* The memory budget, for every set of threads, budget, width of size_t,   *)
(* configuration and estimates.  A full-lane image buffer is always        *)
(* covered by a reservation: what makes that inductive is where in the     *)
(* serve call a buffer may be alive, and that a full-lane call has an      *)
(* armed guard at each of these places, whichever object holds it.         *)
(*                                                                         *)
(* The counter agrees with the reservations.  A sum of estimates is the    *)
(* number of bytes, each a pair of a call and a position (ByteSlots), so   *)
(* that reserving and releasing adds and removes a set, and facts about    *)
(* the cardinality of finite sets are all the arithmetic there is.         *)
(***************************************************************************)

\* Between the arming of its guard and the freeing of its image.
Covered == {"check", "decoded", "encode", "unwind"}

Places ==
    \A t \in Threads :
        /\ image[t] => pc[t] \in Covered \ {"check"}
        /\ pc[t] \in Covered /\ bytes[t] >= Threshold => guards[t] # {}

BudgetInv == TypeOK /\ Places

LEMMA BudgetInitInv == Init => BudgetInv
PROOF
  <1> SUFFICES ASSUME Init PROVE BudgetInv
    BY Zenon
  <1>1. TypeOK
    BY BudgetAssumption DEF Init, TypeOK, PCs, Results
  <1>2. Places
    BY Zenon DEF Init, Places, Covered
  <1> QED
    BY <1>1, <1>2, Zenon DEF BudgetInv

\* The saturated sum stays within size_t.
LEMMA DesiredInRange ==
    ASSUME NEW c \in 0 .. SizeMax, NEW b \in 0 .. SizeMax
    PROVE  Desired(c, b) \in 0 .. SizeMax
PROOF
  BY BudgetAssumption DEF Desired

\* The lane decision: only a call below the threshold goes on without a guard.
LEMMA EstimateInv ==
    ASSUME BudgetInv, UNCHANGED conf, NEW t \in Threads, NEW b \in Estimates, Estimate(t, b)
    PROVE  BudgetInv'
PROOF
  <1>1. TypeOK'
    BY BudgetAssumption DEF BudgetInv, TypeOK, Estimate, Goto, PCs, Threshold
  <1>2. Places'
    BY BudgetAssumption DEF BudgetInv, TypeOK, Places, Covered, Estimate, Goto, Threshold
  <1> QED
    BY <1>1, <1>2, Zenon DEF BudgetInv

\* try_acquire, whose loop neither arms a guard nor touches an image.
LEMMA AcquireInv ==
    ASSUME BudgetInv, UNCHANGED conf, NEW t \in Threads, Load(t) \/ Cas(t)
    PROVE  BudgetInv'
PROOF
  <1>1. CASE Load(t)
    <2>1. TypeOK'
      BY <1>1 DEF BudgetInv, TypeOK, Load, Goto, PCs, Results
    <2>2. Places'
      BY <1>1 DEF BudgetInv, TypeOK, Places, Covered, Load, Goto, Threshold
    <2> QED
      BY <2>1, <2>2, Zenon DEF BudgetInv
  <1>2. CASE Cas(t)
    <2>1. Desired(current[t], bytes[t]) \in 0 .. SizeMax
      BY DesiredInRange DEF BudgetInv, TypeOK
    <2>2. TypeOK'
      BY <1>2, <2>1 DEF BudgetInv, TypeOK, Cas, Goto, PCs, Results, RefusedAs
    <2>3. Places'
      BY <1>2 DEF BudgetInv, TypeOK, Places, Covered, Cas, Goto, Threshold
    <2> QED
      BY <2>2, <2>3, Zenon DEF BudgetInv
  <1> QED
    BY <1>1, <1>2, Zenon

\* The serve call between the answer of the budget and its destructors.
LEMMA ServeInv ==
    ASSUME BudgetInv, UNCHANGED conf, NEW t \in Threads,
           Publish(t) \/ ClientGone(t) \/ Decode(t) \/ Fail(t) \/ HandOver(t) \/ Encode(t)
    PROVE  BudgetInv'
PROOF
  <1>1. CASE Publish(t)
    <2>1. TypeOK'
      BY <1>1 DEF BudgetInv, TypeOK, Publish, Goto, PCs, Results
    <2>2. SUFFICES ASSUME NEW u \in Threads
                   PROVE  /\ image'[u] => pc'[u] \in Covered \ {"check"}
                          /\ pc'[u] \in Covered /\ bytes'[u] >= Threshold' => guards'[u] # {}
      BY <2>1, Zenon DEF BudgetInv, Places
    <2>3. CASE u # t
      BY <1>1, <2>3 DEF BudgetInv, TypeOK, Places, Publish, Goto, Threshold
    <2>4. CASE u = t
      <3>1. ~ image[t] /\ UNCHANGED image
        BY <1>1, Zenon DEF BudgetInv, Places, Covered, Publish
      <3>2. pc'[t] \in Covered => guards'[t] = {"serve"}
        BY <1>1 DEF BudgetInv, TypeOK, Covered, Publish, Goto
      <3> QED
        BY <2>4, <3>1, <3>2, Zenon
    <2> QED
      BY <2>3, <2>4, Zenon
  <1>2. CASE ClientGone(t) \/ Fail(t) \/ Encode(t)
    <2>1. TypeOK'
      BY <1>2 DEF BudgetInv, TypeOK, ClientGone, Fail, Encode, Goto, PCs
    <2>2. Places'
      BY <1>2 DEF BudgetInv, TypeOK, Places, Covered, ClientGone, Fail, Encode, Goto, Threshold
    <2> QED
      BY <2>1, <2>2, Zenon DEF BudgetInv
  <1>3. CASE Decode(t)
    <2>1. TypeOK'
      BY <1>3, ZenonT(30) DEF BudgetInv, TypeOK, Decode, Goto, PCs
    <2>2. Places'
      BY <1>3 DEF BudgetInv, TypeOK, Places, Covered, Decode, Goto, Threshold
    <2> QED
      BY <2>1, <2>2, Zenon DEF BudgetInv
  <1>4. CASE HandOver(t)
    <2>1. TypeOK'
      BY <1>4, ZenonT(30) DEF BudgetInv, TypeOK, HandOver, Goto, PCs
    <2>2. Places'
      BY <1>4 DEF BudgetInv, TypeOK, Places, Covered, HandOver, Goto, Threshold
    <2> QED
      BY <2>1, <2>2, Zenon DEF BudgetInv
  <1> QED
    BY <1>1, <1>2, <1>3, <1>4, Zenon

\* The destructors: the image first, then the guard's release and its gauge.
LEMMA ReleaseInv ==
    ASSUME BudgetInv, UNCHANGED conf, NEW t \in Threads,
           FreeImage(t) \/ ReleaseLoad(t) \/ ReleaseCas(t) \/ Reread(t) \/ Republish(t)
    PROVE  BudgetInv'
PROOF
  <1>1. CASE FreeImage(t)
    <2>1. TypeOK'
      BY <1>1, ZenonT(30) DEF BudgetInv, TypeOK, FreeImage, Goto, PCs
    <2>2. Places'
      BY <1>1 DEF BudgetInv, TypeOK, Places, Covered, FreeImage, Goto, Threshold
    <2> QED
      BY <2>1, <2>2, Zenon DEF BudgetInv
  <1>2. CASE ReleaseLoad(t)
    <2>1. TypeOK'
      BY <1>2 DEF BudgetInv, TypeOK, ReleaseLoad, Goto, PCs
    <2>2. Places'
      BY <1>2 DEF BudgetInv, TypeOK, Places, Covered, ReleaseLoad, Goto, Threshold
    <2> QED
      BY <2>1, <2>2, Zenon DEF BudgetInv
  <1>3. CASE ReleaseCas(t)
    <2>1. used' \in 0 .. SizeMax
      BY <1>3, BudgetAssumption DEF BudgetInv, TypeOK, ReleaseCas
    <2>2. guards' \in [Threads -> SUBSET {"serve", "producer"}]
      BY <1>3 DEF BudgetInv, TypeOK, ReleaseCas
    <2>3. TypeOK'
      BY <1>3, <2>1, <2>2 DEF BudgetInv, TypeOK, ReleaseCas, Goto, PCs
    <2>4. Places'
      BY <1>3 DEF BudgetInv, TypeOK, Places, Covered, ReleaseCas, Goto, Threshold
    <2> QED
      BY <2>3, <2>4, Zenon DEF BudgetInv
  <1>4. CASE Reread(t) \/ Republish(t)
    <2>1. TypeOK'
      BY <1>4 DEF BudgetInv, TypeOK, Reread, Republish, Goto, PCs
    <2>2. Places'
      BY <1>4 DEF BudgetInv, TypeOK, Places, Covered, Reread, Republish, Goto, Threshold
    <2> QED
      BY <2>1, <2>2, Zenon DEF BudgetInv
  <1> QED
    BY <1>1, <1>2, <1>3, <1>4, Zenon

\* The invariant of the serve calls: every variable has its type, and a
\* full-lane call has an armed guard wherever its image may be alive.
THEOREM BudgetInvariance == Spec => []BudgetInv
PROOF
  <1>1. BudgetInv /\ [Next]_vars => BudgetInv'
    <2> SUFFICES ASSUME BudgetInv, [Next]_vars PROVE BudgetInv'
      BY Zenon
    <2>1. CASE UNCHANGED vars
      BY <2>1, ZenonT(30) DEF vars, BudgetInv, TypeOK, Places, Threshold
    <2>2. CASE Next
      <3>1. PICK t \in Threads : (\E b \in Estimates : Estimate(t, b)) \/ Step(t)
        BY <2>2, Zenon DEF Next
      <3>2. UNCHANGED conf
        BY <2>2, Zenon DEF Next
      <3> QED
        BY <3>1, <3>2, EstimateInv, AcquireInv, ServeInv, ReleaseInv, Zenon DEF Step
    <2> QED
      BY <2>1, <2>2, Zenon
  <1> QED
    BY <1>1, BudgetInitInv, PTL DEF Spec

\* A full-lane image buffer is only ever alive under a reservation, in either
\* mode, for any threshold, with failures and disconnects at every point
\* (serve_image.cpp, the order of budget_guard_ and the image).
THEOREM BuffersStayReserved == Spec => []BuffersAreReserved
PROOF
  <1>1. BudgetInv => BuffersAreReserved
    BY DEF BudgetInv, TypeOK, Places, Covered, BuffersAreReserved, FullLaneImages, Reservations, Reserved
  <1> QED
    BY <1>1, BudgetInvariance, PTL

------------------------------------------------------------------------------
(* The counter.  The bytes of a set of calls are counted one by one, so    *)
(* that the sum needs no order; a step adds or removes one call at most.   *)

ByteSlots(f, S) == {p \in S \X (1 .. SizeMax) : p[2] <= f[p[1]]}

LEMMA SlotsFinite ==
    ASSUME NEW f, NEW S, S \subseteq Threads
    PROVE  IsFiniteSet(ByteSlots(f, S)) /\ Cardinality(ByteSlots(f, S)) \in Nat
PROOF
  <1>1. IsFiniteSet(S) /\ IsFiniteSet(1 .. SizeMax)
    BY BudgetAssumption, FS_Subset, FS_Interval
  <1>2. IsFiniteSet(S \X (1 .. SizeMax))
    BY <1>1, FS_Product, Zenon
  <1>3. IsFiniteSet(ByteSlots(f, S))
    BY <1>2, FS_Subset, Zenon DEF ByteSlots
  <1> QED
    BY <1>3, FS_CardinalityType, Zenon

LEMMA SlotsOfOne ==
    ASSUME NEW f \in [Threads -> 0 .. SizeMax], NEW t \in Threads
    PROVE  Cardinality(ByteSlots(f, {t})) = f[t]
PROOF
  <1>1. SizeMax \in Nat /\ f[t] \in 0 .. SizeMax
    BY BudgetAssumption, Zenon
  <1> DEFINE n == f[t]
  <1>2. ByteSlots(f, {t}) = {t} \X (1 .. f[t])
    <2>1. \A p \in {t} \X (1 .. SizeMax) : p[1] = t /\ p[2] \in 1 .. SizeMax
      BY Zenon
    <2>2. ByteSlots(f, {t}) = {p \in {t} \X (1 .. SizeMax) : p[2] <= n}
      BY <2>1, Zenon DEF ByteSlots
    <2>3. n \in 0 .. SizeMax
      BY <1>1, Zenon
    <2> HIDE DEF n
    <2>4. {p \in {t} \X (1 .. SizeMax) : p[2] <= n} = {t} \X (1 .. n)
      BY <1>1, <2>3
    <2> QED
      BY <2>2, <2>4, Zenon DEF n
  <1>3. IsFiniteSet({t}) /\ Cardinality({t}) = 1
    BY FS_Singleton, Zenon
  <1>4. IsFiniteSet(1 .. f[t]) /\ Cardinality(1 .. f[t]) = f[t]
    BY <1>1, FS_Interval
  <1>5. Cardinality({t} \X (1 .. f[t])) = f[t]
    <2> DEFINE A == {t}
               B == 1 .. f[t]
    <2>1. IsFiniteSet(A) /\ IsFiniteSet(B) /\ Cardinality(A) = 1 /\ Cardinality(B) = n
      BY <1>3, <1>4, Zenon
    <2>2. n \in Nat
      BY <1>1
    <2> HIDE DEF A, B, n
    <2>3. Cardinality(A \X B) = Cardinality(A) * Cardinality(B)
      BY <2>1, FS_Product, Zenon
    <2>4. Cardinality(A \X B) = n
      BY <2>1, <2>2, <2>3
    <2> QED
      BY <2>4, Zenon DEF A, B, n
  <1> QED
    BY <1>2, <1>5, Zenon

\* One more call adds its estimate.
LEMMA SlotsAdd ==
    ASSUME NEW f \in [Threads -> 0 .. SizeMax], NEW S, S \subseteq Threads,
           NEW t \in Threads, t \notin S
    PROVE  Cardinality(ByteSlots(f, S \cup {t})) = Cardinality(ByteSlots(f, S)) + f[t]
PROOF
  <1> DEFINE A == ByteSlots(f, S)
             B == ByteSlots(f, {t})
  <1>1. IsFiniteSet(A) /\ IsFiniteSet(B) /\ Cardinality(A) \in Nat
    BY SlotsFinite, Zenon
  <1>2. ByteSlots(f, S \cup {t}) = A \cup B /\ A \cap B = {}
    BY Zenon DEF ByteSlots
  <1>3. Cardinality(A \cap B) = 0
    BY <1>2, FS_EmptySet, Zenon
  <1>4. Cardinality(B) = f[t] /\ f[t] \in Nat
    BY SlotsOfOne, BudgetAssumption
  <1> HIDE DEF A, B
  <1>5. Cardinality(A \cup B) = Cardinality(A) + Cardinality(B) - Cardinality(A \cap B)
    BY <1>1, FS_Union, Zenon
  <1>6. Cardinality(A \cup B) = Cardinality(A) + f[t]
    BY <1>1, <1>3, <1>4, <1>5
  <1> QED
    BY <1>2, <1>6, Zenon DEF A

LEMMA SlotsRemove ==
    ASSUME NEW f \in [Threads -> 0 .. SizeMax], NEW S, S \subseteq Threads, NEW t \in S
    PROVE  Cardinality(ByteSlots(f, S)) = Cardinality(ByteSlots(f, S \ {t})) + f[t]
PROOF
  <1>1. (S \ {t}) \cup {t} = S /\ t \notin S \ {t} /\ t \in Threads /\ S \ {t} \subseteq Threads
    BY Zenon
  <1> QED
    BY <1>1, SlotsAdd, Zenon

\* What is counted depends on the estimates of the calls in the set alone.
LEMMA SlotsSame ==
    ASSUME NEW f, NEW g, NEW S, \A t \in S : f[t] = g[t]
    PROVE  ByteSlots(f, S) = ByteSlots(g, S)
PROOF
  BY Zenon DEF ByteSlots

\* At most one guard of a call is armed, and only between the answer of the
\* budget and the end of the call.
OneGuard ==
    \A t \in Threads :
        /\ guards[t] \in {{}, {"serve"}, {"producer"}}
        /\ pc[t] \in {"idle", "load", "cas", "publish", "done"} => guards[t] = {}
        /\ pc[t] = "publish" => result[t] # "none"

Held == Cardinality(ByteSlots(bytes, Reservations))

Charged(value, held) ==
    /\ value <= held
    /\ AdmissionMode = "ADVANCED" => value = held /\ held <= Budget

Tally == BudgetInv /\ OneGuard /\ Charged(used, Held)

LEMMA InitTally == Init => Tally
PROOF
  <1> SUFFICES ASSUME Init PROVE Tally
    BY Zenon
  <1>1. OneGuard
    BY Zenon DEF Init, OneGuard
  <1>2. Reservations = {}
    BY Zenon DEF Init, Reservations, Reserved
  <1>3. ByteSlots(bytes, Reservations) = {}
    BY <1>2, Zenon DEF ByteSlots
  <1>4. Held = 0
    BY <1>3, FS_EmptySet, Zenon DEF Held
  <1>5. Charged(used, Held)
    BY <1>4, BudgetAssumption DEF Init, Charged
  <1> QED
    BY <1>1, <1>5, BudgetInitInv, Zenon DEF Tally

LEMMA GuardsInv ==
    ASSUME Tally, NEW t \in Threads, (\E b \in Estimates : Estimate(t, b)) \/ Step(t)
    PROVE  OneGuard'
PROOF
  <1> USE DEF Tally, BudgetInv, TypeOK, OneGuard, Goto
  <1>1. CASE \E b \in Estimates : Estimate(t, b)
    BY <1>1 DEF Estimate
  <1>2. CASE Load(t)
    BY <1>2 DEF Load
  <1>3. CASE Cas(t)
    BY <1>3 DEF Cas, RefusedAs
  <1>4. CASE Publish(t)
    BY <1>4 DEF Publish
  <1>5. CASE ClientGone(t) \/ Decode(t) \/ Fail(t) \/ Encode(t) \/ FreeImage(t)
    BY <1>5 DEF ClientGone, Decode, Fail, Encode, FreeImage
  <1>6. CASE HandOver(t)
    BY <1>6 DEF HandOver
  <1>7. CASE ReleaseLoad(t)
    BY <1>7 DEF ReleaseLoad
  <1>8. CASE ReleaseCas(t)
    <2>1. CASE UNCHANGED <<used, guards, pc>>
      BY <1>8, <2>1 DEF ReleaseCas
    <2>2. CASE \E g \in guards[t] : guards' = [guards EXCEPT ![t] = @ \ {g}]
      <3>1. PICK g \in guards[t] : guards' = [guards EXCEPT ![t] = guards[t] \ {g}]
        BY <2>2, ZenonT(30)
      <3>2. guards[t] \ {g} = {}
        OBVIOUS
      <3>3. guards' = [guards EXCEPT ![t] = {}]
        BY <3>1, <3>2, ZenonT(30)
      <3>4. /\ UNCHANGED result
            /\ \A u \in Threads : pc'[u] = pc[u] \/ (u = t /\ pc'[u] \in {"rcas", "reread"})
        BY <1>8 DEF ReleaseCas
      <3> QED
        BY <3>3, <3>4
    <2> QED
      BY <1>8, <2>1, <2>2, ZenonT(30) DEF ReleaseCas
  <1>9. CASE Reread(t) \/ Republish(t)
    BY <1>9 DEF Reread, Republish
  <1> QED
    BY <1>1, <1>2, <1>3, <1>4, <1>5, <1>6, <1>7, <1>8, <1>9, ZenonT(30) DEF Step

\* A step that reserves and returns nothing.
LEMMA Steady ==
    ASSUME Tally, UNCHANGED <<conf, used>>, Reservations' = Reservations,
           \A u \in Reservations : bytes'[u] = bytes[u]
    PROVE  Charged(used, Held)'
PROOF
  <1>1. ByteSlots(bytes', Reservations) = ByteSlots(bytes, Reservations)
    BY SlotsSame, Zenon
  <1>2. Held' = Held
    BY <1>1, Zenon DEF Held
  <1> QED
    BY <1>2, Zenon DEF Tally, Charged, AdmissionMode

\* A reservation: by a swap that succeeds, or of nothing.
LEMMA Reserves ==
    ASSUME Tally, UNCHANGED <<conf, bytes>>, NEW t \in Threads, t \notin Reservations,
           Reservations' = Reservations \cup {t},
           \/ used' = used /\ bytes[t] = 0
           \/ /\ used' = Desired(used, bytes[t])
              /\ AdmissionMode = "ADVANCED" => used' <= Budget
    PROVE  Charged(used, Held)'
PROOF
  <1>1. /\ bytes \in [Threads -> 0 .. SizeMax] /\ used \in 0 .. SizeMax /\ Reservations \subseteq Threads
        /\ SizeMax \in Nat /\ Budget \in 0 .. (SizeMax - 1)
    BY BudgetAssumption, ZenonT(30) DEF Tally, BudgetInv, TypeOK, Reservations
  <1>2. Held \in Nat /\ Held' = Held + bytes[t]
    BY <1>1, SlotsAdd, SlotsFinite, Zenon DEF Held
  <1>3. bytes[t] \in 0 .. SizeMax
    BY <1>1, Zenon
  <1>4. CASE used' = used /\ bytes[t] = 0
    BY <1>1, <1>2, <1>4 DEF Tally, Charged, AdmissionMode
  <1>5. CASE used' = Desired(used, bytes[t]) /\ (AdmissionMode = "ADVANCED" => used' <= Budget)
    <2>1. used' <= used + bytes[t] /\ (used' <= Budget => used' = used + bytes[t])
      BY <1>1, <1>3, <1>5 DEF Desired
    <2>2. used' \in Int
      BY <1>1, <1>3, <1>5 DEF Desired
    <2> QED
      BY <1>1, <1>2, <1>3, <1>5, <2>1, <2>2 DEF Tally, Charged, AdmissionMode
  <1> QED
    BY <1>4, <1>5, Zenon

\* The return of a reservation.
LEMMA Returns ==
    ASSUME Tally, UNCHANGED <<conf, bytes>>, NEW t \in Reservations,
           Reservations' = Reservations \ {t},
           used' = IF used >= bytes[t] THEN used - bytes[t] ELSE 0
    PROVE  Charged(used, Held)'
PROOF
  <1>1. /\ bytes \in [Threads -> 0 .. SizeMax] /\ used \in 0 .. SizeMax /\ Reservations \subseteq Threads
        /\ SizeMax \in Nat /\ Budget \in 0 .. (SizeMax - 1)
    BY BudgetAssumption, ZenonT(30) DEF Tally, BudgetInv, TypeOK, Reservations
  <1>2. /\ Held' = Cardinality(ByteSlots(bytes, Reservations \ {t}))
        /\ Held = Cardinality(ByteSlots(bytes, Reservations \ {t})) + bytes[t]
    BY <1>1, SlotsRemove, Zenon DEF Held
  <1>3. Held' \in Nat /\ bytes[t] \in 0 .. SizeMax
    BY <1>1, <1>2, SlotsFinite, Zenon
  <1> QED
    BY <1>1, <1>2, <1>3 DEF Tally, Charged, AdmissionMode

\* Every step keeps the counter's account.
LEMMA StepCharged ==
    ASSUME Tally, OneGuard', UNCHANGED conf, NEW t \in Threads,
           (\E b \in Estimates : Estimate(t, b)) \/ Step(t)
    PROVE  Charged(used, Held)'
PROOF
  <1>0. /\ pc \in [Threads -> PCs] /\ result \in [Threads -> Results]
        /\ bytes \in [Threads -> 0 .. SizeMax]
        /\ guards \in [Threads -> SUBSET {"serve", "producer"}]
    BY ZenonT(30) DEF Tally, BudgetInv, TypeOK
  <1>1. CASE \E b \in Estimates : Estimate(t, b)
    <2>1. PICK b \in Estimates : Estimate(t, b)
      BY <1>1, Zenon
    <2>2. t \notin Reservations /\ UNCHANGED <<used, guards, result>>
      BY <2>1, Zenon DEF Estimate, Reservations, Reserved, Tally, OneGuard
    <2>3. Reservations' = Reservations
      BY <1>0, <2>1, <2>2, Zenon DEF Estimate, Goto, Reservations, Reserved
    <2>4. \A u \in Reservations : bytes'[u] = bytes[u]
      BY <1>0, <2>1, <2>2, Zenon DEF Estimate, Reservations
    <2> QED
      BY <2>2, <2>3, <2>4, Steady, Zenon
  <1>2. CASE Load(t)
    <2>1. t \notin Reservations /\ UNCHANGED <<used, guards, bytes>>
      BY <1>2, Zenon DEF Load, Reservations, Reserved, Tally, OneGuard
    <2>2. CASE bytes[t] = 0
      <3>1. Reservations' = Reservations \cup {t}
        BY <1>0, <1>2, <2>1, <2>2 DEF Load, Goto, Reservations, Reserved
      <3> QED
        BY <2>1, <2>2, <3>1, Reserves, Zenon
    <2>3. CASE bytes[t] # 0
      <3>1. Reservations' = Reservations
        BY <1>0, <1>2, <2>1, <2>3, Zenon DEF Load, Goto, Reservations, Reserved
      <3> QED
        BY <2>1, <3>1, Steady, Zenon
    <2> QED
      BY <2>2, <2>3, Zenon
  <1>3. CASE Cas(t)
    <2> DEFINE desired == Desired(current[t], bytes[t])
    <2>1. t \notin Reservations /\ UNCHANGED <<guards, bytes>> /\ pc[t] = "cas"
      BY <1>3, Zenon DEF Cas, Reservations, Reserved, Tally, OneGuard
    <2>2. CASE UNCHANGED used /\ (UNCHANGED <<result, pc>> \/
                 (Goto(t, "publish") /\ result' = [result EXCEPT ![t] = RefusedAs(bytes[t])]))
      <3>1. Reservations' = Reservations
        BY <1>0, <2>1, <2>2, Zenon DEF Goto, Reservations, Reserved, RefusedAs
      <3> QED
        BY <2>1, <2>2, <3>1, Steady, Zenon
    <2>3. CASE /\ used' = Desired(used, bytes[t]) /\ (desired <= Budget \/ AdmissionMode = "BASIC")
               /\ used = current[t] /\ Goto(t, "publish")
               /\ result' = [result EXCEPT ![t] = IF desired > Budget THEN "over" ELSE "allowed"]
      <3>1. result'[t] \in {"over", "allowed"} /\ pc'[t] = "publish"
            /\ \A u \in Threads \ {t} : pc'[u] = pc[u] /\ result'[u] = result[u]
        BY <1>0, <2>3, Zenon DEF Goto
      <3>2. Reservations' = Reservations \cup {t}
        BY <2>1, <3>1, Zenon DEF Reservations, Reserved
      <3>3. AdmissionMode = "ADVANCED" => used' <= Budget
        BY <2>3, Zenon
      <3> QED
        BY <2>1, <2>3, <3>2, <3>3, Reserves, Zenon
    <2> QED
      BY <1>3, <2>2, <2>3, Zenon DEF Cas
  <1>4. CASE Publish(t)
    <2>1. UNCHANGED <<used, bytes, result>> /\ pc[t] = "publish" /\ guards[t] = {}
          /\ result[t] # "none" /\ result[t] \in Results
      BY <1>0, <1>4, Zenon DEF Publish, Tally, OneGuard
    <2>2. Reserved(t)' <=> Reserved(t)
      <3>1. Reserved(t) <=> result[t] \in {"allowed", "over"}
        BY <2>1, Zenon DEF Reserved
      <3>2. CASE result[t] \in {"too_large", "exhausted"}
        <4>1. pc'[t] = "done" /\ guards'[t] = {}
          BY <1>0, <1>4, <2>1, <3>2, Zenon DEF Publish, Goto
        <4> QED
          BY <3>1, <3>2, <4>1, Zenon DEF Reserved
      <3>3. CASE result[t] \in {"allowed", "over"}
        <4>1. guards'[t] = {"serve"}
          BY <1>0, <1>4, <2>1, <3>3, Zenon DEF Publish
        <4> QED
          BY <3>1, <3>3, <4>1, Zenon DEF Reserved
      <3> QED
        BY <2>1, <3>2, <3>3, Zenon DEF Results
    <2>3. \A u \in Threads \ {t} : pc'[u] = pc[u] /\ guards'[u] = guards[u]
      BY <1>0, <1>4, ZenonT(30) DEF Publish, Goto
    <2>4. Reservations' = Reservations
      BY <2>1, <2>2, <2>3, Zenon DEF Reservations, Reserved
    <2> QED
      BY <2>1, <2>4, Steady, Zenon
  <1>5. CASE ClientGone(t) \/ Decode(t) \/ Fail(t) \/ Encode(t) \/ FreeImage(t) \/ ReleaseLoad(t)
             \/ Reread(t) \/ Republish(t)
    <2>1. UNCHANGED <<used, bytes, result, guards>> /\ pc[t] # "publish"
          /\ \E label \in PCs \ {"publish"} : pc' = [pc EXCEPT ![t] = label]
      BY <1>5, Zenon DEF ClientGone, Decode, Fail, Encode, FreeImage, ReleaseLoad, Reread, Republish, Goto, PCs
    <2>2. Reservations' = Reservations
      BY <1>0, <2>1, Zenon DEF Reservations, Reserved
    <2> QED
      BY <2>1, <2>2, Steady, Zenon
  <1>6. CASE HandOver(t)
    <2>1. UNCHANGED <<used, bytes, result>> /\ pc[t] # "publish" /\ pc'[t] # "publish"
          /\ (guards'[t] = {} <=> guards[t] = {})
          /\ \A u \in Threads \ {t} : pc'[u] = pc[u] /\ guards'[u] = guards[u]
      BY <1>0, <1>6, Zenon DEF HandOver, Goto
    <2>2. Reservations' = Reservations
      BY <2>1, Zenon DEF Reservations, Reserved
    <2> QED
      BY <2>1, <2>2, Steady, Zenon
  <1>7. CASE ReleaseCas(t)
    <2>1. UNCHANGED <<bytes, result>> /\ pc[t] = "rcas"
      BY <1>7, Zenon DEF ReleaseCas
    <2>2. CASE UNCHANGED <<used, guards, pc>>
      <3>1. Reservations' = Reservations
        BY <2>1, <2>2, Zenon DEF Reservations, Reserved
      <3> QED
        BY <2>1, <2>2, <3>1, Steady, Zenon
    <2>3. CASE /\ used = current[t] \/ bytes[t] = 0
               /\ used' = IF bytes[t] = 0 THEN used
                          ELSE IF current[t] >= bytes[t] THEN current[t] - bytes[t] ELSE 0
               /\ \E g \in guards[t] : guards' = [guards EXCEPT ![t] = @ \ {g}]
               /\ Goto(t, "reread")
      <3>1. PICK g \in guards[t] : guards' = [guards EXCEPT ![t] = guards[t] \ {g}]
        BY <2>3, Zenon
      <3>2. guards[t] \ {g} = {}
        BY Zenon DEF Tally, OneGuard
      <3>3. guards' = [guards EXCEPT ![t] = {}] /\ pc' = [pc EXCEPT ![t] = "reread"]
        BY <2>3, <3>1, <3>2, Zenon DEF Goto
      <3>4. t \in Reservations /\ Reservations' = Reservations \ {t}
        BY <1>0, <2>1, <3>1, <3>3, Zenon DEF Reservations, Reserved
      <3>5. used \in Nat /\ bytes[t] \in Nat
        BY <1>0, BudgetAssumption DEF Tally, BudgetInv, TypeOK
      <3>6. used' = IF used >= bytes[t] THEN used - bytes[t] ELSE 0
        BY <2>3, <3>5
      <3> QED
        BY <2>1, <3>4, <3>6, Returns, Zenon
    <2> QED
      BY <1>7, <2>2, <2>3, Zenon DEF ReleaseCas
  <1> QED
    BY <1>1, <1>2, <1>3, <1>4, <1>5, <1>6, <1>7, Zenon DEF Step

\* The account of the counter holds throughout.
THEOREM TallyInvariance == Spec => []Tally
PROOF
  <1>1. Tally /\ [Next]_vars /\ BudgetInv' => Tally'
    <2> SUFFICES ASSUME Tally, [Next]_vars, BudgetInv' PROVE Tally'
      BY Zenon
    <2>1. CASE UNCHANGED vars
      <3>1. OneGuard' /\ Reservations' = Reservations
        BY <2>1, Zenon DEF vars, Tally, OneGuard, Reservations, Reserved
      <3> QED
        BY <2>1, <3>1, Steady, Zenon DEF vars, Tally
    <2>2. CASE Next
      <3>1. PICK t \in Threads : (\E b \in Estimates : Estimate(t, b)) \/ Step(t)
        BY <2>2, Zenon DEF Next
      <3>2. UNCHANGED conf /\ OneGuard'
        BY <2>2, <3>1, GuardsInv, Zenon DEF Next
      <3> QED
        BY <3>1, <3>2, StepCharged, Zenon DEF Tally
    <2> QED
      BY <2>1, <2>2, Zenon
  <1> QED
    BY <1>1, InitTally, BudgetInvariance, PTL DEF Spec

\* The counter against the reservations in flight, for any number of serve
\* calls, any budget, width and estimates: never above them, exact and within
\* the budget in advanced mode, zero when all calls are over
\* (SipiMemoryBudget::try_acquire and release, and the guard's moves).
THEOREM CounterIsExact == Spec => []UsedIsExact
PROOF
  <1>1. Tally => UsedIsExact
    <2> SUFFICES ASSUME Tally PROVE UsedIsExact
      BY Zenon
    <2>1. Bytes(Reservations) = Held
      BY Zenon DEF Bytes, Held, ByteSlots
    <2>2. ASSUME \A t \in Threads : pc[t] \in {"idle", "done"}
          PROVE  used = 0
      <3>1. Reservations = {}
        BY <2>2, Zenon DEF Tally, OneGuard, Reservations, Reserved
      <3>2. ByteSlots(bytes, Reservations) = {}
        BY <3>1, Zenon DEF ByteSlots
      <3>3. Held = 0
        BY <3>2, FS_EmptySet, Zenon DEF Held
      <3> QED
        BY <3>3, BudgetAssumption DEF Tally, Charged, BudgetInv, TypeOK
    <2> QED
      BY <2>1, <2>2, Zenon DEF UsedIsExact, Tally, BudgetInv, Charged
  <1> QED
    BY <1>1, TallyInvariance, PTL

-----------------------------------------------------------------------------
(***************************************************************************)
(* The decision cache, for every shard size, probe length, time to live,   *)
(* set of keys and fingerprints: a hit repeats a decision made for its own *)
(* key, recorded less than a time to live ago.  The invariant carries both *)
(* facts through the slots: what an entry holds was decided for its key,   *)
(* and expires no later than a time to live after the last time it was     *)
(* recorded.  An insertion into a window that is not full of live entries  *)
(* displaces none of another key.                                          *)
(***************************************************************************)

\* A set of naturals that is not empty has a least member.
LEMMA MinIsMember ==
    ASSUME NEW S, S \subseteq Nat, S # {}
    PROVE  Min(S) \in S /\ \A y \in S : Min(S) <= y
PROOF
  <1> DEFINE R == {ss \in Nat \X Nat : ss[1] < ss[2]}
  <1>1. IsWellFoundedOn(R, Nat)
    BY NatLessThanWellFounded, Zenon DEF OpToRel
  <1>2. PICK x \in S : \A y \in S : ~ (<<y, x>> \in R)
    BY <1>1, WFMin, Zenon
  <1>3. \A y \in S : x <= y
    <2> TAKE y \in S
    <2>1. <<y, x>> \in Nat \X Nat
      BY Zenon
    <2>2. ~ (y < x)
      <3>1. ~ (<<y, x>> \in Nat \X Nat /\ <<y, x>>[1] < <<y, x>>[2])
        BY <1>2, Zenon
      <3> QED
        BY <2>1, <3>1, Zenon
    <2> QED
      BY <2>2
  <1> QED
    BY <1>3, Zenon DEF Min

LEMMA MaxOfTwo ==
    ASSUME NEW a \in Int, NEW b \in Int
    PROVE  Max({a, b}) \in Int /\ Max({a, b}) >= a /\ Max({a, b}) >= b
PROOF
  <1>1. \E x \in {a, b} : \A y \in {a, b} : x >= y
    OBVIOUS
  <1> QED
    BY <1>1, Zenon DEF Max

EntriesOwn ==
    \A s \in Indices : \A e \in shard[s] :
        /\ e.decision.key = e.key
        /\ e.expiry <= recorded[e.key][e.decision.version] + TTL

\* What a request carries from the hook or from a slot.
Carried ==
    \A r \in Callers :
        /\ place[r] \in {"decided", "insert", "hit"} => decision[r] \in Decision /\ decision[r].key = key[r]
        /\ place[r] = "hit" => now[r] < recorded[key[r]][decision[r].version] + TTL

PreflightInv == PreflightTypeOK /\ EntriesOwn /\ Carried

Filled == {s \in Indices : shard[s] # {}}

LEMMA FilledFinite == IsFiniteSet(Filled) /\ Cardinality(Filled) \in Nat
PROOF
  <1>1. IsFiniteSet(Indices)
    BY PreflightAssumption, FS_Interval DEF Indices
  <1>2. Filled \in SUBSET Indices
    BY Zenon DEF Filled
  <1>3. IsFiniteSet(Filled)
    BY <1>1, <1>2, FS_Subset, Zenon
  <1> QED
    BY <1>3, FS_CardinalityType, Zenon

LEMMA IdxInRange ==
    ASSUME NEW k \in Keys, NEW i \in Window
    PROVE  Idx(k, i) \in Indices
PROOF
  <1>1. Slots \in Nat /\ Slots > 0 /\ i \in Nat /\ Fingerprint[k] \in Nat
    BY PreflightAssumption DEF Window
  <1>2. BaseIndex(k) \in Nat
    BY <1>1 DEF BaseIndex
  <1> DEFINE n == BaseIndex(k) + i
  <1>3. n \in Nat
    BY <1>1, <1>2
  <1> HIDE DEF n
  <1>4. n % Slots \in 0 .. (Slots - 1)
    BY <1>1, <1>3
  <1> QED
    BY <1>4, Zenon DEF Idx, n, Indices

LEMMA PreflightInitInv == PreflightInit => PreflightInv
PROOF
  <1> SUFFICES ASSUME PreflightInit PROVE PreflightInv
    BY Zenon
  <1>1. {s \in Indices : shard[s] # {}} = {}
    BY Zenon DEF PreflightInit
  <1>2. entries = Cardinality({s \in Indices : shard[s] # {}})
    BY <1>1, FS_EmptySet, Zenon DEF PreflightInit
  <1>3. key \in [Callers -> Keys]
    BY PreflightAssumption, Zenon DEF PreflightInit
  <1>4. PreflightTypeOK
    BY <1>2, <1>3, PreflightAssumption DEF PreflightInit, PreflightTypeOK, CallerPlaces
  <1>5. EntriesOwn /\ Carried
    BY Zenon DEF PreflightInit, EntriesOwn, Carried
  <1> QED
    BY <1>4, <1>5, Zenon DEF PreflightInv

\* The slot get() answers from is one of the window that holds the key.
LEMMA HoldsMin ==
    ASSUME PreflightInv, NEW k \in Keys, Holds(k) # {}
    PROVE  /\ Idx(k, Min(Holds(k))) \in Indices
           /\ \A e \in shard[Idx(k, Min(Holds(k)))] : e.key = k
           /\ shard[Idx(k, Min(Holds(k)))] # {}
PROOF
  <1>1. Holds(k) \subseteq Window /\ Window \subseteq Nat
    BY PreflightAssumption DEF Holds, Window
  <1>2. Min(Holds(k)) \in Holds(k)
    BY <1>1, MinIsMember, Zenon
  <1>3. PICK i \in Window : i = Min(Holds(k)) /\ \E e \in shard[Idx(k, i)] : SameKey(e, k)
    BY <1>2, Zenon DEF Holds
  <1>4. Idx(k, i) \in Indices
    BY IdxInRange, Zenon
  <1>5. PICK e \in shard[Idx(k, i)] : SameKey(e, k)
    BY <1>3, Zenon
  <1>6. shard[Idx(k, i)] = {e} /\ e.key = k
    BY <1>4, <1>5, Zenon DEF PreflightInv, PreflightTypeOK, SameKey
  <1> QED
    BY <1>3, <1>4, <1>6, Zenon

\* Whatever the window holds, insert() finds a slot in it: the key's or an empty
\* one, an expired one, or in a full window the one that expires first.
LEMMA TargetInWindow ==
    ASSUME PreflightInv, NEW k \in Keys, NEW n
    PROVE  /\ Target(k, n) \in Window
           /\ \/ Target(k, n) \in Holds(k) \cup Empty(k)
              \/ Target(k, n) \in Expired(k, n)
              \/ /\ Empty(k) = {} /\ Expired(k, n) = {}
                 /\ Target(k, n) \in EarliestExpiry(k)
PROOF
  <1>1. Window \subseteq Nat /\ 0 \in Window
    BY PreflightAssumption DEF Window
  <1>2. CASE Holds(k) \cup Empty(k) # {}
    <2>1. Holds(k) \cup Empty(k) \subseteq Window
      BY Zenon DEF Holds, Empty
    <2>2. Min(Holds(k) \cup Empty(k)) \in Holds(k) \cup Empty(k)
      BY <1>1, <1>2, <2>1, MinIsMember, Zenon
    <2> QED
      BY <1>2, <2>1, <2>2, Zenon DEF Target
  <1>3. CASE Holds(k) \cup Empty(k) = {} /\ Expired(k, n) # {}
    <2>1. Expired(k, n) \subseteq Window
      BY Zenon DEF Expired
    <2>2. Min(Expired(k, n)) \in Expired(k, n)
      BY <1>1, <1>3, <2>1, MinIsMember, Zenon
    <2> QED
      BY <1>3, <2>1, <2>2, Zenon DEF Target
  <1>4. CASE Holds(k) \cup Empty(k) = {} /\ Expired(k, n) = {}
    <2> DEFINE X == {x \in Nat : \E i \in Window : \E e \in shard[Idx(k, i)] : e.expiry = x}
    <2>1. \A i \in Window : Idx(k, i) \in Indices /\ shard[Idx(k, i)] \subseteq Entry
      BY IdxInRange, Zenon DEF PreflightInv, PreflightTypeOK
    <2>2. shard[Idx(k, 0)] # {}
      BY <1>1, <1>4, Zenon DEF Empty
    <2>3. X # {}
      BY <1>1, <2>1, <2>2, Zenon DEF Entry
    <2>4. Min(X) \in X /\ \A y \in X : Min(X) <= y
      BY <2>3, MinIsMember, Zenon
    <2>5. PICK i \in Window : \E e \in shard[Idx(k, i)] : e.expiry = Min(X)
      BY <2>4, Zenon
    <2>6. \A j \in Window : \A f \in shard[Idx(k, j)] : f.expiry \in X
      BY <2>1, Zenon DEF Entry
    <2>7. i \in EarliestExpiry(k)
      BY <2>4, <2>5, <2>6 DEF EarliestExpiry
    <2>8. EarliestExpiry(k) \subseteq Window
      BY Zenon DEF EarliestExpiry
    <2>9. Min(EarliestExpiry(k)) \in EarliestExpiry(k)
      BY <1>1, <2>7, <2>8, MinIsMember, Zenon
    <2> QED
      BY <1>4, <2>8, <2>9, Zenon DEF Target
  <1> QED
    BY <1>2, <1>3, <1>4, Zenon

\* Steps that touch neither the shard nor the history nor what is carried.
LEMMA ArriveInv ==
    ASSUME PreflightInv, NEW r \in Callers, NEW k \in Keys, Arrive(r, k)
    PROVE  PreflightInv'
PROOF
  <1>1. PreflightTypeOK'
    BY ZenonT(30) DEF PreflightInv, PreflightTypeOK, Arrive, MoveTo, CallerPlaces, Idx, BaseIndex
  <1>2. EntriesOwn'
    BY Zenon DEF PreflightInv, EntriesOwn, Arrive
  <1>3. Carried'
    BY Zenon DEF PreflightInv, PreflightTypeOK, Carried, Arrive, MoveTo
  <1> QED
    BY <1>1, <1>2, <1>3, Zenon DEF PreflightInv

LEMMA HookInv ==
    ASSUME PreflightInv, NEW r \in Callers, RunHook(r)
    PROVE  PreflightInv'
PROOF
  <1>0. [key |-> key[r], version |-> policy] \in Decision
    BY Zenon DEF PreflightInv, PreflightTypeOK, Decision
  <1>1. PreflightTypeOK'
    <2>1. decision' \in [Callers -> Decision \cup {NoDecision}]
      BY <1>0, ZenonT(30) DEF PreflightInv, PreflightTypeOK, RunHook
    <2>2. place' \in [Callers -> CallerPlaces]
      BY ZenonT(30) DEF PreflightInv, PreflightTypeOK, RunHook, MoveTo, CallerPlaces
    <2> QED
      BY <2>1, <2>2, ZenonT(30) DEF PreflightInv, PreflightTypeOK, RunHook, Idx, BaseIndex
  <1>2. EntriesOwn'
    BY Zenon DEF PreflightInv, EntriesOwn, RunHook
  <1>3. Carried'
    BY <1>0 DEF PreflightInv, PreflightTypeOK, Carried, RunHook, MoveTo
  <1> QED
    BY <1>1, <1>2, <1>3, Zenon DEF PreflightInv

LEMMA ReadClockInv ==
    ASSUME PreflightInv, NEW r \in Callers, ReadClock(r)
    PROVE  PreflightInv'
PROOF
  <1>1. PreflightTypeOK'
    BY ZenonT(30) DEF PreflightInv, PreflightTypeOK, ReadClock, MoveTo, CallerPlaces, Idx, BaseIndex
  <1>2. EntriesOwn'
    BY Zenon DEF PreflightInv, EntriesOwn, ReadClock
  <1>3. Carried'
    BY Zenon DEF PreflightInv, PreflightTypeOK, Carried, ReadClock, MoveTo
  <1> QED
    BY <1>1, <1>2, <1>3, Zenon DEF PreflightInv

LEMMA ProceedInv ==
    ASSUME PreflightInv, NEW r \in Callers, Proceed(r)
    PROVE  PreflightInv'
PROOF
  <1>1. PreflightTypeOK'
    BY ZenonT(30) DEF PreflightInv, PreflightTypeOK, Proceed, MoveTo, CallerPlaces, Idx, BaseIndex
  <1>2. EntriesOwn'
    BY Zenon DEF PreflightInv, EntriesOwn, Proceed
  <1>3. Carried'
    BY Zenon DEF PreflightInv, PreflightTypeOK, Carried, Proceed, MoveTo
  <1> QED
    BY <1>1, <1>2, <1>3, Zenon DEF PreflightInv

LEMMA WorldInv ==
    ASSUME PreflightInv, ChangePermissions \/ Tick
    PROVE  PreflightInv'
PROOF
  <1>1. PreflightTypeOK'
    <2>1. policy' \in 0 .. MaxVersion /\ clock' \in Nat
      BY PreflightAssumption DEF PreflightInv, PreflightTypeOK, ChangePermissions, Tick
    <2>2. UNCHANGED <<shard, entries, place, key, now, decision, recorded>>
      BY Zenon DEF ChangePermissions, Tick
    <2> QED
      BY <2>1, <2>2, Zenon DEF PreflightInv, PreflightTypeOK, Idx, BaseIndex
  <1>2. EntriesOwn' /\ Carried'
    BY Zenon DEF PreflightInv, EntriesOwn, Carried, ChangePermissions, Tick
  <1> QED
    BY <1>1, <1>2, Zenon DEF PreflightInv

\* A hit takes over what the invariant says of the entry.
LEMMA HitInv ==
    ASSUME PreflightInv, NEW r \in Callers, place[r] = "get",
           NEW s \in Indices, NEW e \in shard[s], e.key = key[r], e.expiry > now[r],
           decision' = [decision EXCEPT ![r] = e.decision], MoveTo(r, "hit"),
           UNCHANGED <<shard, entries, clock, policy, key, now, recorded>>
    PROVE  PreflightInv'
PROOF
  <1>1. e \in Entry /\ e.decision \in Decision /\ e.decision.version \in 0 .. MaxVersion
    BY DEF PreflightInv, PreflightTypeOK, Entry, Decision
  <1>2. PreflightTypeOK'
    <2>1. decision' \in [Callers -> Decision \cup {NoDecision}]
      BY <1>1, Zenon DEF PreflightInv, PreflightTypeOK
    <2>2. place' \in [Callers -> CallerPlaces]
      BY Zenon DEF PreflightInv, PreflightTypeOK, MoveTo, CallerPlaces
    <2> QED
      BY <2>1, <2>2, ZenonT(30) DEF PreflightInv, PreflightTypeOK, Idx, BaseIndex
  <1>3. EntriesOwn'
    BY Zenon DEF PreflightInv, EntriesOwn
  <1>4. now[r] < recorded[key[r]][e.decision.version] + TTL
    <2>1. recorded[key[r]][e.decision.version] \in Int /\ now[r] \in Int /\ e.expiry \in Int /\ TTL \in Int
      BY <1>1, PreflightAssumption, SMTT(30) DEF PreflightInv, PreflightTypeOK, Entry
    <2>2. e.expiry <= recorded[key[r]][e.decision.version] + TTL
      BY Zenon DEF PreflightInv, EntriesOwn
    <2> QED
      BY <2>1, <2>2
  <1>5. e.decision.key = key[r]
    BY Zenon DEF PreflightInv, EntriesOwn
  <1>6. Carried'
    BY <1>1, <1>4, <1>5, Zenon DEF PreflightInv, PreflightTypeOK, Carried, MoveTo
  <1> QED
    BY <1>2, <1>3, <1>6, Zenon DEF PreflightInv

\* Emptying a filled slot takes one off the gauge.
LEMMA EmptiedInv ==
    ASSUME PreflightInv, NEW r \in Callers, place[r] = "get",
           NEW s \in Indices, shard[s] # {},
           shard' = [shard EXCEPT ![s] = {}], entries' = entries - 1, MoveTo(r, "hook"),
           UNCHANGED <<decision, clock, policy, key, now, recorded>>
    PROVE  PreflightInv'
PROOF
  <1>1. Filled' = Filled \ {s}
    BY Zenon DEF PreflightInv, PreflightTypeOK, Filled
  <1>2. s \in Filled /\ entries = Cardinality(Filled)
    BY Zenon DEF PreflightInv, PreflightTypeOK, Filled
  <1>3. Cardinality(Filled \ {s}) = Cardinality(Filled) - 1
    BY <1>2, FilledFinite, FS_RemoveElement, Zenon
  <1>4. entries' = Cardinality({x \in Indices : shard'[x] # {}})
    BY <1>1, <1>2, <1>3, Zenon DEF Filled
  <1>5. /\ shard' \in [Indices -> SUBSET Entry]
        /\ \A x \in Indices : shard'[x] \subseteq shard[x]
        /\ \A x \in Indices : \A e \in shard'[x] : shard'[x] = shard[x]
    BY Zenon DEF PreflightInv, PreflightTypeOK
  <1>6. place' \in [Callers -> CallerPlaces]
    BY Zenon DEF PreflightInv, PreflightTypeOK, MoveTo, CallerPlaces
  <1>7. PreflightTypeOK'
    BY <1>4, <1>5, <1>6, Zenon DEF PreflightInv, PreflightTypeOK, Idx, BaseIndex
  <1>8. EntriesOwn'
    BY <1>5, Zenon DEF PreflightInv, EntriesOwn
  <1>9. Carried'
    BY Zenon DEF PreflightInv, PreflightTypeOK, Carried, MoveTo
  <1> QED
    BY <1>7, <1>8, <1>9, Zenon DEF PreflightInv

LEMMA GetInv ==
    ASSUME PreflightInv, NEW r \in Callers, Get(r)
    PROVE  PreflightInv'
PROOF
  <1>1. place[r] = "get" /\ UNCHANGED <<clock, policy, key, now, recorded>> /\ key[r] \in Keys
    BY Zenon DEF PreflightInv, PreflightTypeOK, Get
  <1>2. CASE Holds(key[r]) = {}
    <2>1. MoveTo(r, "hook") /\ UNCHANGED <<shard, entries, decision>>
      BY <1>2, Zenon DEF Get
    <2>2. PreflightTypeOK'
      BY <1>1, <2>1, ZenonT(30) DEF PreflightInv, PreflightTypeOK, MoveTo, CallerPlaces, Idx, BaseIndex
    <2>3. EntriesOwn'
      BY <1>1, <2>1, Zenon DEF PreflightInv, EntriesOwn
    <2>4. Carried'
      BY <1>1, <2>1, Zenon DEF PreflightInv, PreflightTypeOK, Carried, MoveTo
    <2> QED
      BY <2>2, <2>3, <2>4, Zenon DEF PreflightInv
  <1>3. CASE Holds(key[r]) # {}
    <2> DEFINE at == Idx(key[r], Min(Holds(key[r])))
    <2>1. at \in Indices /\ (\A e \in shard[at] : e.key = key[r]) /\ shard[at] # {}
      BY <1>1, <1>3, HoldsMin, Zenon
    <2>2. \E e \in shard[at] :
              IF e.expiry > now[r]
              THEN /\ decision' = [decision EXCEPT ![r] = e.decision]
                   /\ MoveTo(r, "hit")
                   /\ UNCHANGED <<shard, entries>>
              ELSE /\ shard' = [shard EXCEPT ![at] = {}]
                   /\ entries' = entries - 1
                   /\ MoveTo(r, "hook")
                   /\ UNCHANGED decision
      BY <1>3, Zenon DEF Get
    <2> HIDE DEF at
    <2>3. PICK e \in shard[at] :
              IF e.expiry > now[r]
              THEN /\ decision' = [decision EXCEPT ![r] = e.decision]
                   /\ MoveTo(r, "hit")
                   /\ UNCHANGED <<shard, entries>>
              ELSE /\ shard' = [shard EXCEPT ![at] = {}]
                   /\ entries' = entries - 1
                   /\ MoveTo(r, "hook")
                   /\ UNCHANGED decision
      BY <2>2, Zenon
    <2>4. CASE e.expiry > now[r]
      BY <1>1, <2>1, <2>3, <2>4, HitInv, Zenon
    <2>5. CASE ~ (e.expiry > now[r])
      BY <1>1, <2>1, <2>3, <2>5, EmptiedInv, Zenon
    <2> QED
      BY <2>4, <2>5, Zenon
  <1> QED
    BY <1>2, <1>3, Zenon

LEMMA RecordedIsTime ==
    ASSUME NEW R \in [Keys -> [0 .. MaxVersion -> Int]], NEW x \in Keys, NEW y \in 0 .. MaxVersion
    PROVE  R[x][y] \in Int
PROOF
  <1>1. R[x] \in [0 .. MaxVersion -> Int]
    BY Zenon
  <1> QED
    BY <1>1, Zenon

\* An insertion only moves the time a decision was recorded forward.
LEMMA InsertInv ==
    ASSUME PreflightInv, NEW r \in Callers, Insert(r)
    PROVE  PreflightInv'
PROOF
  <1> DEFINE k == key[r]
             v == decision[r].version
             at == Idx(k, Target(k, now[r]))
             e == [fingerprint |-> Fingerprint[k], key |-> k,
                   expiry |-> now[r] + TTL, decision |-> decision[r]]
  <1>1. /\ place[r] = "insert" /\ MoveTo(r, "idle")
        /\ shard' = [shard EXCEPT ![at] = {e}]
        /\ entries' = IF shard[at] = {} THEN entries + 1 ELSE entries
        /\ recorded' = [recorded EXCEPT ![k][v] = Max({@, now[r]})]
        /\ decision' = [decision EXCEPT ![r] = NoDecision]
        /\ UNCHANGED <<clock, policy, key, now>>
    BY Zenon DEF Insert
  <1>2. /\ k \in Keys /\ now[r] \in Nat /\ decision[r] \in Decision /\ decision[r].key = k
        /\ v \in 0 .. MaxVersion
    BY <1>1, Zenon DEF PreflightInv, PreflightTypeOK, Carried, Decision
  <1>3. Target(k, now[r]) \in Window
    BY <1>2, TargetInWindow, Zenon
  <1>4. at \in Indices
    BY <1>2, <1>3, IdxInRange, Zenon
  <1>5. e \in Entry /\ e.key = k /\ e.expiry = now[r] + TTL /\ e.decision = decision[r]
    BY <1>2, PreflightAssumption DEF Entry
  <1>6. \E i \in Window : at = Idx(e.key, i)
    BY <1>3, Zenon
  <1>7. place' \in [Callers -> CallerPlaces] /\ decision' \in [Callers -> Decision \cup {NoDecision}]
    BY <1>1, Zenon DEF PreflightInv, PreflightTypeOK, MoveTo, CallerPlaces
  <1> HIDE DEF at, e, k, v
  <1>8. /\ shard' \in [Indices -> SUBSET Entry]
        /\ shard'[at] = {e}
        /\ \A s \in Indices : s # at => shard'[s] = shard[s]
    BY <1>1, <1>4, <1>5, Zenon DEF PreflightInv, PreflightTypeOK
  <1>9. \A s \in Indices : \A f \in shard'[s] :
            shard'[s] = {f} /\ \E i \in Window : s = Idx(f.key, i)
    BY <1>6, <1>8 DEF PreflightInv, PreflightTypeOK
  <1>10. entries' = Cardinality({s \in Indices : shard'[s] # {}})
    <2>1. Filled' = Filled \cup {at}
      BY <1>4, <1>8, Zenon DEF Filled
    <2>2. entries = Cardinality(Filled)
      BY Zenon DEF PreflightInv, PreflightTypeOK, Filled
    <2>3. at \in Filled <=> shard[at] # {}
      BY <1>4, Zenon DEF Filled
    <2>4. Cardinality(Filled \cup {at}) =
              IF at \in Filled THEN Cardinality(Filled) ELSE Cardinality(Filled) + 1
      BY FilledFinite, FS_AddElement, Zenon
    <2> QED
      BY <1>1, <2>1, <2>2, <2>3, <2>4, Zenon DEF Filled
  <1>11. /\ recorded' \in [Keys -> [0 .. MaxVersion -> Int]]
         /\ recorded'[k][v] >= now[r]
         /\ \A x \in Keys, y \in 0 .. MaxVersion : recorded'[x][y] >= recorded[x][y]
    <2>0. recorded \in [Keys -> [0 .. MaxVersion -> Int]]
      BY Zenon DEF PreflightInv, PreflightTypeOK
    <2>1. recorded[k][v] \in Int /\ now[r] \in Int
      BY <1>2, <2>0, RecordedIsTime
    <2> DEFINE m == Max({recorded[k][v], now[r]})
    <2>2. m \in Int /\ m >= recorded[k][v] /\ m >= now[r]
      BY <2>1, MaxOfTwo, Zenon
    <2>3. recorded' = [recorded EXCEPT ![k] = [recorded[k] EXCEPT ![v] = m]]
      BY <1>1, Zenon
    <2> HIDE DEF m
    <2>4. recorded'[k] = [recorded[k] EXCEPT ![v] = m] /\ \A x \in Keys : x # k => recorded'[x] = recorded[x]
      BY <1>2, <2>0, <2>3, Zenon
    <2>5. recorded[k] \in [0 .. MaxVersion -> Int]
      BY <1>2, <2>0, Zenon
    <2>6. /\ recorded'[k] \in [0 .. MaxVersion -> Int]
          /\ recorded'[k][v] = m
          /\ \A y \in 0 .. MaxVersion : y # v => recorded'[k][y] = recorded[k][y]
      BY <1>2, <2>2, <2>4, <2>5, ZenonT(30)
    <2>7. recorded' \in [Keys -> [0 .. MaxVersion -> Int]]
      BY <1>2, <2>0, <2>3, <2>4, <2>6, Zenon
    <2>8. ASSUME NEW x \in Keys, NEW y \in 0 .. MaxVersion
          PROVE  recorded'[x][y] >= recorded[x][y]
      <3>1. recorded[x][y] \in Int
        BY <2>0, RecordedIsTime, Zenon
      <3>2. CASE x = k /\ y = v
        BY <2>2, <2>6, <3>2, Zenon
      <3>3. CASE x = k /\ y # v
        BY <2>6, <3>1, <3>3
      <3>4. CASE x # k
        BY <2>4, <3>1, <3>4
      <3> QED
        BY <3>2, <3>3, <3>4, Zenon
    <2> QED
      BY <2>2, <2>6, <2>7, <2>8, Zenon
  <1>12. PreflightTypeOK'
    BY <1>1, <1>7, <1>8, <1>9, <1>10, <1>11, Zenon DEF PreflightInv, PreflightTypeOK, Idx, BaseIndex
  <1>13. EntriesOwn'
    <2> SUFFICES ASSUME NEW s \in Indices, NEW f \in shard'[s]
                 PROVE  /\ f.decision.key = f.key
                        /\ f.expiry <= recorded'[f.key][f.decision.version] + TTL
      BY Zenon DEF EntriesOwn
    <2>1. CASE s = at
      <3>1. f = e
        BY <1>8, <2>1, Zenon
      <3>2. recorded'[k][v] \in Int /\ TTL \in Nat
        BY <1>2, <1>11, PreflightAssumption, Zenon
      <3> QED
        BY <1>2, <1>5, <1>11, <3>1, <3>2 DEF v
    <2>2. CASE s # at
      <3>1. f \in shard[s] /\ f \in Entry
        BY <1>8, <2>2, Zenon DEF PreflightInv, PreflightTypeOK
      <3>2. /\ f.key \in Keys /\ f.decision.version \in 0 .. MaxVersion
            /\ f.expiry \in Nat /\ TTL \in Nat
        BY <3>1, PreflightAssumption, Zenon DEF Entry, Decision
      <3>3. f.decision.key = f.key /\ f.expiry <= recorded[f.key][f.decision.version] + TTL
        BY <3>1, Zenon DEF PreflightInv, EntriesOwn
      <3>4. /\ recorded[f.key][f.decision.version] \in Int
            /\ recorded'[f.key][f.decision.version] \in Int
            /\ recorded'[f.key][f.decision.version] >= recorded[f.key][f.decision.version]
        <4>1. recorded \in [Keys -> [0 .. MaxVersion -> Int]]
          BY Zenon DEF PreflightInv, PreflightTypeOK
        <4> QED
          BY <1>11, <3>2, <4>1, RecordedIsTime, Zenon
      <3> QED
        BY <3>2, <3>3, <3>4
    <2> QED
      BY <2>1, <2>2, Zenon
  <1>14. Carried'
    <2> SUFFICES ASSUME NEW q \in Callers
                 PROVE  /\ place'[q] \in {"decided", "insert", "hit"} =>
                              decision'[q] \in Decision /\ decision'[q].key = key'[q]
                        /\ place'[q] = "hit" =>
                              now'[q] < recorded'[key'[q]][decision'[q].version] + TTL
      BY Zenon DEF Carried
    <2>1. CASE q = r
      BY <1>1, <2>1, Zenon DEF PreflightInv, PreflightTypeOK, MoveTo
    <2>2. CASE q # r
      <3>1. /\ place'[q] = place[q] /\ decision'[q] = decision[q] /\ key'[q] = key[q] /\ now'[q] = now[q]
            /\ key[q] \in Keys /\ now[q] \in Nat
        BY <1>1, <2>2, ZenonT(30) DEF PreflightInv, PreflightTypeOK, MoveTo
      <3>2. CASE place[q] = "hit"
        <4>1. /\ decision[q] \in Decision /\ decision[q].key = key[q]
              /\ now[q] < recorded[key[q]][decision[q].version] + TTL
          BY <3>2, Zenon DEF PreflightInv, Carried
        <4>2. decision[q].version \in 0 .. MaxVersion
          BY <4>1, Zenon DEF Decision
        <4>3. /\ recorded[key[q]][decision[q].version] \in Int
              /\ recorded'[key[q]][decision[q].version] \in Int
              /\ recorded'[key[q]][decision[q].version] >= recorded[key[q]][decision[q].version]
          <5>1. recorded \in [Keys -> [0 .. MaxVersion -> Int]]
            BY Zenon DEF PreflightInv, PreflightTypeOK
          <5> QED
            BY <1>11, <3>1, <4>2, <5>1, RecordedIsTime, Zenon
        <4> QED
          BY <3>1, <4>1, <4>3, PreflightAssumption
      <3>3. CASE place[q] # "hit"
        BY <3>1, <3>3, Zenon DEF PreflightInv, Carried
      <3> QED
        BY <3>2, <3>3, Zenon
    <2> QED
      BY <2>1, <2>2, Zenon
  <1> QED
    BY <1>12, <1>13, <1>14, Zenon DEF PreflightInv

\* The invariant holds in every reachable state of the decision cache.
THEOREM PreflightInvariance == PreflightSpec => []PreflightInv
PROOF
  <1>1. PreflightInv /\ [PreflightNext]_preflightVars => PreflightInv'
    <2> SUFFICES ASSUME PreflightInv, [PreflightNext]_preflightVars PROVE PreflightInv'
      BY Zenon
    <2>1. CASE UNCHANGED preflightVars
      BY <2>1 DEF PreflightInv, PreflightTypeOK, EntriesOwn, Carried, preflightVars, Idx, BaseIndex
    <2>2. CASE ChangePermissions \/ Tick
      BY <2>2, WorldInv, Zenon
    <2>3. ASSUME NEW r \in Callers,
                 \/ \E k \in Keys : Arrive(r, k)
                 \/ Get(r) \/ RunHook(r) \/ ReadClock(r) \/ Insert(r) \/ Proceed(r)
          PROVE  PreflightInv'
      BY <2>3, ArriveInv, GetInv, HookInv, ReadClockInv, InsertInv, ProceedInv, Zenon
    <2> QED
      BY <2>1, <2>2, <2>3, Zenon DEF PreflightNext
  <1> QED
    BY <1>1, PreflightInitInv, PTL DEF PreflightSpec

\* A lookup that hits answers with a decision made for its own prefix,
\* identifier and credentials, recorded less than a time to live before the
\* lookup, for every interleaving of lookups, insertions and evictions.
THEOREM HitsAreSound == PreflightSpec => []HitsAreOwnAndRecent
PROOF
  <1>1. PreflightInv => HitsAreOwnAndRecent
    BY Zenon DEF PreflightInv, Carried, HitsAreOwnAndRecent
  <1> QED
    BY <1>1, PreflightInvariance, PTL

\* What insert() overwrites.
LEMMA InsertDisplaces ==
    ASSUME PreflightInv, NEW r \in Callers, Insert(r),
           NEW s \in Indices, NEW e \in shard[s],
           e \notin shard'[s], e.expiry > now[r], e.key # key[r],
           NEW i \in Window
    PROVE  \E f \in shard[Idx(key[r], i)] : f.expiry > now[r] /\ e.expiry <= f.expiry
PROOF
  <1> DEFINE k == key[r]
             j == Target(k, now[r])
             at == Idx(k, j)
  <1>1. k \in Keys /\ now[r] \in Nat
    BY Zenon DEF PreflightInv, PreflightTypeOK
  <1>2. /\ j \in Window
        /\ \/ j \in Holds(k) \cup Empty(k)
           \/ j \in Expired(k, now[r])
           \/ Empty(k) = {} /\ Expired(k, now[r]) = {} /\ j \in EarliestExpiry(k)
    BY <1>1, TargetInWindow, Zenon
  <1>3. at \in Indices /\ Idx(k, i) \in Indices
    BY <1>1, <1>2, IdxInRange, Zenon
  <1>4. PICK new : shard' = [shard EXCEPT ![at] = {new}]
    BY Zenon DEF Insert
  <1> HIDE DEF at, j, k
  <1>5. s = at
    BY <1>3, <1>4, Zenon DEF PreflightInv, PreflightTypeOK
  <1>6. shard[at] = {e} /\ e.expiry \in Nat
    BY <1>3, <1>5 DEF PreflightInv, PreflightTypeOK, Entry
  <1>7. j \notin Holds(k) \cup Empty(k)
    BY <1>6, Zenon DEF Holds, Empty, SameKey, at, k
  <1>8. j \notin Expired(k, now[r])
    BY <1>1, <1>6 DEF Expired, at
  <1>9. Empty(k) = {} /\ Expired(k, now[r]) = {} /\ j \in EarliestExpiry(k)
    BY <1>2, <1>7, <1>8, Zenon
  <1>10. PICK f \in shard[Idx(k, i)] : TRUE
    BY <1>9, Zenon DEF Empty
  <1>11. f.expiry \in Nat /\ ~ (f.expiry <= now[r])
    BY <1>3, <1>9 DEF Expired, PreflightInv, PreflightTypeOK, Entry
  <1>12. e.expiry <= f.expiry
    BY <1>6, <1>9, Zenon DEF EarliestExpiry, at
  <1> QED
    BY <1>1, <1>11, <1>12 DEF k

\* insert() displaces another key's live entry only when its window is full of
\* live entries, and then the one that would expire first.
THEOREM LiveEntriesStay == PreflightSpec => LiveDisplacedOnlyWhenFull
PROOF
  <1> DEFINE Displaces ==
        \A r \in Callers : place[r] = "insert" /\ place'[r] = "idle" =>
            \A s \in Indices : \A e \in shard[s] :
                e \notin shard'[s] /\ e.expiry > now[r] /\ e.key # key[r] =>
                    \A i \in Window : \E f \in shard[Idx(key[r], i)] :
                        f.expiry > now[r] /\ e.expiry <= f.expiry
  <1>1. PreflightInv /\ [PreflightNext]_preflightVars => [Displaces]_preflightVars
    <2> SUFFICES ASSUME PreflightInv, PreflightNext, NEW r \in Callers, place[r] = "insert", place'[r] = "idle"
                 PROVE  Insert(r)
      BY InsertDisplaces, Zenon
    <2>1. PICK q \in Callers :
             \/ \E k \in Keys : Arrive(q, k)
             \/ Get(q) \/ RunHook(q) \/ ReadClock(q) \/ Insert(q) \/ Proceed(q)
      BY Zenon DEF PreflightNext, ChangePermissions, Tick
    <2>2. \E l \in CallerPlaces : MoveTo(q, l)
      BY <2>1, Zenon DEF Arrive, Get, RunHook, ReadClock, Insert, Proceed, CallerPlaces
    <2>3. q = r
      BY <2>2, Zenon DEF MoveTo, PreflightInv, PreflightTypeOK
    <2> QED
      BY <2>1, <2>3, Zenon DEF Arrive, Get, RunHook, ReadClock, Proceed
  <1> QED
    BY <1>1, PreflightInvariance, PTL DEF PreflightSpec, LiveDisplacedOnlyWhenFull

-----------------------------------------------------------------------------
(***************************************************************************)
(* The life of the server, for every set of requests, every start and      *)
(* every drain timeout.                                                    *)
(*                                                                         *)
(* No request is cut before the drain timeout is over.  The step that      *)
(* cuts, the teardown of the runtime, does not look at the clock; LifeInv  *)
(* carries what let the drain end through the flush, while the requests    *)
(* that are left still change.                                             *)
(*                                                                         *)
(* A faulty start serves nothing, and one that serves has one              *)
(* configuration.  StartInv says what each step of the start has passed    *)
(* and installed; that what is installed is the value of the highest layer *)
(* is a fact about the operators of ServerConfig, proved key by key.       *)
(***************************************************************************)

Starting == {"start", "config", "lua", "load", "bind", "mount"}
Steps == Starting \cup {"serving", "flush", "drop", "join", "exited"}

Tasks == {"out", "native", "open", "answered", "left", "cut"}

TypeInv ==
    /\ stage \in Steps
    /\ drain \in BOOLEAN
    /\ elapsed \in Nat
    /\ req \in [Requests -> [task : Tasks, work : {"none", "running", "over"},
                             answer : {None, 200, 503}]]

Overdue == drain /\ elapsed >= DrainTimeout

\* No request before the server serves, and past the end of the drain one in
\* flight only when the time is up.
Ending ==
    /\ stage \in Starting => \A r \in Requests : req[r].task = "out"
    /\ stage \in {"flush", "drop"} => InFlight = {} \/ Overdue
    /\ NoneCutEarly

LifeInv == TypeInv /\ Ending

LEMMA LifeInitInv == ServerInit => LifeInv
PROOF
  <1> SUFFICES ASSUME ServerInit PROVE LifeInv
    BY Zenon
  <1>1. TypeInv
    BY Zenon DEF ServerInit, TypeInv, Steps, Starting, Tasks
  <1>2. Ending
    BY Zenon DEF ServerInit, Ending, NoneCutEarly
  <1> QED
    BY <1>1, <1>2, Zenon DEF LifeInv

\* A step of the start meets no request and leaves the clock alone.
LEMMA StartupFrame ==
    ASSUME Startup
    PROVE  /\ stage \in Starting
           /\ stage' \in Starting \cup {"serving", "flush", "exited"}
           /\ UNCHANGED <<drain, elapsed, req>>
PROOF
  <1> USE DEF Starting, Advance, Refuse, life
  <1>1. CASE TelemetryInit
    BY <1>1, Zenon DEF TelemetryInit
  <1>2. CASE InstallEngine
    BY <1>2, Zenon DEF InstallEngine
  <1>3. CASE NoConfig
    BY <1>3, Zenon DEF NoConfig
  <1>4. CASE BuildLua
    BY <1>4, Zenon DEF BuildLua
  <1>5. CASE LoadState
    BY <1>5, Zenon DEF LoadState
  <1>6. CASE Bind
    BY <1>6, Zenon DEF Bind
  <1>7. CASE Mount
    BY <1>7, Zenon DEF Mount
  <1> QED
    BY <1>1, <1>2, <1>3, <1>4, <1>5, <1>6, <1>7, Zenon DEF Startup

LEMMA StartupInv ==
    ASSUME LifeInv, Startup
    PROVE  LifeInv'
PROOF
  <1>1. /\ stage \in Starting /\ stage' \in Starting \cup {"serving", "flush", "exited"}
        /\ UNCHANGED <<drain, elapsed, req>>
    BY StartupFrame, Zenon
  <1>2. \A r \in Requests : req[r].task = "out" /\ UNCHANGED req
    BY <1>1, Zenon DEF LifeInv, Ending
  <1>3. TypeInv'
    BY <1>1, Zenon DEF LifeInv, TypeInv, Steps
  <1>4. Ending'
    BY <1>1, <1>2, Zenon DEF Ending, InFlight, NoneCutEarly
  <1> QED
    BY <1>3, <1>4, Zenon DEF LifeInv

\* What a request does while the runtime stands: it never becomes one in
\* flight again, and none is cut.
LEMMA RequestInv ==
    ASSUME LifeInv, NEW r \in Requests,
           \/ StartWork(r) \/ FinishWork(r) \/ Answer(r) \/ ClientLeaves(r)
           \/ \E probe \in BOOLEAN : Accept(r, probe)
    PROVE  LifeInv'
PROOF
  <1>1. /\ UNCHANGED <<stage, drain, elapsed>>
        /\ req' \in [Requests -> [task : Tasks, work : {"none", "running", "over"},
                                  answer : {None, 200, 503}]]
        /\ \A q \in Requests :
              /\ stage \in Starting => req'[q].task = req[q].task
              /\ req'[q].task = "cut" => req[q].task = "cut"
              /\ stage # "serving" /\ req'[q].task \in {"native", "open"} => req[q].task \in {"native", "open"}
    <2> USE DEF LifeInv, TypeInv, Tasks, life
    <2>1. CASE StartWork(r)
      BY <2>1 DEF StartWork, RuntimeUp, Starting
    <2>2. CASE FinishWork(r)
      BY <2>2 DEF FinishWork
    <2>3. CASE Answer(r)
      BY <2>3 DEF Answer, RuntimeUp, Starting
    <2>4. CASE ClientLeaves(r)
      BY <2>4 DEF ClientLeaves, RuntimeUp, Starting
    <2>5. CASE \E probe \in BOOLEAN : Accept(r, probe)
      <3>1. PICK probe \in BOOLEAN : Accept(r, probe)
        BY <2>5, Zenon
      <3>2. /\ UNCHANGED <<stage, drain, elapsed>>
            /\ stage = "serving"
        BY <3>1, Zenon DEF Accept
      <3> DEFINE task == IF probe \/ ~state.ready THEN "native" ELSE "open"
                 status == IF ~probe /\ ~state.ready THEN 503 ELSE 200
      <3>3. task \in {"native", "open"} /\ status \in {200, 503}
        OBVIOUS
      <3>4. req' = [req EXCEPT ![r] = [task |-> task, work |-> "none", answer |-> status]]
        BY <3>1, Zenon DEF Accept
      <3> HIDE DEF task, status
      <3>5. req' \in [Requests -> [task : Tasks, work : {"none", "running", "over"},
                                  answer : {None, 200, 503}]]
        BY <3>3, <3>4
      <3>6. \A q \in Requests : req'[q].task = "cut" => req[q].task = "cut"
        BY <3>3, <3>4, ZenonT(30)
      <3> QED
        BY <3>2, <3>5, <3>6, ZenonT(30) DEF Starting
    <2> QED
      BY <2>1, <2>2, <2>3, <2>4, <2>5, Zenon
  <1>2. TypeInv'
    BY <1>1, ZenonT(30) DEF LifeInv, TypeInv
  <1>3. Ending'
    BY <1>1 DEF LifeInv, TypeInv, Ending, InFlight, Overdue, NoneCutEarly, Starting
  <1> QED
    BY <1>2, <1>3, Zenon DEF LifeInv

\* The signal, the end of accepting and the clock.
LEMMA ClockInv ==
    ASSUME LifeInv, Signal \/ StopAccepting \/ TimePasses
    PROVE  LifeInv'
PROOF
  <1>1. /\ UNCHANGED <<stage, req>>
        /\ drain' \in BOOLEAN /\ (drain => drain')
        /\ elapsed' \in Nat /\ elapsed' >= elapsed
    <2>1. CASE Signal
      BY <2>1 DEF LifeInv, TypeInv, Signal
    <2>2. CASE StopAccepting
      BY <2>2 DEF LifeInv, TypeInv, StopAccepting
    <2>3. CASE TimePasses
      BY <2>3 DEF LifeInv, TypeInv, TimePasses
    <2> QED
      BY <2>1, <2>2, <2>3, Zenon
  <1>2. Overdue => Overdue'
    BY <1>1, ServerAssumption DEF Overdue, LifeInv, TypeInv
  <1>3. TypeInv'
    BY <1>1, Zenon DEF LifeInv, TypeInv
  <1>4. Ending'
    BY <1>1, <1>2, Zenon DEF LifeInv, Ending, InFlight, Overdue, NoneCutEarly
  <1> QED
    BY <1>3, <1>4, Zenon DEF LifeInv

\* The two ends of the drain, by the last request or by the clock.
LEMMA DrainInv ==
    ASSUME LifeInv, Drained \/ DeadlinePasses
    PROVE  LifeInv'
PROOF
  <1>1. /\ stage = "serving" /\ stage' = "flush" /\ UNCHANGED <<req, drain, elapsed>>
        /\ InFlight = {} \/ Overdue
    BY Zenon DEF Drained, DeadlinePasses, Overdue, life
  <1>2. TypeInv'
    BY <1>1, ZenonT(30) DEF LifeInv, TypeInv, Steps
  <1>3. Ending'
    BY <1>1, Zenon DEF LifeInv, Ending, InFlight, Overdue, NoneCutEarly, Starting
  <1> QED
    BY <1>2, <1>3, Zenon DEF LifeInv

\* The teardown cuts the requests in flight, if there are any.
LEMMA TeardownInv ==
    ASSUME LifeInv, FlushTelemetry \/ DropTasks \/ JoinThreads
    PROVE  LifeInv'
PROOF
  <1>1. /\ stage \in {"flush", "drop", "join"} /\ stage' \in {"drop", "join", "exited"}
        /\ UNCHANGED <<drain, elapsed>>
        /\ UNCHANGED req \/ (stage \in {"flush", "drop"} /\ stage' \in {"join", "exited"} /\ req' = CutAll)
        /\ stage' = "drop" => stage = "flush"
    BY Zenon DEF FlushTelemetry, DropTasks, JoinThreads, life
  <1>2. CASE UNCHANGED req
    <2>1. TypeInv'
      BY <1>1, <1>2, Zenon DEF LifeInv, TypeInv, Steps
    <2>2. Ending'
      BY <1>1, <1>2, Zenon DEF LifeInv, Ending, InFlight, Overdue, NoneCutEarly, Starting
    <2> QED
      BY <2>1, <2>2, Zenon DEF LifeInv
  <1>3. CASE stage \in {"flush", "drop"} /\ stage' \in {"join", "exited"} /\ req' = CutAll
    <2>1. TypeInv'
      BY <1>1, <1>3 DEF LifeInv, TypeInv, Steps, CutAll, Tasks
    <2>2. NoneCutEarly'
      <3>1. InFlight = {} \/ Overdue
        BY <1>3, Zenon DEF LifeInv, Ending
      <3>2. \A r \in Requests : req'[r].task = "cut" => req[r].task = "cut" \/ r \in InFlight
        BY <1>3, Zenon DEF LifeInv, TypeInv, CutAll
      <3> QED
        BY <1>1, <3>1, <3>2, Zenon DEF LifeInv, Ending, NoneCutEarly, Overdue
    <2> QED
      BY <1>3, <2>1, <2>2, Zenon DEF LifeInv, Ending, Starting
  <1> QED
    BY <1>1, <1>2, <1>3, Zenon

\* The invariant of the process: requests exist only once it serves, and the
\* drain ends with none in flight or with the time up.
THEOREM LifeInvariance == ServerSpec => []LifeInv
PROOF
  <1>1. LifeInv /\ [ServerNext]_serverVars => LifeInv'
    <2> SUFFICES ASSUME LifeInv, [ServerNext]_serverVars PROVE LifeInv'
      BY Zenon
    <2>1. CASE UNCHANGED serverVars
      BY <2>1, ZenonT(30) DEF serverVars, LifeInv, TypeInv, Ending, InFlight, Overdue, NoneCutEarly
    <2>2. CASE Done
      BY <2>2, Zenon DEF Done, serverVars, LifeInv, TypeInv, Ending, InFlight, Overdue, NoneCutEarly
    <2> QED
      BY <2>1, <2>2, StartupInv, RequestInv, ClockInv, DrainInv, TeardownInv, Zenon
         DEF ServerNext, Shutdown, Serve
  <1> QED
    BY <1>1, LifeInitInv, PTL DEF ServerSpec

\* No request that was accepted is cut before the drain timeout is over, for
\* any timeout and any number of requests (lib.rs, serve's race of the drain
\* with its deadline and the drop of the runtime in run).
THEOREM RequestsGetTheirTime == ServerSpec => []NoneCutEarly
PROOF
  <1>1. LifeInv => NoneCutEarly
    BY Zenon DEF LifeInv, Ending
  <1> QED
    BY <1>1, LifeInvariance, PTL

-----------------------------------------------------------------------------
(* The start: what each step has installed when the next one begins, and   *)
(* with which code and which telemetry the process ends.                   *)

WithFile == boot.file.flavor # "none"

Installing ==
    /\ boot \in Scenes
    /\ stage = "lua" => WithFile
    /\ stage \in {"lua", "load", "bind", "mount", "serving"} /\ WithFile =>
          /\ Configured.ok /\ engine = SipiInit(Configured.effective) /\ engine # None
          /\ shell = [effective |-> Configured.effective, routes |-> Configured.routes]
    /\ stage \in {"load", "bind", "mount", "serving"} /\ WithFile =>
          boot.limits /\ lua = LuaEnvOf /\ ~InitScriptFails
    /\ stage \in {"bind", "mount", "serving"} => boot.threads /\ (WithFile => state = Ready)

Exits ==
    /\ stage \in Starting => ~drain /\ listener # "closed"
    /\ stage = "serving" /\ listener = "closed" => drain
    /\ stage \in {"flush", "drop", "join", "exited"} =>
          \/ code = 0 /\ drain
          \/ code # 0 /\ ~drain /\ \A r \in Requests : req[r].task = "out"
    /\ stage \in {"drop", "join", "exited"} /\ code = 1 => otel # "open"

StartInv == LifeInv /\ Installing /\ Exits

LEMMA StartInitInv == ServerInit => StartInv
PROOF
  BY LifeInitInv, Zenon DEF ServerInit, StartInv, Installing, Exits, Starting

\* The configuration and what was made of it are functions of what is kept.
LEMMA SameConfiguration ==
    ASSUME UNCHANGED boot
    PROVE  Configured' = Configured /\ WithFile' = WithFile
PROOF
  BY Zenon DEF Configured, Overrides, WithFile

LEMMA SameLua ==
    ASSUME UNCHANGED <<boot, shell>>
    PROVE  LuaEnvOf' = LuaEnvOf /\ InitScriptFails' = InitScriptFails
PROOF
  BY Zenon DEF LuaEnvOf, ProbeHooks, InitScriptFails

\* A step that installs nothing, and does not go on to the next step.
LEMMA NothingInstalled ==
    ASSUME Installing, UNCHANGED <<boot, engine, shell, lua, state>>,
           \/ stage' = stage
           \/ stage' \in {"start", "config", "flush", "drop", "join", "exited"}
           \/ stage \in {"bind", "mount"} /\ stage' \in {"mount", "serving"}
    PROVE  Installing'
PROOF
  <1>1. Ready' = Ready
    BY Zenon DEF Ready
  <1> QED
    BY <1>1, SameConfiguration, SameLua DEF Installing

LEMMA StartupInstalls ==
    ASSUME Installing, Startup
    PROVE  Installing'
PROOF
  <1> USE DEF Advance, Refuse, installed, life
  <1>1. CASE TelemetryInit
    BY <1>1, NothingInstalled, Zenon DEF TelemetryInit
  <1>2. CASE InstallEngine
    <2>1. UNCHANGED boot /\ WithFile
      BY <1>2, Zenon DEF InstallEngine, WithFile
    <2> QED
      BY <1>2, <2>1, SameConfiguration, Zenon DEF InstallEngine, Installing
  <1>3. CASE NoConfig
    <2>1. UNCHANGED boot /\ ~WithFile
      BY <1>3, Zenon DEF NoConfig, WithFile
    <2> QED
      BY <1>3, <2>1, SameConfiguration DEF NoConfig, Installing
  <1>4. CASE BuildLua
    <2>1. UNCHANGED <<boot, shell, engine>> /\ WithFile
      BY <1>4, Zenon DEF BuildLua, Installing
    <2> QED
      BY <1>4, <2>1, SameConfiguration, SameLua DEF BuildLua, Installing
  <1>5. CASE LoadState
    <2>1. UNCHANGED <<boot, shell, engine, lua>>
      BY <1>5, Zenon DEF LoadState
    <2>2. Ready' = Ready
      BY <2>1, Zenon DEF Ready
    <2>3. CASE ~boot.threads
      <3>1. UNCHANGED state /\ stage' = "flush"
        BY <1>5, <2>3, Zenon DEF LoadState
      <3> QED
        BY <2>1, <3>1, NothingInstalled, Zenon
    <2>4. CASE boot.threads
      <3>1. stage = "load" /\ stage' = "bind" /\ state' = IF engine = None THEN NotReady ELSE Ready
        BY <1>5, <2>4, Zenon DEF LoadState
      <3>2. /\ Configured' = Configured /\ WithFile' = WithFile
            /\ LuaEnvOf' = LuaEnvOf /\ InitScriptFails' = InitScriptFails
        BY <2>1, SameConfiguration, SameLua, Zenon
      <3> QED
        BY <2>1, <2>2, <2>4, <3>1, <3>2, Zenon DEF Installing
    <2> QED
      BY <2>3, <2>4, Zenon
  <1>6. CASE Bind
    BY <1>6, NothingInstalled, Zenon DEF Bind
  <1>7. CASE Mount
    BY <1>7, NothingInstalled, Zenon DEF Mount
  <1> QED
    BY <1>1, <1>2, <1>3, <1>4, <1>5, <1>6, <1>7, Zenon DEF Startup

\* The steps of a server that runs or ends install nothing.
LEMMA NextInstalls ==
    ASSUME Installing, [ServerNext]_serverVars
    PROVE  Installing'
PROOF
  <1> USE DEF installed, life
  <1>1. CASE UNCHANGED serverVars \/ Done
    BY <1>1, NothingInstalled, Zenon DEF serverVars, installed, Done
  <1>2. CASE Signal \/ TimePasses
    <2>1. UNCHANGED <<boot, engine, shell, lua, state>> /\ stage' = stage
      BY <1>2, Zenon DEF Signal, TimePasses
    <2> QED
      BY <2>1, NothingInstalled, Zenon
  <1>3. CASE Shutdown
    BY <1>3, NothingInstalled, Zenon DEF Shutdown, StopAccepting, Drained, DeadlinePasses, FlushTelemetry,
                                  DropTasks, JoinThreads
  <1>4. ASSUME NEW r \in Requests,
               Serve(r) \/ ClientLeaves(r) \/ \E probe \in BOOLEAN : Accept(r, probe)
        PROVE  Installing'
    BY <1>4, NothingInstalled, Zenon DEF Serve, StartWork, FinishWork, Answer, ClientLeaves, Accept
  <1> QED
    BY <1>1, <1>2, <1>3, <1>4, StartupInstalls, Zenon DEF ServerNext

LEMMA ExitsInv ==
    ASSUME StartInv, [ServerNext]_serverVars
    PROVE  Exits'
PROOF
  <1> USE DEF StartInv, life
  <1>1. CASE UNCHANGED serverVars \/ Done
    BY <1>1 DEF serverVars, Done, Exits
  <1>2. CASE Startup
    <2>1. /\ stage \in Starting /\ stage' \in Starting \cup {"serving", "flush", "exited"}
          /\ UNCHANGED <<drain, elapsed, req>>
      BY <1>2, StartupFrame, Zenon
    <2>2. stage' \in {"flush", "exited"} => code' \in {1, 101} /\ (stage' = "exited" => code' = 101)
      BY <1>2, Zenon DEF Startup, TelemetryInit, InstallEngine, NoConfig, BuildLua, LoadState, Bind, Mount,
                  Advance, Refuse
    <2>3. ~drain /\ listener # "closed" /\ \A r \in Requests : req[r].task = "out"
      BY <2>1, Zenon DEF Exits, LifeInv, Ending
    <2>4. stage' # "exited" => listener' # "closed"
      BY <1>2, <2>3, Zenon DEF Startup, TelemetryInit, InstallEngine, NoConfig, BuildLua, LoadState, Bind, Mount,
                        Advance, Refuse
    <2>5. code' = 101 => code' # 1
      OBVIOUS
    <2>6. stage' \in {"flush", "exited"} => code' # 0
      <3>1. code' \in {1, 101} => code' # 0
        OBVIOUS
      <3> QED
        BY <2>2, <3>1, Zenon
    <2>7. /\ ~drain' /\ (stage' # "exited" => listener' # "closed")
          /\ \A r \in Requests : req'[r].task = "out"
      BY <2>1, <2>3, <2>4, Zenon
    <2>8. stage' \in {"drop", "join", "exited"} => stage' = "exited"
      BY <2>1, Zenon DEF Starting
    <2>9. stage' \in {"flush", "drop", "join", "exited"} => stage' \in {"flush", "exited"}
      BY <2>8, Zenon
    <2>10. stage' \in Starting \/ stage' = "serving" => stage' # "exited"
      BY Zenon DEF Starting
    <2> QED
      BY <2>2, <2>5, <2>6, <2>7, <2>8, <2>9, <2>10, Zenon DEF Exits
  <1>3. CASE Signal \/ StopAccepting \/ TimePasses
    BY <1>3, ZenonT(30) DEF Signal, StopAccepting, TimePasses, Exits, LifeInv, TypeInv, Starting
  <1>4. CASE Drained \/ DeadlinePasses
    <2>1. drain
      BY <1>4, Zenon DEF Drained, DeadlinePasses, Exits
    <2> QED
      BY <1>4, <2>1, Zenon DEF Drained, DeadlinePasses, Exits, Starting
  <1>5. CASE FlushTelemetry \/ DropTasks \/ JoinThreads
    <2>1. /\ stage \in {"flush", "drop", "join"} /\ stage' \in {"drop", "join", "exited"}
          /\ UNCHANGED <<drain, code>> /\ (UNCHANGED req \/ req' = CutAll)
          /\ otel' # "open" \/ (stage \in {"drop", "join"} /\ UNCHANGED otel)
      BY <1>5, Zenon DEF FlushTelemetry, DropTasks, JoinThreads
    <2>2. (\A r \in Requests : req[r].task = "out") => \A r \in Requests : req'[r].task = "out"
      BY <2>1, Zenon DEF CutAll, InFlight
    <2> QED
      BY <2>1, <2>2, Zenon DEF Exits, Starting
  <1>6. ASSUME NEW r \in Requests,
               Serve(r) \/ ClientLeaves(r) \/ \E probe \in BOOLEAN : Accept(r, probe)
        PROVE  Exits'
    <2>1. UNCHANGED <<stage, drain, code, otel, listener>>
      BY <1>6, Zenon DEF Serve, StartWork, FinishWork, Answer, ClientLeaves, Accept
    <2>2. CASE stage = "serving" \/ stage \in Starting
      BY <2>1, <2>2, Zenon DEF Exits, Starting
    <2>3. CASE stage \in {"flush", "drop", "join", "exited"}
      <3>1. (\A q \in Requests : req[q].task = "out") => \A q \in Requests : req'[q].task = "out"
        BY <1>6, <2>3 DEF Serve, StartWork, FinishWork, Answer, ClientLeaves, Accept, LifeInv, TypeInv
      <3> QED
        BY <2>1, <2>3, <3>1, Zenon DEF Exits, Starting
    <2> QED
      BY <2>2, <2>3, Zenon DEF LifeInv, TypeInv, Steps
  <1> QED
    BY <1>1, <1>2, <1>3, <1>4, <1>5, <1>6, Zenon DEF ServerNext, Shutdown

\* What the start has installed at each of its steps, and how the process ends.
THEOREM StartInvariance == ServerSpec => []StartInv
PROOF
  <1>1. StartInv /\ [ServerNext]_serverVars /\ LifeInv' => StartInv'
    BY NextInstalls, ExitsInv, Zenon DEF StartInv
  <1> QED
    BY <1>1, StartInitInv, LifeInvariance, PTL DEF ServerSpec

-----------------------------------------------------------------------------
(* The precedence: the layers of config.rs against the list of the raw     *)
(* inputs, for any flags, variables and file.                              *)

LEMMA FirstAt ==
    ASSUME NEW given, DOMAIN given \subseteq Nat, NEW n \in DOMAIN given, given[n] # None,
           \A j \in DOMAIN given : j < n => given[j] = None
    PROVE  First(given) = given[n]
PROOF
  <1> DEFINE set == {i \in DOMAIN given : given[i] # None}
             least == CHOOSE i \in set : \A j \in set : i <= j
  <1>1. n \in set /\ set \subseteq Nat /\ \A j \in set : n <= j
    OBVIOUS
  <1> HIDE DEF set
  <1>2. least \in set /\ \A j \in set : least <= j
    BY <1>1, Zenon
  <1>3. least = n
    BY <1>1, <1>2
  <1> QED
    BY <1>1, <1>3, Zenon DEF First, set

LEMMA FirstOfThree ==
    ASSUME NEW a, NEW b, NEW c
    PROVE  First(<<a, b, c>>) = Or(a, Or(b, c))
PROOF
  <1> DEFINE given == <<a, b, c>>
  <1>1. DOMAIN given = 1..3 /\ given[1] = a /\ given[2] = b /\ given[3] = c
    OBVIOUS
  <1> HIDE DEF given
  <1>2. \A n \in 1..3 : given[n] # None /\ (\A j \in 1..3 : j < n => given[j] = None)
                        => First(given) = given[n]
    BY <1>1, FirstAt
  <1>3. (\A n \in 1..3 : given[n] = None) => First(given) = None
    BY <1>1 DEF First
  <1>4. First(given) = Or(a, Or(b, c))
    BY <1>1, <1>2, <1>3 DEF Or
  <1> QED
    BY <1>4, Zenon DEF given

LEMMA FirstOfSix ==
    ASSUME NEW a, NEW b, NEW c, NEW d, NEW e, NEW f
    PROVE  First(<<a, b, c, d, e, f>>) = Or(a, Or(b, Or(c, Or(d, Or(e, f)))))
PROOF
  <1> DEFINE given == <<a, b, c, d, e, f>>
  <1>1. /\ DOMAIN given = 1..6 /\ given[1] = a /\ given[2] = b /\ given[3] = c
        /\ given[4] = d /\ given[5] = e /\ given[6] = f
    OBVIOUS
  <1> HIDE DEF given
  <1>2. \A n \in 1..6 : given[n] # None /\ (\A j \in 1..6 : j < n => given[j] = None)
                        => First(given) = given[n]
    BY <1>1, FirstAt
  <1>3. (\A n \in 1..6 : given[n] = None) => First(given) = None
    BY <1>1 DEF First
  <1>4. First(given) = Or(a, Or(b, Or(c, Or(d, Or(e, f)))))
    BY <1>1, <1>2, <1>3 DEF Or
  <1> QED
    BY <1>4, Zenon DEF given

\* What wins, as the layers of the outside over the layer of the file.
LEMMA WinnerIsLayered ==
    ASSUME NEW k \in Settings
    PROVE  Winner(k) = Or(Overrides[k], IF k = "cache_dir" THEN Or(InFile(k), InFile("cachedir"))
                                        ELSE InFile(k))
PROOF
  <1>1. CASE k = "cache_dir"
    <2>1. Overrides[k] = Or(Or(boot.flags[k], boot.env[k]), Or(boot.flags["cachedir"], boot.env["cachedir"]))
      BY <1>1, Zenon DEF Overrides, FromArgs, Clap, Settings, Spellings
    <2>2. Winner(k) = Or(boot.flags[k], Or(boot.env[k], Or(boot.flags["cachedir"],
                         Or(boot.env["cachedir"], Or(InFile(k), InFile("cachedir"))))))
      BY <1>1, FirstOfSix DEF Winner, Given, Outside
    <2>3. Or(Or(Or(boot.flags[k], boot.env[k]), Or(boot.flags["cachedir"], boot.env["cachedir"])),
             Or(InFile(k), InFile("cachedir"))) = Winner(k)
      BY <2>2, Zenon DEF Or
    <2>4. Or(Overrides[k], Or(InFile(k), InFile("cachedir"))) = Winner(k)
      BY <2>1, <2>3, Zenon
    <2> QED
      BY <1>1, <2>4, Zenon
  <1>2. CASE k # "cache_dir"
    <2>1. Overrides[k] = IF k \in {"jpeg_quality", "hostname"} THEN None ELSE Or(boot.flags[k], boot.env[k])
      BY <1>2, Zenon DEF Overrides, FromArgs, Clap, Settings, Spellings
    <2>2. Winner(k) = Or(Outside(boot.flags, k), Or(Outside(boot.env, k), InFile(k)))
      BY <1>2, FirstOfThree DEF Winner, Given
    <2> QED
      BY <1>2, <2>1, <2>2, Zenon DEF Outside, Or
  <1> QED
    BY <1>1, <1>2, Zenon

\* A TOML file: every key is the winner's, or unset when nobody sets it.
LEMMA TomlEffective ==
    ASSUME boot.file.flavor = "toml", Configured.ok
    PROVE  /\ boot.file.readable
           /\ \A k \in Settings : Configured.effective[k] = Winner(k)
           /\ \A i \in DOMAIN Configured.routes : Configured.routes[i].dir \in {None, Winner("scriptdir")}
PROOF
  <1> DEFINE effective == LayeredOver(Overrides, TomlBase(boot.file))
  <1>1. /\ TomlLoads(boot.file)
        /\ Configured = Accepted(effective, RouteEntries(boot.file, effective.scriptdir))
    BY Zenon DEF Configured, Resolve, Refused
  <1>2. /\ Configured.effective = effective
        /\ Configured.routes = RouteEntries(boot.file, effective.scriptdir)
    BY <1>1, Zenon DEF Accepted
  <1>3. ASSUME NEW k \in Settings
        PROVE  effective[k] = Winner(k)
    <2>1. effective[k] = Or(Overrides[k], IF k = "hostname" THEN None ELSE boot.file.keys[k])
      BY Zenon DEF LayeredOver, TomlBase
    <2>2. InFile("cachedir") = None /\ InFile(k) = IF k = "hostname" THEN None ELSE boot.file.keys[k]
      BY <1>1, Zenon DEF InFile, TomlLoads
    <2> QED
      BY <2>1, <2>2, WinnerIsLayered, Zenon DEF Or
  <1>4. effective.scriptdir = Winner("scriptdir")
    BY <1>3, ZenonT(30) DEF Settings
  <1> HIDE DEF effective
  <1>5. \A i \in DOMAIN Configured.routes : Configured.routes[i].dir \in {None, Winner("scriptdir")}
    BY <1>2, <1>4 DEF RouteEntries, ComposeScriptPath
  <1> QED
    BY <1>1, <1>2, <1>3, <1>5, Zenon DEF TomlLoads

\* A Lua file: the same for every key that somebody sets; an init script that
\* nobody sets is the default, which names none.
LEMMA LuaEffective ==
    ASSUME boot.file.flavor = "lua", Configured.ok
    PROVE  /\ boot.file.readable
           /\ \A k \in Settings : Winner(k) # None => Configured.effective[k] = Winner(k)
           /\ Winner("initscript") = None => Configured.effective.initscript = Value("default", "dot")
PROOF
  <1> DEFINE file == boot.file
             keys == [k \in Settings |-> IF k = "cache_dir" THEN LuaCacheDir(file)
                                     ELSE Or(file.keys[k], LuaDefault(k))]
             parsed == ReadConfig(file)
             layered == LayeredOver(Overrides, FromLuaConfig(parsed.keys))
             routes == RouteEntries(file, parsed.keys.scriptdir)
  <1>0. ~Refused.ok
    BY Zenon DEF Refused
  <1>1. /\ parsed.ok
        /\ Configured.effective = layered
    <2>1. Configured = IF ~parsed.ok \/ Is(parsed.keys.serverport, "wide")
                       THEN Refused ELSE Accepted(layered, routes)
      BY Zenon DEF Configured, LuaConfigured
    <2> HIDE DEF layered, routes, parsed
    <2>2. parsed.ok /\ Configured = Accepted(layered, routes)
      BY <1>0, <2>1, Zenon
    <2> QED
      BY <2>2, Zenon DEF Accepted
  <1>2. /\ boot.file.readable
        /\ Configured.effective = LayeredOver(Overrides, FromLuaConfig(keys))
    <2> DEFINE wrong == \/ ~file.readable
                        \/ BothSpellings(file)
                        \/ \E i \in DOMAIN file.routes : file.routes[i].method \notin RouteMethods
               read == [ok |-> TRUE, keys |-> keys]
    <2>1. parsed = IF wrong THEN Refused ELSE read
      BY Zenon DEF ReadConfig
    <2>2. ~wrong => file.readable
      BY Zenon
    <2>3. read.keys = keys
      BY Zenon
    <2> HIDE DEF wrong, read, keys, file, parsed
    <2>4. parsed = read /\ ~wrong
      BY <1>0, <1>1, <2>1, Zenon
    <2> QED
      BY <1>1, <2>2, <2>3, <2>4, Zenon DEF file
  <1>3. ASSUME NEW k \in Settings
        PROVE  Configured.effective[k] =
                  Or(Overrides[k], IF k = "tiles_memory_ratio" THEN None ELSE keys[k])
    BY <1>2, Zenon DEF LayeredOver, FromLuaConfig
  <1>4. ASSUME NEW k \in Settings, Winner(k) # None
        PROVE  Configured.effective[k] = Winner(k)
    <2>1. CASE k = "cache_dir"
      <3>1. Or(InFile("cache_dir"), InFile("cachedir")) # None
               => LuaCacheDir(file) = Or(InFile("cache_dir"), InFile("cachedir"))
        BY Zenon DEF LuaCacheDir, InFile, Or, Is
      <3>2. keys[k] = LuaCacheDir(file)
        BY <2>1, Zenon
      <3> QED
        BY <1>3, <1>4, <2>1, <3>1, <3>2, WinnerIsLayered, Zenon DEF Or
    <2>2. CASE k # "cache_dir"
      <3>1. InFile(k) = IF k = "tiles_memory_ratio" THEN None ELSE file.keys[k]
        BY <2>2, Zenon DEF InFile, Settings
      <3>2. keys[k] = Or(file.keys[k], LuaDefault(k))
        BY <2>2, Zenon
      <3> QED
        BY <1>3, <1>4, <2>2, <3>1, <3>2, WinnerIsLayered, Zenon DEF Or
    <2> QED
      BY <2>1, <2>2, Zenon
  <1>5. ASSUME Winner("initscript") = None
        PROVE  Configured.effective.initscript = Value("default", "dot")
    <2>1. "initscript" \in Settings
      BY Zenon DEF Settings
    <2>2. Overrides["initscript"] = None /\ InFile("initscript") = None
      BY <1>5, <2>1, WinnerIsLayered, Zenon DEF Or
    <2>3. file.keys["initscript"] = None
      BY <2>2, Zenon DEF InFile
    <2>4. keys["initscript"] = Value("default", "dot")
      BY <2>1, <2>3, Zenon DEF Or, LuaDefault
    <2> QED
      BY <1>3, <2>1, <2>2, <2>4, Zenon DEF Or
  <1> QED
    BY <1>2, <1>4, <1>5, Zenon

\* Both kinds of file: the winner is what the rest of the process goes on with.
LEMMA EffectiveIsWinner ==
    ASSUME WithFile, boot \in Scenes, Configured.ok
    PROVE  /\ boot.file.readable
           /\ \A k \in Settings : Winner(k) # None => Configured.effective[k] = Winner(k)
           /\ NamesScript <=> InitScript(Configured.effective) # None
PROOF
  <1>1. boot.file.flavor \in {"toml", "lua"}
    BY ServerAssumption, Zenon DEF WithFile
  <1>2. "initscript" \in Settings
    BY Zenon DEF Settings
  <1>3. Winner("initscript") = None =>
           \/ Configured.effective.initscript = None
           \/ Configured.effective.initscript = Value("default", "dot")
    BY <1>1, <1>2, TomlEffective, LuaEffective, Zenon
  <1>4. boot.file.readable /\ \A k \in Settings : Winner(k) # None => Configured.effective[k] = Winner(k)
    BY <1>1, TomlEffective, LuaEffective, Zenon
  <1>5. Winner("initscript") # None => Configured.effective.initscript = Winner("initscript")
    BY <1>2, <1>4, Zenon
  <1>6. NamesScript <=> InitScript(Configured.effective) # None
    <2> DEFINE script == Configured.effective.initscript
    <2>1. InitScript(Configured.effective) # None <=> script # None /\ script.as \notin {"empty", "dot"}
      BY Zenon DEF InitScript
    <2>2. Value("default", "dot").as = "dot"
      BY Zenon DEF Value
    <2>3. CASE Winner("initscript") # None
      BY <1>5, <2>1, <2>3, Zenon DEF NamesScript
    <2>4. CASE Winner("initscript") = None
      BY <1>3, <2>1, <2>2, <2>4, Zenon DEF NamesScript
    <2> QED
      BY <2>3, <2>4, Zenon
  <1> QED
    BY <1>4, <1>6, Zenon

\* The start fails closed, for every start and any number of requests: what is
\* behind a server that accepts requests, and what a process that ended leaves
\* (lib.rs, server_main's early returns, the flush in run and serve's watch).
THEOREM StartsFailClosed == ServerSpec => []StartFailsClosed
PROOF
  <1>1. StartInv => StartFailsClosed
    <2> SUFFICES ASSUME StartInv PROVE StartFailsClosed
      BY Zenon
    <2>1. ASSUME stage = "serving", WithFile
          PROVE  boot.file.readable /\ boot.limits /\ state.ready /\ ~(NamesScript /\ boot.init = "fails")
      <3>1. /\ Configured.ok /\ boot \in Scenes /\ boot.limits /\ ~InitScriptFails /\ state = Ready
            /\ shell = [effective |-> Configured.effective, routes |-> Configured.routes]
        BY <2>1, Zenon DEF StartInv, Installing
      <3>2. InitScript(shell.effective) # None <=> NamesScript
        BY <2>1, <3>1, EffectiveIsWinner, Zenon
      <3> QED
        BY <2>1, <3>1, <3>2, EffectiveIsWinner, Zenon DEF InitScriptFails, Ready
    <2>2. stage = "serving" => boot.threads
      BY Zenon DEF StartInv, Installing
    <2>3. stage = "exited" /\ code = 1 => otel # "open" /\ \A r \in Requests : req[r].task = "out"
      BY DEF StartInv, Exits
    <2>4. stage = "exited" => (code = 0 <=> drain)
      BY Zenon DEF StartInv, Exits
    <2> QED
      BY <2>1, <2>2, <2>3, <2>4, Zenon DEF StartFailsClosed, WithFile
  <1> QED
    BY <1>1, StartInvariance, PTL

\* A server that accepts requests runs on one configuration, for any flags,
\* variables and file: the engine, the scripts' config table, the shell and the
\* hook go by the same winner (config.rs, config_file.rs, init.cpp, lib.rs).
THEOREM OneConfiguration == ServerSpec => []ServesOneConfiguration
PROOF
  <1>1. StartInv => ServesOneConfiguration
    <2> SUFFICES ASSUME StartInv, stage = "serving", WithFile
                 PROVE  /\ \A k \in Settings : Winner(k) # None =>
                              /\ k \in DOMAIN engine.conf => engine.conf[k] = Winner(k)
                              /\ k \in DOMAIN lua.config => lua.config[k] = Winner(k)
                        /\ state.imgroot = engine.conf.imgroot
                        /\ boot.file.flavor = "toml" =>
                              \A i \in DOMAIN state.routes :
                                 state.routes[i].dir \in {None, Winner("scriptdir")}
                        /\ state.hook = (NamesScript /\ boot.init = "hook")
      BY Zenon DEF ServesOneConfiguration, WithFile
    <2> DEFINE effective == Configured.effective
               values == [k \in Settings \ {"hostname"} |-> Or(Override(effective, k), EngineDefault(k))]
    <2>1. /\ Configured.ok /\ boot \in Scenes /\ lua = LuaEnvOf /\ state = Ready
          /\ engine = SipiInit(effective) /\ engine # None
          /\ shell = [effective |-> effective, routes |-> Configured.routes]
      BY Zenon DEF StartInv, Installing
    <2>2. /\ \A k \in Settings : Winner(k) # None => effective[k] = Winner(k)
          /\ NamesScript <=> InitScript(effective) # None
      BY <2>1, EffectiveIsWinner, Zenon
    <2>3. engine.conf = values
      BY <2>1, Zenon DEF SipiInit
    <2>4. /\ lua.config = LuaConfigValues(effective)
          /\ lua.hook = (InitScript(effective) # None /\ boot.init = "hook")
      BY <2>1, Zenon DEF LuaEnvOf, ProbeHooks
    <2>5. /\ state.imgroot = engine.conf.imgroot /\ state.hook = lua.hook
          /\ state.routes = Configured.routes
      BY <2>1, Zenon DEF Ready
    <2> HIDE DEF effective
    <2>6. ASSUME NEW k \in Settings, Winner(k) # None
          PROVE  /\ k \in DOMAIN engine.conf => engine.conf[k] = Winner(k)
                 /\ k \in DOMAIN lua.config => lua.config[k] = Winner(k)
      <3>1. effective[k] = Winner(k)
        BY <2>2, <2>6, Zenon
      <3> QED
        BY <2>3, <2>4, <2>6, <3>1, Zenon DEF Override, Or, LuaConfigValues
    <2>7. boot.file.flavor = "toml" =>
             \A i \in DOMAIN state.routes : state.routes[i].dir \in {None, Winner("scriptdir")}
      BY <2>1, <2>5, TomlEffective, Zenon
    <2> QED
      BY <2>2, <2>4, <2>5, <2>6, <2>7, Zenon
  <1> QED
    BY <1>1, StartInvariance, PTL

=============================================================================
