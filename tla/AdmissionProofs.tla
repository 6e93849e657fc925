--------------------------- MODULE AdmissionProofs ---------------------------
(***************************************************************************)
(* Proofs about the admission pool, for every set of requests, pool size,  *)
(* ratio and queue depth.  The inductive invariant says which permits a    *)
(* request holds at each point of acquire and that both semaphores are     *)
(* sound; the tile floor and the rest follow from it by counting.  The     *)
(* metrics need a second invariant, which counts the requests behind each  *)
(* gauge and counter.  Last comes the contract: the pool implements it.    *)
(***************************************************************************)
EXTENDS AdmissionRefinement, FiniteSetTheorems, SequenceTheorems, TLAPS

----------------------------------------------------------------------------
\* The semaphore: what its operations preserve.  A sound one stays sound, its
\* permits are conserved, and the sets of holders and of parked actors change as
\* the operation says.

\* The empty queue has no element.
LEMMA EmptyQueue == NoRepeats(<<>>) /\ Elements(<<>>) = {}
PROOF
  <1>1. DOMAIN <<>> = {}
    OBVIOUS
  <1> QED
    BY <1>1, Zenon DEF NoRepeats, Elements

\* w is q without its k-th element: p tells where each element comes from.
Skips(q, w, p, k) ==
    /\ k \in DOMAIN q
    /\ \A i \in DOMAIN w : p[i] \in DOMAIN q /\ p[i] # k /\ w[i] = q[p[i]]
    /\ \A i, j \in DOMAIN w : p[i] = p[j] => i = j
    /\ \A x \in DOMAIN q : x # k => \E i \in DOMAIN w : p[i] = x

\* What Tail and Without have in common.
LEMMA Skipping ==
    ASSUME NEW q, NEW w, NEW p, NEW k, Skips(q, w, p, k), NoRepeats(q)
    PROVE  NoRepeats(w) /\ Elements(w) = Elements(q) \ {q[k]}
PROOF
  <1> DEFINE D == DOMAIN q
             E == DOMAIN w
  <1> USE DEF Skips
  <1>1. \A x, y \in D : q[x] = q[y] => x = y
    BY Zenon DEF NoRepeats
  <1>2. \A i, j \in E : w[i] = w[j] => i = j
    <2> SUFFICES ASSUME NEW i \in E, NEW j \in E, w[i] = w[j]
                 PROVE  i = j
      BY Zenon
    <2>1. p[i] \in D /\ p[j] \in D /\ q[p[i]] = q[p[j]]
      BY Zenon
    <2> QED
      BY <2>1, <1>1, Zenon
  <1>3. \A e \in Elements(w) : e \in Elements(q) /\ e # q[k]
    <2> SUFFICES ASSUME NEW i \in E
                 PROVE  w[i] \in Elements(q) /\ w[i] # q[k]
      BY DEF Elements
    <2>1. p[i] \in D /\ p[i] # k /\ w[i] = q[p[i]]
      BY Zenon
    <2>2. w[i] # q[k]
      BY <2>1, <1>1, Zenon
    <2> QED
      BY <2>1, <2>2 DEF Elements
  <1>4. \A e \in Elements(q) : e # q[k] => e \in Elements(w)
    <2> SUFFICES ASSUME NEW x \in D, q[x] # q[k]
                 PROVE  q[x] \in Elements(w)
      BY DEF Elements
    <2>1. PICK i \in E : p[i] = x
      BY Zenon
    <2>2. w[i] = q[x]
      BY <2>1, Zenon
    <2> QED
      BY <2>2, Zenon DEF Elements
  <1>5. NoRepeats(w)
    BY <1>2, Zenon DEF NoRepeats
  <1> QED
    BY <1>3, <1>4, <1>5, ZenonT(30)

\* Removing the head.
LEMMA TailQueue ==
    ASSUME NEW A, NEW q \in Seq(A), q # <<>>, NoRepeats(q)
    PROVE  /\ Head(q) \in A /\ Head(q) \in Elements(q)
           /\ Tail(q) \in Seq(A) /\ NoRepeats(Tail(q))
           /\ Elements(Tail(q)) = Elements(q) \ {Head(q)}
PROOF
  <1> DEFINE n == Len(q)
             w == Tail(q)
             p == [i \in 1 .. n - 1 |-> i + 1]
  <1>1. /\ n \in Nat \ {0} /\ DOMAIN q = 1 .. n /\ Head(q) = q[1] /\ Head(q) \in A
        /\ w \in Seq(A) /\ Len(w) = n - 1
        /\ \A i \in 1 .. Len(w) : w[i] = q[i + 1]
    BY HeadTailProperties, EmptySeq, LenProperties
  <1>2. DOMAIN w = 1 .. n - 1
    BY <1>1, LenProperties, Zenon
  <1> HIDE DEF n, w
  <1>3. /\ \A i \in 1 .. n - 1 : p[i] \in 1 .. n /\ p[i] # 1 /\ w[i] = q[p[i]]
        /\ \A i, j \in 1 .. n - 1 : p[i] = p[j] => i = j
    BY <1>1
  <1>4. ASSUME NEW x \in 1 .. n, x # 1
        PROVE  \E i \in 1 .. n - 1 : p[i] = x
    <2>1. x - 1 \in 1 .. n - 1 /\ p[x - 1] = x
      BY <1>4, <1>1
    <2> QED
      BY <2>1, Zenon
  <1> HIDE DEF p
  <1>5. n \in Nat /\ n - 1 \in Nat /\ 1 \in 1 .. n
    BY <1>1
  <1>6. NoRepeats(w) /\ Elements(w) = Elements(q) \ {q[1]}
    <2>1. Skips(q, w, p, 1)
      BY <1>1, <1>2, <1>3, <1>4, <1>5, Zenon DEF Skips
    <2> QED
      BY <2>1, Skipping, Zenon
  <1>7. q[1] \in Elements(q)
    BY <1>1, <1>5, Zenon DEF Elements
  <1> QED
    BY <1>1, <1>6, <1>7, Zenon DEF w

\* Removing an element anywhere.
LEMMA WithoutQueue ==
    ASSUME NEW A, NEW q \in Seq(A), NoRepeats(q), NEW a \in Elements(q)
    PROVE  /\ Without(q, a) \in Seq(A)
           /\ NoRepeats(Without(q, a))
           /\ Elements(Without(q, a)) = Elements(q) \ {a}
PROOF
  <1> DEFINE k == CHOOSE j \in DOMAIN q : q[j] = a
             w == Without(q, a)
             n == Len(q)
             p == [i \in 1 .. n - 1 |-> IF i < k THEN i ELSE i + 1]
  <1>1. k \in DOMAIN q /\ q[k] = a
    BY Zenon DEF Elements
  <1>2. n \in Nat /\ DOMAIN q = 1 .. n /\ \A i \in 1 .. n : q[i] \in A
    BY LenProperties, ElementOfSeq, Zenon
  <1>3. w = [i \in 1 .. n - 1 |-> q[IF i < k THEN i ELSE i + 1]]
    BY Zenon DEF Without
  <1> HIDE DEF k, n, w
  <1>4. /\ k \in 1 .. n /\ n - 1 \in Nat
        /\ \A i \in 1 .. n - 1 : p[i] \in 1 .. n /\ p[i] # k
        /\ \A i, j \in 1 .. n - 1 : p[i] = p[j] => i = j
    BY <1>1, <1>2
  <1>5. ASSUME NEW x \in 1 .. n, x # k
        PROVE  \E i \in 1 .. n - 1 : p[i] = x
    <2>1. CASE x < k
      <3>1. x \in 1 .. n - 1 /\ p[x] = x
        BY <2>1, <1>2, <1>4
      <3> QED
        BY <3>1, Zenon
    <2>2. CASE x > k
      <3>1. x - 1 \in 1 .. n - 1 /\ p[x - 1] = x
        BY <2>2, <1>2, <1>4
      <3> QED
        BY <3>1, Zenon
    <2> QED
      BY <2>1, <2>2, <1>5, <1>4
  <1>6. \A i \in 1 .. n - 1 : w[i] = q[p[i]]
    BY <1>3, Zenon
  <1>7. DOMAIN w = 1 .. n - 1
    BY <1>3, Zenon
  <1>8. w = [i \in 1 .. n - 1 |-> q[p[i]]]
    BY <1>3, Zenon
  <1> HIDE DEF p
  <1>9. \A i \in 1 .. n - 1 : q[p[i]] \in A
    BY <1>2, <1>4, Zenon
  <1>10. w \in Seq(A)
    BY <1>4, <1>8, <1>9, SMTT(30)
  <1>11. NoRepeats(w) /\ Elements(w) = Elements(q) \ {q[k]}
    <2>1. Skips(q, w, p, k)
      BY <1>2, <1>4, <1>5, <1>6, <1>7, ZenonT(30) DEF Skips
    <2> QED
      BY <2>1, Skipping, Zenon
  <1> QED
    BY <1>1, <1>10, <1>11, Zenon DEF w

\* Adding an element at the end.
LEMMA AppendQueue ==
    ASSUME NEW A, NEW q \in Seq(A), NoRepeats(q), NEW a \in A, a \notin Elements(q)
    PROVE  /\ Append(q, a) \in Seq(A)
           /\ NoRepeats(Append(q, a))
           /\ Elements(Append(q, a)) = Elements(q) \cup {a}
PROOF
  <1> DEFINE n == Len(q)
             w == Append(q, a)
  <1>1. /\ n \in Nat /\ DOMAIN q = 1 .. n
        /\ w \in Seq(A) /\ DOMAIN w = 1 .. n + 1
        /\ \A i \in 1 .. n : w[i] = q[i]
        /\ w[n + 1] = a
    OBVIOUS
  <1> HIDE DEF n, w
  <1>2. \A i \in 1 .. n + 1 : i \in 1 .. n \/ i = n + 1
    BY <1>1
  <1>3. \A i \in 1 .. n : i \in 1 .. n + 1
    BY <1>1
  <1>4. n + 1 \in 1 .. n + 1
    BY <1>1
  <1>5. \A i \in 1 .. n : q[i] # a
    BY <1>1, Zenon DEF Elements
  <1>6. NoRepeats(w)
    <2> SUFFICES ASSUME NEW i \in 1 .. n + 1, NEW j \in 1 .. n + 1, w[i] = w[j]
                 PROVE  i = j
      BY <1>1, Zenon DEF NoRepeats
    <2>1. CASE i \in 1 .. n /\ j \in 1 .. n
      BY <2>1, <1>1, Zenon DEF NoRepeats
    <2>2. CASE i = n + 1 \/ j = n + 1
      BY <2>2, <1>1, <1>2, <1>5, Zenon
    <2> QED
      BY <2>1, <2>2, <1>2, Zenon
  <1>7. \A i \in 1 .. n + 1 : w[i] \in Elements(q) \cup {a}
    BY <1>1, <1>2, Zenon DEF Elements
  <1>8. \A i \in 1 .. n : q[i] \in Elements(w)
    BY <1>1, <1>3, Zenon DEF Elements
  <1>9. a \in Elements(w)
    BY <1>1, <1>4, Zenon DEF Elements
  <1>10. Elements(w) \subseteq Elements(q) \cup {a}
    BY <1>1, <1>7, Zenon DEF Elements
  <1>11. Elements(q) \subseteq Elements(w)
    BY <1>1, <1>8, Zenon DEF Elements
  <1> QED
    BY <1>1, <1>6, <1>9, <1>10, <1>11, Zenon DEF w

\* A fresh semaphore is sound, has all its permits and no holder.
LEMMA NewSound ==
    ASSUME NEW A, NEW n \in Nat
    PROVE  /\ Sound(NewSemaphore(n), A)
           /\ Permits(NewSemaphore(n)) = n
           /\ NewSemaphore(n).held = {}
           /\ Queued(NewSemaphore(n)) = {}
PROOF
  <1> DEFINE s == NewSemaphore(n)
  <1>1. s.free = n /\ s.queue = <<>> /\ s.held = {} /\ s \in SemaphoreType(A)
    BY EmptySeq, Zenon DEF NewSemaphore, SemaphoreType
  <1>3. Cardinality({}) = 0
    BY FS_EmptySet, Zenon
  <1> QED
    BY <1>1, <1>3, EmptyQueue DEF Sound, Permits, Queued

\* Taking a free permit: one more holder, one free permit less.
LEMMA TakeSound ==
    ASSUME NEW A, IsFiniteSet(A), NEW s, Sound(s, A), NEW a \in A,
           HasFree(s), a \notin s.held
    PROVE  /\ Sound(Take(s, a), A)
           /\ Permits(Take(s, a)) = Permits(s)
           /\ Take(s, a).held = s.held \cup {a}
           /\ Queued(Take(s, a)) = Queued(s)
           /\ Queued(s) = {}
PROOF
  <1> DEFINE t == Take(s, a)
  <1>1. s \in [free: Nat, queue: Seq(A), held: SUBSET A] /\ s.free > 0
    BY Zenon DEF Sound, SemaphoreType, HasFree
  <1>2. /\ t.free = s.free - 1 /\ t.queue = s.queue /\ t.held = s.held \cup {a}
        /\ t \in SemaphoreType(A)
    BY <1>1 DEF Take, SemaphoreType
  <1>3. s.queue = <<>>
    BY <1>1 DEF Sound
  <1>4. Queued(s) = {} /\ Queued(t) = {}
    BY <1>2, <1>3, EmptyQueue, Zenon DEF Queued
  <1>5. IsFiniteSet(s.held)
    BY <1>1, FS_Subset, Zenon
  <1>6. Cardinality(t.held) = Cardinality(s.held) + 1
    BY <1>2, <1>5, FS_AddElement, ZenonT(30)
  <1>7. Cardinality(s.held) \in Nat
    BY <1>5, FS_CardinalityType, Zenon
  <1>8. Permits(t) = Permits(s)
    BY <1>1, <1>2, <1>6, <1>7 DEF Permits
  <1> QED
    BY <1>1, <1>2, <1>3, <1>4, <1>8, Zenon DEF Sound

\* Parking: one more waiter at the end of the queue, no permit moves.
LEMMA ParkSound ==
    ASSUME NEW A, NEW s, Sound(s, A), NEW a \in A,
           ~HasFree(s), a \notin s.held, a \notin Queued(s)
    PROVE  /\ Sound(Park(s, a), A)
           /\ Permits(Park(s, a)) = Permits(s)
           /\ Park(s, a).held = s.held
           /\ Queued(Park(s, a)) = Queued(s) \cup {a}
PROOF
  <1> DEFINE t == Park(s, a)
  <1>1. s \in [free: Nat, queue: Seq(A), held: SUBSET A] /\ s.free = 0
    BY DEF Sound, SemaphoreType, HasFree
  <1>2. /\ t.free = s.free /\ t.queue = Append(s.queue, a) /\ t.held = s.held
        /\ t \in SemaphoreType(A)
    BY <1>1 DEF Park, SemaphoreType
  <1>3. NoRepeats(t.queue) /\ Queued(t) = Queued(s) \cup {a}
    BY <1>1, <1>2, AppendQueue DEF Queued, Sound
  <1> QED
    BY <1>1, <1>2, <1>3, Zenon DEF Sound, Permits

\* Releasing: the permit goes to the head of the queue or becomes free; the
\* releaser no longer holds it and the others keep what they had.
LEMMA ReleaseSound ==
    ASSUME NEW A, IsFiniteSet(A), NEW s, Sound(s, A), NEW a \in s.held
    PROVE  /\ Sound(Release(s, a), A)
           /\ Permits(Release(s, a)) = Permits(s)
           /\ a \notin Release(s, a).held \cup Queued(Release(s, a))
           /\ Release(s, a).held \cup Queued(Release(s, a)) = (s.held \cup Queued(s)) \ {a}
           /\ s.held \ {a} \subseteq Release(s, a).held
           /\ Queued(Release(s, a)) \subseteq Queued(s)
PROOF
  <1> DEFINE t == Release(s, a)
  <1>1. s \in [free: Nat, queue: Seq(A), held: SUBSET A] /\ Queued(s) \cap s.held = {}
    BY Zenon DEF Sound, SemaphoreType
  <1>2. IsFiniteSet(s.held)
    BY <1>1, FS_Subset, Zenon
  <1>3. IsFiniteSet(s.held \ {a}) /\ Cardinality(s.held \ {a}) = Cardinality(s.held) - 1
    BY <1>2, FS_RemoveElement, Zenon
  <1>4. Cardinality(s.held) \in Nat /\ Cardinality(s.held \ {a}) \in Nat
    BY <1>2, <1>3, FS_CardinalityType, Zenon
  <1>5. CASE s.queue = <<>>
    <2>1. /\ t.free = s.free + 1 /\ t.queue = s.queue /\ t.held = s.held \ {a}
          /\ t \in SemaphoreType(A)
      BY <1>1, <1>5 DEF Release, SemaphoreType
    <2>2. Queued(t) = {} /\ Queued(s) = {}
      BY <2>1, <1>5, EmptyQueue, Zenon DEF Queued
    <2>3. Permits(t) = Permits(s)
      BY <2>1, <1>1, <1>3, <1>4 DEF Permits
    <2> QED
      BY <2>1, <2>2, <2>3, <1>5, Zenon DEF Sound
  <1>6. CASE s.queue # <<>>
    <2> DEFINE h == Head(s.queue)
    <2>1. /\ h \in A /\ h \in Queued(s)
          /\ Tail(s.queue) \in Seq(A) /\ NoRepeats(Tail(s.queue))
          /\ Elements(Tail(s.queue)) = Queued(s) \ {h}
      BY <1>1, <1>6, TailQueue, Zenon DEF Queued, Sound
    <2>2. /\ t.free = s.free /\ t.queue = Tail(s.queue) /\ t.held = (s.held \ {a}) \cup {h}
          /\ t \in SemaphoreType(A)
      BY <1>1, <1>6, <2>1, Zenon DEF Release, SemaphoreType
    <2> HIDE DEF t, h
    <2>3. h \notin s.held
      BY <2>1, <1>1, Zenon
    <2>4. NoRepeats(t.queue)
      BY <2>1, <2>2, Zenon
    <2>5. Queued(t) = Queued(s) \ {h}
      BY <2>1, <2>2, Zenon DEF Queued
    <2>6. Cardinality(t.held) = Cardinality(s.held)
      <3>1. h \notin s.held \ {a} /\ IsFiniteSet(s.held \ {a})
        BY <2>3, <1>3, Zenon
      <3>2. Cardinality((s.held \ {a}) \cup {h}) = Cardinality(s.held \ {a}) + 1
        BY <3>1, FS_AddElement, Zenon
      <3> QED
        BY <3>2, <2>2, <1>3, <1>4
    <2>7. Permits(t) = Permits(s)
      BY <2>2, <2>6, Zenon DEF Permits
    <2>8. t.queue # <<>> => t.free = 0
      BY <2>2, <1>6, Zenon DEF Sound
    <2> QED
      BY <2>1, <2>2, <2>3, <2>4, <2>5, <2>7, <2>8, <1>1, SMTT(30) DEF Sound, t
  <1> QED
    BY <1>5, <1>6, Zenon

\* Dropping an acquire future, parked or just assigned: the actor is out of
\* the semaphore, the permits are conserved and nobody else loses anything.
LEMMA AbandonSound ==
    ASSUME NEW A, IsFiniteSet(A), NEW s, Sound(s, A), NEW a \in s.held \cup Queued(s)
    PROVE  /\ Sound(Abandon(s, a), A)
           /\ Permits(Abandon(s, a)) = Permits(s)
           /\ a \notin Abandon(s, a).held \cup Queued(Abandon(s, a))
           /\ Abandon(s, a).held \cup Queued(Abandon(s, a)) = (s.held \cup Queued(s)) \ {a}
           /\ s.held \ {a} \subseteq Abandon(s, a).held
           /\ Queued(Abandon(s, a)) \subseteq Queued(s)
PROOF
  <1>1. CASE a \in s.held
    BY <1>1, ReleaseSound, Zenon DEF Abandon
  <1>2. CASE a \notin s.held
    <2> DEFINE t == Abandon(s, a)
    <2>1. s \in [free: Nat, queue: Seq(A), held: SUBSET A] /\ NoRepeats(s.queue)
      BY Zenon DEF Sound, SemaphoreType
    <2>2. a \in Queued(s)
      BY <1>2, Zenon
    <2>3. s.queue # <<>>
      BY <2>2, EmptyQueue, Zenon DEF Queued
    <2>4. /\ Without(s.queue, a) \in Seq(A)
          /\ NoRepeats(Without(s.queue, a))
          /\ Elements(Without(s.queue, a)) = Queued(s) \ {a}
      BY <2>1, <2>2, WithoutQueue, Zenon DEF Queued
    <2>5. /\ t.free = s.free /\ t.queue = Without(s.queue, a) /\ t.held = s.held
          /\ t \in SemaphoreType(A)
      BY <2>1, <2>4, <1>2, Zenon DEF Abandon, SemaphoreType
    <2>6. Queued(t) = Queued(s) \ {a}
      BY <2>4, <2>5, Zenon DEF Queued
    <2>7. s.free = 0
      BY <2>3, Zenon DEF Sound
    <2> QED
      BY <2>4, <2>5, <2>6, <2>7, <1>2, Zenon DEF Sound, Permits
  <1> QED
    BY <1>1, <1>2, Zenon

----------------------------------------------------------------------------
\* The pool.

SemaphoresSound ==
    /\ Sound(global, Requests) /\ Permits(global) = permits_total
    /\ Sound(full, Requests) /\ Permits(full) = full_max

IInv == TypeOK /\ SemaphoresSound /\ GlobalPlaces /\ FullPlaces

\* The clamp leaves each lane at least one worker when there are two
\* (Admission::new), and the two lanes add up to the pool.
LEMMA Sizing ==
    /\ permits_total \in Nat /\ tile_min \in Nat /\ full_max \in Nat
    /\ tile_min + full_max = permits_total
    /\ full_max >= 1
    /\ permits_total >= 2 => tile_min >= 1
PROOF
  <1> DEFINE x == RoundedShare(Nthreads, RatioNum, RatioDen)
  <1>1. Nthreads \in Nat \ {0}
    BY AdmissionAssumption, Zenon
  <1>2. x \in Int
    BY AdmissionAssumption DEF RoundedShare
  <1> HIDE DEF x
  <1>3. tile_min = IF Nthreads < 2 THEN 0 ELSE Clamp(x, 1, Nthreads - 1)
    BY Zenon DEF tile_min, TileMin, x
  <1>4. full_max = Nthreads - tile_min
    BY Zenon DEF full_max, FullMax, tile_min
  <1> QED
    BY <1>1, <1>2, <1>3, <1>4 DEF Clamp, permits_total

LEMMA InitInv == Init => IInv
PROOF
  <1> SUFFICES ASSUME Init PROVE IInv
    BY Zenon
  <1>1. /\ Sound(global, Requests) /\ Permits(global) = permits_total
        /\ global.held = {} /\ Queued(global) = {}
    BY NewSound, Sizing, Zenon DEF Init
  <1>2. /\ Sound(full, Requests) /\ Permits(full) = full_max
        /\ full.held = {} /\ Queued(full) = {}
    BY NewSound, Sizing, Zenon DEF Init
  <1>3. TypeOK
    BY <1>1, <1>2 DEF Init, TypeOK, Sound, PCs, Kinds, Outcomes
  <1>4. GlobalPlaces /\ FullPlaces
    BY <1>1, <1>2, Zenon DEF Init, GlobalPlaces, FullPlaces
  <1> QED
    BY <1>1, <1>2, <1>3, <1>4, Zenon DEF IInv, SemaphoresSound

\* Entering acquire.
LEMMA AcquireInv ==
    ASSUME IInv, NEW r \in Requests, NEW k \in Kinds, Acquire(r, k)
    PROVE  IInv'
PROOF
  <1> USE DEF IInv
  <1>1. SemaphoresSound' /\ UNCHANGED <<global, full>>
    BY Zenon DEF SemaphoresSound, Acquire, Goto
  <1>2. TypeOK'
    BY <1>1, Zenon DEF TypeOK, PCs, Kinds, Outcomes, Answer, CountShed, Acquire, Goto
  <1>3. GlobalPlaces' /\ FullPlaces'
    BY <1>1 DEF SemaphoresSound, Sound, TypeOK, GlobalPlaces, FullPlaces, Capped, Kinds, Acquire, Goto
  <1> QED
    BY <1>1, <1>2, <1>3, Zenon

\* The depth check touches no permit.
LEMMA CheckDepthInv ==
    ASSUME IInv, NEW r \in Requests, CheckDepth(r)
    PROVE  IInv'
PROOF
  <1> USE DEF IInv
  <1>1. SemaphoresSound' /\ UNCHANGED <<global, full>>
    BY Zenon DEF SemaphoresSound, CheckDepth, Goto
  <1>2. TypeOK'
    BY <1>1, SMTT(30) DEF TypeOK, PCs, Kinds, Outcomes, Answer, CountShed, CheckDepth, Goto
  <1>3. GlobalPlaces' /\ FullPlaces'
    BY <1>1, SMTT(30) DEF SemaphoresSound, Sound, TypeOK, GlobalPlaces, FullPlaces, Capped, Kinds, CheckDepth, Goto
  <1> QED
    BY <1>1, <1>2, <1>3, Zenon

\* Neither does the gauge.
LEMMA GuardInv ==
    ASSUME IInv, NEW r \in Requests, Guard(r)
    PROVE  IInv'
PROOF
  <1> USE DEF IInv
  <1>1. SemaphoresSound' /\ UNCHANGED <<global, full>>
    BY Zenon DEF SemaphoresSound, Guard, Goto
  <1>2. TypeOK'
    BY <1>1, SMTT(30) DEF TypeOK, PCs, Kinds, Outcomes, Answer, CountShed, Guard, Goto
  <1>3. GlobalPlaces' /\ FullPlaces'
    BY <1>1, SMTT(30) DEF SemaphoresSound, Sound, TypeOK, GlobalPlaces, FullPlaces, Capped, Kinds, Guard, Goto
  <1> QED
    BY <1>1, <1>2, <1>3, Zenon

\* A woken full already has its permit assigned.
LEMMA WakeFullInv ==
    ASSUME IInv, NEW r \in Requests, WakeFull(r)
    PROVE  IInv'
PROOF
  <1> USE DEF IInv
  <1>1. SemaphoresSound' /\ UNCHANGED <<global, full>>
    BY Zenon DEF SemaphoresSound, WakeFull, Goto
  <1>2. TypeOK'
    BY <1>1, Zenon DEF TypeOK, PCs, Kinds, Outcomes, Answer, CountShed, WakeFull, Goto
  <1>3. GlobalPlaces' /\ FullPlaces'
    BY <1>1, ZenonT(30) DEF SemaphoresSound, Sound, TypeOK, GlobalPlaces, FullPlaces, Capped, Kinds, WakeFull, Goto
  <1> QED
    BY <1>1, <1>2, <1>3, Zenon

\* A woken request already has its permit assigned.
LEMMA WakeGlobalInv ==
    ASSUME IInv, NEW r \in Requests, WakeGlobal(r)
    PROVE  IInv'
PROOF
  <1> USE DEF IInv
  <1>1. SemaphoresSound' /\ UNCHANGED <<global, full>>
    BY Zenon DEF SemaphoresSound, WakeGlobal, Goto
  <1>2. TypeOK'
    BY <1>1, Zenon DEF TypeOK, PCs, Kinds, Outcomes, Answer, CountShed, WakeGlobal, Goto
  <1>3. GlobalPlaces' /\ FullPlaces'
    BY <1>1, SMTT(30) DEF SemaphoresSound, Sound, TypeOK, GlobalPlaces, FullPlaces, Capped, Kinds, WakeGlobal, Goto
  <1> QED
    BY <1>1, <1>2, <1>3, Zenon

\* The answer moves no permit.
LEMMA AdmitInv ==
    ASSUME IInv, NEW r \in Requests, Admit(r)
    PROVE  IInv'
PROOF
  <1> USE DEF IInv
  <1>1. SemaphoresSound' /\ UNCHANGED <<global, full>>
    BY Zenon DEF SemaphoresSound, Admit, Goto
  <1>2. TypeOK'
    BY <1>1, SMTT(30) DEF TypeOK, PCs, Kinds, Outcomes, Answer, CountShed, Admit, Goto
  <1>3. GlobalPlaces' /\ FullPlaces'
    BY <1>1 DEF SemaphoresSound, Sound, TypeOK, GlobalPlaces, FullPlaces, Capped, Kinds, Admit, Goto
  <1> QED
    BY <1>1, <1>2, <1>3, Zenon

\* Neither does dropping the gauge.
LEMMA ExitGuardInv ==
    ASSUME IInv, NEW r \in Requests, ExitGuard(r)
    PROVE  IInv'
PROOF
  <1> USE DEF IInv
  <1>1. SemaphoresSound' /\ UNCHANGED <<global, full>>
    BY Zenon DEF SemaphoresSound, ExitGuard, Goto
  <1>2. TypeOK'
    BY <1>1, SMTT(30) DEF TypeOK, PCs, Kinds, Outcomes, Answer, CountShed, ExitGuard, Goto
  <1>3. GlobalPlaces' /\ FullPlaces'
    BY <1>1 DEF SemaphoresSound, Sound, TypeOK, GlobalPlaces, FullPlaces, Capped, Kinds, ExitGuard, Goto
  <1> QED
    BY <1>1, <1>2, <1>3, Zenon

\* The sub-pool's fast path.
LEMMA TryFullInv ==
    ASSUME IInv, NEW r \in Requests, TryFull(r)
    PROVE  IInv'
PROOF
  <1> USE DEF IInv
  <1>1. IsFiniteSet(Requests) /\ Sound(full, Requests) /\ UNCHANGED global
    BY AdmissionAssumption, Zenon DEF SemaphoresSound, TryFull, Goto
  <1>2. CASE HasFree(full)
    <2>1. full' = Take(full, r) /\ HasFree(full) /\ r \notin full.held
      BY <1>1, <1>2, ZenonT(30) DEF TypeOK, Capped, GlobalPlaces, FullPlaces, TryFull, Goto
    <2>2. /\ Sound(full', Requests) /\ Permits(full') = Permits(full)
          /\ full'.held = full.held \cup {r} /\ Queued(full') = Queued(full)
      BY <1>1, <2>1, TakeSound
    <2>3. SemaphoresSound'
      BY <1>1, <2>2, Zenon DEF SemaphoresSound
    <2>4. TypeOK'
      BY <1>1, <2>2, <2>1, <1>2, ZenonT(30) DEF TypeOK, PCs, Kinds, Outcomes, Answer, CountShed, Sound, TryFull, Goto
    <2>5. GlobalPlaces'
      BY <1>1, <2>1, <2>2, <1>2, Zenon DEF TypeOK, GlobalPlaces, TryFull, Goto
    <2>6. FullPlaces'
      BY <1>1, <2>1, <2>2, <1>2, ZenonT(30) DEF TypeOK, FullPlaces, Capped, Kinds, TryFull, Goto
    <2> QED
      BY <2>3, <2>4, <2>5, <2>6, ZenonT(30)
  <1>3. CASE ~HasFree(full)
    <2>1. UNCHANGED full
      BY <1>1, <1>3, Zenon DEF TryFull, Goto
    <2>2. UNCHANGED Queued(full)
      BY <2>1, Zenon
    <2>3. SemaphoresSound'
      BY <1>1, <2>1, ZenonT(30) DEF SemaphoresSound
    <2>4. TypeOK'
      BY <1>1, <2>2, <2>1, <1>3, SMTT(30) DEF TypeOK, PCs, Kinds, Outcomes, Answer, CountShed, Sound, TryFull, Goto
    <2>5. GlobalPlaces'
      BY <1>1, <2>1, <2>2, <1>3, ZenonT(30) DEF TypeOK, GlobalPlaces, TryFull, Goto
    <2>6. FullPlaces'
      BY <1>1, <2>1, <2>2, <1>3, ZenonT(30) DEF TypeOK, FullPlaces, Capped, Kinds, TryFull, Goto
    <2> QED
      BY <2>3, <2>4, <2>5, <2>6, Zenon
  <1> QED
    BY <1>2, <1>3, Zenon

\* The global fast path.
LEMMA TryGlobalInv ==
    ASSUME IInv, NEW r \in Requests, TryGlobal(r)
    PROVE  IInv'
PROOF
  <1> USE DEF IInv
  <1>1. IsFiniteSet(Requests) /\ Sound(global, Requests) /\ UNCHANGED full
    BY AdmissionAssumption, Zenon DEF SemaphoresSound, TryGlobal, Goto
  <1>2. CASE HasFree(global)
    <2>1. global' = Take(global, r) /\ HasFree(global) /\ r \notin global.held
      BY <1>1, <1>2, ZenonT(30) DEF TypeOK, Capped, GlobalPlaces, FullPlaces, TryGlobal, Goto
    <2>2. /\ Sound(global', Requests) /\ Permits(global') = Permits(global)
          /\ global'.held = global.held \cup {r} /\ Queued(global') = Queued(global)
      BY <1>1, <2>1, TakeSound
    <2>3. SemaphoresSound'
      BY <1>1, <2>2, ZenonT(30) DEF SemaphoresSound
    <2>4. TypeOK'
      BY <1>1, <2>2, <2>1, <1>2 DEF TypeOK, PCs, Kinds, Outcomes, Answer, CountShed, Sound, TryGlobal, Goto
    <2>5. GlobalPlaces'
      BY <1>1, <2>1, <2>2, <1>2, ZenonT(30) DEF TypeOK, GlobalPlaces, TryGlobal, Goto
    <2>6. FullPlaces'
      BY <1>1, <2>1, <2>2, <1>2, SMTT(30) DEF TypeOK, FullPlaces, Capped, Kinds, TryGlobal, Goto
    <2> QED
      BY <2>3, <2>4, <2>5, <2>6, Zenon
  <1>3. CASE ~HasFree(global)
    <2>1. UNCHANGED global
      BY <1>1, <1>3, Zenon DEF TryGlobal, Goto
    <2>2. UNCHANGED Queued(global)
      BY <2>1, Zenon
    <2>3. SemaphoresSound'
      BY <1>1, <2>1, Zenon DEF SemaphoresSound
    <2>4. TypeOK'
      BY <1>1, <2>2, <2>1, <1>3, ZenonT(30) DEF TypeOK, PCs, Kinds, Outcomes, Answer, CountShed, Sound, TryGlobal, Goto
    <2>5. GlobalPlaces'
      BY <1>1, <2>1, <2>2, <1>3, ZenonT(30) DEF TypeOK, GlobalPlaces, TryGlobal, Goto
    <2>6. FullPlaces'
      BY <1>1, <2>1, <2>2, <1>3 DEF TypeOK, FullPlaces, Capped, Kinds, TryGlobal, Goto
    <2> QED
      BY <2>3, <2>4, <2>5, <2>6, Zenon
  <1> QED
    BY <1>2, <1>3, Zenon

\* The advanced fast path lets go of the sub-pool permit.
LEMMA DropFullInv ==
    ASSUME IInv, NEW r \in Requests, DropFull(r)
    PROVE  IInv'
PROOF
  <1> USE DEF IInv
  <1>1. IsFiniteSet(Requests) /\ Sound(full, Requests) /\ UNCHANGED global
    BY AdmissionAssumption, ZenonT(30) DEF SemaphoresSound, DropFull, Goto
  <1>2. IInv'
    <2>1. full' = Release(full, r) /\ r \in full.held
      BY <1>1, Zenon DEF TypeOK, Capped, GlobalPlaces, FullPlaces, DropFull, Goto
    <2>2. /\ Sound(full', Requests) /\ Permits(full') = Permits(full)
          /\ /\ r \notin full'.held \cup Queued(full')
             /\ full'.held \cup Queued(full') = (full.held \cup Queued(full)) \ {r}
             /\ full.held \ {r} \subseteq full'.held
             /\ Queued(full') \subseteq Queued(full)
      BY <1>1, <2>1, ReleaseSound, Zenon
    <2>3. SemaphoresSound'
      BY <1>1, <2>2, Zenon DEF SemaphoresSound
    <2>4. TypeOK'
      BY <1>1, <2>2, <2>1, ZenonT(30) DEF TypeOK, PCs, Kinds, Outcomes, Answer, CountShed, Sound, DropFull, Goto
    <2>5. GlobalPlaces'
      BY <1>1, <2>1, <2>2, Zenon DEF TypeOK, GlobalPlaces, DropFull, Goto
    <2>6. FullPlaces'
      BY <1>1, <2>1, <2>2, ZenonT(30) DEF TypeOK, FullPlaces, Capped, Kinds, DropFull, Goto
    <2> QED
      BY <2>3, <2>4, <2>5, <2>6, Zenon
  <1> QED
    BY <1>2, Zenon

\* A full takes a sub-pool permit or queues for one.
LEMMA PollFullInv ==
    ASSUME IInv, NEW r \in Requests, PollFull(r)
    PROVE  IInv'
PROOF
  <1> USE DEF IInv
  <1>1. IsFiniteSet(Requests) /\ Sound(full, Requests) /\ UNCHANGED global
    BY AdmissionAssumption, Zenon DEF SemaphoresSound, PollFull, Goto
  <1>2. CASE HasFree(full)
    <2>1. full' = Take(full, r) /\ HasFree(full) /\ r \notin full.held
      BY <1>1, <1>2, ZenonT(30) DEF TypeOK, Capped, GlobalPlaces, FullPlaces, PollFull, Goto
    <2>2. /\ Sound(full', Requests) /\ Permits(full') = Permits(full)
          /\ full'.held = full.held \cup {r} /\ Queued(full') = Queued(full)
      BY <1>1, <2>1, TakeSound
    <2>3. SemaphoresSound'
      BY <1>1, <2>2, Zenon DEF SemaphoresSound
    <2>4. TypeOK'
      BY <1>1, <2>2, <2>1, <1>2, ZenonT(30) DEF TypeOK, PCs, Kinds, Outcomes, Answer, CountShed, Sound, PollFull, Goto
    <2>5. GlobalPlaces'
      BY <1>1, <2>1, <2>2, <1>2, Zenon DEF TypeOK, GlobalPlaces, PollFull, Goto
    <2>6. FullPlaces'
      BY <1>1, <2>1, <2>2, <1>2, ZenonT(30) DEF TypeOK, FullPlaces, Capped, Kinds, PollFull, Goto
    <2> QED
      BY <2>3, <2>4, <2>5, <2>6, Zenon
  <1>3. CASE ~HasFree(full)
    <2>1. full' = Park(full, r) /\ ~HasFree(full) /\ r \notin full.held /\ r \notin Queued(full)
      BY <1>1, <1>3, Zenon DEF TypeOK, Capped, GlobalPlaces, FullPlaces, PollFull, Goto
    <2>2. /\ Sound(full', Requests) /\ Permits(full') = Permits(full)
          /\ full'.held = full.held /\ Queued(full') = Queued(full) \cup {r}
      BY <1>1, <2>1, ParkSound, Zenon
    <2>3. SemaphoresSound'
      BY <1>1, <2>2, Zenon DEF SemaphoresSound
    <2>4. TypeOK'
      BY <1>1, <2>2, <2>1, <1>3, ZenonT(30) DEF TypeOK, PCs, Kinds, Outcomes, Answer, CountShed, Sound, PollFull, Goto
    <2>5. GlobalPlaces'
      BY <1>1, <2>1, <2>2, <1>3, ZenonT(30) DEF TypeOK, GlobalPlaces, PollFull, Goto
    <2>6. FullPlaces'
      BY <1>1, <2>1, <2>2, <1>3, ZenonT(30) DEF TypeOK, FullPlaces, Capped, Kinds, PollFull, Goto
    <2> QED
      BY <2>3, <2>4, <2>5, <2>6, Zenon
  <1> QED
    BY <1>2, <1>3, Zenon

\* A request takes a global permit or queues for one.
LEMMA PollGlobalInv ==
    ASSUME IInv, NEW r \in Requests, PollGlobal(r)
    PROVE  IInv'
PROOF
  <1> USE DEF IInv
  <1>1. IsFiniteSet(Requests) /\ Sound(global, Requests) /\ UNCHANGED full
    BY AdmissionAssumption, Zenon DEF SemaphoresSound, PollGlobal, Goto
  <1>2. CASE HasFree(global)
    <2>1. global' = Take(global, r) /\ HasFree(global) /\ r \notin global.held
      BY <1>1, <1>2, Zenon DEF TypeOK, Capped, GlobalPlaces, FullPlaces, PollGlobal, Goto
    <2>2. /\ Sound(global', Requests) /\ Permits(global') = Permits(global)
          /\ global'.held = global.held \cup {r} /\ Queued(global') = Queued(global)
      BY <1>1, <2>1, TakeSound
    <2>3. SemaphoresSound'
      BY <1>1, <2>2, Zenon DEF SemaphoresSound
    <2>4. TypeOK'
      BY <1>1, <2>2, <2>1, <1>2, ZenonT(30) DEF TypeOK, PCs, Kinds, Outcomes, Answer, CountShed, Sound, PollGlobal, Goto
    <2>5. GlobalPlaces'
      BY <1>1, <2>1, <2>2, <1>2, Zenon DEF TypeOK, GlobalPlaces, PollGlobal, Goto
    <2>6. FullPlaces'
      BY <1>1, <2>1, <2>2, <1>2, ZenonT(30) DEF TypeOK, FullPlaces, Capped, Kinds, PollGlobal, Goto
    <2> QED
      BY <2>3, <2>4, <2>5, <2>6, Zenon
  <1>3. CASE ~HasFree(global)
    <2>1. global' = Park(global, r) /\ ~HasFree(global) /\ r \notin global.held /\ r \notin Queued(global)
      BY <1>1, <1>3, Zenon DEF TypeOK, Capped, GlobalPlaces, FullPlaces, PollGlobal, Goto
    <2>2. /\ Sound(global', Requests) /\ Permits(global') = Permits(global)
          /\ global'.held = global.held /\ Queued(global') = Queued(global) \cup {r}
      BY <1>1, <2>1, ParkSound, Zenon
    <2>3. SemaphoresSound'
      BY <1>1, <2>2, Zenon DEF SemaphoresSound
    <2>4. TypeOK'
      BY <1>1, <2>2, <2>1, <1>3, ZenonT(30) DEF TypeOK, PCs, Kinds, Outcomes, Answer, CountShed, Sound, PollGlobal, Goto
    <2>5. GlobalPlaces'
      BY <1>1, <2>1, <2>2, <1>3, ZenonT(30) DEF TypeOK, GlobalPlaces, PollGlobal, Goto
    <2>6. FullPlaces'
      BY <1>1, <2>1, <2>2, <1>3 DEF TypeOK, FullPlaces, Capped, Kinds, PollGlobal, Goto
    <2> QED
      BY <2>3, <2>4, <2>5, <2>6, Zenon
  <1> QED
    BY <1>2, <1>3, Zenon

\* A timeout or a disconnect while parked for the sub-pool.
LEMMA AbandonFullInv ==
    ASSUME IInv, NEW r \in Requests, pc[r] = "await_full", Timeout(r) \/ Cancel(r)
    PROVE  IInv'
PROOF
  <1> USE DEF IInv
  <1>1. IsFiniteSet(Requests) /\ Sound(full, Requests) /\ UNCHANGED global
    BY AdmissionAssumption, Zenon DEF SemaphoresSound, Timeout, Cancel, AbandonWait, Goto
  <1>2. IInv'
    <2>1. full' = Abandon(full, r) /\ r \in full.held \cup Queued(full)
      BY <1>1, Zenon DEF TypeOK, Capped, GlobalPlaces, FullPlaces, Timeout, Cancel, AbandonWait, Goto
    <2>2. /\ Sound(full', Requests) /\ Permits(full') = Permits(full)
          /\ /\ r \notin full'.held \cup Queued(full')
             /\ full'.held \cup Queued(full') = (full.held \cup Queued(full)) \ {r}
             /\ full.held \ {r} \subseteq full'.held
             /\ Queued(full') \subseteq Queued(full)
      BY <1>1, <2>1, AbandonSound, Zenon
    <2>3. SemaphoresSound'
      BY <1>1, <2>2, ZenonT(30) DEF SemaphoresSound
    <2>4. TypeOK'
      BY <1>1, <2>2, <2>1 DEF TypeOK, PCs, Kinds, Outcomes, Answer, CountShed, Sound, Timeout, Cancel, AbandonWait, Goto
    <2>5. /\ pc[r] = "await_full" /\ pc' = [pc EXCEPT ![r] = "exit_full"]
          /\ UNCHANGED kind /\ pc \in [Requests -> PCs]
      BY Zenon DEF TypeOK, FullPlaces, Timeout, Cancel, AbandonWait, Goto
    <2>6. GlobalPlaces'
      BY <1>1, <2>2, <2>5, Zenon DEF GlobalPlaces
    <2>7. FullPlaces'
      BY <1>1, <2>2, <2>5, Zenon DEF FullPlaces, Capped
    <2> QED
      BY <2>3, <2>4, <2>6, <2>7, ZenonT(30)
  <1> QED
    BY <1>2, Zenon

\* A timeout or a disconnect while parked for the global permit.
LEMMA AbandonGlobalInv ==
    ASSUME IInv, NEW r \in Requests, pc[r] # "await_full", Timeout(r) \/ Cancel(r)
    PROVE  IInv'
PROOF
  <1> USE DEF IInv
  <1>1. IsFiniteSet(Requests) /\ Sound(global, Requests) /\ UNCHANGED full
    BY AdmissionAssumption, Zenon DEF SemaphoresSound, Timeout, Cancel, AbandonWait, Goto
  <1>2. IInv'
    <2>1. global' = Abandon(global, r) /\ r \in global.held \cup Queued(global)
      BY <1>1, Zenon DEF TypeOK, Capped, GlobalPlaces, FullPlaces, Timeout, Cancel, AbandonWait, Goto
    <2>2. /\ Sound(global', Requests) /\ Permits(global') = Permits(global)
          /\ /\ r \notin global'.held \cup Queued(global')
             /\ global'.held \cup Queued(global') = (global.held \cup Queued(global)) \ {r}
             /\ global.held \ {r} \subseteq global'.held
             /\ Queued(global') \subseteq Queued(global)
      BY <1>1, <2>1, AbandonSound, ZenonT(30)
    <2>3. SemaphoresSound'
      BY <1>1, <2>2, ZenonT(30) DEF SemaphoresSound
    <2>4. TypeOK'
      BY <1>1, <2>2, <2>1 DEF TypeOK, PCs, Kinds, Outcomes, Answer, CountShed, Sound, Timeout, Cancel, AbandonWait, Goto
    <2>5. /\ pc[r] = "await_global" /\ pc' = [pc EXCEPT ![r] = IF Capped(r) THEN "exit_full" ELSE "exit_guard"]
          /\ UNCHANGED kind /\ pc \in [Requests -> PCs]
      BY Zenon DEF TypeOK, FullPlaces, Timeout, Cancel, AbandonWait, Goto
    <2>6. GlobalPlaces'
      BY <1>1, <2>2, <2>5, Zenon DEF GlobalPlaces
    <2>7. FullPlaces'
      BY <1>1, <2>2, <2>5, ZenonT(30) DEF FullPlaces, Capped
    <2> QED
      BY <2>3, <2>4, <2>6, <2>7, ZenonT(30)
  <1> QED
    BY <1>2, Zenon

\* A rejected request drops its sub-pool permit.
LEMMA ExitFullInv ==
    ASSUME IInv, NEW r \in Requests, ExitFull(r)
    PROVE  IInv'
PROOF
  <1> USE DEF IInv
  <1>1. IsFiniteSet(Requests) /\ Sound(full, Requests) /\ UNCHANGED global
    BY AdmissionAssumption, ZenonT(30) DEF SemaphoresSound, ExitFull, Goto
  <1>2. CASE r \in full.held
    <2>1. full' = Release(full, r) /\ r \in full.held
      BY <1>1, <1>2, ZenonT(30) DEF TypeOK, Capped, GlobalPlaces, FullPlaces, ExitFull, Goto
    <2>2. /\ Sound(full', Requests) /\ Permits(full') = Permits(full)
          /\ /\ r \notin full'.held \cup Queued(full')
             /\ full'.held \cup Queued(full') = (full.held \cup Queued(full)) \ {r}
             /\ full.held \ {r} \subseteq full'.held
             /\ Queued(full') \subseteq Queued(full)
      BY <1>1, <2>1, ReleaseSound, Zenon
    <2>3. SemaphoresSound'
      BY <1>1, <2>2, Zenon DEF SemaphoresSound
    <2>4. TypeOK'
      BY <1>1, <2>2, <2>1, <1>2, ZenonT(30) DEF TypeOK, PCs, Kinds, Outcomes, Answer, CountShed, Sound, ExitFull, Goto
    <2>5. GlobalPlaces'
      BY <1>1, <2>1, <2>2, <1>2, ZenonT(30) DEF TypeOK, GlobalPlaces, ExitFull, Goto
    <2>6. FullPlaces'
      BY <1>1, <2>1, <2>2, <1>2, ZenonT(30) DEF TypeOK, FullPlaces, Capped, Kinds, ExitFull, Goto
    <2> QED
      BY <2>3, <2>4, <2>5, <2>6, Zenon
  <1>3. CASE r \notin full.held
    <2>1. UNCHANGED full
      BY <1>1, <1>3, ZenonT(30) DEF ExitFull, Goto
    <2>2. UNCHANGED Queued(full)
      BY <2>1, Zenon
    <2>3. SemaphoresSound'
      BY <1>1, <2>1, Zenon DEF SemaphoresSound
    <2>4. TypeOK'
      BY <1>1, <2>2, <2>1, <1>3, ZenonT(30) DEF TypeOK, PCs, Kinds, Outcomes, Answer, CountShed, Sound, ExitFull, Goto
    <2>5. GlobalPlaces'
      BY <1>1, <2>1, <2>2, <1>3, ZenonT(30) DEF TypeOK, GlobalPlaces, ExitFull, Goto
    <2>6. FullPlaces'
      BY <1>1, <2>1, <2>2, <1>3, ZenonT(30) DEF TypeOK, FullPlaces, Capped, Kinds, ExitFull, Goto
    <2> QED
      BY <2>3, <2>4, <2>5, <2>6, Zenon
  <1> QED
    BY <1>2, <1>3, Zenon

\* Finished work drops the global permit.
LEMMA FinishGlobalInv ==
    ASSUME IInv, NEW r \in Requests, FinishGlobal(r)
    PROVE  IInv'
PROOF
  <1> USE DEF IInv
  <1>1. IsFiniteSet(Requests) /\ Sound(global, Requests) /\ UNCHANGED full
    BY AdmissionAssumption, ZenonT(30) DEF SemaphoresSound, FinishGlobal, Goto
  <1>2. IInv'
    <2>1. global' = Release(global, r) /\ r \in global.held
      BY <1>1, ZenonT(30) DEF TypeOK, Capped, GlobalPlaces, FullPlaces, FinishGlobal, Goto
    <2>2. /\ Sound(global', Requests) /\ Permits(global') = Permits(global)
          /\ /\ r \notin global'.held \cup Queued(global')
             /\ global'.held \cup Queued(global') = (global.held \cup Queued(global)) \ {r}
             /\ global.held \ {r} \subseteq global'.held
             /\ Queued(global') \subseteq Queued(global)
      BY <1>1, <2>1, ReleaseSound, Zenon
    <2>3. SemaphoresSound'
      BY <1>1, <2>2, Zenon DEF SemaphoresSound
    <2>4. TypeOK'
      BY <1>1, <2>2, <2>1, ZenonT(30) DEF TypeOK, PCs, Kinds, Outcomes, Answer, CountShed, Sound, FinishGlobal, Goto
    <2>5. GlobalPlaces'
      BY <1>1, <2>1, <2>2, Zenon DEF TypeOK, GlobalPlaces, FinishGlobal, Goto
    <2>6. FullPlaces'
      BY <1>1, <2>1, <2>2, ZenonT(30) DEF TypeOK, FullPlaces, Capped, Kinds, FinishGlobal, Goto
    <2> QED
      BY <2>3, <2>4, <2>5, <2>6, Zenon
  <1> QED
    BY <1>2, Zenon

\* Finished work drops the sub-pool permit.
LEMMA FinishFullInv ==
    ASSUME IInv, NEW r \in Requests, FinishFull(r)
    PROVE  IInv'
PROOF
  <1> USE DEF IInv
  <1>1. IsFiniteSet(Requests) /\ Sound(full, Requests) /\ UNCHANGED global
    BY AdmissionAssumption, ZenonT(30) DEF SemaphoresSound, FinishFull, Goto
  <1>2. IInv'
    <2>1. full' = Release(full, r) /\ r \in full.held
      BY <1>1, ZenonT(30) DEF TypeOK, Capped, GlobalPlaces, FullPlaces, FinishFull, Goto
    <2>2. /\ Sound(full', Requests) /\ Permits(full') = Permits(full)
          /\ /\ r \notin full'.held \cup Queued(full')
             /\ full'.held \cup Queued(full') = (full.held \cup Queued(full)) \ {r}
             /\ full.held \ {r} \subseteq full'.held
             /\ Queued(full') \subseteq Queued(full)
      BY <1>1, <2>1, ReleaseSound, Zenon
    <2>3. SemaphoresSound'
      BY <1>1, <2>2, Zenon DEF SemaphoresSound
    <2>4. TypeOK'
      BY <1>1, <2>2, <2>1, ZenonT(30) DEF TypeOK, PCs, Kinds, Outcomes, Answer, CountShed, Sound, FinishFull, Goto
    <2>5. GlobalPlaces'
      BY <1>1, <2>1, <2>2, ZenonT(30) DEF TypeOK, GlobalPlaces, FinishFull, Goto
    <2>6. FullPlaces'
      BY <1>1, <2>1, <2>2, ZenonT(30) DEF TypeOK, FullPlaces, Capped, Kinds, FinishFull, Goto
    <2> QED
      BY <2>3, <2>4, <2>5, <2>6, Zenon
  <1> QED
    BY <1>2, Zenon

\* Every step of the pool keeps the inductive invariant.
LEMMA NextInv == IInv /\ [Next]_vars => IInv'
PROOF
  <1> SUFFICES ASSUME IInv, [Next]_vars PROVE IInv'
    BY Zenon
  <1>1. CASE UNCHANGED vars
    BY <1>1, Zenon DEF vars, IInv, TypeOK, SemaphoresSound, GlobalPlaces, FullPlaces, Capped
  <1>2. ASSUME NEW r \in Requests, NEW k \in Kinds, Acquire(r, k)
        PROVE  IInv'
    BY <1>2, AcquireInv, Zenon
  <1>3. ASSUME NEW r \in Requests, Run(r)
        PROVE  IInv'
    <2>1. CASE TryFull(r)
      BY <2>1, TryFullInv, Zenon
    <2>2. CASE TryGlobal(r)
      BY <2>2, TryGlobalInv, ZenonT(30)
    <2>3. CASE DropFull(r)
      BY <2>3, DropFullInv, Zenon
    <2>4. CASE CheckDepth(r)
      BY <2>4, CheckDepthInv, Zenon
    <2>5. CASE Guard(r)
      BY <2>5, GuardInv, Zenon
    <2>6. CASE PollFull(r)
      BY <2>6, PollFullInv, Zenon
    <2>7. CASE WakeFull(r)
      BY <2>7, WakeFullInv, Zenon
    <2>8. CASE PollGlobal(r)
      BY <2>8, PollGlobalInv, Zenon
    <2>9. CASE WakeGlobal(r)
      BY <2>9, WakeGlobalInv, Zenon
    <2>10. CASE Admit(r)
      BY <2>10, AdmitInv, Zenon
    <2>11. CASE ExitFull(r)
      BY <2>11, ExitFullInv, Zenon
    <2>12. CASE ExitGuard(r)
      BY <2>12, ExitGuardInv, Zenon
    <2>13. CASE FinishFull(r)
      BY <2>13, FinishFullInv, Zenon
    <2> QED
      BY <1>3, <2>1, <2>2, <2>3, <2>4, <2>5, <2>6, <2>7, <2>8, <2>9, <2>10, <2>11, <2>12, <2>13, ZenonT(30) DEF Run
  <1>4. ASSUME NEW r \in Requests, Timeout(r) \/ Cancel(r)
        PROVE  IInv'
    BY <1>4, AbandonFullInv, AbandonGlobalInv, ZenonT(30)
  <1>5. ASSUME NEW r \in Requests, FinishGlobal(r)
        PROVE  IInv'
    BY <1>5, FinishGlobalInv, Zenon
  <1> QED
    BY <1>1, <1>2, <1>3, <1>4, <1>5, Zenon DEF Next

\* The invariant holds throughout every behaviour of the pool.
THEOREM Invariance == Spec => []IInv
PROOF
  <1> QED
    BY InitInv, NextInv, PTL DEF Spec

\* The pool's variables keep their types (acquire, the permits' drops and the
\* gauges of lib.rs).
THEOREM TypeCorrect == Spec => []TypeOK
PROOF
  <1>1. IInv => TypeOK
    BY Zenon DEF IInv
  <1> QED
    BY <1>1, Invariance, PTL

\* No admission, timeout, disconnect or hand-over loses or duplicates a
\* permit, in either mode.
THEOREM PermitsAreConserved == Spec => []PermitsConserved
PROOF
  <1>1. IInv => PermitsConserved
    BY Zenon DEF IInv, SemaphoresSound, Permits, PermitsConserved
  <1> QED
    BY <1>1, Invariance, PTL

\* A request holds, and is parked on, exactly what its place in acquire calls
\* for: one that is over holds nothing, and a capped full has its sub-pool
\* permit before it contends for a global one.
THEOREM PlacesAreRespected == Spec => []PermitPlaces
PROOF
  <1>1. IInv => PermitPlaces
    BY ZenonT(30) DEF IInv, PermitPlaces
  <1> QED
    BY <1>1, Invariance, PTL

\* Nobody is parked while a permit is free.
THEOREM NoWakeupIsLost == Spec => []NoLostWakeup
PROOF
  <1>1. IInv => NoLostWakeup
    BY Zenon DEF IInv, SemaphoresSound, Sound, NoLostWakeup
  <1> QED
    BY <1>1, Invariance, PTL

\* In advanced mode a full that holds or contends for a global permit has its
\* sub-pool permit already.
LEMMA FullLaneFirst ==
    ASSUME IInv, Mode = "advanced"
    PROVE  Fulls \cap (global.held \cup Queued(global)) \subseteq full.held
PROOF
  <1> SUFFICES ASSUME NEW r \in Requests, kind[r] = "full", r \in global.held \cup Queued(global)
               PROVE  r \in full.held
    BY Zenon DEF Fulls
  <1>1. pc[r] \in {"await_global", "acquired", "running"}
    BY Zenon DEF IInv, GlobalPlaces
  <1> QED
    BY <1>1, Zenon DEF IInv, FullPlaces, Capped

\* Counting the holders: a subset of full.held has at most full_max members.
LEMMA FullHoldersBounded ==
    ASSUME IInv, NEW S, S \subseteq full.held
    PROVE  /\ IsFiniteSet(S) /\ Cardinality(S) \in Nat
           /\ Cardinality(S) <= full_max
PROOF
  <1>1. full.held \subseteq Requests /\ full.free \in Nat
    BY Zenon DEF IInv, TypeOK, SemaphoreType
  <1>2. IsFiniteSet(full.held)
    BY <1>1, AdmissionAssumption, FS_Subset, ZenonT(30)
  <1>3. IsFiniteSet(S) /\ Cardinality(S) <= Cardinality(full.held)
    BY <1>2, FS_Subset, Zenon
  <1>4. Cardinality(S) \in Nat /\ Cardinality(full.held) \in Nat
    BY <1>2, <1>3, FS_CardinalityType, Zenon
  <1>5. full.free + Cardinality(full.held) = full_max
    BY ZenonT(30) DEF IInv, SemaphoresSound, Permits
  <1> QED
    BY <1>1, <1>3, <1>4, <1>5, Sizing, SMTT(30)

\* The tile floor: fulls never hold or queue for more than the permits the
\* tiles can spare (lib.rs:6-9), for every pool size and ratio.
THEOREM TileFloorHolds == Spec => []TileFloor
PROOF
  <1>1. IInv => TileFloor
    <2> SUFFICES ASSUME IInv, Mode = "advanced"
                 PROVE  Cardinality(Fulls \cap (global.held \cup Queued(global)))
                          <= permits_total - tile_min
      BY Zenon DEF TileFloor
    <2>1. Cardinality(Fulls \cap (global.held \cup Queued(global))) <= full_max
      BY FullLaneFirst, FullHoldersBounded, Zenon
    <2> QED
      BY <2>1, Sizing
  <1> QED
    BY <1>1, Invariance, PTL

\* In advanced mode a tile that has to wait waits while tiles hold at least
\* the tile floor (lib.rs:354-355).
THEOREM TilesWaitBehindTiles ==
    ASSUME Mode = "advanced"
    PROVE  Spec => []TileBlocksBehindTiles
PROOF
  <1>1. IInv => TileBlocksBehindTiles
    <2> SUFFICES ASSUME IInv, Queued(global) \ Fulls # {}
                 PROVE  Cardinality(global.held \ Fulls) >= tile_min
      BY Zenon DEF TileBlocksBehindTiles
    <2> DEFINE H == global.held
    <2>1. global.queue # <<>> /\ global.queue \in Seq(Requests)
      BY EmptyQueue, Zenon DEF Queued, IInv, TypeOK, SemaphoreType
    <2>2. global.free = 0 /\ global.free + Cardinality(H) = permits_total
      BY <2>1, Zenon DEF IInv, SemaphoresSound, Sound, Permits
    <2>3. IsFiniteSet(H)
      BY AdmissionAssumption, FS_Subset, Zenon DEF IInv, TypeOK, SemaphoreType
    <2>4. IsFiniteSet(H \cap Fulls) /\ Cardinality(H \cap Fulls) \in Nat
          /\ Cardinality(H \cap Fulls) <= full_max
      BY FullLaneFirst, FullHoldersBounded, Zenon
    <2>5. Cardinality(H \ Fulls) = Cardinality(H) - Cardinality(H \cap Fulls)
      BY <2>3, FS_Difference, Zenon
    <2>6. Cardinality(H) \in Nat
      BY <2>3, FS_CardinalityType, ZenonT(30)
    <2> QED
      BY <2>2, <2>4, <2>5, <2>6, Sizing, SMTT(30)
  <1> QED
    BY <1>1, Invariance, PTL

------------------------------------------------------------------------------
(* The metrics.  Each gauge and counter is compared with the set it counts;*)
(* a step of one request changes each set by that request at most.         *)

Undecided == {"idle", "try_full", "try_global", "unfull", "depth", "guard", "poll_full",
              "await_full", "poll_global", "await_global", "acquired"}

Rejected(k) == {r \in Requests : kind[r] = k /\ outcome[r] \in {"shed", "timed_out"}}

\* The fulls that went on without a permit of the sub-pool, until they let go
\* of the global one.
Bypassing ==
    {r \in Fulls : /\ r \notin full.held
                   /\ pc[r] \in {"try_global", "depth", "guard", "poll_global", "await_global",
                                 "acquired", "running"}}

Counting ==
    /\ \A r \in Requests : pc[r] \in Undecided => outcome[r] = "none"
    /\ \A k \in Kinds : waiting[k] = Cardinality(Waiters(k)) /\ shed[k] = Cardinality(Rejected(k))
    /\ Mode = "basic" => Cardinality(Bypassing) <= shadow

LEMMA InitCounting == Init => Counting
PROOF
  <1> SUFFICES ASSUME Init PROVE Counting
    BY Zenon
  <1>1. \A k \in Kinds : Waiters(k) = {} /\ Rejected(k) = {}
    BY Zenon DEF Init, Waiters, Rejected, Guarded
  <1>2. Bypassing = {}
    BY Zenon DEF Init, Bypassing, Fulls
  <1> QED
    BY <1>1, <1>2, FS_EmptySet, SMTT(30) DEF Init, Counting, Kinds, Undecided

LEMMA OneMore ==
    ASSUME NEW S, S \subseteq Requests, NEW r \in Requests, r \notin S
    PROVE  Cardinality(S \cup {r}) = Cardinality(S) + 1
PROOF
  BY AdmissionAssumption, FS_Subset, FS_AddElement, Zenon

LEMMA OneLess ==
    ASSUME NEW S, S \subseteq Requests, NEW r \in S
    PROVE  Cardinality(S \ {r}) = Cardinality(S) - 1
PROOF
  BY AdmissionAssumption, FS_Subset, FS_RemoveElement, Zenon

\* A step of a request moves and answers no other; only the first sets its kind.
LEMMA Actor ==
    ASSUME IInv, NEW r \in Requests, Run(r) \/ Timeout(r) \/ Cancel(r) \/ FinishGlobal(r)
    PROVE  /\ UNCHANGED kind
           /\ pc' = [pc EXCEPT ![r] = pc'[r]] /\ outcome' = [outcome EXCEPT ![r] = outcome'[r]]
PROOF
  <1>1. UNCHANGED kind
    BY Zenon DEF Run, TryFull, TryGlobal, DropFull, CheckDepth, Guard, PollFull, WakeFull, PollGlobal,
           WakeGlobal, Admit, ExitFull, ExitGuard, FinishFull, Timeout, Cancel, AbandonWait, FinishGlobal
  <1>2. \E label : Goto(r, label)
    BY Zenon DEF Run, TryFull, TryGlobal, DropFull, CheckDepth, Guard, PollFull, WakeFull, PollGlobal,
           WakeGlobal, Admit, ExitFull, ExitGuard, FinishFull, Timeout, Cancel, AbandonWait, FinishGlobal
  <1>3. UNCHANGED outcome \/ \E o : Answer(r, o)
    BY Zenon DEF Run, TryFull, TryGlobal, DropFull, CheckDepth, Guard, PollFull, WakeFull, PollGlobal,
           WakeGlobal, Admit, ExitFull, ExitGuard, FinishFull, Timeout, Cancel, AbandonWait, FinishGlobal
  <1> QED
    BY <1>1, <1>2, <1>3, Zenon DEF IInv, TypeOK, Goto, Answer

Actions(r) == Run(r) \/ Timeout(r) \/ Cancel(r) \/ FinishGlobal(r)

LEMMA UndecidedStep ==
    ASSUME IInv, Counting, NEW r \in Requests, Actions(r)
    PROVE  \A q \in Requests : pc'[q] \in Undecided => outcome'[q] = "none"
PROOF
  <1>1. pc'[r] \in Undecided => pc[r] \in Undecided /\ UNCHANGED outcome
    <2> USE DEF Goto, Answer, Undecided, IInv, TypeOK, Actions
    <2>1. CASE TryFull(r) \/ DropFull(r) \/ Guard(r) \/ PollFull(r) \/ WakeFull(r) \/ PollGlobal(r)
               \/ WakeGlobal(r)
      BY <2>1, Zenon DEF TryFull, DropFull, Guard, PollFull, WakeFull, PollGlobal, WakeGlobal
    <2>2. CASE TryGlobal(r) \/ CheckDepth(r) \/ Admit(r)
      BY <2>2, Zenon DEF TryGlobal, CheckDepth, Admit
    <2>3. CASE ExitFull(r) \/ ExitGuard(r) \/ FinishFull(r) \/ FinishGlobal(r)
      BY <2>3, Zenon DEF ExitFull, ExitGuard, FinishFull, FinishGlobal
    <2>4. CASE Timeout(r) \/ Cancel(r)
      BY <2>4, Zenon DEF Timeout, Cancel, AbandonWait
    <2> QED
      BY <2>1, <2>2, <2>3, <2>4, ZenonT(30) DEF Run
  <1>2. \A q \in Requests \ {r} : pc'[q] = pc[q] /\ outcome'[q] = outcome[q]
    BY Actor, ZenonT(30) DEF IInv, TypeOK, Actions
  <1> QED
    BY <1>1, <1>2, Zenon DEF Counting

\* WaitGuard: the gauge goes up and down with the request that is under it.
LEMMA WaitingStep ==
    ASSUME IInv, Counting, NEW r \in Requests, Actions(r)
    PROVE  \A k \in Kinds : waiting'[k] = Cardinality(Waiters(k)')
PROOF
  <1> DEFINE Waits(q) == pc[q] \in Guarded \/ (pc[q] = "exit_full" /\ Mode = "advanced")
  <1>0. PICK mine \in Kinds : mine = kind[r]
    BY Zenon DEF IInv, TypeOK
  <1>1. /\ UNCHANGED kind /\ mine \in Kinds
        /\ \A q \in Requests \ {r} : Waits(q)' = Waits(q)
    <2>1. UNCHANGED kind /\ mine \in Kinds
      BY Actor, Zenon DEF IInv, TypeOK, Actions
    <2>2. \A q \in Requests \ {r} : pc'[q] = pc[q]
      BY Actor, ZenonT(30) DEF IInv, TypeOK, Actions
    <2> QED
      BY <2>1, <2>2, Zenon
  <1>2. /\ \A k \in Kinds : Waiters(k) = {q \in Requests : kind[q] = k /\ Waits(q)}
        /\ \A k \in Kinds : Waiters(k)' = {q \in Requests : kind[q] = k /\ Waits(q)'}
    BY <1>1, Zenon DEF Waiters
  <1>3. waiting \in [Kinds -> Int]
    BY Zenon DEF IInv, TypeOK
  <1>4. CASE Guard(r)
    <2>1. waiting' = [waiting EXCEPT ![mine] = @ + 1] /\ ~Waits(r) /\ Waits(r)'
      BY <1>0, <1>4, ZenonT(30) DEF Guard, Goto, Guarded, IInv, TypeOK
    <2> HIDE DEF Waits
    <2>2. /\ Waiters(mine)' = Waiters(mine) \cup {r} /\ r \notin Waiters(mine) /\ Waiters(mine) \subseteq Requests
          /\ \A k \in Kinds \ {mine} : Waiters(k)' = Waiters(k)
      BY <1>0, <1>1, <1>2, <2>1, SMTT(30)
    <2>3. Cardinality(Waiters(mine)') = Cardinality(Waiters(mine)) + 1
      BY <2>2, OneMore, Zenon
    <2> QED
      BY <1>1, <1>3, <2>1, <2>2, <2>3, ZenonT(30) DEF Counting
  <1>5. CASE Admit(r) \/ ExitGuard(r)
    <2>1. waiting' = [waiting EXCEPT ![mine] = @ - 1] /\ Waits(r) /\ ~Waits(r)'
      BY <1>0, <1>5, ZenonT(30) DEF Admit, ExitGuard, Goto, Guarded, IInv, TypeOK, FullPlaces
    <2> HIDE DEF Waits
    <2>2. /\ Waiters(mine)' = Waiters(mine) \ {r} /\ r \in Waiters(mine) /\ Waiters(mine) \subseteq Requests
          /\ \A k \in Kinds \ {mine} : Waiters(k)' = Waiters(k)
      BY <1>0, <1>1, <1>2, <2>1, SMTT(30)
    <2>3. Cardinality(Waiters(mine)') = Cardinality(Waiters(mine)) - 1
      BY <2>2, OneLess, Zenon
    <2> QED
      BY <1>1, <1>3, <2>1, <2>2, <2>3, ZenonT(30) DEF Counting
  <1>6. ASSUME ~Guard(r), ~Admit(r), ~ExitGuard(r)
        PROVE  UNCHANGED waiting /\ (Waits(r)' <=> Waits(r))
    <2> USE DEF Goto, Guarded, IInv, TypeOK
    <2>1. CASE TryFull(r) \/ TryGlobal(r) \/ DropFull(r)
      BY <2>1, Zenon DEF TryFull, TryGlobal, DropFull
    <2>2. CASE CheckDepth(r)
      BY <2>2, Zenon DEF CheckDepth, FullPlaces
    <2>3. CASE PollFull(r) \/ WakeFull(r) \/ PollGlobal(r) \/ WakeGlobal(r)
      BY <2>3, Zenon DEF PollFull, WakeFull, PollGlobal, WakeGlobal
    <2>4. CASE ExitFull(r) \/ FinishFull(r) \/ FinishGlobal(r)
      BY <2>4, Zenon DEF ExitFull, FinishFull, FinishGlobal
    <2>5. CASE Timeout(r) \/ Cancel(r)
      BY <2>5, Zenon DEF Timeout, Cancel, AbandonWait, Capped
    <2> QED
      BY <1>6, <2>1, <2>2, <2>3, <2>4, <2>5, ZenonT(30) DEF Actions, Run
  <1>7. CASE ~Guard(r) /\ ~Admit(r) /\ ~ExitGuard(r)
    <2> HIDE DEF Waits
    <2>1. \A k \in Kinds : Waiters(k)' = Waiters(k)
      BY <1>1, <1>2, <1>6, <1>7, SMTT(30)
    <2> QED
      BY <1>6, <1>7, <2>1, ZenonT(30) DEF Counting
  <1> QED
    BY <1>4, <1>5, <1>7, Zenon

\* A rejection is counted when the request is answered, once and in its lane.
LEMMA ShedStep ==
    ASSUME IInv, Counting, NEW r \in Requests, Actions(r)
    PROVE  \A k \in Kinds : shed'[k] = Cardinality(Rejected(k)')
PROOF
  <1> DEFINE No(q) == outcome[q] \in {"shed", "timed_out"}
  <1>0. PICK mine \in Kinds : mine = kind[r]
    BY Zenon DEF IInv, TypeOK
  <1>1. /\ UNCHANGED kind /\ mine \in Kinds
        /\ \A q \in Requests \ {r} : No(q)' = No(q)
    <2>1. UNCHANGED kind /\ mine \in Kinds
      BY Actor, Zenon DEF IInv, TypeOK, Actions
    <2>2. \A q \in Requests \ {r} : outcome'[q] = outcome[q]
      BY Actor, ZenonT(30) DEF IInv, TypeOK, Actions
    <2> QED
      BY <2>1, <2>2, ZenonT(30)
  <1>2. /\ \A k \in Kinds : Rejected(k) = {q \in Requests : kind[q] = k /\ No(q)}
        /\ \A k \in Kinds : Rejected(k)' = {q \in Requests : kind[q] = k /\ No(q)'}
    BY <1>1, Zenon DEF Rejected
  <1>3. shed \in [Kinds -> Nat]
    BY Zenon DEF IInv, TypeOK
  <1>4. \/ UNCHANGED shed /\ (No(r)' <=> No(r))
        \/ shed' = [shed EXCEPT ![mine] = @ + 1] /\ ~No(r) /\ No(r)'
    <2> USE DEF Goto, Answer, CountShed, IInv, TypeOK
    <2>1. CASE TryFull(r) \/ DropFull(r) \/ Guard(r) \/ PollFull(r) \/ WakeFull(r) \/ PollGlobal(r)
               \/ WakeGlobal(r) \/ ExitFull(r) \/ ExitGuard(r) \/ FinishFull(r) \/ FinishGlobal(r)
      BY <2>1, Zenon DEF TryFull, DropFull, Guard, PollFull, WakeFull, PollGlobal, WakeGlobal, ExitFull,
                  ExitGuard, FinishFull, FinishGlobal
    <2>2. CASE TryGlobal(r) \/ Admit(r)
      BY <2>2, Zenon DEF TryGlobal, Admit, Counting, Undecided
    <2>3. CASE CheckDepth(r)
      BY <1>0, <2>3, Zenon DEF CheckDepth, Counting, Undecided
    <2>4. CASE Timeout(r)
      BY <1>0, <2>4, Zenon DEF Timeout, AbandonWait, Counting, Undecided
    <2>5. CASE Cancel(r)
      BY <2>5, Zenon DEF Cancel, AbandonWait, Counting, Undecided
    <2> QED
      BY <2>1, <2>2, <2>3, <2>4, <2>5, Zenon DEF Actions, Run
  <1> HIDE DEF No
  <1>5. CASE UNCHANGED shed /\ (No(r)' <=> No(r))
    <2>1. \A k \in Kinds : Rejected(k)' = Rejected(k)
      BY <1>1, <1>2, <1>5
    <2> QED
      BY <1>5, <2>1, Zenon DEF Counting
  <1>6. CASE shed' = [shed EXCEPT ![mine] = @ + 1] /\ ~No(r) /\ No(r)'
    <2>0. ~No(r) /\ No(r)'
      BY <1>6, Zenon
    <2>1. /\ Rejected(mine)' = Rejected(mine) \cup {r} /\ r \notin Rejected(mine)
          /\ Rejected(mine) \subseteq Requests
          /\ \A k \in Kinds \ {mine} : Rejected(k)' = Rejected(k)
      BY <1>0, <1>1, <1>2, <2>0, SMTT(30)
    <2>2. Cardinality(Rejected(mine)') = Cardinality(Rejected(mine)) + 1
      BY <2>1, OneMore, Zenon
    <2> QED
      BY <1>1, <1>3, <1>6, <2>1, <2>2, ZenonT(30) DEF Counting
  <1> QED
    BY <1>4, <1>5, <1>6, ZenonT(30)

\* A full that goes on without a permit of the sub-pool is counted as it does;
\* none that has one loses it before its global permit.
LEMMA ShadowStep ==
    ASSUME IInv, Counting, NEW r \in Requests, Actions(r), Mode = "basic"
    PROVE  Cardinality(Bypassing') <= shadow'
PROOF
  <1>1. /\ UNCHANGED kind /\ Bypassing \subseteq Requests /\ shadow \in Nat
        /\ \A q \in Requests \ {r} : pc'[q] = pc[q]
    BY Actor, Zenon DEF IInv, TypeOK, Bypassing, Fulls, Actions
  <1>2. IsFiniteSet(Bypassing) /\ Cardinality(Bypassing) \in Nat /\ Cardinality(Bypassing) <= shadow
    BY <1>1, AdmissionAssumption, FS_Subset, FS_CardinalityType, ZenonT(30) DEF Counting
  <1>3. full.held \ {r} \subseteq full'.held
    <2>1. CASE UNCHANGED full
      BY <2>1, Zenon
    <2>2. CASE full' = Take(full, r) \/ full' = Park(full, r)
      BY <2>2 DEF Take, Park
    <2>3. CASE r \in full.held /\ full' = Release(full, r)
      BY <2>3, AdmissionAssumption, ReleaseSound, ZenonT(30) DEF IInv, SemaphoresSound
    <2>4. (~Timeout(r) /\ ~Cancel(r)) \/ UNCHANGED full
      BY Zenon DEF IInv, FullPlaces, Capped, Timeout, Cancel, AbandonWait
    <2>5. UNCHANGED full \/ TryFull(r) \/ DropFull(r) \/ PollFull(r) \/ ExitFull(r) \/ FinishFull(r)
      BY <2>4, ZenonT(30) DEF Actions, Run, TryGlobal, CheckDepth, Guard, WakeFull, PollGlobal, WakeGlobal, Admit,
                  ExitGuard, FinishGlobal
    <2>6. \/ UNCHANGED full \/ full' = Take(full, r) \/ full' = Park(full, r)
          \/ r \in full.held /\ full' = Release(full, r)
      BY <2>5, ZenonT(30) DEF TryFull, DropFull, PollFull, ExitFull, FinishFull, IInv, FullPlaces
    <2> QED
      BY <2>1, <2>2, <2>3, <2>6, ZenonT(30)
  <1>4. CASE TryFull(r) /\ ~HasFree(full)
    <2>1. shadow' = shadow + 1 /\ UNCHANGED full
      BY <1>4, Zenon DEF TryFull
    <2>2. Bypassing' \subseteq Bypassing \cup {r} /\ r \notin Bypassing
      BY <1>1, <1>4, <2>1, ZenonT(30) DEF Bypassing, Fulls, TryFull
    <2>3. Cardinality(Bypassing \cup {r}) = Cardinality(Bypassing) + 1 /\ IsFiniteSet(Bypassing \cup {r})
      BY <1>1, <1>2, <2>2, OneMore, FS_AddElement, ZenonT(30)
    <2>4. Cardinality(Bypassing') <= Cardinality(Bypassing \cup {r}) /\ IsFiniteSet(Bypassing')
      BY <2>2, <2>3, FS_Subset, ZenonT(30)
    <2>5. Cardinality(Bypassing') \in Nat
      BY <2>4, FS_CardinalityType, ZenonT(30)
    <2> QED
      BY <1>1, <1>2, <2>1, <2>3, <2>4, <2>5, SMTT(30)
  <1>5. CASE ~(TryFull(r) /\ ~HasFree(full))
    <2>1. UNCHANGED shadow
      BY <1>5, ZenonT(30) DEF Actions, Run, TryFull, TryGlobal, DropFull, CheckDepth, Guard, PollFull, WakeFull,
                  PollGlobal, WakeGlobal, Admit, ExitFull, ExitGuard, FinishFull, Timeout, Cancel,
                  AbandonWait, FinishGlobal
    <2>2. r \in Bypassing' => r \in Bypassing
      <3> USE DEF Bypassing, Fulls, Goto, IInv, TypeOK
      <3>1. CASE TryFull(r)
        BY <1>1, <1>5, <3>1, SMTT(30) DEF TryFull, Take
      <3>2. CASE TryGlobal(r) \/ CheckDepth(r) \/ Guard(r) \/ PollGlobal(r) \/ WakeGlobal(r) \/ Admit(r)
        BY <1>1, <3>2, ZenonT(30) DEF TryGlobal, CheckDepth, Guard, PollGlobal, WakeGlobal, Admit
      <3>3. CASE DropFull(r) \/ PollFull(r) \/ WakeFull(r)
        BY <3>3, Zenon DEF DropFull, PollFull, WakeFull, FullPlaces, Capped
      <3>4. CASE ExitFull(r) \/ ExitGuard(r) \/ FinishFull(r) \/ FinishGlobal(r)
        BY <3>4, Zenon DEF ExitFull, ExitGuard, FinishFull, FinishGlobal
      <3>5. CASE Timeout(r) \/ Cancel(r)
        BY <3>5, Zenon DEF Timeout, Cancel, AbandonWait
      <3> QED
        BY <3>1, <3>2, <3>3, <3>4, <3>5, ZenonT(30) DEF Actions, Run
    <2>3. Bypassing' \subseteq Bypassing
      BY <1>1, <1>3, <2>2, ZenonT(30) DEF Bypassing, Fulls
    <2>4. Cardinality(Bypassing') <= Cardinality(Bypassing) /\ IsFiniteSet(Bypassing')
      BY <1>2, <2>3, FS_Subset, ZenonT(30)
    <2>5. Cardinality(Bypassing') \in Nat
      BY <2>4, FS_CardinalityType, Zenon
    <2> QED
      BY <1>1, <1>2, <2>1, <2>4, <2>5, SMTT(30)
  <1> QED
    BY <1>4, <1>5, Zenon

\* A request that enters acquire is in none of the sets before and after.
LEMMA AcquireCounting ==
    ASSUME IInv, Counting, NEW r \in Requests, NEW k \in Kinds, Acquire(r, k)
    PROVE  Counting'
PROOF
  <1>1. /\ pc[r] = "idle" /\ pc'[r] \in {"try_global", "try_full"}
        /\ \A q \in Requests \ {r} : pc'[q] = pc[q] /\ kind'[q] = kind[q]
        /\ kind'[r] = "full" => pc'[r] = "try_full"
        /\ UNCHANGED <<outcome, global, full, waiting, shed, shadow>>
    BY Zenon DEF Acquire, Goto, IInv, TypeOK, Kinds
  <1>2. outcome[r] = "none"
    BY <1>1, Zenon DEF Counting, Undecided
  <1>3. \A j \in Kinds : Waiters(j)' = Waiters(j)
    BY <1>1, Zenon DEF Waiters, Guarded
  <1>4. \A j \in Kinds : Rejected(j)' = Rejected(j)
    BY <1>1, <1>2, ZenonT(30) DEF Rejected
  <1>5. Bypassing' = Bypassing
    BY <1>1, ZenonT(30) DEF Bypassing, Fulls
  <1>6. \A q \in Requests : pc'[q] \in Undecided => outcome'[q] = "none"
    BY <1>1, <1>2, ZenonT(30) DEF Counting
  <1> QED
    BY <1>1, <1>3, <1>4, <1>5, <1>6, ZenonT(30) DEF Counting

\* The gauges and counters stay exact.
LEMMA NextCounting ==
    ASSUME IInv, Counting, [Next]_vars
    PROVE  Counting'
PROOF
  <1>1. CASE UNCHANGED vars
    BY <1>1, ZenonT(30) DEF vars, Counting, Waiters, Rejected, Bypassing, Fulls
  <1>2. ASSUME NEW r \in Requests, Actions(r)
        PROVE  Counting'
    BY <1>2, UndecidedStep, WaitingStep, ShedStep, ShadowStep, Zenon DEF Counting
  <1> QED
    BY <1>1, <1>2, AcquireCounting, ZenonT(30) DEF Next, Actions

\* The metrics tell what happened, for every pool and any number of requests:
\* the gauges of WaitGuard, the shed counters of acquire's early returns, and
\* the shadow counter against the fulls that run beyond the cap.
THEOREM MetricsAreExact == Spec => []OvercommitIsCounted
PROOF
  <1>1. IInv /\ Counting => OvercommitIsCounted
    <2> SUFFICES ASSUME IInv, Counting PROVE OvercommitIsCounted
      BY Zenon
    <2> DEFINE F == Fulls \cap global.held
    <2>1. F \subseteq Requests /\ IsFiniteSet(F) /\ Cardinality(F) \in Nat /\ shadow \in Nat
      BY AdmissionAssumption, FS_Subset, FS_CardinalityType, ZenonT(30) DEF Fulls, IInv, TypeOK
    <2>2. IsFiniteSet(F \cap full.held) /\ Cardinality(F \cap full.held) \in Nat
          /\ Cardinality(F \cap full.held) <= full_max
      BY FullHoldersBounded, Zenon
    <2>3. CASE Mode = "advanced"
      <3>1. F \cap full.held = F
        BY <2>3, FullLaneFirst, ZenonT(30)
      <3>2. Cardinality(F) <= full_max + shadow
        BY <2>1, <2>2, <3>1, Sizing, SMTT(30)
      <3> QED
        BY <3>2, Zenon DEF Counting, OvercommitIsCounted, Rejected
    <2>4. CASE Mode = "basic"
      <3>1. F \ full.held \subseteq Bypassing
        BY Zenon DEF Bypassing, Fulls, IInv, GlobalPlaces
      <3>2. IsFiniteSet(Bypassing) /\ Cardinality(Bypassing) \in Nat /\ Cardinality(Bypassing) <= shadow
        BY <2>4, AdmissionAssumption, FS_Subset, FS_CardinalityType, ZenonT(30) DEF Counting, Bypassing, Fulls
      <3>3. Cardinality(F \ full.held) <= Cardinality(Bypassing) /\ IsFiniteSet(F \ full.held)
        BY <3>1, <3>2, FS_Subset, ZenonT(30)
      <3>4. Cardinality(F \ full.held) = Cardinality(F) - Cardinality(F \cap full.held)
        BY <2>1, FS_Difference, ZenonT(30)
      <3>5. Cardinality(F) <= full_max + shadow
        BY <2>1, <2>2, <3>2, <3>3, <3>4, Sizing, SMTT(30)
      <3> QED
        BY <3>5, Zenon DEF Counting, OvercommitIsCounted, Rejected
    <2> QED
      BY <2>3, <2>4, AdmissionAssumption, ZenonT(30)
  <1> QED
    BY <1>1, Invariance, InitCounting, NextCounting, PTL DEF Spec

----------------------------------------------------------------------------
\* The contract.  A request that starts has a global permit and, in advanced
\* mode, a full has one of the sub-pool: that is where the contract's two limits
\* come from.  Besides the invariant of the pool, the mapping needs what acquire
\* has answered at each of its places.

Refusals == {"shed", "timed_out", "cancelled"}

Answered(p, o) ==
    /\ p \in {"running", "drop_full"} => o = "admitted"
    /\ p \in {"exit_full", "exit_guard"} => o \in Refusals
    /\ p = "done" => o \in Refusals \cup {"admitted"}
    /\ p \notin {"running", "drop_full", "exit_full", "exit_guard", "done"} => o = "none"

AnswerPlaces == \A r \in Requests : Answered(pc[r], outcome[r])

\* What a step of one request does to the abstract state.
Moves(r) ==
    LET before == Phase(pc[r], outcome[r])
        after  == Phase(pc'[r], outcome'[r])
    IN  /\ pc' = [pc EXCEPT ![r] = pc'[r]]
        /\ outcome' = [outcome EXCEPT ![r] = outcome'[r]]
        /\ Answered(pc'[r], outcome'[r])
        /\ \/ after = before
           \/ before = "asking" /\ after = "refused"
           \/ before = "running" /\ after = "over"
           \/ /\ before = "asking" /\ after = "running"
              /\ \/ pc[r] = "try_global" /\ HasFree(global)
                 \/ pc[r] = "acquired"

LEMMA RunMoves ==
    ASSUME IInv, AnswerPlaces, NEW r \in Requests, Run(r)
    PROVE  Moves(r) /\ UNCHANGED kind
PROOF
  <1> USE DEF Moves, Answered, Phase, Goto, Answer, Refusals
  <1>0. Answered(pc[r], outcome[r]) /\ pc \in [Requests -> PCs] /\ outcome \in [Requests -> Outcomes]
    BY Zenon DEF AnswerPlaces, IInv, TypeOK
  <1>1. CASE TryFull(r)
    BY <1>0, <1>1, ZenonT(30) DEF TryFull
  <1>2. CASE TryGlobal(r)
    BY <1>0, <1>2, ZenonT(30) DEF TryGlobal
  <1>3. CASE DropFull(r)
    BY <1>0, <1>3, ZenonT(30) DEF DropFull
  <1>4. CASE CheckDepth(r)
    BY <1>0, <1>4, ZenonT(30) DEF CheckDepth
  <1>5. CASE Guard(r)
    BY <1>0, <1>5, ZenonT(30) DEF Guard
  <1>6. CASE PollFull(r)
    BY <1>0, <1>6, ZenonT(30) DEF PollFull
  <1>7. CASE WakeFull(r)
    BY <1>0, <1>7, ZenonT(30) DEF WakeFull
  <1>8. CASE PollGlobal(r)
    BY <1>0, <1>8, ZenonT(30) DEF PollGlobal
  <1>9. CASE WakeGlobal(r)
    BY <1>0, <1>9, ZenonT(30) DEF WakeGlobal
  <1>10. CASE Admit(r)
    BY <1>0, <1>10, ZenonT(30) DEF Admit
  <1>11. CASE ExitFull(r)
    BY <1>0, <1>11, ZenonT(30) DEF ExitFull
  <1>12. CASE ExitGuard(r)
    BY <1>0, <1>12, ZenonT(30) DEF ExitGuard
  <1>13. CASE FinishFull(r)
    BY <1>0, <1>13, ZenonT(30) DEF FinishFull
  <1> QED
    BY <1>1, <1>2, <1>3, <1>4, <1>5, <1>6, <1>7, <1>8, <1>9, <1>10, <1>11, <1>12, <1>13, ZenonT(30) DEF Run

LEMMA EndMoves ==
    ASSUME IInv, AnswerPlaces, NEW r \in Requests, Timeout(r) \/ Cancel(r) \/ FinishGlobal(r)
    PROVE  Moves(r) /\ UNCHANGED kind
PROOF
  <1> USE DEF Moves, Answered, Phase, Goto, Answer, Refusals
  <1>0. Answered(pc[r], outcome[r]) /\ pc \in [Requests -> PCs] /\ outcome \in [Requests -> Outcomes]
    BY Zenon DEF AnswerPlaces, IInv, TypeOK
  <1>1. CASE Timeout(r)
    BY <1>0, <1>1, ZenonT(30) DEF Timeout, AbandonWait
  <1>2. CASE Cancel(r)
    BY <1>0, <1>2, ZenonT(30) DEF Cancel, AbandonWait
  <1>3. CASE FinishGlobal(r)
    BY <1>0, <1>3, ZenonT(30) DEF FinishGlobal
  <1> QED
    BY <1>1, <1>2, <1>3, ZenonT(30)

\* The contract counts as the pool does.
LEMMA SameCardinality == \A S : Contract!Cardinality(S) = Cardinality(S)
PROOF
  BY Zenon DEF Contract!Cardinality, Cardinality

RunningNow == {q \in Requests : pc[q] = "running"}

\* The requests that run, and the one that starts, have a permit each.
LEMMA RoomToStart ==
    ASSUME IInv, NEW r \in Requests, pc[r] # "running",
           (pc[r] = "try_global" /\ HasFree(global)) \/ pc[r] = "acquired"
    PROVE  /\ Cardinality(RunningNow) < permits_total
           /\ kind[r] = "full" =>
                 Cardinality(RunningNow \cap Fulls) < IF Mode = "advanced" THEN full_max ELSE permits_total
PROOF
  <1>1. RunningNow \subseteq global.held /\ global.held \subseteq Requests /\ r \notin RunningNow
    BY Zenon DEF IInv, GlobalPlaces, TypeOK, SemaphoreType, RunningNow
  <1>2. IsFiniteSet(global.held) /\ IsFiniteSet(RunningNow) /\ IsFiniteSet(RunningNow \cap Fulls)
    BY <1>1, AdmissionAssumption, FS_Subset, ZenonT(30)
  <1>3. /\ Cardinality(global.held) \in Nat /\ Cardinality(RunningNow) \in Nat
        /\ Cardinality(RunningNow \cap Fulls) \in Nat /\ global.free \in Nat
        /\ permits_total \in Nat /\ full_max \in Nat
    BY <1>2, FS_CardinalityType, Sizing, ZenonT(30) DEF IInv, TypeOK, SemaphoreType
  <1>4. global.free + Cardinality(global.held) = permits_total
    BY Zenon DEF IInv, SemaphoresSound, Permits
  <1>5. Cardinality(RunningNow) < permits_total
    <2>1. CASE HasFree(global)
      <3>1. Cardinality(RunningNow) <= Cardinality(global.held)
        BY <1>1, <1>2, FS_Subset, ZenonT(30)
      <3> QED
        BY <1>3, <1>4, <2>1, <3>1, SMTT(30) DEF HasFree
    <2>2. CASE pc[r] = "acquired"
      <3>1. RunningNow \cup {r} \subseteq global.held
        BY <1>1, <2>2, ZenonT(30) DEF IInv, GlobalPlaces
      <3>2. Cardinality(RunningNow \cup {r}) = Cardinality(RunningNow) + 1
        BY <1>1, <1>2, FS_AddElement, ZenonT(30)
      <3>3. Cardinality(RunningNow \cup {r}) <= Cardinality(global.held)
        BY <1>2, <3>1, FS_Subset, ZenonT(30)
      <3> QED
        BY <1>3, <1>4, <3>2, <3>3, SMTT(30)
    <2> QED
      BY <2>1, <2>2, ZenonT(30)
  <1>6. Cardinality(RunningNow \cap Fulls) <= Cardinality(RunningNow)
    BY <1>2, FS_Subset, ZenonT(30)
  <1>7. ASSUME kind[r] = "full", Mode = "advanced"
        PROVE  Cardinality(RunningNow \cap Fulls) < full_max
    <2> DEFINE S == (RunningNow \cap Fulls) \cup {r}
    <2>1. S \subseteq full.held
      BY <1>7, ZenonT(30) DEF IInv, FullPlaces, Capped, RunningNow, Fulls
    <2>2. Cardinality(S) <= full_max
      BY <2>1, FullHoldersBounded, ZenonT(30)
    <2>3. Cardinality(S) = Cardinality(RunningNow \cap Fulls) + 1
      BY <1>1, <1>2, FS_AddElement, ZenonT(30)
    <2> QED
      BY <1>3, <2>2, <2>3, SMTT(30)
  <1> QED
    BY <1>3, <1>5, <1>6, <1>7, SMTT(30)

\* The mapping of a step: a step of the contract, or none.
LEMMA MovesRefine ==
    ASSUME IInv, AnswerPlaces, NEW r \in Requests, Moves(r), UNCHANGED kind
    PROVE  Contract!Next \/ UNCHANGED <<phaseBar, kind>>
PROOF
  <1> DEFINE before == Phase(pc[r], outcome[r])
             after  == Phase(pc'[r], outcome'[r])
  <1>1. pc \in [Requests -> PCs] /\ outcome \in [Requests -> Outcomes]
    BY Zenon DEF IInv, TypeOK
  <1>2. phaseBar' = [phaseBar EXCEPT ![r] = after] /\ phaseBar[r] = before
    BY <1>1, ZenonT(30) DEF Moves, phaseBar
  <1>3. \/ after = before
        \/ before = "asking" /\ after = "refused"
        \/ before = "running" /\ after = "over"
        \/ /\ before = "asking" /\ after = "running"
           /\ \/ pc[r] = "try_global" /\ HasFree(global)
              \/ pc[r] = "acquired"
    BY Zenon DEF Moves
  <1>4. pc[r] = "running" => before = "running"
    BY Zenon DEF Phase
  <1> HIDE DEF before, after
  <1>5. CASE after = before
    BY <1>2, <1>5, ZenonT(30) DEF phaseBar
  <1>6. CASE before = "asking" /\ after = "refused"
    BY <1>2, <1>6, ZenonT(30) DEF Contract!Next, Contract!Refuse
  <1>7. CASE before = "running" /\ after = "over"
    BY <1>2, <1>7, ZenonT(30) DEF Contract!Next, Contract!Finish
  <1>8. CASE /\ before = "asking" /\ after = "running"
             /\ \/ pc[r] = "try_global" /\ HasFree(global)
                \/ pc[r] = "acquired"
    <2>1. Contract!Running = RunningNow
      BY Zenon DEF Contract!Running, RunningNow, phaseBar, Phase
    <2>2. Contract!RunningFulls = RunningNow \cap Fulls
      BY <2>1, ZenonT(30) DEF Contract!RunningFulls, Fulls, RunningNow
    <2>3. /\ Cardinality(RunningNow) < permits_total
          /\ kind[r] = "full" =>
                Cardinality(RunningNow \cap Fulls) < IF Mode = "advanced" THEN full_max ELSE permits_total
      BY <1>4, <1>8, RoomToStart, ZenonT(30)
    <2>4. Contract!Start(r)
      BY <1>2, <1>8, <2>1, <2>2, <2>3, SameCardinality, ZenonT(30) DEF Contract!Start
    <2> QED
      BY <2>4, Zenon DEF Contract!Next
  <1> QED
    BY <1>3, <1>5, <1>6, <1>7, <1>8, ZenonT(30)

LEMMA AcquireRefines ==
    ASSUME IInv, AnswerPlaces, NEW r \in Requests, NEW k \in Kinds, Acquire(r, k)
    PROVE  Contract!Next /\ AnswerPlaces'
PROOF
  <1>1. pc \in [Requests -> PCs] /\ outcome \in [Requests -> Outcomes] /\ outcome[r] = "none"
    BY Zenon DEF IInv, TypeOK, AnswerPlaces, Answered, Acquire
  <1>2. phaseBar[r] = "new" /\ phaseBar' = [phaseBar EXCEPT ![r] = "asking"]
    BY <1>1, Zenon DEF phaseBar, Phase, Acquire, Goto
  <1>3. Contract!Ask(r, k)
    BY <1>2, Zenon DEF Contract!Ask, Acquire
  <1>4. AnswerPlaces'
    BY <1>1, Zenon DEF AnswerPlaces, Answered, Acquire, Goto
  <1> QED
    BY <1>3, <1>4, ZenonT(30) DEF Contract!Next, Kinds

LEMMA MovesAnswers ==
    ASSUME IInv, AnswerPlaces, NEW r \in Requests, Moves(r)
    PROVE  AnswerPlaces'
PROOF
  <1>1. pc \in [Requests -> PCs] /\ outcome \in [Requests -> Outcomes]
    BY Zenon DEF IInv, TypeOK
  <1>2. \A q \in Requests : q # r => pc'[q] = pc[q] /\ outcome'[q] = outcome[q]
    BY <1>1, Zenon DEF Moves
  <1>3. Answered(pc'[r], outcome'[r])
    BY Zenon DEF Moves
  <1> QED
    BY <1>2, <1>3, ZenonT(30) DEF AnswerPlaces

\* Every behaviour of the pool is one its contract allows: the initial states
\* map to initial states, and every step maps to a step or to none.
THEOREM PoolImplementsContract == Spec => ImplementsContract
PROOF
  <1>1. Init => AnswerPlaces /\ Contract!Init
    BY Zenon DEF Init, AnswerPlaces, Answered, Contract!Init, phaseBar, Phase
  <1>2. IInv /\ AnswerPlaces /\ [Next]_vars => AnswerPlaces' /\ [Contract!Next]_(<<phaseBar, kind>>)
    <2> SUFFICES ASSUME IInv, AnswerPlaces, [Next]_vars
                 PROVE  AnswerPlaces' /\ (Contract!Next \/ UNCHANGED <<phaseBar, kind>>)
      BY Zenon
    <2>1. CASE UNCHANGED vars
      BY <2>1, Zenon DEF vars, AnswerPlaces, phaseBar
    <2>2. ASSUME NEW r \in Requests, NEW k \in Kinds, Acquire(r, k)
          PROVE  AnswerPlaces' /\ Contract!Next
      BY <2>2, AcquireRefines, ZenonT(30)
    <2>3. ASSUME NEW r \in Requests, Run(r) \/ Timeout(r) \/ Cancel(r) \/ FinishGlobal(r)
          PROVE  AnswerPlaces' /\ (Contract!Next \/ UNCHANGED <<phaseBar, kind>>)
      BY <2>3, RunMoves, EndMoves, MovesRefine, MovesAnswers, ZenonT(30)
    <2> QED
      BY <2>1, <2>2, <2>3, ZenonT(30) DEF Next
  <1> QED
    BY <1>1, <1>2, Invariance, PTL DEF Spec, ImplementsContract, Contract!Spec, Contract!cvars

==============================================================================
