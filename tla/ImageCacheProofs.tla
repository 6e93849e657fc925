--------------------------- MODULE ImageCacheProofs ---------------------------
(***************************************************************************)
(* Proofs about the file cache, for every set of serve calls, keys, file   *)
(* names and sizes and for both limits.  The inductive invariant says who  *)
(* owns a file of the directory: a call that writes one owns it alone, a   *)
(* finished one is a whole rendering of the image whose name leads to it.  *)
(* The last is true as long as no name is cut to another key when it is    *)
(* written to the index (CutsAreNoKeys), or no index has been read.  How   *)
(* old a rendering is, compared with the original, is a second invariant   *)
(* (Dated).                                                                *)
(***************************************************************************)
EXTENDS ImageCache, FiniteSetTheorems, TLAPS

Holding(t) == pc[t] \in {"stat", "send", "unpin"}

\* The table and the index are finite, serve calls have a key and a file where
\* they use them, and a whole file is not empty.
Places ==
    /\ IsFiniteSet(DOMAIN cachetable) /\ IsFiniteSet(index.records)
    /\ \A t \in Threads :
          /\ pc[t] # "idle" => key[t] \in Keys
          /\ Holding(t) \/ Writing(t) => file[t] \in Files
          /\ ~ (Holding(t) \/ Writing(t)) => file[t] = NoFile
    /\ \A f \in DOMAIN disk : disk[f].whole => disk[f].fsize # 0

\* A file that is being written belongs to one call, and no record names it.
Own ==
    \A t \in Threads : Writing(t) =>
        /\ file[t] \in DOMAIN disk
        /\ file[t] \notin Registered
        /\ \A r \in index.records : r.record.file # file[t]
        /\ \A o \in Threads \ {t} : file[o] # file[t]
        /\ disk[file[t]].key = key[t]
        /\ pc[t] = "add" => disk[file[t]].whole

\* The file f of the directory d, if it is there, is a whole rendering of k, last
\* written at m.
Renders(d, f, k, m) ==
    f \in DOMAIN d =>
        /\ k \in Keys => d[f].key = k /\ d[f].whole
        /\ d[f].mtime = m

\* No index name is both a key and what is left of a longer name: snprintf's cut
\* at 255 characters never turns one canonical name into another.
CutsAreNoKeys == \A n \in IndexNames : WrittenAs[n] \in Keys => WrittenAs[n] = n

\* Renderings are found under their own names, if no name is cut to another key
\* or none has been read from an index.
Trusted == CutsAreNoKeys \/ index.records = {}

Faithful == Trusted =>
    /\ \A k \in DOMAIN cachetable : Renders(disk, cachetable[k].file, k, cachetable[k].mtime)
    /\ \A r \in index.records : Renders(disk, r.record.file, r.name, r.record.mtime)
    /\ \A t \in Threads : pc[t] \in {"stat", "send"} =>
          \E m \in Times : seen[t].mtime <= m /\ Renders(disk, file[t], key[t], m)

IInv == TypeOK /\ Places /\ Own /\ Faithful

\* A rendering that is behind the original was read before the replacement.
Behind(c, o) == c.version < o.version => c.readAt <= o.mtime

Dated ==
    /\ \A k \in Keys : orig[k].mtime <= clock
    /\ \A t \in Threads :
          /\ image[t].readAt <= clock
          /\ pc[t] = "idle" => image[t] = NothingRead
          /\ key[t] \in Keys => /\ Behind(image[t], orig[key[t]])
                                /\ seen[t].version <= orig[key[t]].version
          /\ \A o \in Threads : key[t] \in Keys /\ key[o] = key[t] => Behind(image[o], seen[t])
    /\ \A f \in DOMAIN disk :
          /\ disk[f].readAt <= clock
          /\ Behind(disk[f], orig[disk[f].key])
          /\ \A t \in Threads : key[t] = disk[f].key => Behind(disk[f], seen[t])

----------------------------------------------------------------------------
\* The operators of the cache.

\* A nonempty set of naturals has a least element, which is what Min returns.
LEMMA MinIsMember ==
    ASSUME NEW S, S \subseteq Nat, S # {}
    PROVE  Min(S) \in S
PROOF
  <1> DEFINE R == {ss \in Nat \X Nat : ss[1] < ss[2]}
  <1>1. IsWellFoundedOn(R, Nat)
    BY NatLessThanWellFounded, Zenon DEF OpToRel
  <1>2. PICK x \in S : \A y \in S : ~ (<<y, x>> \in R)
    BY <1>1, WFMin, Zenon
  <1>3. \A y \in S : x =< y
    <2> TAKE y \in S
    <2>1. <<y, x>> \in Nat \X Nat
      BY Zenon
    <2>2. ~ (<<y, x>> \in Nat \X Nat /\ <<y, x>>[1] < <<y, x>>[2])
      BY <1>2, Zenon
    <2> QED
      BY <2>1, <2>2
  <1> QED
    BY <1>3, Zenon DEF Min

\* The image of a finite set under a function is finite.
LEMMA FiniteImage ==
    ASSUME NEW g, IsFiniteSet(DOMAIN g), g = [x \in DOMAIN g |-> g[x]]
    PROVE  IsFiniteSet({g[x] : x \in DOMAIN g})
PROOF
  <1> DEFINE T == {g[x] : x \in DOMAIN g}
  <1>1. g \in Surjection(DOMAIN g, T)
    BY Zenon DEF Surjection
  <1> HIDE DEF T
  <1>2. IsFiniteSet(T)
    BY <1>1, FS_Surjection, Zenon
  <1> QED
    BY <1>2, Zenon DEF T

\* The units a total counts, and the functions that have one.
Units(size) == UNION {{x} \X (1 .. size[x]) : x \in DOMAIN size}

Naturally(size) == IsFiniteSet(DOMAIN size) /\ \A x \in DOMAIN size : size[x] \in Nat

\* A total of finitely many naturals is a natural.
LEMMA UnitsFinite ==
    ASSUME NEW size, Naturally(size)
    PROVE  IsFiniteSet(Units(size)) /\ Total(size) = Cardinality(Units(size)) /\ Total(size) \in Nat
PROOF
  <1> DEFINE Slice == [x \in DOMAIN size |-> {x} \X (1 .. size[x])]
             All == {Slice[x] : x \in DOMAIN size}
  <1>1. IsFiniteSet(All)
    <2>1. DOMAIN Slice = DOMAIN size /\ Slice = [x \in DOMAIN Slice |-> Slice[x]]
      BY Zenon
    <2> HIDE DEF Slice
    <2> QED
      BY <2>1, FiniteImage, Zenon DEF Naturally
  <1>2. \A x \in DOMAIN size : IsFiniteSet(Slice[x])
    <2> TAKE x \in DOMAIN size
    <2> DEFINE A == {x}
               B == 1 .. size[x]
    <2>0. IsFiniteSet(A) /\ size[x] \in Int
      BY FS_Singleton DEF Naturally
    <2>1. IsFiniteSet(A) /\ IsFiniteSet(B)
      BY <2>0, FS_Interval
    <2>2. Slice[x] = A \X B
      BY Zenon
    <2> HIDE DEF A, B, Slice
    <2> QED
      BY <2>1, <2>2, FS_Product
  <1>3. UNION All = Units(size)
    BY Zenon DEF Units
  <1>4. \A U \in All : IsFiniteSet(U)
    BY <1>2, Zenon
  <1> HIDE DEF All
  <1>5. IsFiniteSet(UNION All)
    BY <1>1, <1>4, FS_UNION, Zenon
  <1>6. Total(size) = Cardinality(Units(size))
    BY Zenon DEF Total, Units
  <1> QED
    BY <1>3, <1>5, <1>6, FS_CardinalityType, Zenon

\* What the counters wrap to is in their range.
LEMMA WrapType ==
    ASSUME NEW n \in Int
    PROVE  Wrap(n) \in 0 .. (CounterMod - 1)
PROOF
  BY CacheAssumption DEF Wrap

\* A purge that has something to do evicts the first m entries of an order of the
\* unpinned ones, and uncounts each of them once.
Evicted(table, pins, u, n, p, s, m) ==
    /\ m \in Nat
    /\ s \in Injection(1 .. m, {k \in DOMAIN table : ~ Pinned(pins, table[k])})
    /\ p.table = Restrict(table, DOMAIN table \ {s[i] : i \in 1 .. m})
    /\ p.gone = {table[s[i]].file : i \in 1 .. m}
    /\ p.used = Wrap(u - Total([i \in 1 .. m |-> table[s[i]].fsize]))
    /\ p.nfiles = Wrap(n - m)
    /\ ~ p.full => AtLowWater(p.used, p.nfiles)

LEMMA PurgedInOrder ==
    ASSUME NEW table, IsFiniteSet(DOMAIN table), NEW pins, NEW u, NEW n, Over(u, n),
           NEW p \in Purged(table, pins, u, n)
    PROVE  \E m, s : Evicted(table, pins, u, n, p, s, m)
PROOF
  <1> DEFINE loose == {k \in DOMAIN table : ~ Pinned(pins, table[k])}
             c == Cardinality(loose)
  <1>1. c \in Nat
    BY FS_Subset, FS_CardinalityType, Zenon
  <1>2. PICK s \in LRUOrders(table, pins) :
            p = [table |-> Restrict(table, DOMAIN table \ {s[i] : i \in 1 .. EvictCount(table, u, n, s)}),
                 used |-> UsedAfter(table, u, s, EvictCount(table, u, n, s)),
                 nfiles |-> Wrap(n - EvictCount(table, u, n, s)),
                 gone |-> {table[s[i]].file : i \in 1 .. EvictCount(table, u, n, s)},
                 full |-> ~ AtLowWater(UsedAfter(table, u, s, EvictCount(table, u, n, s)),
                                       Wrap(n - EvictCount(table, u, n, s)))]
    BY Zenon DEF Purged
  <1>3. s \in [1 .. c -> loose] /\ \A i, j \in 1 .. c : s[i] = s[j] => i = j
    BY Zenon DEF LRUOrders, Bijection, Injection, IsInjective
  <1> DEFINE m == EvictCount(table, u, n, s)
  <1>4. m \in 0 .. c
    <2> DEFINE enough == {i \in 0 .. Cardinality(DOMAIN s) :
                             AtLowWater(UsedAfter(table, u, s, i), Wrap(n - i))}
    <2>1. DOMAIN s = 1 .. c
      BY <1>3, Zenon
    <2>2. Cardinality(DOMAIN s) = c
      <3> HIDE DEF c
      <3> QED
        BY <1>1, <2>1, FS_Interval
    <2>3. m = IF enough = {} THEN Cardinality(DOMAIN s) ELSE Min(enough)
      BY Zenon DEF EvictCount
    <2>4. enough \subseteq 0 .. c
      BY <2>2, Zenon
    <2> HIDE DEF enough, c, m
    <2>5. enough \subseteq Nat /\ c \in 0 .. c
      BY <1>1, <2>4
    <2>6. CASE enough = {}
      BY <2>2, <2>3, <2>5, <2>6, Zenon
    <2>7. CASE enough # {}
      <3>1. Min(enough) \in enough
        BY <2>5, <2>7, MinIsMember, Zenon
      <3> QED
        BY <2>3, <2>4, <2>7, <3>1, Zenon
    <2> QED
      BY <2>6, <2>7, Zenon
  <1> HIDE DEF m, c
  <1>5. m \in Nat /\ 1 .. m \subseteq 1 .. c
    BY <1>1, <1>4
  <1> DEFINE q == [i \in 1 .. m |-> s[i]]
  <1>6. \A i \in 1 .. m : q[i] = s[i]
    BY Zenon
  <1>7. q \in Injection(1 .. m, loose)
    <2>1. q \in [1 .. m -> loose] /\ DOMAIN q = 1 .. m
      BY <1>3, <1>5, Zenon
    <2> HIDE DEF q
    <2> QED
      BY <1>3, <1>5, <1>6, <2>1, Zenon DEF Injection, IsInjective
  <1> HIDE DEF q
  <1>8. /\ {s[i] : i \in 1 .. m} = {q[i] : i \in 1 .. m}
        /\ {table[s[i]].file : i \in 1 .. m} = {table[q[i]].file : i \in 1 .. m}
        /\ [i \in 1 .. m |-> table[s[i]].fsize] = [i \in 1 .. m |-> table[q[i]].fsize]
    BY <1>6, Zenon
  <1>9. UsedAfter(table, u, s, m) = Wrap(u - Total([i \in 1 .. m |-> table[q[i]].fsize]))
    BY <1>8, Zenon DEF UsedAfter
  <1>10. /\ p.table = Restrict(table, DOMAIN table \ {s[i] : i \in 1 .. m})
         /\ p.gone = {table[s[i]].file : i \in 1 .. m}
         /\ p.used = UsedAfter(table, u, s, m)
         /\ p.nfiles = Wrap(n - m)
         /\ p.full <=> ~ AtLowWater(UsedAfter(table, u, s, m), Wrap(n - m))
    BY <1>2, Zenon DEF m
  <1>11. Evicted(table, pins, u, n, p, q, m)
    BY <1>5, <1>7, <1>8, <1>9, <1>10, Zenon DEF Evicted
  <1> QED
    BY <1>11, Zenon

\* purge() evicts a set of entries none of whose files is pinned; their files are
\* the ones it unlinks, and the counters stay in their range.
Evicts(table, pins, p, E) ==
    /\ \A k \in E : ~ Pinned(pins, table[k])
    /\ DOMAIN p.table = DOMAIN table \ E
    /\ \A k \in DOMAIN table \ E : p.table[k] = table[k]
    /\ p.gone = {table[k].file : k \in E}
    /\ p.used \in 0 .. (CounterMod - 1)
    /\ p.nfiles \in 0 .. (CounterMod - 1)

LEMMA PurgedEvicts ==
    ASSUME NEW table, IsFiniteSet(DOMAIN table), \A k \in DOMAIN table : table[k] \in Record,
           NEW pins, NEW u \in 0 .. (CounterMod - 1), NEW n \in 0 .. (CounterMod - 1),
           NEW p \in Purged(table, pins, u, n)
    PROVE  \E E \in SUBSET DOMAIN table : Evicts(table, pins, p, E)
PROOF
  <1>1. CASE ~ Over(u, n)
    <2>1. p = [table |-> table, used |-> u, nfiles |-> n, gone |-> {}, full |-> FALSE]
      BY <1>1, Zenon DEF Purged
    <2>2. Evicts(table, pins, p, {})
      BY <2>1, Zenon DEF Evicts
    <2> QED
      BY <2>2, Zenon
  <1>2. CASE Over(u, n)
    <2> DEFINE loose == {k \in DOMAIN table : ~ Pinned(pins, table[k])}
    <2>1. PICK m, s : Evicted(table, pins, u, n, p, s, m)
      BY <1>2, PurgedInOrder, Zenon
    <2>2. m \in Nat
      BY <2>1, Zenon DEF Evicted
    <2> DEFINE E == {s[i] : i \in 1 .. m}
    <2>3. E \subseteq loose
      BY <2>1, Zenon DEF Evicted, Injection
    <2>4. p.table = Restrict(table, DOMAIN table \ E) /\ p.gone = {table[s[i]].file : i \in 1 .. m}
          /\ p.used = Wrap(u - Total([i \in 1 .. m |-> table[s[i]].fsize])) /\ p.nfiles = Wrap(n - m)
      BY <2>1, Zenon DEF Evicted
    <2>5. p.gone = {table[k].file : k \in E}
      BY <2>4, ZenonT(30)
    <2>6. p.used \in 0 .. (CounterMod - 1) /\ p.nfiles \in 0 .. (CounterMod - 1)
      <3> DEFINE size == [i \in 1 .. m |-> table[s[i]].fsize]
      <3>1. m \in Int /\ u \in Int /\ n \in Int
        BY <2>2, CacheAssumption
      <3>2. IsFiniteSet(DOMAIN size)
        BY <3>1, FS_Interval
      <3>3. \A i \in DOMAIN size : size[i] \in Nat
        <4> TAKE i \in DOMAIN size
        <4>1. s[i] \in DOMAIN table
          BY <2>3, Zenon
        <4> QED
          BY <4>1, CacheAssumption, Zenon DEF Record
      <3> HIDE DEF size
      <3>4. Total(size) \in Nat
        BY <3>2, <3>3, UnitsFinite, Zenon DEF Naturally
      <3>5. p.used = Wrap(u - Total(size))
        BY <2>4, Zenon DEF size
      <3> QED
        BY <2>4, <3>1, <3>4, <3>5, WrapType
    <2> HIDE DEF E
    <2>7. E \in SUBSET DOMAIN table /\ Evicts(table, pins, p, E)
      BY <2>3, <2>4, <2>5, <2>6, Zenon DEF Evicts, Restrict
    <2> QED
      BY <2>7, Zenon
  <1> QED
    BY <1>1, <1>2, Zenon

----------------------------------------------------------------------------
\* The invariant, action by action.

LEMMA ZeroTypes ==
    0 \in Times /\ NothingSeen \in Original /\ NothingRead \in Decoded
PROOF
  <1>1. 0 \in Times /\ 0 \in 0 .. MaxVersion
    BY CacheAssumption DEF Times
  <1> QED
    BY <1>1, Zenon DEF Original, Decoded, NothingSeen, NothingRead

LEMMA InitIInv ==
    ASSUME Init
    PROVE  IInv
PROOF
  <1> USE CacheAssumption DEF Init
  <1>1. TypeOK
    <2>1. 0 \in 0 .. (CounterMod - 1)
      OBVIOUS
    <2>3. DOMAIN cachetable = {} /\ DOMAIN disk = {} /\ index.records = {}
      OBVIOUS
    <2>4. [version |-> 0, mtime |-> 0] \in Original
      BY ZeroTypes, Zenon DEF NothingSeen
    <2> QED
      BY <2>1, <2>3, <2>4, ZeroTypes, Zenon DEF TypeOK, PCs
  <1>2. Places
    BY FS_EmptySet DEF Places, Holding, Writing
  <1>3. Own
    BY Zenon DEF Own, Writing
  <1>4. Faithful
    <2>1. DOMAIN cachetable = {} /\ index.records = {} /\ \A t \in Threads : pc[t] = "idle"
      OBVIOUS
    <2> QED
      BY <2>1, Zenon DEF Faithful
  <1> QED
    BY <1>1, <1>2, <1>3, <1>4, Zenon DEF IInv

LocalTypes ==
    /\ pc \in [Threads -> PCs]
    /\ key \in [Threads -> Keys \cup {NoKey}]
    /\ seen \in [Threads -> Original]
    /\ image \in [Threads -> Decoded]
    /\ file \in [Threads -> Files \cup {NoFile}]
    /\ at \in [Threads -> Times]

\* What a call keeps while another one returns.
LEMMA ReturnEffect ==
    ASSUME TypeOK, NEW t \in Threads, Return(t)
    PROVE  /\ LocalTypes'
           /\ pc'[t] = "idle" /\ file'[t] = NoFile
           /\ \A o \in Threads \ {t} : /\ pc'[o] = pc[o] /\ key'[o] = key[o] /\ seen'[o] = seen[o]
                                       /\ file'[o] = file[o]
PROOF
  <1>1. pc' \in [Threads -> PCs]
    BY Zenon DEF TypeOK, Return, Goto, PCs
  <1>2. key' \in [Threads -> Keys \cup {NoKey}] /\ file' \in [Threads -> Files \cup {NoFile}]
    BY Zenon DEF TypeOK, Return
  <1>3. seen' \in [Threads -> Original] /\ image' \in [Threads -> Decoded] /\ at' \in [Threads -> Times]
    BY ZeroTypes, Zenon DEF TypeOK, Return
  <1> QED
    BY <1>1, <1>2, <1>3, ZenonT(30) DEF TypeOK, Return, Goto, LocalTypes

LEMMA Counted ==
    ASSUME TypeOK
    PROVE  used \in Int /\ nfiles \in Int /\ \A k \in DOMAIN cachetable : cachetable[k].fsize \in Int
PROOF
  <1>1. used \in Int /\ nfiles \in Int
    BY CacheAssumption DEF TypeOK
  <1>2. \A k \in DOMAIN cachetable : cachetable[k].fsize \in Sizes
    BY Zenon DEF TypeOK, Record
  <1>3. \A x \in Sizes : x \in Int
    BY CacheAssumption
  <1> QED
    BY <1>1, <1>2, <1>3, Zenon

LEMMA PurgeEffect ==
    ASSUME IInv, Purge
    PROVE  \E E \in SUBSET DOMAIN cachetable :
              /\ \A k \in E : ~ Pinned(blocked_files, cachetable[k])
              /\ DOMAIN cachetable' = DOMAIN cachetable \ E
              /\ \A k \in DOMAIN cachetable' : cachetable'[k] = cachetable[k]
              /\ DOMAIN disk' = DOMAIN disk \ {cachetable[k].file : k \in E}
              /\ \A f \in DOMAIN disk' : disk'[f] = disk[f]
              /\ used' \in 0 .. (CounterMod - 1) /\ nfiles' \in 0 .. (CounterMod - 1)
PROOF
  <1>1. PICK p \in Purged(cachetable, blocked_files, used, nfiles) :
           /\ cachetable' = p.table
           /\ used' = p.used
           /\ nfiles' = p.nfiles
           /\ disk' = Unlinked(disk, p.gone)
    BY Zenon DEF Purge
  <1>2. PICK E \in SUBSET DOMAIN cachetable : Evicts(cachetable, blocked_files, p, E)
    BY PurgedEvicts, Zenon DEF IInv, TypeOK, Places
  <1> QED
    BY <1>1, <1>2, Zenon DEF Evicts, Unlinked, Restrict

\* add(): the files of the evicted entries and of a replaced one go; what is
\* registered, unless purge() could not free enough, is the file of the call.
NewRecord(t) ==
    [file |-> file[t], mtime |-> disk[file[t]].mtime, access_time |-> at[t], fsize |-> disk[file[t]].fsize]

Replaced(t) == {cachetable[k].file : k \in DOMAIN cachetable \cap {key[t]}}

Adds(t, E, full) ==
    /\ \A k \in E : ~ Pinned(blocked_files, cachetable[k])
    /\ DOMAIN cachetable' = (DOMAIN cachetable \ E) \cup (IF full THEN {} ELSE {key[t]})
    /\ \A k \in DOMAIN cachetable' : cachetable'[k] = IF k = key[t] /\ ~ full THEN NewRecord(t) ELSE cachetable[k]
    /\ DOMAIN disk' = DOMAIN disk \ (Replaced(t) \cup {cachetable[k].file : k \in E}
                                       \cup (IF full THEN {file[t]} ELSE {}))
    /\ \A f \in DOMAIN disk' : disk'[f] = disk[f]
    /\ used' \in 0 .. (CounterMod - 1) /\ nfiles' \in 0 .. (CounterMod - 1)

LEMMA Finished ==
    ASSUME IInv, NEW t \in Threads, pc[t] = "add"
    PROVE  /\ key[t] \in Keys /\ up /\ file[t] \in DOMAIN disk
           /\ disk[file[t]].key = key[t] /\ disk[file[t]].whole
           /\ NewRecord(t) \in Record /\ NewRecord(t).fsize \in Int
PROOF
  <1>1. /\ file[t] \in DOMAIN disk /\ file[t] \in Files /\ disk[file[t]].key = key[t] /\ disk[file[t]].whole
        /\ disk[file[t]] \in Content /\ disk[file[t]].fsize # 0 /\ at[t] \in Times /\ key[t] \in Keys /\ up
    BY Zenon DEF IInv, TypeOK, Places, Own, Writing
  <1>2. disk[file[t]].fsize \in Sizes /\ disk[file[t]].mtime \in Times
    BY <1>1, Zenon DEF Content
  <1>3. \A x \in Sizes : x \in Int
    BY CacheAssumption
  <1> QED
    BY <1>1, <1>2, <1>3, Zenon DEF NewRecord, Record

LEMMA AddEffect ==
    ASSUME IInv, NEW t \in Threads, Add(t)
    PROVE  \E E \in SUBSET DOMAIN cachetable, full \in BOOLEAN : Adds(t, E, full)
PROOF
  <1> DEFINE k == key[t]
             present == k \in DOMAIN cachetable
             replaced == IF present THEN {cachetable[k].file} ELSE {}
             u == IF present THEN Wrap(used - cachetable[k].fsize) ELSE used
             n == IF present THEN Wrap(nfiles - 1) ELSE nfiles
  <1>1. PICK p \in Purged(cachetable, blocked_files, u, n) :
            IF p.full
            THEN /\ cachetable' = p.table
                 /\ used' = p.used
                 /\ nfiles' = p.nfiles
                 /\ disk' = Unlinked(disk, replaced \cup p.gone \cup {file[t]})
            ELSE /\ cachetable' = Put(p.table, k, NewRecord(t))
                 /\ used' = Wrap(p.used + NewRecord(t).fsize)
                 /\ nfiles' = Wrap(p.nfiles + 1)
                 /\ disk' = Unlinked(disk, replaced \cup p.gone)
    BY Zenon DEF Add, NewRecord
  <1>2. NewRecord(t).fsize \in Int
    BY Finished, Zenon DEF Add
  <1>3. u \in 0 .. (CounterMod - 1) /\ n \in 0 .. (CounterMod - 1)
    <2>1. used \in 0 .. (CounterMod - 1) /\ nfiles \in 0 .. (CounterMod - 1)
      BY Zenon DEF IInv, TypeOK
    <2>2. nfiles - 1 \in Int /\ (present => used - cachetable[k].fsize \in Int)
      BY Counted DEF IInv
    <2> QED
      BY <2>1, <2>2, WrapType, Zenon
  <1>4. replaced = Replaced(t)
    BY Zenon DEF Replaced
  <1> HIDE DEF u, n, present, k, replaced
  <1>5. PICK E \in SUBSET DOMAIN cachetable : Evicts(cachetable, blocked_files, p, E)
    BY <1>3, PurgedEvicts, Zenon DEF IInv, TypeOK, Places
  <1>6. used' \in 0 .. (CounterMod - 1) /\ nfiles' \in 0 .. (CounterMod - 1)
    <2>1. p.used + NewRecord(t).fsize \in Int /\ p.nfiles + 1 \in Int
      BY <1>2, <1>5 DEF Evicts
    <2> QED
      BY <1>1, <1>5, <2>1, WrapType, ZenonT(30) DEF Evicts
  <1>7. CASE p.full
    <2>1. Adds(t, E, TRUE)
      BY <1>1, <1>4, <1>5, <1>6, <1>7, ZenonT(30) DEF Adds, Evicts, Unlinked, Restrict
    <2> QED
      BY <2>1, Zenon
  <1>8. CASE ~ p.full
    <2>1. Adds(t, E, FALSE)
      BY <1>1, <1>4, <1>5, <1>6, <1>8 DEF Adds, Evicts, Unlinked, Restrict, Put, k
    <2> QED
      BY <2>1, ZenonT(30)
  <1> QED
    BY <1>7, <1>8, Zenon

\* The constructor, given an index it can read: every entry it loads is a record
\* of the index, and every file it leaves in the directory belongs to an entry.
Loads ==
    /\ DOMAIN disk' \subseteq DOMAIN disk /\ \A f \in DOMAIN disk' : disk'[f] = disk[f]
    /\ used' \in 0 .. (CounterMod - 1) /\ nfiles' \in 0 .. (CounterMod - 1)
    /\ IsFiniteSet(DOMAIN cachetable')
    /\ \A n \in DOMAIN cachetable' : \E r \in index.records : r.name = n /\ r.record = cachetable'[n]
    /\ \A f \in DOMAIN disk' : \E n \in DOMAIN cachetable' : cachetable'[n].file = f
    /\ UNCHANGED index

LEMMA StartLoads ==
    ASSUME IInv, Start, index.state = "present"
    PROVE  Loads
PROOF
  <1> DEFINE records == {r \in index.records : r.record.file \in DOMAIN disk}
  <1> DEFINE u == Wrap(Total([r \in records |-> r.record.fsize]))
             c == Wrap(Cardinality(records))
  <1>0. PICK table \in Loaded(records) : \E p \in Purged(table, blocked_files, u, c) :
                /\ cachetable' = p.table
                /\ used' = p.used
                /\ nfiles' = p.nfiles
                /\ disk' = Restrict(disk, (DOMAIN disk \cap {table[n].file : n \in DOMAIN table}) \ p.gone)
                /\ UNCHANGED index
    BY Zenon DEF Start
  <1>1. PICK p \in Purged(table, blocked_files, u, c) :
                /\ cachetable' = p.table
                /\ used' = p.used
                /\ nfiles' = p.nfiles
                /\ disk' = Restrict(disk, (DOMAIN disk \cap {table[n].file : n \in DOMAIN table}) \ p.gone)
                /\ UNCHANGED index
    BY <1>0, ZenonT(30)
  <1>2. IsFiniteSet(records) /\ Cardinality(records) \in Int
    BY FS_Subset, FS_CardinalityType DEF IInv, Places
  <1>3. u \in 0 .. (CounterMod - 1) /\ c \in 0 .. (CounterMod - 1)
    <2> DEFINE size == [r \in records |-> r.record.fsize]
    <2>1. \A r \in DOMAIN size : size[r] \in Sizes
      BY Zenon DEF IInv, TypeOK, Record
    <2>2. \A r \in DOMAIN size : size[r] \in Nat
      <3>1. \A x \in Sizes : x \in Nat
        BY CacheAssumption, Zenon
      <3> QED
        BY <2>1, <3>1, Zenon
    <2>3. IsFiniteSet(DOMAIN size)
      BY <1>2, ZenonT(30)
    <2> HIDE DEF size
    <2>4. Total(size) \in Int
      BY <2>2, <2>3, UnitsFinite DEF Naturally
    <2> QED
      BY <1>2, <2>4, WrapType, Zenon DEF size
  <1>4. /\ DOMAIN table = {r.name : r \in records}
        /\ \A n \in DOMAIN table : \E r \in records : r.name = n /\ r.record = table[n]
    <2> DEFINE names == {r.name : r \in records}
    <2>1. PICK last \in [names -> records] :
             (\A n \in names : last[n].name = n) /\ table = [n \in names |-> last[n].record]
      BY <1>1, Zenon DEF Loaded
    <2> QED
      BY <2>1, Zenon
  <1>5. IsFiniteSet(DOMAIN table)
    <2> DEFINE g == [r \in records |-> r.name]
    <2>1. DOMAIN g = records /\ g = [x \in DOMAIN g |-> g[x]] /\ DOMAIN table = {g[x] : x \in DOMAIN g}
      BY <1>4, ZenonT(30)
    <2> HIDE DEF g
    <2> QED
      BY <1>2, <2>1, FiniteImage
  <1>6. \A n \in DOMAIN table : table[n] \in Record
    BY <1>4, Zenon DEF IInv, TypeOK
  <1> HIDE DEF records, u, c
  <1>7. PICK E \in SUBSET DOMAIN table : Evicts(table, blocked_files, p, E)
    BY <1>1, <1>3, <1>5, <1>6, PurgedEvicts, Zenon
  <1>8. IsFiniteSet(DOMAIN cachetable')
    BY <1>1, <1>5, <1>7, FS_Subset, Zenon DEF Evicts
  <1>9. \A n \in DOMAIN cachetable' : \E r \in index.records : r.name = n /\ r.record = cachetable'[n]
    BY <1>1, <1>4, <1>7, ZenonT(30) DEF Evicts, records
  <1>10. DOMAIN disk' \subseteq DOMAIN disk /\ \A f \in DOMAIN disk' : disk'[f] = disk[f]
    BY <1>1, Zenon DEF Restrict
  <1>11. used' \in 0 .. (CounterMod - 1) /\ nfiles' \in 0 .. (CounterMod - 1)
    BY <1>1, <1>7, Zenon DEF Evicts
  <1>12. \A f \in DOMAIN disk' : \E n \in DOMAIN cachetable' : cachetable'[n].file = f
    BY <1>1, <1>7, Zenon DEF Evicts, Restrict
  <1> QED
    BY <1>1, <1>8, <1>9, <1>10, <1>11, <1>12, Zenon DEF Loads

LEMMA NextIInv ==
    IInv /\ [Next]_vars => IInv'
PROOF
  \* A call that returns from a step that changes neither table, index nor files.
  <1>LocalStep. ASSUME IInv, NEW t \in Threads, UNCHANGED <<cachetable, used, nfiles, disk, world>>,
                       blocked_files' \in [Files -> Nat],
                       \/ \E k \in Keys : StatOriginal(t, k)
                       \/ pc[t] = "stat" /\ file[t] \in DOMAIN disk /\ Goto(t, "send") /\ UNCHANGED <<key, seen, image, file, at>>
                       \/ Deliver(t) \/ Decode(t)
                       \/ Return(t)
                PROVE  IInv'
    <2> USE <1>LocalStep
    <2> USE DEF world
    <2>1. TypeOK'
      <3>0. pc' \in [Threads -> PCs]
        BY ZenonT(30) DEF IInv, TypeOK, StatOriginal, Deliver, Decode, Return, Goto, PCs, shared
      <3>1. /\ key' \in [Threads -> Keys \cup {NoKey}]
            /\ file' \in [Threads -> Files \cup {NoFile}]
        <4>1. key' \in [Threads -> Keys \cup {NoKey}]
          BY ZenonT(30) DEF IInv, TypeOK, StatOriginal, Deliver, Decode, Return
        <4>2. file' \in [Threads -> Files \cup {NoFile}]
          BY Zenon DEF IInv, TypeOK, StatOriginal, Deliver, Decode, Return
        <4> QED
          BY <4>1, <4>2, Zenon
      <3>2. seen' \in [Threads -> Original]
        BY ZeroTypes, ZenonT(30) DEF IInv, TypeOK, StatOriginal, Deliver, Decode, Return
      <3>3. image' \in [Threads -> Decoded]
        <4>1. Decode(t) => [version |-> orig[key[t]].version, readAt |-> clock] \in Decoded
          BY Zenon DEF Decode, IInv, TypeOK, Places, Original, Decoded
        <4> QED
          BY <4>1, ZeroTypes, ZenonT(30) DEF IInv, TypeOK, StatOriginal, Deliver, Decode, Return
      <3>4. at' \in [Threads -> Times]
        BY ZeroTypes, ZenonT(30) DEF IInv, TypeOK, StatOriginal, Deliver, Decode, Return
      <3>5. ~ up' => DOMAIN cachetable' = {} /\ \A o \in Threads : pc'[o] = "idle"
        BY Zenon DEF IInv, TypeOK, StatOriginal, Deliver, Decode, Return, Goto, shared
      <3> QED
        BY <3>0, <3>1, <3>2, <3>3, <3>4, <3>5, Zenon DEF IInv, TypeOK
    <2>2. Places'
      <3>1. /\ IsFiniteSet(DOMAIN cachetable') /\ IsFiniteSet(index'.records)
            /\ \A f \in DOMAIN disk' : disk'[f].whole => disk'[f].fsize # 0
        BY Zenon DEF IInv, Places
      <3>2. pc[t] = "stat" => ~ Writing(t) /\ Holding(t)
        BY ZenonT(30) DEF Writing, Holding
      <3>3. ASSUME NEW o \in Threads
            PROVE  /\ pc'[o] # "idle" => key'[o] \in Keys
                   /\ Holding(o)' \/ Writing(o)' => file'[o] \in Files
                   /\ ~ (Holding(o)' \/ Writing(o)') => file'[o] = NoFile
        BY CacheAssumption, ZenonT(30) DEF IInv, TypeOK, Places, Holding, Writing, StatOriginal, Deliver, Decode, Return, Goto, shared
      <3> QED
        BY <3>1, <3>3, Zenon DEF Places
    <2>3. Own'
      BY CacheAssumption DEF IInv, TypeOK, Places, Own, Holding, Writing, StatOriginal, Deliver, Decode, Return, Goto, shared, Registered
    <2>4. Faithful'
      <3>0. Trusted' = Trusted
        BY Zenon DEF Trusted
      <3> SUFFICES ASSUME Trusted PROVE Faithful'
        BY <3>0, Zenon DEF Faithful
      <3> QED
        BY ZenonT(30) DEF IInv, TypeOK, Faithful, StatOriginal, Deliver, Decode, Return, Goto, shared
    <2> QED
      BY <2>1, <2>2, <2>3, <2>4, Zenon DEF IInv
  \* check() under the mutex: the entry it touches keeps its file, and the call
  \* that pins the file is one of the key the entry names.
  <1>LookupStep. ASSUME IInv, NEW t \in Threads, Lookup(t)
                 PROVE  IInv'
    <2> USE <1>LookupStep
    <2> DEFINE k == key[t]
    <2>1. k \in Keys /\ pc[t] = "lookup" /\ up
      BY Zenon DEF IInv, TypeOK, Places, Lookup
    <2>2. /\ DOMAIN cachetable' = DOMAIN cachetable
          /\ \A n \in DOMAIN cachetable : /\ cachetable'[n] \in Record
                                          /\ cachetable'[n].file = cachetable[n].file
                                          /\ cachetable'[n].mtime = cachetable[n].mtime
      BY ZenonT(30) DEF IInv, TypeOK, Lookup, Touched, Record
    <2>3. \/ /\ k \in DOMAIN cachetable /\ seen[t].mtime <= cachetable[k].mtime
             /\ blocked_files' = [blocked_files EXCEPT ![cachetable[k].file] = @ + 1]
             /\ file' = [file EXCEPT ![t] = cachetable[k].file]
             /\ pc' = [pc EXCEPT ![t] = "stat"]
          \/ /\ UNCHANGED <<blocked_files, file>>
             /\ pc' = [pc EXCEPT ![t] = "decode"]
      <3>1. k \in DOMAIN cachetable => seen[t].mtime \in Int /\ cachetable[k].mtime \in Int
        BY CacheAssumption DEF IInv, TypeOK, Original, Record, Times
      <3> QED
        BY <3>1 DEF Lookup, Stale, Goto
    <2>4. UNCHANGED <<used, nfiles, disk, index, up, orig, clock, key, seen, image, at>>
      BY Zenon DEF Lookup, world
    <2> HIDE DEF k
    <2>5. TypeOK'
      <3>1. pc' \in [Threads -> PCs]
        BY <2>3, Zenon DEF IInv, TypeOK, PCs
      <3>2. file' \in [Threads -> Files \cup {NoFile}]
        BY <2>3, Zenon DEF IInv, TypeOK, Record
      <3>3. blocked_files' \in [Files -> Nat]
        BY <2>3 DEF IInv, TypeOK, Record
      <3> QED
        BY <2>1, <2>2, <2>4, <3>1, <3>2, <3>3, Zenon DEF IInv, TypeOK
    <2>6. Places'
      <3>1. /\ IsFiniteSet(DOMAIN cachetable') /\ IsFiniteSet(index'.records)
            /\ \A f \in DOMAIN disk' : disk'[f].whole => disk'[f].fsize # 0
        BY <2>2, <2>4, Zenon DEF IInv, Places
      <3>2. ASSUME NEW o \in Threads
            PROVE  /\ pc'[o] # "idle" => key'[o] \in Keys
                   /\ Holding(o)' \/ Writing(o)' => file'[o] \in Files
                   /\ ~ (Holding(o)' \/ Writing(o)') => file'[o] = NoFile
        BY <2>1, <2>3, <2>4, ZenonT(30) DEF IInv, TypeOK, Places, Holding, Writing, Record, k
      <3> QED
        BY <3>1, <3>2, Zenon DEF Places
    <2>7. Own'
      <3>1. Registered' = Registered
        BY <2>2, Zenon DEF Registered
      <3>2. ASSUME NEW o \in Threads, Writing(o)'
            PROVE  /\ Writing(o) /\ o # t /\ pc'[o] = pc[o] /\ file'[o] = file[o]
                   /\ file'[t] # file[o]
        BY <2>1, <2>3, <3>2, CacheAssumption DEF IInv, TypeOK, Places, Own, Holding, Writing, Registered
      <3>3. \A q \in Threads \ {t} : file'[q] = file[q]
        BY <2>3, Zenon DEF IInv, TypeOK
      <3> QED
        BY <2>4, <3>1, <3>2, <3>3 DEF IInv, Own
    <2>8. Faithful'
      <3>0. Trusted' = Trusted
        BY <2>4, Zenon DEF Trusted
      <3> SUFFICES ASSUME Trusted PROVE Faithful'
        BY <3>0, Zenon DEF Faithful
      <3>1. \A n \in DOMAIN cachetable' : Renders(disk', cachetable'[n].file, n, cachetable'[n].mtime)
        BY <2>2, <2>4, ZenonT(30) DEF IInv, Faithful, Renders
      <3>2. \A r \in index'.records : Renders(disk', r.record.file, r.name, r.record.mtime)
        BY <2>4, Zenon DEF IInv, Faithful, Renders
      <3>3. ASSUME NEW o \in Threads, pc'[o] \in {"stat", "send"}
            PROVE  \E m \in Times : seen'[o].mtime <= m /\ Renders(disk', file'[o], key'[o], m)
        <4>1. CASE o = t
          <5>1. k \in DOMAIN cachetable /\ seen[t].mtime <= cachetable[k].mtime /\ file'[t] = cachetable[k].file
            BY <2>3, <3>3, <4>1, Zenon DEF IInv, TypeOK
          <5>2. cachetable[k].mtime \in Times /\ Renders(disk, cachetable[k].file, k, cachetable[k].mtime)
            BY <5>1, Zenon DEF IInv, TypeOK, Record, Faithful
          <5> QED
            BY <2>4, <4>1, <5>1, <5>2, Zenon DEF Renders, k
        <4>2. CASE o # t
          <5>1. pc[o] = pc'[o] /\ file'[o] = file[o]
            BY <2>3, <4>2, Zenon DEF IInv, TypeOK
          <5> QED
            BY <2>4, <3>3, <5>1 DEF IInv, Faithful, Renders
        <4> QED
          BY <4>1, <4>2, Zenon
      <3> QED
        BY <3>1, <3>2, <3>3, Zenon DEF Faithful
    <2> QED
      BY <2>5, <2>6, <2>7, <2>8, Zenon DEF IInv
  \* mkstemp and the probe: the new file is nobody's but the call's.
  <1>NewFileStep. ASSUME IInv, NEW t \in Threads, NewCacheFile(t)
                  PROVE  IInv'
    <2> USE <1>NewFileStep
    <2>1. PICK f \in FreshNames :
             /\ disk' = Put(disk, f, Partial(t))
             /\ \/ /\ file' = [file EXCEPT ![t] = f]
                   /\ Goto(t, "encode")
                   /\ UNCHANGED <<key, seen, image, at>>
                \/ Return(t)
      BY Zenon DEF NewCacheFile
    <2>2. /\ pc[t] = "create" /\ key[t] \in Keys /\ up /\ file[t] = NoFile
          /\ UNCHANGED <<cachetable, blocked_files, used, nfiles, index, up, orig, clock>>
      BY Zenon DEF IInv, TypeOK, Places, Holding, Writing, NewCacheFile, world
    <2>3. /\ f \in Files /\ f \notin DOMAIN disk /\ f \notin Registered
          /\ \A o \in Threads : file[o] # f
          /\ \A r \in index.records : r.record.file # f
      BY Zenon DEF FreshNames, Remembered, Registered
    <2>4. Partial(t) \in Content /\ Partial(t).key = key[t] /\ ~ Partial(t).whole
      BY <2>2, Zenon DEF IInv, TypeOK, Partial, Content, Decoded
    <2>5. /\ DOMAIN disk' = DOMAIN disk \cup {f} /\ disk'[f] = Partial(t)
          /\ \A g \in DOMAIN disk : disk'[g] = disk[g]
      BY <2>1, <2>3, Zenon DEF Put
    <2>6. /\ LocalTypes'
          /\ \A o \in Threads \ {t} : pc'[o] = pc[o] /\ key'[o] = key[o] /\ seen'[o] = seen[o] /\ file'[o] = file[o]
          /\ \/ pc'[t] = "encode" /\ key'[t] = key[t] /\ file'[t] = f
             \/ pc'[t] = "idle" /\ file'[t] = NoFile
      <3>1. CASE Return(t)
        BY <3>1, ReturnEffect, Zenon DEF IInv
      <3>2. CASE file' = [file EXCEPT ![t] = f] /\ Goto(t, "encode") /\ UNCHANGED <<key, seen, image, at>>
        <4>1. pc' \in [Threads -> PCs]
          BY <3>2, Zenon DEF IInv, TypeOK, Goto, PCs
        <4>2. file' \in [Threads -> Files \cup {NoFile}]
          BY <2>3, <3>2, Zenon DEF IInv, TypeOK
        <4> QED
          BY <3>2, <4>1, <4>2, Zenon DEF IInv, TypeOK, Goto, LocalTypes
      <3> QED
        BY <2>1, <3>1, <3>2, Zenon
    <2> HIDE DEF FreshNames
    <2>7. TypeOK'
      BY <2>2, <2>3, <2>4, <2>5, <2>6, ZenonT(30) DEF IInv, TypeOK, LocalTypes
    <2>8. Places'
      <3>1. /\ IsFiniteSet(DOMAIN cachetable') /\ IsFiniteSet(index'.records)
        BY <2>2, Zenon DEF IInv, Places
      <3>2. \A g \in DOMAIN disk' : disk'[g].whole => disk'[g].fsize # 0
        BY <2>4, <2>5, Zenon DEF IInv, Places
      <3>3. ASSUME NEW o \in Threads
            PROVE  /\ pc'[o] # "idle" => key'[o] \in Keys
                   /\ Holding(o)' \/ Writing(o)' => file'[o] \in Files
                   /\ ~ (Holding(o)' \/ Writing(o)') => file'[o] = NoFile
        BY <2>2, <2>3, <2>6, ZenonT(30) DEF IInv, Places, Holding, Writing
      <3> QED
        BY <3>1, <3>2, <3>3, Zenon DEF Places
    <2>9. Own'
      <3>1. Registered' = Registered
        BY <2>2, Zenon DEF Registered
      <3> QED
        BY <2>2, <2>3, <2>4, <2>5, <2>6, <3>1, CacheAssumption DEF IInv, Own, Writing
    <2>10. Faithful'
      <3>0. Trusted' = Trusted
        BY <2>2, Zenon DEF Trusted
      <3> SUFFICES ASSUME Trusted PROVE Faithful'
        BY <3>0, Zenon DEF Faithful
      <3>1. ASSUME NEW g, NEW n, NEW m, g # f, Renders(disk, g, n, m)
            PROVE  Renders(disk', g, n, m)
        BY <2>5, <3>1, Zenon DEF Renders
      <3>2. \A n \in DOMAIN cachetable : cachetable[n].file # f
        BY <2>3, Zenon DEF Registered
      <3>3. \A o \in Threads : pc'[o] \in {"stat", "send"} => o # t
        BY <2>6, Zenon
      <3> HIDE DEF Registered
      <3> QED
        BY <2>2, <2>3, <2>6, <3>1, <3>2, <3>3, Zenon DEF IInv, Faithful
    <2> QED
      BY <2>7, <2>8, <2>9, <2>10, Zenon DEF IInv
  \* The encoder changes nothing but the file of its own call.
  <1>EncodeStep. ASSUME IInv, NEW t \in Threads, Encode(t)
                 PROVE  IInv'
    <2> USE <1>EncodeStep
    <2> DEFINE f == file[t]
    <2>1. PICK size \in Sizes \cup {0}, whole \in BOOLEAN :
             /\ whole => size # 0
             /\ disk' = [disk EXCEPT ![f] = [@ EXCEPT !.mtime = clock, !.fsize = size, !.whole = whole]]
      BY Zenon DEF Encode
    <2>2. /\ pc[t] = "encode" /\ pc' = [pc EXCEPT ![t] = "finalize"]
          /\ UNCHANGED <<cachetable, blocked_files, used, nfiles, index, up, orig, clock, key, seen, image, file, at>>
      BY Zenon DEF Encode, Goto, world
    <2>3. /\ f \in DOMAIN disk /\ f \notin Registered /\ disk[f].key = key[t]
          /\ \A r \in index.records : r.record.file # f
          /\ \A o \in Threads \ {t} : file[o] # f
      BY <2>2, Zenon DEF IInv, Own, Writing
    <2>4. /\ DOMAIN disk' = DOMAIN disk
          /\ disk'[f] \in Content /\ disk'[f].key = key[t]
          /\ disk'[f].whole => disk'[f].fsize # 0
          /\ \A g \in DOMAIN disk \ {f} : disk'[g] = disk[g]
      <3>1. disk[f] \in Content /\ clock \in Times
        BY <2>3, Zenon DEF IInv, TypeOK
      <3> QED
        BY <2>1, <2>3, <3>1, Zenon DEF Content
    <2> HIDE DEF f
    <2>5. TypeOK'
      <3>1. pc' \in [Threads -> PCs] /\ up
        BY <2>2, Zenon DEF IInv, TypeOK, PCs
      <3> QED
        BY <2>2, <2>3, <2>4, <3>1, Zenon DEF IInv, TypeOK
    <2>6. Places'
      <3>1. /\ IsFiniteSet(DOMAIN cachetable') /\ IsFiniteSet(index'.records)
        BY <2>2, Zenon DEF IInv, Places
      <3>2. \A g \in DOMAIN disk' : disk'[g].whole => disk'[g].fsize # 0
        BY <2>4, Zenon DEF IInv, Places
      <3>3. ASSUME NEW o \in Threads
            PROVE  /\ pc'[o] # "idle" => key'[o] \in Keys
                   /\ Holding(o)' \/ Writing(o)' => file'[o] \in Files
                   /\ ~ (Holding(o)' \/ Writing(o)') => file'[o] = NoFile
        BY <2>2, ZenonT(30) DEF IInv, TypeOK, Places, Holding, Writing
      <3> QED
        BY <3>1, <3>2, <3>3, Zenon DEF Places
    <2>7. Own'
      <3>1. Registered' = Registered
        BY <2>2, Zenon DEF Registered
      <3> QED
        BY <2>2, <2>3, <2>4, <3>1 DEF IInv, TypeOK, Own, Writing, f
    <2>8. Faithful'
      <3>0. Trusted' = Trusted
        BY <2>2, Zenon DEF Trusted
      <3> SUFFICES ASSUME Trusted PROVE Faithful'
        BY <3>0, Zenon DEF Faithful
      <3>1. ASSUME NEW g, NEW n, NEW m, g # f, Renders(disk, g, n, m)
            PROVE  Renders(disk', g, n, m)
        BY <2>4, <3>1, Zenon DEF Renders
      <3>2. \A n \in DOMAIN cachetable : cachetable[n].file # f
        BY <2>3, Zenon DEF Registered
      <3>3. \A o \in Threads : pc'[o] \in {"stat", "send"} => o # t /\ pc'[o] = pc[o]
        BY <2>2, Zenon DEF IInv, TypeOK
      <3> QED
        BY <2>2, <2>3, <3>1, <3>2, <3>3, Zenon DEF IInv, Faithful
    <2> QED
      BY <2>5, <2>6, <2>7, <2>8, Zenon DEF IInv
  \* A method of the cache that unlinks files and drops entries, and registers at
  \* most the file F of a call that ends with the step.
  <1>TableStep. ASSUME IInv, UNCHANGED <<blocked_files, world>>, up,
                       used' \in 0 .. (CounterMod - 1), nfiles' \in 0 .. (CounterMod - 1),
                       UNCHANGED local \/ \E t \in Threads : Return(t),
                       DOMAIN disk' \subseteq DOMAIN disk, \A f \in DOMAIN disk' : disk'[f] = disk[f],
                       IsFiniteSet(DOMAIN cachetable'),
                       NEW F,
                       \A k \in DOMAIN cachetable' :
                           /\ k \in IndexNames /\ cachetable'[k] \in Record
                           /\ Trusted => Renders(disk, cachetable'[k].file, k, cachetable'[k].mtime)
                           /\ cachetable'[k].file \in Registered \cup {F},
                       \A o \in Threads : Writing(o)' => file[o] \in DOMAIN disk' /\ file[o] # F
                PROVE  IInv'
    <2> USE <1>TableStep
    <2>1. UNCHANGED <<blocked_files, index, up, orig, clock>>
      BY Zenon DEF world
    <2>2. /\ LocalTypes'
          /\ \A o \in Threads :
                \/ pc'[o] = pc[o] /\ key'[o] = key[o] /\ seen'[o] = seen[o] /\ file'[o] = file[o]
                \/ pc'[o] = "idle" /\ file'[o] = NoFile
      <3>1. CASE UNCHANGED local
        BY <3>1, Zenon DEF local, IInv, TypeOK, LocalTypes
      <3> QED
        BY <3>1, ReturnEffect, Zenon DEF IInv
    <2>3. TypeOK'
      BY <2>1, <2>2, Zenon DEF IInv, TypeOK, LocalTypes
    <2>4. Places'
      <3>1. IsFiniteSet(index'.records)
        BY <2>1, Zenon DEF IInv, Places
      <3>2. \A g \in DOMAIN disk' : disk'[g].whole => disk'[g].fsize # 0
        BY Zenon DEF IInv, Places
      <3>3. ASSUME NEW o \in Threads
            PROVE  /\ pc'[o] # "idle" => key'[o] \in Keys
                   /\ Holding(o)' \/ Writing(o)' => file'[o] \in Files
                   /\ ~ (Holding(o)' \/ Writing(o)') => file'[o] = NoFile
        BY <2>2, ZenonT(30) DEF IInv, Places, Holding, Writing
      <3> QED
        BY <3>1, <3>2, <3>3, Zenon DEF Places
    <2>5. Own'
      <3> SUFFICES ASSUME NEW o \in Threads, Writing(o)'
                   PROVE  /\ file'[o] \in DOMAIN disk'
                          /\ file'[o] \notin Registered'
                          /\ \A r \in index'.records : r.record.file # file'[o]
                          /\ \A q \in Threads \ {o} : file'[q] # file'[o]
                          /\ disk'[file'[o]].key = key'[o]
                          /\ pc'[o] = "add" => disk'[file'[o]].whole
        BY Zenon DEF Own
      <3>1. pc'[o] = pc[o] /\ key'[o] = key[o] /\ file'[o] = file[o] /\ Writing(o)
        BY <2>2, ZenonT(30) DEF Writing
      <3>2. file'[o] \notin Registered'
        BY <3>1, SMTT(30) DEF IInv, Own, Registered
      <3>3. \A q \in Threads \ {o} : file'[q] # file'[o]
        BY <2>2, <3>1, CacheAssumption DEF IInv, Own, Places
      <3> QED
        BY <2>1, <3>1, <3>2, <3>3 DEF IInv, Own
    <2>6. Faithful'
      <3>0. Trusted' = Trusted
        BY <2>1, Zenon DEF Trusted
      <3> SUFFICES ASSUME Trusted PROVE Faithful'
        BY <3>0, Zenon DEF Faithful
      <3>1. \A g, n, m : Renders(disk, g, n, m) => Renders(disk', g, n, m)
        BY Zenon DEF Renders
      <3> QED
        BY <2>1, <2>2, <3>1, Zenon DEF IInv, Faithful
    <2> QED
      BY <2>3, <2>4, <2>5, <2>6, Zenon DEF IInv
  \* A failed encode, or a file too short or too large to be registered.
  <1>DropStep. ASSUME IInv, NEW t \in Threads, Writing(t), DropFile(t)
               PROVE  IInv'
    <2> USE <1>DropStep
    <2>1. up /\ DOMAIN disk' = DOMAIN disk \ {file[t]} /\ \A f \in DOMAIN disk' : disk'[f] = disk[f]
      BY Zenon DEF IInv, TypeOK, Writing, DropFile, Unlinked, Restrict
    <2>2. \A k \in DOMAIN cachetable :
                 /\ k \in IndexNames /\ cachetable[k] \in Record
                 /\ Trusted => Renders(disk, cachetable[k].file, k, cachetable[k].mtime)
                 /\ cachetable[k].file \in Registered \cup {NoFile}
      BY Zenon DEF IInv, TypeOK, Faithful, Registered
    <2>3. \A o \in Threads : Writing(o)' => file[o] \in DOMAIN disk' /\ file[o] # NoFile
      <3> SUFFICES ASSUME NEW o \in Threads, Writing(o)'
                   PROVE  file[o] \in DOMAIN disk' /\ file[o] # NoFile
        BY Zenon
      <3>1. o # t /\ Writing(o)
        BY ReturnEffect, Zenon DEF IInv, DropFile, Writing
      <3> QED
        BY <2>1, <3>1, CacheAssumption DEF IInv, Own, Places
    <2> QED
      BY <2>1, <2>2, <2>3, <1>TableStep, Zenon DEF DropFile, IInv, TypeOK, Places
  \* finalize_cache() lets only a whole file go on to add().
  <1>FinalizeStep. ASSUME IInv, NEW t \in Threads, FinalizeCache(t)
                   PROVE  IInv'
    <2> USE <1>FinalizeStep
    <2>1. CASE ~ Intact(t)
      BY <2>1, <1>DropStep, Zenon DEF FinalizeCache, Writing
    <2>2. CASE Intact(t)
      <3>1. /\ pc[t] = "finalize" /\ pc' = [pc EXCEPT ![t] = "add"] /\ at' = [at EXCEPT ![t] = clock]
            /\ UNCHANGED <<cachetable, blocked_files, used, nfiles, disk, index, up, orig, clock, key, seen, image, file>>
        BY <2>2, Zenon DEF FinalizeCache, Goto, shared, world
      <3>2. disk[file[t]].whole
        BY <2>2, ZenonT(30) DEF Intact
      <3>3. \A o \in Threads : /\ Writing(o)' = Writing(o) /\ Holding(o)' = Holding(o)
                               /\ pc'[o] \in {"stat", "send"} => pc[o] \in {"stat", "send"}
                               /\ o # t => pc'[o] = pc[o]
        BY <3>1 DEF IInv, TypeOK, Writing, Holding
      <3>4. TypeOK'
        <4>1. pc' \in [Threads -> PCs] /\ up
          BY <3>1, Zenon DEF IInv, TypeOK, PCs
        <4>2. at' \in [Threads -> Times]
          BY <3>1, Zenon DEF IInv, TypeOK
        <4> QED
          BY <3>1, <4>1, <4>2, Zenon DEF IInv, TypeOK
      <3>5. Places'
        BY <3>1, <3>3, Zenon DEF IInv, Places
      <3>6. Own'
        <4>1. Registered' = Registered
          BY <3>1, Zenon DEF Registered
        <4> QED
          BY <3>1, <3>2, <3>3, <4>1, ZenonT(30) DEF IInv, Own
      <3>7. Faithful'
        BY <3>1, <3>3, Zenon DEF IInv, Faithful, Trusted
      <3> QED
        BY <3>4, <3>5, <3>6, <3>7, Zenon DEF IInv
    <2> QED
      BY <2>1, <2>2, Zenon
  <1>RemoveStep. ASSUME IInv, NEW k \in IndexNames, Remove(k)
                 PROVE  IInv'
    <2> USE <1>RemoveStep
    <2>1. /\ up /\ k \in DOMAIN cachetable /\ DOMAIN cachetable' = DOMAIN cachetable \ {k}
          /\ \A n \in DOMAIN cachetable' : cachetable'[n] = cachetable[n]
          /\ DOMAIN disk' = DOMAIN disk \ {cachetable[k].file}
          /\ \A f \in DOMAIN disk' : disk'[f] = disk[f]
          /\ UNCHANGED <<blocked_files, local, world>>
      BY Zenon DEF Remove, Unlinked, Restrict
    <2>2. used' \in 0 .. (CounterMod - 1) /\ nfiles' \in 0 .. (CounterMod - 1)
      <3>1. used - cachetable[k].fsize \in Int /\ nfiles - 1 \in Int
        BY <2>1, Counted DEF IInv
      <3> QED
        BY <3>1, WrapType, Zenon DEF Remove
    <2>3. IsFiniteSet(DOMAIN cachetable')
      BY <2>1, FS_Subset, Zenon DEF IInv, Places
    <2>4. \A n \in DOMAIN cachetable' :
                 /\ n \in IndexNames /\ cachetable'[n] \in Record
                 /\ Trusted => Renders(disk, cachetable'[n].file, n, cachetable'[n].mtime)
                 /\ cachetable'[n].file \in Registered \cup {NoFile}
      BY <2>1, ZenonT(30) DEF IInv, TypeOK, Faithful, Registered
    <2>5. \A o \in Threads : Writing(o)' => file[o] \in DOMAIN disk' /\ file[o] # NoFile
      <3>1. pc' = pc
        BY <2>1, Zenon DEF local
      <3> QED
        BY <2>1, <3>1, CacheAssumption DEF Writing, IInv, Own, Places, Registered
    <2> QED
      BY <2>1, <2>2, <2>3, <2>4, <2>5, <1>TableStep, Zenon
  <1>PurgeStep. ASSUME IInv, Purge
                PROVE  IInv'
    <2> USE <1>PurgeStep
    <2>1. PICK E \in SUBSET DOMAIN cachetable :
                /\ DOMAIN cachetable' = DOMAIN cachetable \ E
                /\ \A k \in DOMAIN cachetable' : cachetable'[k] = cachetable[k]
                /\ DOMAIN disk' = DOMAIN disk \ {cachetable[k].file : k \in E}
                /\ \A f \in DOMAIN disk' : disk'[f] = disk[f]
                /\ used' \in 0 .. (CounterMod - 1) /\ nfiles' \in 0 .. (CounterMod - 1)
      BY PurgeEffect, Zenon
    <2>2. up /\ UNCHANGED <<blocked_files, local, world>>
      BY Zenon DEF Purge
    <2>3. IsFiniteSet(DOMAIN cachetable')
      BY <2>1, FS_Subset, Zenon DEF IInv, Places
    <2>4. \A n \in DOMAIN cachetable' :
                 /\ n \in IndexNames /\ cachetable'[n] \in Record
                 /\ Trusted => Renders(disk, cachetable'[n].file, n, cachetable'[n].mtime)
                 /\ cachetable'[n].file \in Registered \cup {NoFile}
      BY <2>1, ZenonT(30) DEF IInv, TypeOK, Faithful, Registered
    <2>5. \A o \in Threads : Writing(o)' => file[o] \in DOMAIN disk' /\ file[o] # NoFile
      <3>1. pc' = pc
        BY <2>2, Zenon DEF local
      <3> QED
        BY <2>1, <3>1, CacheAssumption DEF Writing, IInv, Own, Places, Registered
    <2> QED
      BY <2>1, <2>2, <2>3, <2>4, <2>5, <1>TableStep, Zenon
  <1>AddStep. ASSUME IInv, NEW t \in Threads, Add(t)
              PROVE  IInv'
    <2> USE <1>AddStep
    <2>1. PICK E \in SUBSET DOMAIN cachetable, full \in BOOLEAN : Adds(t, E, full)
      BY AddEffect, Zenon
    <2>2. pc[t] = "add" /\ Return(t) /\ UNCHANGED <<blocked_files, world>>
      BY Zenon DEF Add
    <2>3. /\ key[t] \in Keys /\ up /\ file[t] \in DOMAIN disk
          /\ disk[file[t]].key = key[t] /\ disk[file[t]].whole /\ NewRecord(t) \in Record
      BY <2>2, Finished, Zenon
    <2>4. IsFiniteSet(DOMAIN cachetable')
      <3>1. DOMAIN cachetable' \subseteq DOMAIN cachetable \cup {key[t]}
        BY <2>1, Zenon DEF Adds
      <3> QED
        BY <3>1, FS_Subset, FS_AddElement, Zenon DEF IInv, Places
    <2>5. ASSUME NEW m \in DOMAIN cachetable'
          PROVE  /\ m \in IndexNames /\ cachetable'[m] \in Record
                 /\ Trusted => Renders(disk, cachetable'[m].file, m, cachetable'[m].mtime)
                 /\ cachetable'[m].file \in Registered \cup {file[t]}
      <3>1. CASE m = key[t] /\ ~ full
        <4>1. cachetable'[m] = NewRecord(t)
          BY <2>1, <3>1, Zenon DEF Adds
        <4> QED
          BY <2>3, <3>1, <4>1, CacheAssumption DEF Renders, NewRecord
      <3>2. CASE ~ (m = key[t] /\ ~ full)
        <4>1. m \in DOMAIN cachetable /\ cachetable'[m] = cachetable[m]
          BY <2>1, <3>2, Zenon DEF Adds
        <4> QED
          BY <4>1, Zenon DEF IInv, TypeOK, Faithful, Registered
      <3> QED
        BY <3>1, <3>2, ZenonT(30)
    <2>6. ASSUME NEW o \in Threads, Writing(o)'
          PROVE  file[o] \in DOMAIN disk' /\ file[o] # file[t]
      <3>1. o # t /\ Writing(o)
        BY <2>2, <2>6, ReturnEffect, Zenon DEF IInv, Writing
      <3>2. file[o] \in DOMAIN disk /\ file[o] \notin Registered /\ file[o] # file[t]
        BY <3>1, Zenon DEF IInv, Own
      <3> QED
        BY <2>1, <3>2, ZenonT(30) DEF Adds, Replaced, Registered
    <2>7. /\ DOMAIN disk' \subseteq DOMAIN disk /\ \A f \in DOMAIN disk' : disk'[f] = disk[f]
          /\ used' \in 0 .. (CounterMod - 1) /\ nfiles' \in 0 .. (CounterMod - 1)
      BY <2>1, Zenon DEF Adds
    <2> QED
      BY <2>2, <2>3, <2>4, <2>5, <2>6, <2>7, <1>TableStep, Zenon
  <1>StartStep. ASSUME IInv, Start
                PROVE  IInv'
    <2> USE <1>StartStep
    <2>1. /\ ~ up /\ up' = TRUE /\ UNCHANGED <<blocked_files, orig, clock, pc, key, seen, image, file, at>>
          /\ DOMAIN cachetable = {} /\ \A t \in Threads : pc[t] = "idle"
      BY Zenon DEF Start, local, IInv, TypeOK
    <2>2. /\ DOMAIN disk' \subseteq DOMAIN disk /\ \A f \in DOMAIN disk' : disk'[f] = disk[f]
          /\ index'.records \subseteq index.records /\ index'.state \in {"missing", "corrupt", "present"}
          /\ used' \in 0 .. (CounterMod - 1) /\ nfiles' \in 0 .. (CounterMod - 1)
          /\ IsFiniteSet(DOMAIN cachetable') /\ IsFiniteSet(index'.records)
          /\ \A n \in DOMAIN cachetable' : \E r \in index.records : r.name = n /\ r.record = cachetable'[n]
          /\ index' = index \/ DOMAIN cachetable' = {}
      <3>1. CASE index.state # "present"
        <4>1. /\ disk' = << >> /\ index' = [state |-> "missing", records |-> {}]
              /\ UNCHANGED <<cachetable, used, nfiles>>
          BY <3>1, Zenon DEF Start
        <4> QED
          BY <2>1, <4>1, FS_EmptySet DEF IInv, TypeOK
      <3>2. CASE index.state = "present"
        BY <3>2, StartLoads, ZenonT(30) DEF Loads, IInv, TypeOK, Places
      <3> QED
        BY <3>1, <3>2, ZenonT(30)
    <2>3. TypeOK'
      BY <2>1, <2>2, SMTT(30) DEF IInv, TypeOK
    <2>4. Places'
      BY <2>1, <2>2, ZenonT(30) DEF IInv, Places, Holding, Writing
    <2>5. Own'
      BY <2>1, Zenon DEF Own, Writing
    <2>6. Faithful'
      <3>1. \A g, n, m : Renders(disk, g, n, m) => Renders(disk', g, n, m)
        BY <2>2, ZenonT(30) DEF Renders
      <3>2. CASE Trusted
        BY <2>1, <2>2, <3>1, <3>2 DEF IInv, Faithful
      <3>3. CASE ~ Trusted
        <4>1. CASE index' = index
          BY <3>3, <4>1, Zenon DEF Faithful, Trusted
        <4>2. CASE DOMAIN cachetable' = {}
          BY <2>1, <3>3, <4>2, Zenon DEF Faithful, Trusted
        <4> QED
          BY <2>2, <4>1, <4>2, Zenon
      <3> QED
        BY <3>2, <3>3, Zenon
    <2> QED
      BY <2>3, <2>4, <2>5, <2>6, Zenon DEF IInv
  \* The process ends.  What the index then names are whole renderings, as long as
  \* no name is cut to another key.
  <1>ExitStep. ASSUME IInv, Shutdown \/ ShutdownCutOff \/ Crash
               PROVE  IInv'
    <2> USE <1>ExitStep
    <2>1. /\ up' = FALSE /\ cachetable' = << >> /\ blocked_files' = [f \in Files |-> 0]
          /\ used' = 0 /\ nfiles' = 0 /\ UNCHANGED <<disk, orig, clock>>
          /\ pc' = [t \in Threads |-> "idle"] /\ key' = [t \in Threads |-> NoKey]
          /\ seen' = [t \in Threads |-> NothingSeen] /\ image' = [t \in Threads |-> NothingRead]
          /\ file' = [t \in Threads |-> NoFile] /\ at' = [t \in Threads |-> 0]
      BY Zenon DEF Shutdown, ShutdownCutOff, Crash, Exit
    <2>2. /\ index'.state \in {"missing", "corrupt", "present"}
          /\ index'.records \subseteq IndexRecords \/ index'.records \subseteq index.records
      <3>1. CASE Shutdown
        BY <3>1, ZenonT(30) DEF Shutdown
      <3>2. CASE ShutdownCutOff
        BY <3>2 DEF ShutdownCutOff
      <3>3. CASE Crash
        BY <3>3, Zenon DEF Crash, IInv, TypeOK
      <3> QED
        BY <3>1, <3>2, <3>3, Zenon
    <2>3. IsFiniteSet(IndexRecords)
      <3> DEFINE g == [k \in DOMAIN cachetable |-> [name |-> WrittenAs[k], record |-> cachetable[k]]]
      <3>1. DOMAIN g = DOMAIN cachetable /\ g = [x \in DOMAIN g |-> g[x]] /\ IndexRecords = {g[x] : x \in DOMAIN g}
        BY Zenon DEF IndexRecords
      <3> HIDE DEF g
      <3> QED
        BY <3>1, FiniteImage, Zenon DEF IInv, Places
    <2>4. \A r \in IndexRecords : /\ r.name \in IndexNames /\ r.record \in Record
                                  /\ CutsAreNoKeys => Renders(disk, r.record.file, r.name, r.record.mtime)
      <3> SUFFICES ASSUME NEW k \in DOMAIN cachetable
                   PROVE  /\ WrittenAs[k] \in IndexNames /\ cachetable[k] \in Record
                          /\ CutsAreNoKeys => Renders(disk, cachetable[k].file, WrittenAs[k], cachetable[k].mtime)
        BY DEF IndexRecords
      <3>1. /\ k \in IndexNames /\ cachetable[k] \in Record
            /\ CutsAreNoKeys => Renders(disk, cachetable[k].file, k, cachetable[k].mtime)
        BY Zenon DEF IInv, TypeOK, Faithful, Trusted
      <3>2. CutsAreNoKeys /\ WrittenAs[k] \in Keys => WrittenAs[k] = k
        BY <3>1, Zenon DEF CutsAreNoKeys
      <3> QED
        BY <3>1, <3>2, CacheAssumption, Zenon DEF Renders
    <2>5. /\ \A r \in index'.records : /\ r.name \in IndexNames /\ r.record \in Record
                                       /\ CutsAreNoKeys => Renders(disk, r.record.file, r.name, r.record.mtime)
          /\ IsFiniteSet(index'.records)
      BY <2>2, <2>3, <2>4, FS_Subset, Zenon DEF IInv, TypeOK, Places, Faithful, Trusted
    <2>6. TypeOK'
      <3>1. 0 \in 0 .. (CounterMod - 1) /\ 0 \in Nat
        BY CacheAssumption
      <3>2. DOMAIN cachetable' = {}
        BY <2>1
      <3> QED
        BY <2>1, <2>2, <2>5, <3>1, <3>2, ZeroTypes, Zenon DEF IInv, TypeOK, PCs
    <2>7. Places'
      <3>1. IsFiniteSet(DOMAIN cachetable')
        BY <2>1, FS_EmptySet
      <3> QED
        BY <2>1, <2>5, <3>1, Zenon DEF IInv, Places, Holding, Writing
    <2>8. Own' /\ Faithful'
      <3>1. DOMAIN cachetable' = {} /\ \A t \in Threads : pc'[t] = "idle"
        BY <2>1
      <3>2. Own'
        BY <3>1, Zenon DEF Own, Writing
      <3> QED
        BY <2>1, <2>5, <3>1, <3>2, Zenon DEF Faithful, Trusted
    <2> QED
      BY <2>6, <2>7, <2>8, Zenon DEF IInv
  \* The environment: originals are replaced and time passes.
  <1>WorldStep. ASSUME IInv, (\E k \in Keys : ReplaceOriginal(k)) \/ Tick
                PROVE  IInv'
    <2> USE <1>WorldStep
    <2>1. UNCHANGED <<cachetable, blocked_files, used, nfiles, disk, index, up, pc, key, seen, image, file, at>>
      BY Zenon DEF ReplaceOriginal, Tick, shared, local
    <2>2. orig' \in [Keys -> Original] /\ clock' \in Times
      <3>1. ASSUME NEW k \in Keys, ReplaceOriginal(k)
            PROVE  [version |-> orig[k].version + 1, mtime |-> clock] \in Original
        BY <3>1, CacheAssumption DEF ReplaceOriginal, IInv, TypeOK, Original
      <3>2. CASE Tick
        BY <3>2, CacheAssumption DEF Tick, IInv, TypeOK, Times
      <3>3. ASSUME NEW k \in Keys, ReplaceOriginal(k)
            PROVE  orig' \in [Keys -> Original] /\ clock' \in Times
        BY <3>1, <3>3, Zenon DEF ReplaceOriginal, IInv, TypeOK
      <3> QED
        BY <3>2, <3>3, ZenonT(30)
    <2>3. TypeOK'
      BY <2>1, <2>2, Zenon DEF IInv, TypeOK
    <2>4. Places'
      BY <2>1, Zenon DEF IInv, Places, Holding, Writing
    <2>5. Own'
      BY <2>1, ZenonT(30) DEF IInv, Own, Writing, Registered
    <2>6. Faithful'
      BY <2>1, Zenon DEF IInv, Faithful, Trusted
    <2> QED
      BY <2>3, <2>4, <2>5, <2>6, Zenon DEF IInv
  \* Unpinning never takes a count below zero.
  <1>UnpinType. ASSUME TypeOK, NEW f, Unpin(f)
                PROVE  blocked_files' \in [Files -> Nat]
    <2> USE <1>UnpinType
    <2>1. \A g \in Files : (IF blocked_files[g] = 0 THEN 0 ELSE blocked_files[g] - 1) \in Nat
      BY DEF TypeOK
    <2> QED
      BY <2>1, Zenon DEF TypeOK, Unpin
  <1>ServeStep. ASSUME IInv, NEW t \in Threads, Serve(t)
                PROVE  IInv'
    <2> USE <1>ServeStep
    <2>1. blocked_files \in [Files -> Nat]
      BY Zenon DEF IInv, TypeOK
    <2>2. ASSUME NEW k \in Keys, StatOriginal(t, k) PROVE IInv'
      BY <2>1, <2>2, <1>LocalStep, Zenon DEF StatOriginal, shared
    <2>3. CASE Lookup(t)
      BY <2>3, <1>LookupStep, Zenon
    <2>4. CASE StatHit(t)
      <3>1. blocked_files' \in [Files -> Nat]
        BY <2>1, <2>4, <1>UnpinType, Zenon DEF StatHit, IInv
      <3> QED
        BY <2>4, <3>1, <1>LocalStep, Zenon DEF StatHit
    <2>5. CASE Deliver(t)
      BY <2>1, <2>5, <1>LocalStep, Zenon DEF Deliver, shared
    <2>6. CASE Finalizer(t)
      BY <2>6, <1>UnpinType, <1>LocalStep, Zenon DEF Finalizer, IInv
    <2>7. CASE Decode(t)
      BY <2>1, <2>7, <1>LocalStep, Zenon DEF Decode, shared
    <2>8. CASE GiveUp(t)
      BY <2>1, <2>8, <1>LocalStep, Zenon DEF GiveUp, shared
    <2>9. CASE NewCacheFile(t)
      BY <2>9, <1>NewFileStep, Zenon
    <2>10. CASE Encode(t)
      BY <2>10, <1>EncodeStep, Zenon
    <2>11. CASE EncodeFails(t)
      BY <2>11, <1>DropStep, ZenonT(30) DEF EncodeFails, Writing
    <2>12. CASE FinalizeCache(t)
      BY <2>12, <1>FinalizeStep, Zenon
    <2>13. CASE Add(t)
      BY <2>13, <1>AddStep, Zenon
    <2> QED
      BY <2>2, <2>3, <2>4, <2>5, <2>6, <2>7, <2>8, <2>9, <2>10, <2>11, <2>12, <2>13, Zenon DEF Serve
  <1> SUFFICES ASSUME IInv, [Next]_vars
               PROVE  IInv'
    BY Zenon
  <1>1. CASE UNCHANGED vars
    <2> USE <1>1 DEF vars, shared, local, world
    <2>1. TypeOK' /\ Places'
      BY Zenon DEF IInv, TypeOK, Places, Holding, Writing
    <2>2. Own' /\ Faithful'
      BY ZenonT(30) DEF IInv, Own, Faithful, Trusted, Writing, Registered
    <2> QED
      BY <2>1, <2>2, Zenon DEF IInv
  <1>2. CASE \E t \in Threads : Serve(t)
    BY <1>2, <1>ServeStep, Zenon
  <1>3. CASE \E k \in IndexNames : Remove(k)
    BY <1>3, <1>RemoveStep, Zenon
  <1>4. CASE Purge
    BY <1>4, <1>PurgeStep, Zenon
  <1>5. CASE Start
    BY <1>5, <1>StartStep, Zenon
  <1>6. CASE (\E k \in Keys : ReplaceOriginal(k)) \/ Tick
    BY <1>6, <1>WorldStep, Zenon
  <1>7. CASE Shutdown \/ ShutdownCutOff \/ Crash
    BY <1>7, <1>ExitStep, Zenon
  <1> QED
    BY <1>1, <1>2, <1>3, <1>4, <1>5, <1>6, <1>7, Zenon DEF Next, Running

\* The cache keeps its files apart (the methods of SipiCache under the mutex and
\* the serve path around them): whoever writes a file owns it alone, and what a
\* name leads to is a whole rendering.
THEOREM Invariance == Spec => []IInv
PROOF
  BY InitIInv, NextIInv, PTL DEF Spec

----------------------------------------------------------------------------
\* The pins.

LEMMA NextPins ==
    IInv /\ PinsExact /\ [Next]_vars => PinsExact'
PROOF
  <1>PinningFinite. ASSUME NEW f
                    PROVE  IsFiniteSet(Pinning(f)) /\ Cardinality(Pinning(f)) \in Nat
    <2> USE <1>PinningFinite
    <2>1. Pinning(f) \subseteq Threads
      BY Zenon DEF Pinning
    <2>2. IsFiniteSet(Pinning(f))
      BY <2>1, CacheAssumption, FS_Subset, Zenon
    <2> QED
      BY <2>2, FS_CardinalityType, Zenon
  \* Nobody takes or gives back a pin.
  <1>SamePins. ASSUME PinsExact, UNCHANGED blocked_files,
                      \A t \in Threads : Holding(t)' = Holding(t) /\ (Holding(t) => file'[t] = file[t])
               PROVE  PinsExact'
    <2> USE <1>SamePins
    <2>1. \A f \in Files : Pinning(f)' = Pinning(f)
      BY Zenon DEF Pinning, Holding
    <2> QED
      BY <2>1, Zenon DEF PinsExact
  \* A call that holds a pin gives it back: the count was at least one.
  <1>UnpinStep. ASSUME IInv, PinsExact, NEW t \in Threads, Holding(t), Unpin(file[t]), Return(t)
                PROVE  PinsExact'
    <2> USE <1>UnpinStep
    <2> SUFFICES ASSUME NEW f \in Files
                 PROVE  blocked_files'[f] = Cardinality(Pinning(f)')
      BY Zenon DEF PinsExact
    <2>1. /\ pc'[t] = "idle"
          /\ \A o \in Threads \ {t} : pc'[o] = pc[o] /\ file'[o] = file[o]
      BY ReturnEffect, Zenon DEF IInv
    <2>2. blocked_files[f] = Cardinality(Pinning(f)) /\ blocked_files \in [Files -> Nat]
      BY Zenon DEF PinsExact, IInv, TypeOK
    <2>3. CASE f # file[t]
      <3>1. Pinning(f)' = Pinning(f)
        BY <2>1, <2>3, Zenon DEF Pinning
      <3> QED
        BY <2>2, <2>3, <3>1, Zenon DEF Unpin
    <2>4. CASE f = file[t]
      <3>1. t \in Pinning(f) /\ Pinning(f)' = Pinning(f) \ {t}
        BY <2>1, <2>4, Zenon DEF Pinning, Holding
      <3>2. Cardinality(Pinning(f) \ {t}) = Cardinality(Pinning(f)) - 1
        BY <3>1, <1>PinningFinite, FS_RemoveElement, Zenon
      <3>3. Cardinality(Pinning(f) \ {t}) \in Nat
        BY <3>1, <1>PinningFinite, FS_RemoveElement, FS_CardinalityType, Zenon
      <3>4. blocked_files[f] # 0
        BY <2>2, <3>2, <3>3, <1>PinningFinite
      <3> QED
        BY <2>2, <2>4, <3>1, <3>2, <3>4, Zenon DEF Unpin
    <2> QED
      BY <2>3, <2>4, Zenon
  \* check() pins for a call that held nothing.
  <1>PinStep. ASSUME IInv, PinsExact, NEW t \in Threads, Lookup(t)
              PROVE  PinsExact'
    <2> USE <1>PinStep
    <2> DEFINE g == cachetable[key[t]].file
    <2>1. pc[t] = "lookup" /\ ~ Holding(t)
      BY Zenon DEF Lookup, Holding
    <2>2. CASE UNCHANGED <<blocked_files, file>> /\ Goto(t, "decode")
      <3>1. \A o \in Threads : Holding(o)' = Holding(o) /\ (Holding(o) => file'[o] = file[o])
        BY <2>1, <2>2 DEF Holding, Goto, IInv, TypeOK
      <3> QED
        BY <2>2, <3>1, <1>SamePins, ZenonT(30)
    <2>3. CASE /\ key[t] \in DOMAIN cachetable
               /\ blocked_files' = [blocked_files EXCEPT ![g] = @ + 1]
               /\ file' = [file EXCEPT ![t] = g]
               /\ Goto(t, "stat")
      <3> SUFFICES ASSUME NEW f \in Files
                   PROVE  blocked_files'[f] = Cardinality(Pinning(f)')
        BY Zenon DEF PinsExact
      <3>1. /\ pc'[t] = "stat" /\ file'[t] = g
            /\ \A o \in Threads \ {t} : pc'[o] = pc[o] /\ file'[o] = file[o]
        BY <2>3, Zenon DEF Goto, IInv, TypeOK
      <3>2. blocked_files[f] = Cardinality(Pinning(f)) /\ blocked_files \in [Files -> Nat]
        BY Zenon DEF PinsExact, IInv, TypeOK
      <3> HIDE DEF g
      <3>3. CASE f # g
        <4>1. Pinning(f)' = Pinning(f)
          BY <2>1, <3>1, <3>3, Zenon DEF Pinning, Holding
        <4> QED
          BY <2>3, <3>2, <3>3, <4>1, Zenon
      <3>4. CASE f = g
        <4>1. t \notin Pinning(f) /\ Pinning(f)' = Pinning(f) \cup {t}
          BY <2>1, <3>1, <3>4, ZenonT(30) DEF Pinning, Holding
        <4>2. Cardinality(Pinning(f) \cup {t}) = Cardinality(Pinning(f)) + 1
          BY <4>1, <1>PinningFinite, FS_AddElement, Zenon
        <4> QED
          BY <2>3, <3>2, <3>4, <4>1, <4>2, ZenonT(30)
      <3> QED
        BY <3>3, <3>4, Zenon
    <2> QED
      BY <2>2, <2>3, Zenon DEF Lookup
  <1> SUFFICES ASSUME IInv, PinsExact, [Next]_vars
               PROVE  PinsExact'
    BY Zenon
  <1>1. ASSUME NEW t \in Threads, Serve(t)
        PROVE  PinsExact'
    <2>1. CASE Lookup(t)
      BY <2>1, <1>PinStep, Zenon
    <2>2. CASE Finalizer(t)
      BY <2>2, <1>UnpinStep, Zenon DEF Finalizer, Holding
    <2>3. CASE StatHit(t)
      <3>1. CASE file[t] \in DOMAIN disk
        <4>1. UNCHANGED blocked_files /\ \A o \in Threads : Holding(o)' = Holding(o) /\ file'[o] = file[o]
          BY <2>3, <3>1 DEF StatHit, Goto, Holding, IInv, TypeOK
        <4> QED
          BY <4>1, <1>SamePins, ZenonT(30)
      <3>2. CASE file[t] \notin DOMAIN disk
        BY <2>3, <3>2, <1>UnpinStep, ZenonT(30) DEF StatHit, Holding
      <3> QED
        BY <3>1, <3>2, Zenon
    <2>4. CASE Deliver(t)
      <3>1. UNCHANGED blocked_files /\ \A o \in Threads : Holding(o)' = Holding(o) /\ file'[o] = file[o]
        <4>1. pc \in [Threads -> PCs]
          BY Zenon DEF IInv, TypeOK
        <4> QED
          BY <2>4, <4>1, SMTT(30) DEF Deliver, Goto, Holding, shared
      <3> QED
        BY <3>1, <1>SamePins, Zenon
    <2>5. CASE (\E k \in Keys : StatOriginal(t, k)) \/ Decode(t) \/ Encode(t)
      <3>1. UNCHANGED blocked_files /\ \A o \in Threads : Holding(o)' = Holding(o) /\ file'[o] = file[o]
        <4>1. UNCHANGED <<blocked_files, file>>
          BY <2>5, Zenon DEF StatOriginal, Decode, Encode, shared
        <4>2. ~ Holding(t) /\ pc' = [pc EXCEPT ![t] = pc'[t]] /\ pc'[t] \in {"lookup", "create", "finalize"}
          BY <2>5, Zenon DEF StatOriginal, Decode, Encode, Goto, Holding, IInv, TypeOK
        <4> QED
          BY <4>1, <4>2 DEF Holding, IInv, TypeOK
      <3> QED
        BY <3>1, <1>SamePins, Zenon
    <2>6. CASE UNCHANGED blocked_files /\ ~ Holding(t) /\ Return(t)
      <3>1. \A o \in Threads : Holding(o)' = Holding(o) /\ (Holding(o) => file'[o] = file[o])
        BY <2>6, ReturnEffect DEF Holding, IInv
      <3> QED
        BY <2>6, <3>1, <1>SamePins, ZenonT(30)
    <2>7. CASE NewCacheFile(t) /\ ~ Return(t)
      <3>1. /\ UNCHANGED blocked_files /\ ~ Holding(t)
            /\ \A o \in Threads : Holding(o)' = Holding(o) /\ (Holding(o) => file'[o] = file[o])
        <4>1. pc \in [Threads -> PCs] /\ file \in [Threads -> Files \cup {NoFile}]
          BY Zenon DEF IInv, TypeOK
        <4> QED
          BY <2>7, <4>1, SMTT(30) DEF NewCacheFile, Goto, Holding
      <3> QED
        BY <3>1, <1>SamePins, ZenonT(30)
    <2>8. CASE FinalizeCache(t) /\ Intact(t)
      <3>1. UNCHANGED blocked_files /\ \A o \in Threads : Holding(o)' = Holding(o) /\ file'[o] = file[o]
        BY <2>8 DEF FinalizeCache, Goto, Holding, IInv, TypeOK, shared
      <3> QED
        BY <3>1, <1>SamePins, Zenon
    <2>9. (\/ NewCacheFile(t) /\ Return(t)
           \/ GiveUp(t) \/ EncodeFails(t) \/ Add(t)
           \/ FinalizeCache(t) /\ ~ Intact(t))
          => UNCHANGED blocked_files /\ ~ Holding(t) /\ Return(t)
      BY Zenon DEF NewCacheFile, GiveUp, EncodeFails, FinalizeCache, DropFile, Add, Holding, shared
    <2> QED
      BY <1>1, <2>1, <2>2, <2>3, <2>4, <2>5, <2>6, <2>7, <2>8, <2>9, ZenonT(30) DEF Serve
  <1>2. CASE (\E k \in IndexNames : Remove(k)) \/ Purge \/ Start \/ (\E k \in Keys : ReplaceOriginal(k)) \/ Tick
             \/ UNCHANGED vars
    <2>1. UNCHANGED <<blocked_files, pc, file>>
      BY <1>2, Zenon DEF Remove, Purge, Start, ReplaceOriginal, Tick, vars, shared, local
    <2>2. \A o \in Threads : Holding(o)' = Holding(o) /\ file'[o] = file[o]
      BY <2>1, Zenon DEF Holding
    <2> QED
      BY <2>1, <2>2, <1>SamePins, Zenon
  <1>3. CASE Shutdown \/ ShutdownCutOff \/ Crash
    <2>1. blocked_files' = [f \in Files |-> 0] /\ pc' = [t \in Threads |-> "idle"]
      BY <1>3, Zenon DEF Shutdown, ShutdownCutOff, Crash, Exit
    <2>2. \A f \in Files : Pinning(f)' = {}
      BY <2>1, Zenon DEF Pinning
    <2> QED
      BY <2>1, <2>2, FS_EmptySet, Zenon DEF PinsExact
  <1> QED
    BY <1>1, <1>2, <1>3, Zenon DEF Next, Running

\* Every pin check() takes is given back exactly once, by the failed stat or by
\* apply()'s finalizer, for any number of serve calls, keys and files.
THEOREM PinsAreExact == Spec => []PinsExact
PROOF
  <1>1. Init => PinsExact
    <2> SUFFICES ASSUME Init PROVE PinsExact
      BY Zenon
    <2>1. \A f \in Files : blocked_files[f] = 0 /\ Pinning(f) = {}
      BY Zenon DEF Init, Pinning
    <2> QED
      BY <2>1, FS_EmptySet, Zenon DEF PinsExact
  <1> QED
    BY <1>1, Invariance, NextPins, PTL DEF Spec

\* What a step may do to a pinned file: a file that leaves the directory is not
\* pinned, or add() has just replaced the entry that names it.
Spares ==
    \A f \in DOMAIN disk \ DOMAIN disk' :
        blocked_files[f] > 0 =>
            \E t \in Threads :
                /\ pc[t] = "add" /\ pc'[t] = "idle"
                /\ key[t] \in DOMAIN cachetable
                /\ cachetable[key[t]].file = f

LEMMA NextSpares ==
    IInv /\ PinsExact /\ [Next]_vars => Spares
PROOF
  \* A file that is being written is not pinned.
  <1>WrittenUnpinned. ASSUME IInv, PinsExact, NEW t \in Threads, Writing(t)
                      PROVE  blocked_files[file[t]] = 0
    <2> USE <1>WrittenUnpinned
    <2>1. file[t] \in Files /\ \A o \in Threads \ {t} : file[o] # file[t]
      BY Zenon DEF IInv, Own, Places
    <2>2. Pinning(file[t]) = {}
      BY <2>1, Zenon DEF Pinning, Writing
    <2> QED
      BY <2>1, <2>2, FS_EmptySet, Zenon DEF PinsExact
  <1>DropSpares. ASSUME IInv, PinsExact, NEW t \in Threads, Writing(t), DropFile(t)
                 PROVE  Spares
    <2> USE <1>DropSpares
    <2>1. DOMAIN disk' = DOMAIN disk \ {file[t]}
      BY Zenon DEF DropFile, Unlinked, Restrict
    <2>2. blocked_files[file[t]] = 0
      BY <1>WrittenUnpinned, Zenon
    <2> QED
      BY <2>1, <2>2 DEF Spares
  <1>AddSpares. ASSUME IInv, PinsExact, NEW t \in Threads, Add(t)
                PROVE  Spares
    <2> USE <1>AddSpares
    <2>1. PICK E \in SUBSET DOMAIN cachetable, full \in BOOLEAN : Adds(t, E, full)
      BY AddEffect, Zenon
    <2>2. pc[t] = "add" /\ pc'[t] = "idle"
      BY ReturnEffect, Zenon DEF Add, IInv
    <2>3. blocked_files[file[t]] = 0
      BY <2>2, <1>WrittenUnpinned, Zenon DEF Writing
    <2>4. \A k \in E : cachetable[k].file \in Files /\ ~ (blocked_files[cachetable[k].file] > 0)
      BY <2>1, Zenon DEF Adds, Pinned, IInv, TypeOK, Record
    <2> SUFFICES ASSUME NEW f \in DOMAIN disk \ DOMAIN disk', blocked_files[f] > 0
                 PROVE  key[t] \in DOMAIN cachetable /\ cachetable[key[t]].file = f
      BY <2>2, Zenon DEF Spares
    <2>5. f \in Replaced(t) \cup {cachetable[k].file : k \in E} \cup {file[t]}
      BY <2>1, Zenon DEF Adds
    <2>6. f # file[t]
      BY <2>3
    <2> QED
      BY <2>4, <2>5, <2>6, Zenon DEF Replaced
  <1> SUFFICES ASSUME IInv, PinsExact, [Next]_vars
               PROVE  Spares
    BY Zenon
  <1>1. CASE UNCHANGED disk
    BY <1>1, Zenon DEF Spares
  <1>2. ASSUME NEW t \in Threads, Serve(t)
        PROVE  Spares
    <2>1. CASE Add(t)
      BY <2>1, <1>AddSpares, Zenon
    <2>2. CASE EncodeFails(t)
      BY <2>2, <1>DropSpares, Zenon DEF EncodeFails, Writing
    <2>3. CASE FinalizeCache(t)
      <3>1. CASE Intact(t)
        BY <1>1, <2>3, <3>1, Zenon DEF FinalizeCache, shared
      <3>2. CASE ~ Intact(t)
        BY <2>3, <3>2, <1>DropSpares, Zenon DEF FinalizeCache, Writing
      <3> QED
        BY <3>1, <3>2, Zenon
    <2>4. CASE NewCacheFile(t) \/ Encode(t)
      <3>1. DOMAIN disk \subseteq DOMAIN disk'
        BY <2>4, Zenon DEF NewCacheFile, Encode, Put
      <3> QED
        BY <3>1, Zenon DEF Spares
    <2>5. CASE \/ \E k \in Keys : StatOriginal(t, k)
               \/ Lookup(t) \/ StatHit(t) \/ Deliver(t) \/ Finalizer(t) \/ Decode(t) \/ GiveUp(t)
      <3>1. UNCHANGED disk
        BY <2>5, Zenon DEF StatOriginal, Lookup, StatHit, Deliver, Finalizer, Decode, GiveUp, shared
      <3> QED
        BY <1>1, <3>1, Zenon
    <2> QED
      BY <1>2, <2>1, <2>2, <2>3, <2>4, <2>5, ZenonT(30) DEF Serve
  <1>3. ASSUME NEW k \in IndexNames, Remove(k)
        PROVE  Spares
    <2>1. DOMAIN disk' = DOMAIN disk \ {cachetable[k].file} /\ ~ (blocked_files[cachetable[k].file] > 0)
      BY <1>3, Zenon DEF Remove, Pinned, Unlinked, Restrict
    <2> QED
      BY <2>1, Zenon DEF Spares
  <1>4. CASE Purge
    <2>1. PICK E \in SUBSET DOMAIN cachetable :
              /\ \A k \in E : ~ Pinned(blocked_files, cachetable[k])
              /\ DOMAIN disk' = DOMAIN disk \ {cachetable[k].file : k \in E}
      BY <1>4, PurgeEffect, ZenonT(30)
    <2> QED
      BY <2>1, Zenon DEF Spares, Pinned
  <1>5. CASE Start
    <2>1. \A t \in Threads : pc[t] = "idle"
      BY <1>5, Zenon DEF Start, IInv, TypeOK
    <2>2. \A f \in Files : Pinning(f) = {}
      BY <2>1, Zenon DEF Pinning
    <2>3. \A f \in Files : blocked_files[f] = 0
      BY <2>2, FS_EmptySet, Zenon DEF PinsExact
    <2> QED
      BY <2>3 DEF Spares, IInv, TypeOK
  <1>6. CASE (\E k \in Keys : ReplaceOriginal(k)) \/ Tick \/ Shutdown \/ ShutdownCutOff \/ Crash \/ UNCHANGED vars
    <2>1. UNCHANGED disk
      BY <1>6, Zenon DEF ReplaceOriginal, Tick, Shutdown, ShutdownCutOff, Crash, Exit, vars, shared
    <2> QED
      BY <1>1, <2>1, Zenon
  <1> QED
    BY <1>2, <1>3, <1>4, <1>5, <1>6, Zenon DEF Next, Running

\* purge(), remove() and the clean-up of a failed encode never unlink a file that
\* a hit has pinned; only add() does, for the entry it replaces.
THEOREM PinnedFilesStay == Spec => EvictionSparesPinned
PROOF
  <1>1. IInv /\ PinsExact /\ [Next]_vars => [Spares]_vars
    BY NextSpares, Zenon
  <1>2. Spec => [][Spares]_vars
    BY <1>1, Invariance, PinsAreExact, PTL DEF Spec
  <1> QED
    BY <1>2, Zenon DEF EvictionSparesPinned, Spares

----------------------------------------------------------------------------
\* The directory.

\* A hit delivers a whole rendering of its image, across crashes and restarts, if
\* the cut of the index's names to 255 characters makes no key of another name.
THEOREM HitsServeTheirImage ==
    ASSUME CutsAreNoKeys
    PROVE  Spec => []HitServesItsImage
PROOF
  <1>1. ASSUME IInv
        PROVE  HitServesItsImage
    <2>1. Trusted
      BY Zenon DEF Trusted
    <2>2. \A t \in Threads : pc[t] \in {"stat", "send"} => key[t] \in Keys
      BY <1>1, Zenon DEF IInv, Places
    <2> QED
      BY <1>1, <2>1, <2>2, Zenon DEF IInv, Faithful, Renders, HitServesItsImage
  <1> QED
    BY <1>1, Invariance, PTL

LEMMA NextLeaves ==
    IInv /\ NoBytesLeak /\ [Next]_vars => NoBytesLeak'
PROOF
  \* A step that leaves no bytes behind: what remains in the directory keeps its
  \* size, is empty or is being written, its entry stays, and the files that were
  \* being written still are or have been registered.
  <1>NothingLeft. ASSUME NoBytesLeak, up' => up,
                         \A f \in DOMAIN disk' :
                             /\ \/ f \in DOMAIN disk /\ disk'[f].fsize = disk[f].fsize
                                \/ disk'[f].fsize = 0
                                \/ \E t \in Threads : Writing(t)' /\ file'[t] = f
                             /\ f \in Registered => f \in Registered'
                             /\ \A t \in Threads : Writing(t) /\ file[t] = f => f \in Registered' \/ (Writing(t)' /\ file'[t] = f)
                  PROVE  NoBytesLeak'
    BY <1>NothingLeft, Zenon DEF NoBytesLeak
  <1>ServeLeaves. ASSUME IInv, NoBytesLeak, NEW t \in Threads, Serve(t)
                  PROVE  NoBytesLeak'
    <2> USE <1>ServeLeaves
    <2>1. up' = up
      BY Zenon DEF Serve, StatOriginal, Lookup, StatHit, Deliver, Finalizer, Decode, GiveUp, NewCacheFile, Encode,
             EncodeFails, FinalizeCache, DropFile, Add, world
    <2>2. ASSUME UNCHANGED disk, Registered' = Registered,
                 \A o \in Threads : Writing(o) => Writing(o)' /\ file'[o] = file[o]
          PROVE  NoBytesLeak'
      BY <2>1, <2>2, <1>NothingLeft, Zenon
    <2>3. CASE ~ Writing(t) /\ UNCHANGED <<cachetable, disk>> /\ Return(t)
      <3>1. \A o \in Threads : Writing(o) => Writing(o)' /\ file'[o] = file[o]
        BY <2>3, ReturnEffect, Zenon DEF Writing, IInv
      <3>2. Registered' = Registered
        BY <2>3, Zenon DEF Registered
      <3> QED
        BY <2>2, <2>3, <3>1, <3>2, Zenon
    <2>4. CASE ~ Writing(t) /\ UNCHANGED <<cachetable, disk, file>> /\ \E l \in PCs : Goto(t, l)
      <3>1. \A o \in Threads : Writing(o) => Writing(o)' /\ file'[o] = file[o]
        BY <2>4, Zenon DEF Writing, Goto, IInv, TypeOK
      <3>2. Registered' = Registered
        BY <2>4, Zenon DEF Registered
      <3> QED
        BY <2>2, <2>4, <3>1, <3>2, Zenon
    <2>5. CASE Lookup(t)
      <3>1. Registered' = Registered
        <4>1. /\ DOMAIN cachetable' = DOMAIN cachetable
              /\ \A n \in DOMAIN cachetable : cachetable'[n].file = cachetable[n].file
          BY <2>5, Zenon DEF IInv, TypeOK, Lookup, Touched, Record
        <4> QED
          BY <4>1, Zenon DEF Registered
      <3>2. \A o \in Threads : Writing(o) => Writing(o)' /\ file'[o] = file[o]
        BY <2>5, Zenon DEF Lookup, Writing, Goto, IInv, TypeOK
      <3> QED
        BY <2>2, <2>5, <3>1, <3>2, Zenon DEF Lookup
    <2>6. CASE (\E k \in Keys : StatOriginal(t, k)) \/ Deliver(t) \/ Decode(t)
      BY <2>4, <2>6, Zenon DEF StatOriginal, Deliver, Decode, Writing, PCs, shared
    <2>7. CASE Finalizer(t) \/ GiveUp(t)
      BY <2>3, <2>7, Zenon DEF Finalizer, GiveUp, Writing, shared
    <2>8. CASE StatHit(t)
      BY <2>3, <2>4, <2>8, Zenon DEF StatHit, Writing, PCs
    <2>9. CASE NewCacheFile(t)
      <3>1. PICK f \in FreshNames :
               /\ disk' = Put(disk, f, Partial(t))
               /\ \/ file' = [file EXCEPT ![t] = f] /\ Goto(t, "encode")
                  \/ Return(t)
        BY <2>9, Zenon DEF NewCacheFile
      <3>2. ~ Writing(t) /\ UNCHANGED cachetable
        BY <2>9, Zenon DEF NewCacheFile, Writing
      <3>3. \A o \in Threads : Writing(o) => Writing(o)' /\ file'[o] = file[o]
        BY <3>1, <3>2, ReturnEffect, ZenonT(30) DEF Writing, Goto, IInv, TypeOK
      <3>4. \A g \in DOMAIN disk' : \/ disk'[g].fsize = 0
                                    \/ g \in DOMAIN disk /\ disk'[g].fsize = disk[g].fsize
        BY <3>1, Zenon DEF Put, Partial
      <3>5. Registered' = Registered
        BY <3>2, Zenon DEF Registered
      <3> QED
        BY <2>1, <3>3, <3>4, <3>5, <1>NothingLeft, ZenonT(30)
    <2>10. CASE Encode(t)
      <3>1. UNCHANGED <<cachetable, file>> /\ Writing(t)'
            /\ \A o \in Threads : Writing(o) => Writing(o)'
        BY <2>10, Zenon DEF Encode, Writing, Goto, IInv, TypeOK
      <3>2. DOMAIN disk' = DOMAIN disk /\ \A g \in DOMAIN disk \ {file[t]} : disk'[g] = disk[g]
        BY <2>10, Zenon DEF Encode
      <3>3. Registered' = Registered
        BY <3>1, Zenon DEF Registered
      <3> QED
        BY <2>1, <3>1, <3>2, <3>3, <1>NothingLeft, Zenon
    <2>11. CASE DropFile(t)
      <3>1. UNCHANGED cachetable /\ DOMAIN disk' = DOMAIN disk \ {file[t]} /\ \A g \in DOMAIN disk' : disk'[g] = disk[g]
        BY <2>11, Zenon DEF DropFile, Unlinked, Restrict
      <3>2. \A o \in Threads \ {t} : Writing(o) => Writing(o)' /\ file'[o] = file[o]
        BY <2>11, ReturnEffect, Zenon DEF DropFile, Writing, IInv
      <3>3. Registered' = Registered
        BY <3>1, Zenon DEF Registered
      <3> QED
        BY <2>1, <3>1, <3>2, <3>3, <1>NothingLeft, ZenonT(30)
    <2>12. CASE FinalizeCache(t) /\ Intact(t)
      <3>1. UNCHANGED <<cachetable, disk, file>> /\ \A o \in Threads : Writing(o) => Writing(o)'
        BY <2>12, Zenon DEF FinalizeCache, Writing, Goto, IInv, TypeOK, shared
      <3>2. Registered' = Registered
        BY <3>1, Zenon DEF Registered
      <3> QED
        BY <2>2, <3>1, <3>2, Zenon
    <2>13. CASE Add(t)
      <3>1. PICK E \in SUBSET DOMAIN cachetable, full \in BOOLEAN : Adds(t, E, full)
        BY <2>13, AddEffect, Zenon
      <3>2. \A o \in Threads \ {t} : Writing(o) => Writing(o)' /\ file'[o] = file[o]
        BY <2>13, ReturnEffect, Zenon DEF Add, Writing, IInv
      <3>3. \A f \in DOMAIN disk' : f \in DOMAIN disk /\ disk'[f].fsize = disk[f].fsize
        BY <3>1, Zenon DEF Adds
      <3>4. ASSUME NEW f \in DOMAIN disk', f \in Registered
            PROVE  f \in Registered'
        <4>1. PICK k \in DOMAIN cachetable : cachetable[k].file = f
          BY <3>4, Zenon DEF Registered
        <4>2. k \notin E /\ k # key[t]
          BY <3>1, <4>1, Zenon DEF Adds, Replaced
        <4>3. k \in DOMAIN cachetable' /\ cachetable'[k] = cachetable[k]
          BY <3>1, <4>2, Zenon DEF Adds
        <4> QED
          BY <4>1, <4>3, Zenon DEF Registered
      <3>5. file[t] \in DOMAIN disk' => file[t] \in Registered'
        <4>1. CASE full
          BY <3>1, <4>1, Zenon DEF Adds
        <4>2. CASE ~ full
          <5>1. key[t] \in DOMAIN cachetable' /\ cachetable'[key[t]].file = file[t]
            BY <3>1, <4>2 DEF Adds, NewRecord
          <5> QED
            BY <5>1, ZenonT(30) DEF Registered
        <4> QED
          BY <4>1, <4>2, Zenon
      <3> QED
        BY <2>1, <3>2, <3>3, <3>4, <3>5, <1>NothingLeft, ZenonT(30)
    <2> QED
      BY <2>5, <2>6, <2>7, <2>8, <2>9, <2>10, <2>11, <2>12, <2>13, ZenonT(30) DEF Serve, EncodeFails, FinalizeCache
  <1> SUFFICES ASSUME IInv, NoBytesLeak, [Next]_vars
               PROVE  NoBytesLeak'
    BY Zenon
  <1>1. CASE \E t \in Threads : Serve(t)
    BY <1>1, <1>ServeLeaves, Zenon
  <1>2. ASSUME NEW E \in SUBSET DOMAIN cachetable, UNCHANGED <<up, local>>,
               DOMAIN cachetable' = DOMAIN cachetable \ E,
               \A k \in DOMAIN cachetable' : cachetable'[k] = cachetable[k],
               DOMAIN disk' = DOMAIN disk \ {cachetable[k].file : k \in E},
               \A f \in DOMAIN disk' : disk'[f] = disk[f]
        PROVE  NoBytesLeak'
    <2>1. \A f \in DOMAIN disk' : f \in Registered => f \in Registered'
      BY <1>2, ZenonT(30) DEF Registered
    <2>2. \A t \in Threads : Writing(t)' = Writing(t) /\ file'[t] = file[t]
      BY <1>2, Zenon DEF local, Writing
    <2> QED
      BY <1>2, <2>1, <2>2, <1>NothingLeft, Zenon
  <1>3. ASSUME NEW k \in IndexNames, Remove(k)
        PROVE  NoBytesLeak'
    <2>1. /\ {k} \in SUBSET DOMAIN cachetable /\ UNCHANGED <<up, local>>
          /\ DOMAIN cachetable' = DOMAIN cachetable \ {k}
          /\ \A n \in DOMAIN cachetable' : cachetable'[n] = cachetable[n]
          /\ DOMAIN disk' = DOMAIN disk \ {cachetable[n].file : n \in {k}}
          /\ \A f \in DOMAIN disk' : disk'[f] = disk[f]
      BY <1>3, Zenon DEF Remove, Unlinked, Restrict, world
    <2> QED
      BY <1>2, <2>1, Zenon
  <1>4. CASE Purge
    <2>1. UNCHANGED <<up, local>>
      BY <1>4, Zenon DEF Purge, world
    <2> QED
      BY <1>2, <1>4, <2>1, PurgeEffect, Zenon
  <1>5. CASE Start
    <2>1. CASE index.state = "present"
      BY <1>5, <2>1, StartLoads, ZenonT(30) DEF Loads, NoBytesLeak, Registered
    <2>2. CASE index.state # "present"
      BY <1>5, <2>2 DEF Start, NoBytesLeak
    <2> QED
      BY <2>1, <2>2, Zenon
  <1>6. CASE Shutdown \/ ShutdownCutOff \/ Crash
    BY <1>6, Zenon DEF Shutdown, ShutdownCutOff, Crash, Exit, NoBytesLeak
  <1>7. CASE (\E k \in Keys : ReplaceOriginal(k)) \/ Tick \/ UNCHANGED vars
    <2>1. UNCHANGED <<cachetable, disk, pc, file, up>>
      BY <1>7, Zenon DEF ReplaceOriginal, Tick, vars, shared, local, world
    <2> QED
      BY <2>1, Zenon DEF NoBytesLeak, Registered, Writing
  <1> QED
    BY <1>1, <1>3, <1>4, <1>5, <1>6, <1>7, ZenonT(30) DEF Next, Running

\* No life of the process and no failure on the serve path leaves bytes in the
\* directory that neither an entry nor a call accounts for.
THEOREM NoBytesAreLost == Spec => []NoBytesLeak
PROOF
  <1>1. Init => NoBytesLeak
    BY Zenon DEF Init, NoBytesLeak
  <1> QED
    BY <1>1, Invariance, NextLeaves, PTL DEF Spec

----------------------------------------------------------------------------
\* The age of renderings.

\* Versions and the clock count up by one.
LEMMA Following ==
    ASSUME NEW n \in Int
    PROVE  n + 1 \in Int /\ n <= n /\ n <= n + 1 /\ \A m \in Int : m <= n => m <= n + 1
PROOF
  OBVIOUS

LEMMA NextDated ==
    IInv /\ Dated /\ [Next]_vars => Dated'
PROOF
  \* The numbers that Behind compares are integers.
  <1>Numbers. ASSUME TypeOK
              PROVE  /\ clock \in Int
                     /\ \A k \in Keys : orig[k].version \in Int /\ orig[k].mtime \in Int /\ orig[k].mtime >= 0
                     /\ \A t \in Threads : /\ seen[t].version \in Int /\ seen[t].mtime \in Int /\ seen[t].mtime >= 0
                                           /\ image[t].version \in Int /\ image[t].readAt \in Int
                     /\ \A f \in DOMAIN disk : /\ disk[f].version \in Int /\ disk[f].readAt \in Int
                                               /\ disk[f].key \in Keys
    <2> USE <1>Numbers
    <2>1. \A x \in 0 .. MaxVersion : x \in Int
      OBVIOUS
    <2>2. \A x \in Times : x \in Int /\ x >= 0
      BY DEF Times
    <2> QED
      BY <2>1, <2>2, Zenon DEF TypeOK, Original, Decoded, Content
  \* A step that ends calls, keeps files and starts them from decoded images.
  <1>DatedLocal. ASSUME Dated, TypeOK, UNCHANGED <<orig, clock>>,
                        \A t \in Threads :
                            \/ /\ key'[t] = key[t] /\ seen'[t] = seen[t] /\ image'[t] = image[t]
                               /\ pc'[t] = "idle" => pc[t] = "idle"
                            \/ key'[t] = NoKey /\ image'[t] = NothingRead,
                        \A f \in DOMAIN disk' :
                            \/ /\ f \in DOMAIN disk /\ disk'[f].key = disk[f].key
                               /\ disk'[f].version = disk[f].version /\ disk'[f].readAt = disk[f].readAt
                            \/ \E t \in Threads :
                                  /\ key[t] \in Keys /\ disk'[f].key = key[t]
                                  /\ disk'[f].version = image[t].version /\ disk'[f].readAt = image[t].readAt
                 PROVE  Dated'
    <2> USE <1>DatedLocal
    <2>0. NoKey \notin Keys
      BY CacheAssumption, Zenon DEF CacheAssumption
    <2>1. \A k \in Keys : orig'[k].mtime <= clock'
      BY ZenonT(30) DEF Dated
    <2>2. 0 <= clock'
      BY SMTT(30) DEF TypeOK, Times
    <2>3. ASSUME NEW t \in Threads
          PROVE  /\ image'[t].readAt <= clock'
                 /\ pc'[t] = "idle" => image'[t] = NothingRead
                 /\ key'[t] \in Keys => /\ Behind(image'[t], orig'[key'[t]])
                                        /\ seen'[t].version <= orig'[key'[t]].version
                 /\ \A o \in Threads : key'[t] \in Keys /\ key'[o] = key'[t] => Behind(image'[o], seen'[t])
      BY <2>0, <2>2, <2>3 DEF Dated, NothingRead
    <2>4. ASSUME NEW f \in DOMAIN disk'
          PROVE  /\ disk'[f].readAt <= clock'
                 /\ Behind(disk'[f], orig'[disk'[f].key])
                 /\ \A t \in Threads : key'[t] = disk'[f].key => Behind(disk'[f], seen'[t])
      <3>1. CASE /\ f \in DOMAIN disk /\ disk'[f].key = disk[f].key
                 /\ disk'[f].version = disk[f].version /\ disk'[f].readAt = disk[f].readAt
        <4>1. disk[f].key \in Keys
          BY <3>1, <1>Numbers, Zenon
        <4> QED
          BY <2>0, <3>1, <4>1, ZenonT(30) DEF Dated, Behind
      <3>2. ASSUME NEW o \in Threads, key[o] \in Keys, disk'[f].key = key[o],
                   disk'[f].version = image[o].version, disk'[f].readAt = image[o].readAt
            PROVE  /\ disk'[f].readAt <= clock'
                   /\ Behind(disk'[f], orig'[disk'[f].key])
                   /\ \A t \in Threads : key'[t] = disk'[f].key => Behind(disk'[f], seen'[t])
        BY <2>0, <3>2, ZenonT(30) DEF Dated, Behind
      <3> QED
        BY <2>4, <3>1, <3>2, Zenon
    <2> QED
      BY <2>1, <2>3, <2>4, Zenon DEF Dated
  <1>ServeDated. ASSUME IInv, Dated, NEW t \in Threads, Serve(t)
                 PROVE  Dated'
    <2> USE <1>ServeDated
    <2> USE DEF IInv
    <2>0. UNCHANGED <<orig, clock>>
      BY Zenon DEF Serve, StatOriginal, Lookup, StatHit, Deliver, Finalizer, Decode, GiveUp, NewCacheFile, Encode,
             EncodeFails, FinalizeCache, DropFile, Add, world
    <2>1. ASSUME Return(t)
          PROVE  \A o \in Threads :
                    \/ /\ key'[o] = key[o] /\ seen'[o] = seen[o] /\ image'[o] = image[o]
                       /\ pc'[o] = "idle" => pc[o] = "idle"
                    \/ key'[o] = NoKey /\ image'[o] = NothingRead
      BY <2>1, Zenon DEF Return, Goto, TypeOK
    <2>2. ASSUME NEW l \in PCs \ {"idle"}, Goto(t, l), UNCHANGED <<key, seen, image>>
          PROVE  \A o \in Threads :
                    \/ /\ key'[o] = key[o] /\ seen'[o] = seen[o] /\ image'[o] = image[o]
                       /\ pc'[o] = "idle" => pc[o] = "idle"
                    \/ key'[o] = NoKey /\ image'[o] = NothingRead
      BY <2>2, Zenon DEF Goto, TypeOK
    <2>3. ASSUME NEW k \in Keys, StatOriginal(t, k)
          PROVE  Dated'
      <3>1. /\ pc[t] = "idle" /\ UNCHANGED <<disk, image>>
            /\ pc' = [pc EXCEPT ![t] = "lookup"]
            /\ key' = [key EXCEPT ![t] = k]
            /\ seen' = [seen EXCEPT ![t] = orig[k]]
        BY <2>3, Zenon DEF StatOriginal, Goto, shared
      <3>2. image[t] = NothingRead
        BY <3>1, Zenon DEF Dated
      <3>3. \A c : c.readAt = 0 => Behind(c, orig[k]) /\ \A o \in Threads : Behind(c, seen[o])
        BY <1>Numbers, Zenon DEF Behind
      <3>4. \A o \in Threads : Behind(image[t], seen[o]) /\ Behind(image[t], orig[k])
        BY <3>2, <3>3, Zenon DEF NothingRead
      <3>5. key'[t] = k /\ seen'[t] = orig[k] /\ pc'[t] # "idle"
            /\ \A o \in Threads \ {t} : key'[o] = key[o] /\ seen'[o] = seen[o] /\ pc'[o] = pc[o]
        BY <3>1, Zenon DEF TypeOK
      <3>6. ASSUME NEW o \in Threads
            PROVE  /\ image'[o].readAt <= clock'
                   /\ pc'[o] = "idle" => image'[o] = NothingRead
                   /\ key'[o] \in Keys => /\ Behind(image'[o], orig'[key'[o]])
                                          /\ seen'[o].version <= orig'[key'[o]].version
                   /\ \A p \in Threads : key'[o] \in Keys /\ key'[p] = key'[o] => Behind(image'[p], seen'[o])
        <4>1. CASE o = t
          BY <2>0, <3>1, <3>4, <3>5, <4>1, <1>Numbers, SMTT(30) DEF Dated
        <4>2. CASE o # t
          BY <2>0, <3>1, <3>4, <3>5, <4>2, ZenonT(30) DEF Dated
        <4> QED
          BY <4>1, <4>2, ZenonT(30)
      <3>7. ASSUME NEW f \in DOMAIN disk'
            PROVE  /\ disk'[f].readAt <= clock'
                   /\ Behind(disk'[f], orig'[disk'[f].key])
                   /\ \A o \in Threads : key'[o] = disk'[f].key => Behind(disk'[f], seen'[o])
        BY <2>0, <3>1, <3>5 DEF Dated
      <3> QED
        BY <2>0, <3>6, <3>7, Zenon DEF Dated
    <2>4. CASE Decode(t)
      <3>1. /\ UNCHANGED <<disk, key, seen>> /\ key[t] \in Keys
            /\ pc'[t] # "idle"
            /\ image'[t] = [version |-> orig[key[t]].version, readAt |-> clock]
            /\ \A o \in Threads \ {t} : image'[o] = image[o] /\ pc'[o] = pc[o]
        BY <2>4, ZenonT(30) DEF Decode, Goto, TypeOK, Places, shared
      <3>2. \A o \in Threads : key[o] = key[t] => ~ (image'[t].version < seen[o].version)
        <4>1. \A o \in Threads : key[o] = key[t] => seen[o].version <= orig[key[t]].version
          <5>1. \A o \in Threads : key[o] \in Keys => seen[o].version <= orig[key[o]].version
            BY Zenon DEF Dated
          <5>2. key[t] \in Keys
            BY <3>1
          <5> QED
            BY <5>1, <5>2, Zenon
        <4>2. image'[t].version = orig[key[t]].version
          BY <3>1
        <4>3. orig[key[t]].version \in Int /\ \A o \in Threads : seen[o].version \in Int
          BY <3>1, <1>Numbers, Zenon
        <4> QED
          BY <4>1, <4>2, <4>3, SMTT(30)
      <3>3. ASSUME NEW o \in Threads
            PROVE  /\ image'[o].readAt <= clock'
                   /\ pc'[o] = "idle" => image'[o] = NothingRead
                   /\ key'[o] \in Keys => /\ Behind(image'[o], orig'[key'[o]])
                                          /\ seen'[o].version <= orig'[key'[o]].version
                   /\ \A p \in Threads : key'[o] \in Keys /\ key'[p] = key'[o] => Behind(image'[p], seen'[o])
        <4>1. \A p \in Threads : key'[o] \in Keys /\ key'[p] = key'[o] => Behind(image'[p], seen'[o])
          BY <3>1, <3>2, ZenonT(30) DEF Dated, Behind
        <4>2. CASE o = t
          BY <2>0, <3>1, <4>1, <4>2, <1>Numbers, SMTT(30) DEF Dated, Behind
        <4>3. CASE o # t
          BY <2>0, <3>1, <4>1, <4>3, ZenonT(30) DEF Dated
        <4> QED
          BY <4>2, <4>3, Zenon
      <3> QED
        BY <2>0, <3>1, <3>3, ZenonT(30) DEF Dated
    <2>5. CASE UNCHANGED disk /\ (Return(t) \/ \E l \in PCs \ {"idle"} : Goto(t, l) /\ UNCHANGED <<key, seen, image>>)
      BY <2>0, <2>1, <2>2, <2>5, <1>DatedLocal, ZenonT(30)
    <2>6. CASE Lookup(t) \/ StatHit(t) \/ Deliver(t) \/ Finalizer(t) \/ GiveUp(t)
      BY <2>5, <2>6, Zenon DEF Lookup, StatHit, Deliver, Finalizer, GiveUp, PCs, shared
    <2>7. CASE NewCacheFile(t)
      <3>1. PICK f \in FreshNames :
               /\ disk' = Put(disk, f, Partial(t))
               /\ \/ Goto(t, "encode") /\ UNCHANGED <<key, seen, image>>
                  \/ Return(t)
        BY <2>7, Zenon DEF NewCacheFile
      <3>2. key[t] \in Keys
        BY <2>7, Zenon DEF NewCacheFile, Places
      <3>3. \A g \in DOMAIN disk' :
               \/ g \in DOMAIN disk /\ disk'[g] = disk[g]
               \/ /\ disk'[g].key = key[t] /\ disk'[g].version = image[t].version
                  /\ disk'[g].readAt = image[t].readAt
        BY <3>1, Zenon DEF Put, Partial
      <3>4. \A o \in Threads :
               \/ /\ key'[o] = key[o] /\ seen'[o] = seen[o] /\ image'[o] = image[o]
                  /\ pc'[o] = "idle" => pc[o] = "idle"
               \/ key'[o] = NoKey /\ image'[o] = NothingRead
        BY <2>1, <2>2, <3>1, Zenon DEF PCs
      <3> QED
        BY <2>0, <3>2, <3>3, <3>4, <1>DatedLocal, ZenonT(30)
    <2>8. CASE Encode(t)
      <3>1. PICK size \in Sizes \cup {0}, whole \in BOOLEAN :
               disk' = [disk EXCEPT ![file[t]] = [@ EXCEPT !.mtime = clock, !.fsize = size, !.whole = whole]]
        BY <2>8, Zenon DEF Encode
      <3>2. \A g \in DOMAIN disk' : /\ g \in DOMAIN disk /\ disk'[g].key = disk[g].key
                                    /\ disk'[g].version = disk[g].version /\ disk'[g].readAt = disk[g].readAt
        BY <3>1, ZenonT(30) DEF TypeOK, Content
      <3>3. Goto(t, "finalize") /\ UNCHANGED <<key, seen, image>>
        BY <2>8, Zenon DEF Encode
      <3> QED
        BY <2>0, <2>2, <3>2, <3>3, <1>DatedLocal, ZenonT(30) DEF PCs
    <2>9. CASE DropFile(t)
      <3>1. \A g \in DOMAIN disk' : g \in DOMAIN disk /\ disk'[g] = disk[g]
        BY <2>9, Zenon DEF DropFile, Unlinked, Restrict
      <3> QED
        BY <2>0, <2>1, <2>9, <3>1, <1>DatedLocal, Zenon DEF DropFile
    <2>10. CASE FinalizeCache(t)
      BY <2>5, <2>9, <2>10, Zenon DEF FinalizeCache, PCs, shared
    <2>11. CASE Add(t)
      <3>1. \A g \in DOMAIN disk' : g \in DOMAIN disk /\ disk'[g] = disk[g]
        BY <2>11, AddEffect, Zenon DEF Adds
      <3> QED
        BY <2>0, <2>1, <2>11, <3>1, <1>DatedLocal, ZenonT(30) DEF Add
    <2> QED
      BY <2>3, <2>4, <2>6, <2>7, <2>8, <2>9, <2>10, <2>11, Zenon DEF Serve, EncodeFails
  <1>WorldDated. ASSUME IInv, Dated, (\E k \in Keys : ReplaceOriginal(k)) \/ Tick
                 PROVE  Dated'
    <2> USE <1>WorldDated
    <2> USE DEF IInv
    <2>1. UNCHANGED <<disk, pc, key, seen, image>>
      BY ZenonT(30) DEF ReplaceOriginal, Tick, shared, local
    <2>2. clock' \in Int /\ clock <= clock'
      BY <1>Numbers DEF ReplaceOriginal, Tick
    <2>3. \A k \in Keys :
             /\ orig[k].version <= orig'[k].version
             /\ orig'[k].mtime <= clock'
             /\ orig'[k] = orig[k] \/ orig'[k].mtime = clock
      <3>1. \A k \in Keys : orig[k].mtime <= clock
        BY Zenon DEF Dated
      <3>2. ASSUME NEW k \in Keys, ReplaceOriginal(k)
            PROVE  /\ clock' = clock
                   /\ orig'[k].version = orig[k].version + 1 /\ orig'[k].mtime = clock
                   /\ \A n \in Keys \ {k} : orig'[n] = orig[n]
        BY <3>2, ZenonT(30) DEF ReplaceOriginal, TypeOK
      <3>3. CASE \E k \in Keys : ReplaceOriginal(k)
        <4> PICK k \in Keys : ReplaceOriginal(k)
          BY <3>3, Zenon
        <4> SUFFICES ASSUME NEW n \in Keys
                     PROVE  /\ orig[n].version <= orig'[n].version
                            /\ orig'[n].mtime <= clock'
                            /\ orig'[n] = orig[n] \/ orig'[n].mtime = clock
          BY Zenon
        <4>1. CASE n = k
          BY <3>2, <4>1, <1>Numbers, Following, Zenon
        <4>2. CASE n # k
          BY <3>1, <3>2, <4>2, <1>Numbers, Following, Zenon
        <4> QED
          BY <4>1, <4>2, Zenon
      <3>4. CASE Tick
        <4>1. orig' = orig /\ clock' = clock + 1
          BY <3>4, Zenon DEF Tick
        <4> QED
          BY <3>1, <4>1, <1>Numbers, Following, Zenon
      <3> QED
        BY <3>3, <3>4, Zenon
    <2>4. \A k \in Keys : orig'[k].version \in Int /\ orig'[k].mtime \in Int
      <3>1. CASE \E k \in Keys : ReplaceOriginal(k)
        <4> PICK k \in Keys : ReplaceOriginal(k)
          BY <3>1, Zenon
        <4>1. /\ orig'[k].version = orig[k].version + 1 /\ orig'[k].mtime = clock
              /\ \A n \in Keys \ {k} : orig'[n] = orig[n]
          BY ZenonT(30) DEF ReplaceOriginal, TypeOK
        <4> QED
          BY <4>1, <1>Numbers, Following, Zenon
      <3>2. CASE Tick
        BY <3>2, <1>Numbers, Zenon DEF Tick
      <3> QED
        BY <3>1, <3>2, Zenon
    <2>5. ASSUME NEW t \in Threads
          PROVE  /\ image'[t].readAt <= clock'
                 /\ key'[t] \in Keys => /\ Behind(image'[t], orig'[key'[t]])
                                        /\ seen'[t].version <= orig'[key'[t]].version
      <3>1. image[t].readAt <= clock /\ image[t].readAt \in Int /\ clock \in Int /\ seen[t].version \in Int
        BY <1>Numbers, ZenonT(30) DEF Dated
      <3>2. ASSUME key[t] \in Keys
            PROVE  Behind(image[t], orig'[key[t]]) /\ seen[t].version <= orig'[key[t]].version
        <4>1. Behind(image[t], orig[key[t]]) /\ seen[t].version <= orig[key[t]].version
          BY <3>2, ZenonT(30) DEF Dated
        <4> QED
          BY <2>3, <2>4, <3>1, <3>2, <4>1, <1>Numbers DEF Behind
      <3> QED
        BY <2>1, <2>2, <3>1, <3>2
    <2>6. ASSUME NEW f \in DOMAIN disk
          PROVE  disk[f].readAt <= clock' /\ Behind(disk[f], orig'[disk[f].key])
      <3>1. /\ disk[f].readAt <= clock /\ disk[f].readAt \in Int /\ clock \in Int
            /\ disk[f].key \in Keys /\ Behind(disk[f], orig[disk[f].key])
        BY <1>Numbers, Zenon DEF Dated
      <3> QED
        BY <2>2, <2>3, <2>4, <3>1 DEF Behind
    <2> QED
      BY <2>1, <2>3, <2>5, <2>6, ZenonT(30) DEF Dated
  <1> SUFFICES ASSUME IInv, Dated, [Next]_vars
               PROVE  Dated'
    BY Zenon
  <1> USE DEF IInv
  <1>1. CASE \E t \in Threads : Serve(t)
    BY <1>1, <1>ServeDated, Zenon
  <1>2. CASE (\E k \in Keys : ReplaceOriginal(k)) \/ Tick
    BY <1>2, <1>WorldDated, Zenon
  <1>3. ASSUME UNCHANGED <<orig, clock, local>>, \A f \in DOMAIN disk' : f \in DOMAIN disk /\ disk'[f] = disk[f]
        PROVE  Dated'
    BY <1>3, <1>DatedLocal, Zenon DEF local
  <1>4. ASSUME NEW k \in IndexNames, Remove(k)
        PROVE  Dated'
    BY <1>3, <1>4, Zenon DEF Remove, Unlinked, Restrict, world
  <1>5. CASE Purge
    BY <1>3, <1>5, PurgeEffect, Zenon DEF Purge, world
  <1>6. CASE Start
    <2>1. UNCHANGED <<orig, clock, local>>
      BY <1>6, Zenon DEF Start
    <2>2. CASE index.state = "present"
      BY <1>3, <1>6, <2>1, <2>2, StartLoads, ZenonT(30) DEF Loads
    <2>3. CASE index.state # "present"
      BY <1>3, <1>6, <2>1, <2>3 DEF Start
    <2> QED
      BY <2>2, <2>3, Zenon
  <1>7. CASE Shutdown \/ ShutdownCutOff \/ Crash
    <2>1. UNCHANGED <<disk, orig, clock>> /\ \A t \in Threads : key'[t] = NoKey /\ image'[t] = NothingRead
      BY <1>7, Zenon DEF Shutdown, ShutdownCutOff, Crash, Exit
    <2> QED
      BY <2>1, <1>DatedLocal, Zenon
  <1>8. CASE UNCHANGED vars
    BY <1>3, <1>8, ZenonT(30) DEF vars, shared, world
  <1> QED
    BY <1>1, <1>2, <1>4, <1>5, <1>6, <1>7, <1>8, ZenonT(30) DEF Next, Running

LEMMA InitDated ==
    ASSUME Init
    PROVE  Dated
PROOF
  <1>1. NoKey \notin Keys
    BY CacheAssumption, Zenon DEF CacheAssumption
  <1> QED
    BY <1>1 DEF Init, Dated, NothingRead

\* A hit whose file was stamped no earlier than the original it was checked
\* against is outdated only as the property allows.
LEMMA OutdatedHit ==
    ASSUME IInv, Dated, Trusted
    PROVE  OutdatedOnlyIfReplacedMeanwhile
PROOF
  <1> SUFFICES ASSUME NEW t \in Threads, pc[t] \in {"stat", "send"}, file[t] \in DOMAIN disk,
                      disk[file[t]].version < seen[t].version
               PROVE  disk[file[t]].readAt <= seen[t].mtime /\ seen[t].mtime <= disk[file[t]].mtime
    BY Zenon DEF OutdatedOnlyIfReplacedMeanwhile
  <1>1. key[t] \in Keys
    BY Zenon DEF IInv, Places
  <1>2. PICK m \in Times : seen[t].mtime <= m /\ Renders(disk, file[t], key[t], m)
    BY Zenon DEF IInv, Faithful
  <1>3. disk[file[t]].key = key[t] /\ disk[file[t]].mtime = m
    BY <1>1, <1>2, Zenon DEF Renders
  <1>4. Behind(disk[file[t]], seen[t])
    BY <1>3, Zenon DEF Dated
  <1> QED
    BY <1>2, <1>3, <1>4, Zenon DEF Behind

\* A hit of any life is outdated only if the original was replaced while the
\* rendering was made, if the index's cut of names makes no key of another name.
THEOREM OutdatedAcrossLives ==
    ASSUME CutsAreNoKeys
    PROVE  Spec => []OutdatedOnlyIfReplacedMeanwhile
PROOF
  <1>1. IInv /\ Dated => OutdatedOnlyIfReplacedMeanwhile
    BY OutdatedHit, Zenon DEF Trusted
  <1> QED
    BY <1>1, Invariance, InitDated, NextDated, PTL DEF Spec

\* A process that starts without an index has read no name from one, so for its
\* hits the same holds whatever the names are.
THEOREM OutdatedOnlyByReplacement == OneLife => []OutdatedOnlyIfReplacedMeanwhile
PROOF
  <1> DEFINE Unread == index.records = {}
  <1>1. Init => IInv /\ Dated /\ Unread
    <2>1. Init => Unread
      BY DEF Init
    <2> QED
      BY <2>1, InitIInv, InitDated, ZenonT(30)
  <1>2. ASSUME IInv, Dated, Unread, [Running]_vars
        PROVE  IInv' /\ Dated' /\ Unread'
    <2>1. [Next]_vars
      BY <1>2, Zenon DEF Next
    <2>2. UNCHANGED index \/ index'.records = {}
      <3>1. ASSUME NEW t \in Threads, Serve(t)
            PROVE  UNCHANGED index
        BY <3>1, Zenon DEF Serve, StatOriginal, Lookup, StatHit, Deliver, Finalizer, Decode, GiveUp, NewCacheFile,
                    Encode, EncodeFails, FinalizeCache, DropFile, Add, world
      <3>2. ASSUME NEW k \in IndexNames, Remove(k)
            PROVE  UNCHANGED index
        BY <3>2, Zenon DEF Remove, world
      <3>3. CASE Purge
        BY <3>3, Zenon DEF Purge, world
      <3>4. CASE Start
        <4>1. UNCHANGED index \/ index' = [state |-> "missing", records |-> {}]
          BY <3>4, Zenon DEF Start
        <4> QED
          BY <4>1
      <3>5. CASE (\E k \in Keys : ReplaceOriginal(k)) \/ Tick \/ UNCHANGED vars
        BY <3>5, Zenon DEF ReplaceOriginal, Tick, vars, world
      <3> QED
        BY <1>2, <3>1, <3>2, <3>3, <3>4, <3>5, ZenonT(30) DEF Running
    <2> QED
      BY <1>2, <2>1, <2>2, NextIInv, NextDated, ZenonT(30)
  <1>3. IInv /\ Dated /\ Unread => OutdatedOnlyIfReplacedMeanwhile
    BY OutdatedHit, Zenon DEF Trusted
  <1> HIDE DEF Unread
  <1> QED
    BY <1>1, <1>2, <1>3, PTL DEF OneLife

=============================================================================
