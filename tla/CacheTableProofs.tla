--------------------------- MODULE CacheTableProofs ---------------------------
(***************************************************************************)
(* Proofs about the table of the file cache: its counters, its entries and *)
(* the directory agree, for every set of serve calls, keys, file names and *)
(* sizes, without a byte limit (under one the code breaks it).             *)
(*                                                                         *)
(* The invariant (Exact) adds to the property that no two entries name one *)
(* file (Apart) and that the index is such a table too (Archived).  A sum  *)
(* of sizes is the number of pairs of an entry and a byte, so adding,      *)
(* removing, evicting and loading entries are facts about the cardinality  *)
(* of finite sets.                                                         *)
(***************************************************************************)
EXTENDS ImageCacheProofs

LEMMA UnitsOf ==
    ASSUME NEW size
    PROVE  \A z : z \in Units(size) <=> \E x \in DOMAIN size : \E i \in 1 .. size[x] : z = <<x, i>>
PROOF
  <1> TAKE z
  <1>1. z \in Units(size) <=> \E x \in DOMAIN size : z \in {x} \X (1 .. size[x])
    BY Zenon DEF Units
  <1>2. ASSUME NEW x \in DOMAIN size
        PROVE  z \in {x} \X (1 .. size[x]) <=> \E i \in 1 .. size[x] : z = <<x, i>>
    OBVIOUS
  <1> QED
    BY <1>1, <1>2, Zenon

\* Distinct entries of the same sizes cannot add up to more.
LEMMA TotalInjects ==
    ASSUME NEW g, NEW size, Naturally(size),
           NEW s \in Injection(DOMAIN g, DOMAIN size), \A x \in DOMAIN g : g[x] = size[s[x]]
    PROVE  Naturally(g) /\ Total(g) \in Nat /\ Total(size) \in Nat /\ Total(g) <= Total(size)
PROOF
  <1> DEFINE F == [z \in Units(g) |-> <<s[z[1]], z[2]>>]
  <1>1. s \in [DOMAIN g -> DOMAIN size] /\ \A x, y \in DOMAIN g : s[x] = s[y] => x = y
    BY Zenon DEF Injection, IsInjective
  <1>2. Naturally(g)
    BY <1>1, FS_Injection, Zenon DEF Naturally
  <1>3. ASSUME NEW z \in Units(g)
        PROVE  F[z] \in Units(size) /\ z = <<z[1], z[2]>> /\ z[1] \in DOMAIN g
    <2>1. PICK x \in DOMAIN g : \E i \in 1 .. g[x] : z = <<x, i>>
      BY UnitsOf
    <2>1a. PICK i \in 1 .. g[x] : z = <<x, i>>
      BY <2>1, Zenon
    <2>2. z[1] = x /\ z[2] = i
      BY <2>1a
    <2>3. F[z] = <<s[x], i>>
      BY <2>2, Zenon
    <2>4. s[x] \in DOMAIN size /\ i \in 1 .. size[s[x]]
      BY <1>1, Zenon
    <2> HIDE DEF F
    <2> QED
      BY <2>1a, <2>2, <2>3, <2>4, UnitsOf, Zenon
  <1>4. \A y, z \in Units(g) : F[y] = F[z] => y = z
    <2> SUFFICES ASSUME NEW y \in Units(g), NEW z \in Units(g), F[y] = F[z] PROVE y = z
      BY Zenon
    <2>1. <<s[y[1]], y[2]>> = <<s[z[1]], z[2]>>
      BY Zenon
    <2>2. s[y[1]] = s[z[1]] /\ y[2] = z[2]
      BY <2>1
    <2>3. y[1] = z[1]
      BY <1>1, <1>3, <2>2, Zenon
    <2> HIDE DEF F
    <2> QED
      BY <1>3, <2>2, <2>3, Zenon
  <1>5. F \in Injection(Units(g), Units(size))
    <2>1. DOMAIN F = Units(g) /\ F = [z \in Units(g) |-> F[z]]
      BY Zenon
    <2> HIDE DEF F
    <2> QED
      BY <1>3, <1>4, <2>1, Zenon DEF Injection, IsInjective
  <1> HIDE DEF F
  <1> QED
    BY <1>2, <1>5, UnitsFinite, FS_Injection

\* A total does not depend on the names of what is summed.
LEMMA TotalRenames ==
    ASSUME NEW g, NEW size, Naturally(size), NEW s \in Bijection(DOMAIN g, DOMAIN size),
           \A x \in DOMAIN g : g[x] = size[s[x]]
    PROVE  Total(g) = Total(size)
PROOF
  <1> DEFINE Pre(y) == CHOOSE x \in DOMAIN g : s[x] = y
             r == [y \in DOMAIN size |-> Pre(y)]
  <1>1. s \in Injection(DOMAIN g, DOMAIN size) /\ \A y \in DOMAIN size : \E x \in DOMAIN g : s[x] = y
    BY Zenon DEF Bijection, Surjection
  <1>2. \A y \in DOMAIN size : Pre(y) \in DOMAIN g /\ s[Pre(y)] = y
    BY <1>1, Zenon
  <1> HIDE DEF Pre
  <1>3. r \in Injection(DOMAIN size, DOMAIN g)
    <2>1. DOMAIN r = DOMAIN size /\ r = [y \in DOMAIN size |-> r[y]]
      BY Zenon
    <2>2. \A y \in DOMAIN size : r[y] \in DOMAIN g /\ s[r[y]] = y
      BY <1>2, Zenon
    <2> HIDE DEF r
    <2> QED
      BY <2>1, <2>2, Zenon DEF Injection, IsInjective
  <1>4. \A y \in DOMAIN size : size[y] = g[r[y]]
    BY <1>2, Zenon
  <1> HIDE DEF r
  <1>5. Naturally(g) /\ Total(g) \in Nat /\ Total(size) \in Nat /\ Total(g) <= Total(size)
    BY <1>1, TotalInjects, Zenon
  <1>6. Total(size) <= Total(g)
    BY <1>3, <1>4, <1>5, TotalInjects, Zenon
  <1> QED
    BY <1>5, <1>6

\* The total of a part and of the rest.
LEMMA TotalSplits ==
    ASSUME NEW size, Naturally(size), NEW A \in SUBSET DOMAIN size
    PROVE  /\ Naturally([x \in A |-> size[x]])
           /\ Naturally([x \in DOMAIN size \ A |-> size[x]])
           /\ Total(size) = Total([x \in A |-> size[x]]) + Total([x \in DOMAIN size \ A |-> size[x]])
PROOF
  <1> DEFINE a == [x \in A |-> size[x]]
             b == [x \in DOMAIN size \ A |-> size[x]]
  <1>1. /\ DOMAIN a = A /\ DOMAIN b = DOMAIN size \ A
        /\ \A x \in A : a[x] = size[x]
        /\ \A y \in DOMAIN size \ A : b[y] = size[y]
    BY Zenon
  <1>2. IsFiniteSet(A) /\ IsFiniteSet(DOMAIN size \ A)
    BY FS_Subset, Zenon DEF Naturally
  <1> HIDE DEF a, b
  <1>3. Naturally(a) /\ Naturally(b)
    <2>1. Naturally(a)
      BY <1>1, <1>2 DEF Naturally
    <2>2. Naturally(b)
      BY <1>1, <1>2 DEF Naturally
    <2> QED
      BY <2>1, <2>2
  <1>4. Units(size) = Units(a) \cup Units(b)
    <2>1. \A z : z \in Units(a) <=> \E x \in A : \E i \in 1 .. size[x] : z = <<x, i>>
      BY <1>1, UnitsOf
    <2>2. \A z : z \in Units(b) <=> \E x \in DOMAIN size \ A : \E i \in 1 .. size[x] : z = <<x, i>>
      BY <1>1, UnitsOf
    <2>3. \A z : z \in Units(size) <=> \E x \in DOMAIN size : \E i \in 1 .. size[x] : z = <<x, i>>
      BY UnitsOf
    <2> QED
      BY <2>1, <2>2, <2>3, Zenon
  <1>5. Units(a) \cap Units(b) = {}
    <2> SUFFICES ASSUME NEW z, z \in Units(a), z \in Units(b) PROVE FALSE
      BY Zenon
    <2>1. PICK x \in DOMAIN a : \E i \in 1 .. a[x] : z = <<x, i>>
      BY UnitsOf
    <2>1a. PICK i \in 1 .. a[x] : z = <<x, i>>
      BY <2>1, Zenon
    <2>2. PICK y \in DOMAIN b : \E j \in 1 .. b[y] : z = <<y, j>>
      BY UnitsOf
    <2>2a. PICK j \in 1 .. b[y] : z = <<y, j>>
      BY <2>2, Zenon
    <2>3. x = y
      BY <2>1a, <2>2a
    <2> QED
      BY <1>1, <2>3, Zenon
  <1>6. Cardinality(Units(a) \cap Units(b)) = 0
    BY <1>5, FS_EmptySet, Zenon
  <1>7. Total(size) = Total(a) + Total(b) - Cardinality(Units(a) \cap Units(b))
    BY <1>3, <1>4, UnitsFinite, FS_Union
  <1>8. Total(a) \in Nat /\ Total(b) \in Nat
    BY <1>3, UnitsFinite, Zenon
  <1>9. Total(size) = Total(a) + Total(b)
    BY <1>6, <1>7, <1>8
  <1> QED
    BY <1>3, <1>9, Zenon DEF a, b

\* The total of one number.
LEMMA TotalOfOne ==
    ASSUME NEW x, NEW c \in Nat
    PROVE  Total([y \in {x} |-> c]) = c
PROOF
  <1> DEFINE one == [y \in {x} |-> c]
             F == [z \in Units(one) |-> z[2]]
  <1>0. Naturally(one)
    BY FS_Singleton, Zenon DEF Naturally
  <1>1. \A z : z \in Units(one) <=> \E i \in 1 .. c : z = <<x, i>>
    <2>1. DOMAIN one = {x} /\ one[x] = c
      BY Zenon
    <2> HIDE DEF one
    <2> QED
      BY <2>1, UnitsOf
  <1> DEFINE G == [i \in 1 .. c |-> <<x, i>>]
  <1>2. G \in Bijection(1 .. c, Units(one))
    <2>1. DOMAIN G = 1 .. c /\ G = [i \in 1 .. c |-> G[i]]
      BY Zenon
    <2>2. \A i \in 1 .. c : G[i] = <<x, i>>
      BY Zenon
    <2> HIDE DEF G, one
    <2>3. \A i, j \in 1 .. c : G[i] = G[j] => i = j
      BY <2>2
    <2>4. \A i \in 1 .. c : G[i] \in Units(one)
      BY <1>1, <2>2, Zenon
    <2>5. \A z \in Units(one) : \E i \in 1 .. c : G[i] = z
      BY <1>1, <2>2, Zenon
    <2> QED
      BY <2>1, <2>3, <2>4, <2>5, Zenon DEF Bijection, Injection, Surjection, IsInjective
  <1>3. IsFiniteSet(1 .. c) /\ Cardinality(1 .. c) = c
    BY FS_Interval
  <1> HIDE DEF G, one
  <1>4. Cardinality(Units(one)) = c
    BY <1>2, <1>3, FS_Bijection, Zenon DEF ExistsBijection
  <1> QED
    BY <1>0, <1>4, UnitsFinite, Zenon DEF one

\* Nothing empty is counted: there are no more summands than units.
LEMMA CountedBelowTotal ==
    ASSUME NEW size, Naturally(size), \A x \in DOMAIN size : size[x] # 0
    PROVE  Cardinality(DOMAIN size) \in Nat /\ Cardinality(DOMAIN size) <= Total(size)
PROOF
  <1> DEFINE F == [x \in DOMAIN size |-> <<x, 1>>]
  <1>1. \A x \in DOMAIN size : F[x] \in Units(size)
    <2> SUFFICES ASSUME NEW x \in DOMAIN size PROVE F[x] \in Units(size)
      BY Zenon
    <2>1. F[x] = <<x, 1>>
      BY Zenon
    <2>2. 1 \in 1 .. size[x]
      BY DEF Naturally
    <2> QED
      BY <2>1, <2>2, UnitsOf, Zenon
  <1>2. \A x, y \in DOMAIN size : F[x] = F[y] => x = y
    OBVIOUS
  <1>3. DOMAIN F = DOMAIN size /\ F = [x \in DOMAIN size |-> F[x]]
    BY Zenon
  <1> HIDE DEF F
  <1>4. F \in Injection(DOMAIN size, Units(size))
    BY <1>1, <1>2, <1>3, Zenon DEF Injection, IsInjective
  <1> QED
    BY <1>4, UnitsFinite, FS_Injection, FS_CardinalityType DEF Naturally

\* A counter below its bound does not wrap.
LEMMA NoWrap ==
    ASSUME NEW n \in Int, 0 <= n, n < CounterMod
    PROVE  Wrap(n) = n
PROOF
  BY CacheAssumption DEF Wrap

LEMMA Below ==
    ASSUME NEW u \in Nat, u < CounterMod, NEW a \in Nat, a <= u
    PROVE  a < CounterMod /\ Wrap(a) = a
PROOF
  BY CacheAssumption DEF Wrap

\* Two amounts counted together, and one of them taken back.
LEMMA Counting ==
    ASSUME NEW a \in Nat, NEW b \in Nat, a + b < CounterMod
    PROVE  /\ a + b \in Nat /\ (a + b) - b = a
           /\ a < CounterMod /\ Wrap(a) = a /\ Wrap(a + b) = a + b
PROOF
  BY CacheAssumption DEF Wrap

\* There is room for one more below the limit of files.
LEMMA OneMore ==
    ASSUME NEW n \in Nat
    PROVE  n + 1 \in Nat /\ (n < MaxNfiles <=> n + 1 <= MaxNfiles)
PROOF
  BY CacheAssumption

\* The sizes of the entries of a table, and the counters that are exact for it.
SizesOf(table) == [k \in DOMAIN table |-> table[k].fsize]

LEMMA SizesNatural ==
    ASSUME NEW table, IsFiniteSet(DOMAIN table), \A k \in DOMAIN table : table[k] \in Record
    PROVE  /\ Naturally(SizesOf(table)) /\ DOMAIN SizesOf(table) = DOMAIN table
           /\ \A k \in DOMAIN table : SizesOf(table)[k] = table[k].fsize /\ table[k].fsize \in Nat /\ table[k].fsize # 0
           /\ Total(SizesOf(table)) \in Nat
           /\ Cardinality(DOMAIN table) \in Nat /\ Cardinality(DOMAIN table) <= Total(SizesOf(table))
PROOF
  <1>1. \A k \in DOMAIN table : table[k].fsize \in Sizes
    BY Zenon DEF Record
  <1>2. \A x \in Sizes : x \in Nat /\ x # 0
    BY CacheAssumption
  <1>3. DOMAIN SizesOf(table) = DOMAIN table /\ \A k \in DOMAIN table : SizesOf(table)[k] = table[k].fsize
    BY Zenon DEF SizesOf
  <1>4. Naturally(SizesOf(table)) /\ \A k \in DOMAIN SizesOf(table) : SizesOf(table)[k] # 0
    BY <1>1, <1>2, <1>3 DEF Naturally
  <1> QED
    BY <1>1, <1>2, <1>3, <1>4, UnitsFinite, CountedBelowTotal

\* purge() leaves counters exact that were exact, and room for one more file
\* unless it reports that it could not free enough.
LEMMA PurgedExactly ==
    ASSUME NEW table, IsFiniteSet(DOMAIN table), \A k \in DOMAIN table : table[k] \in Record,
           NEW pins, Total(SizesOf(table)) < CounterMod,
           NEW p \in Purged(table, pins, Total(SizesOf(table)), Cardinality(DOMAIN table))
    PROVE  \E E \in SUBSET DOMAIN table :
              /\ DOMAIN p.table = DOMAIN table \ E
              /\ \A k \in DOMAIN table \ E : p.table[k] = table[k]
              /\ p.gone = {table[k].file : k \in E}
              /\ p.used = Total(SizesOf(p.table))
              /\ p.nfiles = Cardinality(DOMAIN p.table)
              /\ MaxNfiles > 0 /\ ~ p.full => p.nfiles < MaxNfiles
PROOF
  <1> DEFINE u == Total(SizesOf(table))
             n == Cardinality(DOMAIN table)
  <1>0. u \in Nat /\ n \in Nat /\ n <= u /\ Naturally(SizesOf(table)) /\ DOMAIN SizesOf(table) = DOMAIN table
        /\ \A k \in DOMAIN table : SizesOf(table)[k] = table[k].fsize
    BY SizesNatural, Zenon
  <1>1. CASE ~ Over(u, n)
    <2>1. p = [table |-> table, used |-> u, nfiles |-> n, gone |-> {}, full |-> FALSE]
      BY <1>1, Zenon DEF Purged
    <2>2. p.table = table /\ p.used = u /\ p.nfiles = n /\ p.gone = {table[k].file : k \in {}}
      BY <2>1, Zenon
    <2>3. MaxNfiles > 0 => n < MaxNfiles
      <3> HIDE DEF u, n
      <3> QED
        BY <1>0, <1>1, CacheAssumption DEF Over
    <2> QED
      BY <2>2, <2>3, Zenon
  <1>2. CASE Over(u, n)
    <2>1. PICK m, s : Evicted(table, pins, u, n, p, s, m)
      <3> HIDE DEF u
      <3> QED
        BY <1>2, PurgedInOrder, Zenon DEF u
    <2>1a. m \in Nat
      BY <2>1, Zenon DEF Evicted
    <2> DEFINE E == {s[i] : i \in 1 .. m}
               out == [i \in 1 .. m |-> table[s[i]].fsize]
               rest == [k \in DOMAIN table \ E |-> SizesOf(table)[k]]
               gone == [k \in E |-> SizesOf(table)[k]]
    <2>2. s \in [1 .. m -> DOMAIN table] /\ \A i, j \in 1 .. m : s[i] = s[j] => i = j
      BY <2>1, Zenon DEF Evicted, Injection, IsInjective
    <2>3. E \in SUBSET DOMAIN table
      BY <2>2, Zenon
    <2>4. s \in Bijection(1 .. m, E)
      BY <2>2, Zenon DEF Bijection, Injection, Surjection, IsInjective
    <2>5. IsFiniteSet(1 .. m) /\ Cardinality(1 .. m) = m
      BY <2>1a, FS_Interval
    <2>6. IsFiniteSet(E) /\ Cardinality(E) = m
      <3> HIDE DEF E
      <3> QED
        BY <2>4, <2>5, FS_Bijection, Zenon DEF ExistsBijection
    <2>7. Naturally(gone) /\ Naturally(rest) /\ u = Total(gone) + Total(rest)
      <3> HIDE DEF E
      <3>1. E \in SUBSET DOMAIN SizesOf(table)
        BY <1>0, <2>3, Zenon
      <3>2. rest = [k \in DOMAIN SizesOf(table) \ E |-> SizesOf(table)[k]]
        BY <1>0, Zenon
      <3> QED
        BY <1>0, <3>1, <3>2, TotalSplits, Zenon
    <2>8. DOMAIN out = 1 .. m /\ DOMAIN gone = E /\ \A i \in 1 .. m : out[i] = gone[s[i]]
      <3>1. \A i \in 1 .. m : s[i] \in E /\ s[i] \in DOMAIN table
        BY <2>2, Zenon
      <3> HIDE DEF E
      <3> QED
        BY <1>0, <3>1, Zenon
    <2> HIDE DEF out, gone, E
    <2>9. Total(out) = Total(gone)
      <3>1. s \in Bijection(DOMAIN out, DOMAIN gone)
        BY <2>4, <2>8, Zenon
      <3>2. \A i \in DOMAIN out : out[i] = gone[s[i]]
        BY <2>8, Zenon
      <3> QED
        BY <2>7, <3>1, <3>2, TotalRenames
    <2>10. Total(rest) \in Nat /\ Total(gone) \in Nat
      BY <2>7, UnitsFinite, Zenon
    <2>11. Cardinality(DOMAIN table \ E) = n - m /\ Cardinality(DOMAIN table \ E) \in Nat
      <3>1. DOMAIN table \cap E = E
        BY <2>3, Zenon
      <3> QED
        BY <2>6, <3>1, FS_Difference, FS_CardinalityType, Zenon
    <2>12. /\ p.table = Restrict(table, DOMAIN table \ E)
           /\ p.gone = {table[s[i]].file : i \in 1 .. m}
           /\ p.used = Wrap(u - Total(out))
           /\ p.nfiles = Wrap(n - m)
           /\ ~ p.full => AtLowWater(p.used, p.nfiles)
      BY <2>1, Zenon DEF Evicted, E, out
    <2>13. p.gone = {table[k].file : k \in E}
      BY <2>12, Zenon DEF E
    <2>14. DOMAIN p.table = DOMAIN table \ E /\ \A k \in DOMAIN table \ E : p.table[k] = table[k]
      BY <2>12, Zenon DEF Restrict
    <2>15. SizesOf(p.table) = rest
      BY <1>0, <2>14, Zenon DEF SizesOf
    <2>16. p.used = Total(rest) /\ p.nfiles = Cardinality(DOMAIN table \ E)
      <3> HIDE DEF u, n, rest
      <3>1. u = Total(rest) + Total(gone)
        BY <2>7, <2>10 DEF u
      <3>2. u < CounterMod
        BY Zenon DEF u
      <3>3. u - Total(out) = Total(rest) /\ Wrap(Total(rest)) = Total(rest)
        BY <2>9, <2>10, <3>1, <3>2, Counting, Zenon
      <3>4. n - m <= u
        BY <1>0, <2>1a
      <3>5. Wrap(Cardinality(DOMAIN table \ E)) = Cardinality(DOMAIN table \ E)
        BY <1>0, <2>11, <3>2, <3>4, Below, Zenon
      <3> QED
        BY <2>11, <2>12, <3>3, <3>5, Zenon
    <2>17. MaxNfiles > 0 /\ ~ p.full => p.nfiles < MaxNfiles
      <3> HIDE DEF u, n
      <3>1. MaxNfiles > 0 /\ ~ p.full => p.nfiles <= (MaxNfiles * 8) \div 10
        BY <2>12, Zenon DEF AtLowWater, NfilesLow
      <3>2. MaxNfiles > 0 => (MaxNfiles * 8) \div 10 < MaxNfiles /\ (MaxNfiles * 8) \div 10 \in Int
        BY CacheAssumption
      <3> QED
        BY <2>11, <2>16, <3>1, <3>2, CacheAssumption
    <2> HIDE DEF rest, u, n
    <2> QED
      BY <2>3, <2>13, <2>14, <2>15, <2>16, <2>17, Zenon
  <1> QED
    BY <1>1, <1>2, Zenon

\* Entries have files of their own, and the directory is finite.
Apart ==
    /\ IsFiniteSet(DOMAIN disk)
    /\ \A j, k \in DOMAIN cachetable : cachetable[j].file = cachetable[k].file => j = k

\* So have the records of the index, which are no more than the limit allows;
\* where its file is left, a record has its size.
Archived ==
    /\ \A r, q \in index.records : r.record.file = q.record.file \/ r.name = q.name => r = q
    /\ \A r \in index.records :
          r.record.file \in DOMAIN disk => r.record.fsize = disk[r.record.file].fsize
    /\ MaxNfiles > 0 => Cardinality(index.records) <= MaxNfiles

Exact == TableExact /\ Apart /\ Archived

\* The bytes of the directory can be counted: a counter has 64 bits.
DirectoryFits == Total(SizesOf(disk)) < CounterMod

\* No two names are cut to the same 255 characters.
NamesApart == \A m, n \in IndexNames : WrittenAs[m] = WrittenAs[n] => m = n

\* Entries with files of their own take no more bytes than the directory.
LEMMA Fits ==
    ASSUME NEW table, IsFiniteSet(DOMAIN table), \A k \in DOMAIN table : table[k] \in Record,
           NEW d, IsFiniteSet(DOMAIN d), \A f \in DOMAIN d : d[f] \in Content,
           \A j, k \in DOMAIN table : table[j].file = table[k].file => j = k,
           \A k \in DOMAIN table : table[k].file \in DOMAIN d /\ table[k].fsize = d[table[k].file].fsize,
           Total(SizesOf(d)) < CounterMod
    PROVE  Total(SizesOf(table)) < CounterMod
PROOF
  <1> DEFINE s == [k \in DOMAIN table |-> table[k].file]
  <1>1. DOMAIN SizesOf(d) = DOMAIN d /\ \A f \in DOMAIN d : SizesOf(d)[f] = d[f].fsize
    BY Zenon DEF SizesOf
  <1>2. Naturally(SizesOf(d))
    <2>1. \A f \in DOMAIN d : d[f].fsize \in Sizes \cup {0}
      BY Zenon DEF Content
    <2>2. \A x \in Sizes \cup {0} : x \in Nat
      BY CacheAssumption
    <2> QED
      BY <1>1, <2>1, <2>2, Zenon DEF Naturally
  <1>3. DOMAIN SizesOf(table) = DOMAIN table /\ \A k \in DOMAIN table : SizesOf(table)[k] = table[k].fsize
    BY Zenon DEF SizesOf
  <1>4. s \in Injection(DOMAIN SizesOf(table), DOMAIN SizesOf(d))
    <2>1. s \in [DOMAIN table -> DOMAIN d] /\ DOMAIN s = DOMAIN table
      BY Zenon
    <2>2. \A j, k \in DOMAIN table : s[j] = s[k] => j = k
      BY Zenon
    <2> HIDE DEF s
    <2> QED
      BY <1>1, <1>3, <2>1, <2>2, Zenon DEF Injection, IsInjective
  <1>5. \A k \in DOMAIN SizesOf(table) : SizesOf(table)[k] = SizesOf(d)[s[k]]
    <2>1. \A k \in DOMAIN table : s[k] = table[k].file /\ SizesOf(d)[table[k].file] = d[table[k].file].fsize
      BY <1>1, Zenon
    <2> HIDE DEF s
    <2>2. \A k \in DOMAIN table : table[k].fsize = SizesOf(d)[s[k]]
      BY <2>1, Zenon
    <2> QED
      BY <1>3, <2>2, Zenon
  <1> HIDE DEF s
  <1>6. /\ Total(SizesOf(table)) \in Nat /\ Total(SizesOf(d)) \in Nat
        /\ Total(SizesOf(table)) <= Total(SizesOf(d))
    <2> DEFINE f == SizesOf(table)
               g == SizesOf(d)
    <2>1. Naturally(g) /\ s \in Injection(DOMAIN f, DOMAIN g) /\ \A k \in DOMAIN f : f[k] = g[s[k]]
      BY <1>2, <1>4, <1>5, Zenon
    <2> HIDE DEF f, g
    <2>2. Total(f) \in Nat /\ Total(g) \in Nat /\ Total(f) <= Total(g)
      BY <2>1, TotalInjects
    <2> QED
      BY <2>2, Zenon DEF f, g
  <1> QED
    BY <1>6, Below, Zenon

\* Taking an entry out of exact counters.
LEMMA TakenOut ==
    ASSUME NEW table, IsFiniteSet(DOMAIN table), \A k \in DOMAIN table : table[k] \in Record,
           NEW k \in DOMAIN table, NEW rest, DOMAIN rest = DOMAIN table \ {k},
           \A j \in DOMAIN rest : rest[j] = table[j]
    PROVE  /\ Total(SizesOf(table)) = Total(SizesOf(rest)) + table[k].fsize
           /\ Cardinality(DOMAIN table) = Cardinality(DOMAIN rest) + 1
           /\ Total(SizesOf(rest)) \in Nat /\ Cardinality(DOMAIN rest) \in Nat /\ table[k].fsize \in Nat
           /\ Cardinality(DOMAIN table) <= Total(SizesOf(table))
PROOF
  <1>1. /\ Naturally(SizesOf(table)) /\ DOMAIN SizesOf(table) = DOMAIN table
        /\ \A j \in DOMAIN table : SizesOf(table)[j] = table[j].fsize /\ table[j].fsize \in Nat
        /\ Cardinality(DOMAIN table) <= Total(SizesOf(table))
    BY SizesNatural, Zenon
  <1>2. [j \in {k} |-> SizesOf(table)[j]] = [j \in {k} |-> table[k].fsize]
    BY <1>1, Zenon
  <1>3. [j \in DOMAIN SizesOf(table) \ {k} |-> SizesOf(table)[j]] = SizesOf(rest)
    BY <1>1, Zenon DEF SizesOf
  <1>4. {k} \in SUBSET DOMAIN SizesOf(table)
    BY <1>1, Zenon
  <1>5. Total(SizesOf(table)) = Total([j \in {k} |-> table[k].fsize]) + Total(SizesOf(rest)) /\ Naturally(SizesOf(rest))
    <2> DEFINE z == SizesOf(table)
    <2>1. Naturally(z) /\ {k} \in SUBSET DOMAIN z
      BY <1>1, <1>4, Zenon
    <2> HIDE DEF z
    <2>2. /\ Total(z) = Total([j \in {k} |-> z[j]]) + Total([j \in DOMAIN z \ {k} |-> z[j]])
          /\ Naturally([j \in DOMAIN z \ {k} |-> z[j]])
      BY <2>1, TotalSplits
    <2> QED
      BY <1>2, <1>3, <2>2, Zenon DEF z
  <1>6. Total([j \in {k} |-> table[k].fsize]) = table[k].fsize
    BY <1>1, TotalOfOne, Zenon
  <1>7. Total(SizesOf(rest)) \in Nat
    BY <1>5, UnitsFinite, Zenon
  <1>8. Cardinality(DOMAIN table) \in Nat /\ Cardinality(DOMAIN rest) \in Nat
        /\ Cardinality(DOMAIN rest) = Cardinality(DOMAIN table) - 1
    BY FS_RemoveElement, FS_CardinalityType, Zenon
  <1> QED
    BY <1>1, <1>5, <1>6, <1>7, <1>8

\* A step that leaves the table's files, their sizes, the counters and the index.
LEMMA QuietExact ==
    ASSUME Exact, UNCHANGED <<used, nfiles, index>>,
           DOMAIN cachetable' = DOMAIN cachetable,
           \A k \in DOMAIN cachetable : /\ cachetable'[k].file = cachetable[k].file
                                        /\ cachetable'[k].fsize = cachetable[k].fsize,
           IsFiniteSet(DOMAIN disk'),
           \A f \in Registered \cap DOMAIN disk : f \in DOMAIN disk' /\ disk'[f] = disk[f],
           \A r \in index.records : r.record.file \in DOMAIN disk' =>
               r.record.file \in DOMAIN disk /\ disk'[r.record.file] = disk[r.record.file]
    PROVE  Exact'
PROOF
  <1>1. SizesOf(cachetable') = SizesOf(cachetable)
    BY Zenon DEF SizesOf
  <1>2. TableExact'
    <2>1. nfiles' = Cardinality(DOMAIN cachetable') /\ (MaxNfiles > 0 => nfiles' <= MaxNfiles)
      BY Zenon DEF Exact, TableExact
    <2>2. used' = Total([k \in DOMAIN cachetable' |-> cachetable'[k].fsize])
      BY <1>1, Zenon DEF Exact, TableExact, SizesOf
    <2>3. ASSUME NEW k \in DOMAIN cachetable
          PROVE  cachetable'[k].file \in DOMAIN disk' /\ cachetable'[k].fsize = disk'[cachetable'[k].file].fsize
      <3>1. cachetable[k].file \in Registered \cap DOMAIN disk /\ cachetable[k].fsize = disk[cachetable[k].file].fsize
        BY Zenon DEF Exact, TableExact, Registered
      <3> QED
        BY <3>1, Zenon
    <2> QED
      BY <2>1, <2>2, <2>3, Zenon DEF TableExact
  <1>3. Apart'
    BY Zenon DEF Exact, Apart
  <1>4. Archived'
    BY Zenon DEF Exact, Archived
  <1> QED
    BY <1>2, <1>3, <1>4, Zenon DEF Exact

\* Until it comes to add() a serve call touches no file that an entry or a record
\* names.
LEMMA ServeExact ==
    ASSUME IInv, Exact, NEW t \in Threads, Serve(t), ~ Add(t)
    PROVE  Exact'
PROOF
  <1> USE DEF world
  <1>0. IsFiniteSet(DOMAIN disk)
    BY Zenon DEF Exact, Apart
  <1>1. CASE \/ \E k \in Keys : StatOriginal(t, k)
             \/ StatHit(t) \/ Deliver(t) \/ Finalizer(t) \/ Decode(t) \/ GiveUp(t)
    <2>1. UNCHANGED <<cachetable, used, nfiles, index, disk>>
      BY <1>1, Zenon DEF StatOriginal, StatHit, Deliver, Finalizer, Decode, GiveUp, shared
    <2> QED
      BY <1>0, <2>1, QuietExact, Zenon
  <1>2. CASE Lookup(t)
    <2>1. UNCHANGED <<used, nfiles, index, disk>>
      BY <1>2, Zenon DEF Lookup
    <2>2. /\ DOMAIN cachetable' = DOMAIN cachetable
          /\ \A n \in DOMAIN cachetable : /\ cachetable'[n].file = cachetable[n].file
                                          /\ cachetable'[n].fsize = cachetable[n].fsize
      BY <1>2, ZenonT(30) DEF IInv, TypeOK, Lookup, Touched, Record
    <2> QED
      BY <1>0, <2>1, <2>2, QuietExact, Zenon
  <1>3. CASE NewCacheFile(t)
    <2>1. UNCHANGED <<cachetable, used, nfiles, index>>
      BY <1>3, Zenon DEF NewCacheFile
    <2>2. PICK f \in FreshNames : disk' = Put(disk, f, Partial(t))
      BY <1>3, Zenon DEF NewCacheFile
    <2>3. f \notin DOMAIN disk /\ f \notin Registered /\ \A r \in index.records : r.record.file # f
      BY Zenon DEF FreshNames, Remembered, Registered
    <2>4. DOMAIN disk' = DOMAIN disk \cup {f} /\ \A g \in DOMAIN disk : disk'[g] = disk[g]
      BY <2>2, <2>3, Zenon DEF Put
    <2>5. IsFiniteSet(DOMAIN disk')
      BY <1>0, <2>4, FS_AddElement, Zenon
    <2> QED
      BY <2>1, <2>3, <2>4, <2>5, QuietExact, Zenon
  <1>4. CASE Encode(t)
    <2>1. UNCHANGED <<cachetable, used, nfiles, index>>
      BY <1>4, Zenon DEF Encode
    <2>2. DOMAIN disk' = DOMAIN disk /\ \A g \in DOMAIN disk \ {file[t]} : disk'[g] = disk[g]
      BY <1>4, Zenon DEF Encode
    <2>3. file[t] \notin Registered /\ \A r \in index.records : r.record.file # file[t]
      BY <1>4, Zenon DEF Encode, IInv, Own, Writing
    <2> QED
      BY <1>0, <2>1, <2>2, <2>3, QuietExact, Zenon
  <1>5. CASE EncodeFails(t) \/ FinalizeCache(t)
    <2>0. Writing(t)
      BY <1>5, Zenon DEF EncodeFails, FinalizeCache, Writing
    <2>1. CASE DropFile(t)
      <3>1. UNCHANGED <<cachetable, used, nfiles, index>>
        BY <2>1, Zenon DEF DropFile
      <3>2. DOMAIN disk' = DOMAIN disk \ {file[t]} /\ \A g \in DOMAIN disk' : disk'[g] = disk[g]
        BY <2>1, Zenon DEF DropFile, Unlinked, Restrict
      <3>3. file[t] \notin Registered
        BY <2>0, Zenon DEF IInv, Own
      <3>4. IsFiniteSet(DOMAIN disk')
        BY <1>0, <3>2, FS_RemoveElement, Zenon
      <3> QED
        BY <3>1, <3>2, <3>3, <3>4, QuietExact, Zenon
    <2>2. CASE ~ DropFile(t)
      <3>1. UNCHANGED <<cachetable, used, nfiles, index, disk>>
        BY <1>5, <2>2, Zenon DEF EncodeFails, FinalizeCache, shared
      <3> QED
        BY <1>0, <3>1, QuietExact, Zenon
    <2> QED
      BY <2>1, <2>2, Zenon
  <1> QED
    BY <1>1, <1>2, <1>3, <1>4, <1>5, Zenon DEF Serve

\* What a method that drops entries and unlinks their files has to show: the
\* counters are those of the entries it leaves.
LEMMA DropExact ==
    ASSUME IInv, Exact, UNCHANGED index,
           NEW E \in SUBSET DOMAIN cachetable,
           DOMAIN cachetable' = DOMAIN cachetable \ E,
           \A k \in DOMAIN cachetable' : cachetable'[k] = cachetable[k],
           NEW F, F \cap Registered = {},
           DOMAIN disk' = DOMAIN disk \ ({cachetable[k].file : k \in E} \cup F),
           \A f \in DOMAIN disk' : disk'[f] = disk[f],
           used' = Total(SizesOf(cachetable')), nfiles' = Cardinality(DOMAIN cachetable')
    PROVE  Exact'
PROOF
  <1>1. \A k \in DOMAIN cachetable' :
            cachetable'[k].file \in DOMAIN disk' /\ cachetable'[k].fsize = disk'[cachetable'[k].file].fsize
    <2> SUFFICES ASSUME NEW k \in DOMAIN cachetable'
                 PROVE  cachetable[k].file \in DOMAIN disk' /\ cachetable[k].fsize = disk'[cachetable[k].file].fsize
      BY Zenon
    <2>1. k \in DOMAIN cachetable /\ k \notin E
      BY Zenon
    <2>2. cachetable[k].file \notin {cachetable[j].file : j \in E}
      <3> SUFFICES ASSUME NEW j \in E, cachetable[k].file = cachetable[j].file PROVE FALSE
        BY Zenon
      <3> QED
        BY <2>1, Zenon DEF Exact, Apart
    <2>3. cachetable[k].file \in DOMAIN disk /\ cachetable[k].fsize = disk[cachetable[k].file].fsize
      BY <2>1, Zenon DEF Exact, TableExact
    <2>4. cachetable[k].file \notin F
      <3>1. cachetable[k].file \in Registered
        BY <2>1, Zenon DEF Registered
      <3> QED
        BY <3>1, Zenon
    <2> QED
      BY <2>2, <2>3, <2>4, Zenon
  <1>2. MaxNfiles > 0 => nfiles' <= MaxNfiles
    <2>1. Cardinality(DOMAIN cachetable') <= Cardinality(DOMAIN cachetable)
          /\ Cardinality(DOMAIN cachetable') \in Nat /\ Cardinality(DOMAIN cachetable) \in Nat
      BY FS_Subset, FS_CardinalityType, Zenon DEF IInv, Places
    <2>2. nfiles = Cardinality(DOMAIN cachetable) /\ (MaxNfiles > 0 => nfiles <= MaxNfiles)
      BY Zenon DEF Exact, TableExact
    <2> QED
      BY <2>1, <2>2, CacheAssumption
  <1>3. TableExact'
    BY <1>1, <1>2, Zenon DEF TableExact, SizesOf
  <1>4. Apart'
    <2>1. IsFiniteSet(DOMAIN disk')
      BY FS_Subset, Zenon DEF Exact, Apart
    <2> QED
      BY <2>1, Zenon DEF Exact, Apart
  <1>5. Archived'
    BY Zenon DEF Exact, Archived
  <1> QED
    BY <1>3, <1>4, <1>5, Zenon DEF Exact

\* The counters the table has in an exact state.
LEMMA ExactCounters ==
    ASSUME IInv, Exact
    PROVE  /\ used = Total(SizesOf(cachetable)) /\ nfiles = Cardinality(DOMAIN cachetable)
           /\ Total(SizesOf(cachetable)) < CounterMod
           /\ IsFiniteSet(DOMAIN cachetable) /\ \A k \in DOMAIN cachetable : cachetable[k] \in Record
PROOF
  <1>1. used = Total(SizesOf(cachetable)) /\ nfiles = Cardinality(DOMAIN cachetable)
    BY Zenon DEF Exact, TableExact, SizesOf
  <1>2. used \in 0 .. (CounterMod - 1)
    BY Zenon DEF IInv, TypeOK
  <1>3. used < CounterMod
    <2>1. \A n \in 0 .. (CounterMod - 1) : n < CounterMod
      BY CacheAssumption
    <2> QED
      BY <1>2, <2>1, Zenon
  <1> QED
    BY <1>1, <1>3, Zenon DEF IInv, TypeOK, Places

\* remove() and purge() uncount what they drop.
LEMMA RemoveExact ==
    ASSUME IInv, Exact, NEW k \in IndexNames, Remove(k)
    PROVE  Exact'
PROOF
  <1>1. /\ k \in DOMAIN cachetable /\ DOMAIN cachetable' = DOMAIN cachetable \ {k}
        /\ \A n \in DOMAIN cachetable' : cachetable'[n] = cachetable[n]
        /\ DOMAIN disk' = DOMAIN disk \ ({cachetable[n].file : n \in {k}} \cup {})
        /\ \A f \in DOMAIN disk' : disk'[f] = disk[f]
        /\ UNCHANGED index
        /\ used' = Wrap(used - cachetable[k].fsize) /\ nfiles' = Wrap(nfiles - 1)
    BY Zenon DEF Remove, Unlinked, Restrict, world
  <1>2. /\ Total(SizesOf(cachetable)) = Total(SizesOf(cachetable')) + cachetable[k].fsize
        /\ Cardinality(DOMAIN cachetable) = Cardinality(DOMAIN cachetable') + 1
        /\ Total(SizesOf(cachetable')) \in Nat /\ Cardinality(DOMAIN cachetable') \in Nat /\ cachetable[k].fsize \in Nat
        /\ Cardinality(DOMAIN cachetable) <= Total(SizesOf(cachetable))
    BY <1>1, ExactCounters, TakenOut, Zenon
  <1>3. /\ used - cachetable[k].fsize = Total(SizesOf(cachetable'))
        /\ nfiles - 1 = Cardinality(DOMAIN cachetable')
        /\ Total(SizesOf(cachetable')) < CounterMod /\ Cardinality(DOMAIN cachetable') < CounterMod
    <2> DEFINE T == Total(SizesOf(cachetable'))
               C == Cardinality(DOMAIN cachetable')
               b == cachetable[k].fsize
    <2>1. T \in Nat /\ C \in Nat /\ b \in Nat /\ used = T + b /\ nfiles = C + 1 /\ C + 1 <= T + b /\ T + b < CounterMod
      BY <1>2, ExactCounters, Zenon
    <2> HIDE DEF T, C, b
    <2>2. used - b = T /\ nfiles - 1 = C /\ T < CounterMod /\ C < CounterMod
      BY <2>1, CacheAssumption
    <2> QED
      BY <2>2, Zenon DEF T, C, b
  <1>4. used' = Total(SizesOf(cachetable')) /\ nfiles' = Cardinality(DOMAIN cachetable')
    BY <1>1, <1>2, <1>3, NoWrap
  <1>5. {k} \in SUBSET DOMAIN cachetable /\ {} \cap Registered = {}
    BY <1>1, Zenon
  <1> QED
    BY <1>1, <1>4, <1>5, DropExact, Zenon

LEMMA PurgeExact ==
    ASSUME IInv, Exact, Purge
    PROVE  Exact'
PROOF
  <1>1. PICK p \in Purged(cachetable, blocked_files, used, nfiles) :
           /\ cachetable' = p.table
           /\ used' = p.used
           /\ nfiles' = p.nfiles
           /\ disk' = Unlinked(disk, p.gone)
    BY Zenon DEF Purge
  <1>2. PICK E \in SUBSET DOMAIN cachetable :
              /\ DOMAIN p.table = DOMAIN cachetable \ E
              /\ \A k \in DOMAIN cachetable \ E : p.table[k] = cachetable[k]
              /\ p.gone = {cachetable[k].file : k \in E}
              /\ p.used = Total(SizesOf(p.table))
              /\ p.nfiles = Cardinality(DOMAIN p.table)
    <2>1. p \in Purged(cachetable, blocked_files, Total(SizesOf(cachetable)), Cardinality(DOMAIN cachetable))
      BY ExactCounters, Zenon
    <2> QED
      BY <2>1, ExactCounters, PurgedExactly
  <1>3. DOMAIN disk' = DOMAIN disk \ ({cachetable[k].file : k \in E} \cup {}) /\ \A f \in DOMAIN disk' : disk'[f] = disk[f]
    BY <1>1, <1>2, Zenon DEF Unlinked, Restrict
  <1>4. UNCHANGED index
    BY Zenon DEF Purge, world
  <1> QED
    <2>1. {} \cap Registered = {}
      BY Zenon
    <2> QED
      BY <1>1, <1>2, <1>3, <1>4, <2>1, DropExact, Zenon

\* add() that registers its file beside the entries of rest: the others go with
\* their files, and the counters are those of rest and of the new entry.
LEMMA PutExact ==
    ASSUME IInv, IInv', Exact, DirectoryFits', NEW t \in Threads, pc[t] = "add", UNCHANGED index,
           NEW rest, DOMAIN rest \subseteq DOMAIN cachetable \ {key[t]},
           \A j \in DOMAIN rest : rest[j] = cachetable[j],
           DOMAIN cachetable' = DOMAIN rest \cup {key[t]},
           \A j \in DOMAIN rest : cachetable'[j] = cachetable[j],
           cachetable'[key[t]] = NewRecord(t),
           DOMAIN disk' = DOMAIN disk \ {cachetable[j].file : j \in DOMAIN cachetable \ DOMAIN rest},
           \A f \in DOMAIN disk' : disk'[f] = disk[f],
           used' = Wrap(Total(SizesOf(rest)) + NewRecord(t).fsize),
           nfiles' = Wrap(Cardinality(DOMAIN rest) + 1),
           MaxNfiles > 0 => Cardinality(DOMAIN rest) < MaxNfiles
    PROVE  Exact'
PROOF
  <1> DEFINE k == key[t]
  <1>1. file[t] \in DOMAIN disk /\ file[t] \notin Registered
        /\ NewRecord(t).file = file[t] /\ NewRecord(t).fsize = disk[file[t]].fsize
    BY Zenon DEF IInv, Own, Writing, NewRecord
  <1>2. \A j \in DOMAIN rest : cachetable[j].file \in DOMAIN disk'
    <2> SUFFICES ASSUME NEW j \in DOMAIN rest PROVE cachetable[j].file \in DOMAIN disk'
      BY Zenon
    <2>1. cachetable[j].file \in DOMAIN disk /\ j \in DOMAIN cachetable
      BY Zenon DEF Exact, TableExact
    <2>2. \A i \in DOMAIN cachetable \ DOMAIN rest : cachetable[i].file # cachetable[j].file
      BY <2>1, Zenon DEF Exact, Apart
    <2> QED
      BY <2>1, <2>2, Zenon
  <1>3. file[t] \in DOMAIN disk'
    <2>1. \A i \in DOMAIN cachetable \ DOMAIN rest : cachetable[i].file # file[t]
      BY <1>1, Zenon DEF Registered
    <2> QED
      BY <1>1, <2>1, Zenon
  <1>4. \A j \in DOMAIN cachetable' :
            cachetable'[j].file \in DOMAIN disk' /\ cachetable'[j].fsize = disk'[cachetable'[j].file].fsize
    <2>1. ASSUME NEW j \in DOMAIN rest
          PROVE  cachetable'[j].file \in DOMAIN disk' /\ cachetable'[j].fsize = disk'[cachetable'[j].file].fsize
      <3>1. cachetable[j].fsize = disk[cachetable[j].file].fsize
        BY Zenon DEF Exact, TableExact
      <3> QED
        BY <1>2, <3>1, ZenonT(30)
    <2>2. cachetable'[k].file \in DOMAIN disk' /\ cachetable'[k].fsize = disk'[cachetable'[k].file].fsize
      <3>1. disk'[file[t]] = disk[file[t]]
        BY <1>3, Zenon
      <3>2. cachetable'[k].file = file[t] /\ cachetable'[k].fsize = disk[file[t]].fsize
        BY <1>1, Zenon
      <3> QED
        BY <1>3, <3>1, <3>2, Zenon
    <2> QED
      BY <2>1, <2>2, Zenon
  <1>5. \A i, j \in DOMAIN cachetable' : cachetable'[i].file = cachetable'[j].file => i = j
    <2>1. \A j \in DOMAIN rest : cachetable[j].file # file[t]
      BY <1>1, Zenon DEF Registered
    <2>2. \A i, j \in DOMAIN rest : cachetable[i].file = cachetable[j].file => i = j
      BY Zenon DEF Exact, Apart
    <2>3. \A j \in DOMAIN cachetable' : \/ j \in DOMAIN rest /\ cachetable'[j].file = cachetable[j].file
                                        \/ j = k /\ cachetable'[j].file = file[t]
      BY <1>1, Zenon
    <2> QED
      BY <2>1, <2>2, <2>3, Zenon
  <1>6. IsFiniteSet(DOMAIN disk') /\ \A f \in DOMAIN disk' : disk'[f] \in Content
    <2>1. IsFiniteSet(DOMAIN disk')
      BY FS_Subset, Zenon DEF Exact, Apart
    <2> QED
      BY <2>1, Zenon DEF IInv, TypeOK
  <1>7. IsFiniteSet(DOMAIN cachetable') /\ \A j \in DOMAIN cachetable' : cachetable'[j] \in Record
    BY Zenon DEF IInv, TypeOK, Places
  <1>8. Total(SizesOf(cachetable')) < CounterMod
    <2>1. Total(SizesOf(disk')) < CounterMod
      BY Zenon DEF DirectoryFits, SizesOf
    <2> QED
      BY <1>4, <1>5, <1>6, <1>7, <2>1, Fits, Zenon
  <1>9. /\ Total(SizesOf(cachetable')) = Total(SizesOf(rest)) + NewRecord(t).fsize
        /\ Cardinality(DOMAIN cachetable') = Cardinality(DOMAIN rest) + 1
        /\ Total(SizesOf(rest)) \in Nat /\ Cardinality(DOMAIN rest) \in Nat /\ NewRecord(t).fsize \in Nat
        /\ Cardinality(DOMAIN cachetable') <= Total(SizesOf(cachetable'))
    <2>1. k \in DOMAIN cachetable' /\ DOMAIN rest = DOMAIN cachetable' \ {k} /\ \A j \in DOMAIN rest : rest[j] = cachetable'[j]
      BY Zenon
    <2>2. cachetable'[k].fsize = NewRecord(t).fsize
      BY Zenon
    <2> HIDE DEF k
    <2>3. /\ Total(SizesOf(cachetable')) = Total(SizesOf(rest)) + cachetable'[k].fsize
          /\ Cardinality(DOMAIN cachetable') = Cardinality(DOMAIN rest) + 1
          /\ Total(SizesOf(rest)) \in Nat /\ Cardinality(DOMAIN rest) \in Nat /\ cachetable'[k].fsize \in Nat
          /\ Cardinality(DOMAIN cachetable') <= Total(SizesOf(cachetable'))
      BY <1>7, <2>1, TakenOut, Zenon
    <2> QED
      BY <2>2, <2>3, Zenon
  <1>10. used' = Total(SizesOf(cachetable')) /\ nfiles' = Cardinality(DOMAIN cachetable')
    <2>1. /\ Total(SizesOf(rest)) + NewRecord(t).fsize \in Nat
          /\ Wrap(Total(SizesOf(rest)) + NewRecord(t).fsize) = Total(SizesOf(rest)) + NewRecord(t).fsize
      <3>1. Total(SizesOf(rest)) + NewRecord(t).fsize < CounterMod
        BY <1>8, <1>9, Zenon
      <3> QED
        BY <1>9, <3>1, Counting, Zenon
    <2>2. Wrap(Cardinality(DOMAIN cachetable')) = Cardinality(DOMAIN cachetable')
      <3>1. Cardinality(DOMAIN cachetable') \in Nat
        BY <1>9, OneMore, Zenon
      <3> QED
        BY <1>8, <1>9, <2>1, <3>1, Below, Zenon
    <2> QED
      BY <1>9, <2>1, <2>2, Zenon
  <1>11. MaxNfiles > 0 => nfiles' <= MaxNfiles
    <2>1. Cardinality(DOMAIN rest) < MaxNfiles <=> Cardinality(DOMAIN rest) + 1 <= MaxNfiles
      BY <1>9, OneMore, Zenon
    <2> QED
      BY <1>9, <1>10, <2>1, Zenon
  <1>12. TableExact'
    BY <1>4, <1>10, <1>11, Zenon DEF TableExact, SizesOf
  <1>13. Apart' /\ Archived'
    BY <1>5, <1>6, Zenon DEF Exact, Apart, Archived
  <1> QED
    BY <1>12, <1>13, Zenon DEF Exact

\* add() without a byte limit.  A name that is in the table makes room for its
\* successor itself, so there is nothing to purge; a new name may have to.
LEMMA AddExact ==
    ASSUME ~ (MaxCacheSize > 0), IInv, IInv', Exact, DirectoryFits', NEW t \in Threads, Add(t)
    PROVE  Exact'
PROOF
  <1> DEFINE k == key[t]
             present == k \in DOMAIN cachetable
             replaced == IF present THEN {cachetable[k].file} ELSE {}
             u == IF present THEN Wrap(used - cachetable[k].fsize) ELSE used
             n == IF present THEN Wrap(nfiles - 1) ELSE nfiles
  <1>1. PICK p \in Purged(cachetable, blocked_files, u, n) :
            IF p.full
            THEN /\ cachetable' = p.table
                 /\ used' = p.used
                 /\ nfiles' = p.nfiles
                 /\ disk' = Unlinked(disk, replaced \cup p.gone \cup {file[t]})
            ELSE /\ cachetable' = Put(p.table, k, NewRecord(t))
                 /\ used' = Wrap(p.used + NewRecord(t).fsize)
                 /\ nfiles' = Wrap(p.nfiles + 1)
                 /\ disk' = Unlinked(disk, replaced \cup p.gone)
    BY Zenon DEF Add, NewRecord
  <1>2. pc[t] = "add" /\ UNCHANGED index
    BY Zenon DEF Add, world
  <1>3. /\ used = Total(SizesOf(cachetable)) /\ nfiles = Cardinality(DOMAIN cachetable)
        /\ Total(SizesOf(cachetable)) < CounterMod
        /\ IsFiniteSet(DOMAIN cachetable) /\ \A j \in DOMAIN cachetable : cachetable[j] \in Record
    BY ExactCounters, Zenon
  <1>4. CASE present
    <2> DEFINE rest == [j \in DOMAIN cachetable \ {k} |-> cachetable[j]]
    <2>1. DOMAIN rest = DOMAIN cachetable \ {k} /\ \A j \in DOMAIN rest : rest[j] = cachetable[j]
      BY Zenon
    <2> HIDE DEF rest
    <2>2. /\ Total(SizesOf(cachetable)) = Total(SizesOf(rest)) + cachetable[k].fsize
          /\ Cardinality(DOMAIN cachetable) = Cardinality(DOMAIN rest) + 1
          /\ Total(SizesOf(rest)) \in Nat /\ Cardinality(DOMAIN rest) \in Nat /\ cachetable[k].fsize \in Nat
          /\ Cardinality(DOMAIN cachetable) <= Total(SizesOf(cachetable))
      <3> HIDE DEF k
      <3> QED
        BY <1>3, <1>4, <2>1, TakenOut, Zenon DEF present
    <2>3. /\ used - cachetable[k].fsize = Total(SizesOf(rest)) /\ nfiles - 1 = Cardinality(DOMAIN rest)
          /\ Total(SizesOf(rest)) < CounterMod /\ Cardinality(DOMAIN rest) < CounterMod
      <3> HIDE DEF k
      <3> QED
        BY <1>3, <2>2, CacheAssumption
    <2>4. u = Total(SizesOf(rest)) /\ n = Cardinality(DOMAIN rest)
      <3>1. Wrap(Total(SizesOf(rest))) = Total(SizesOf(rest)) /\ Wrap(Cardinality(DOMAIN rest)) = Cardinality(DOMAIN rest)
        <4>1. \A a \in Nat : a < CounterMod => Wrap(a) = a
          BY NoWrap
        <4> QED
          BY <2>2, <2>3, <4>1, Zenon
      <3> QED
        BY <1>4, <2>3, <3>1, Zenon
    <2>5. MaxNfiles > 0 => Cardinality(DOMAIN rest) < MaxNfiles
      <3>1. MaxNfiles > 0 => nfiles <= MaxNfiles
        BY Zenon DEF Exact, TableExact
      <3> QED
        BY <1>3, <2>2, <3>1, OneMore, Zenon
    <2>6. ~ Over(u, n)
      <3> HIDE DEF u, n
      <3>1. MaxNfiles > 0 => ~ (n >= MaxNfiles)
        BY <2>2, <2>4, <2>5, CacheAssumption
      <3> QED
        BY <3>1, Zenon DEF Over
    <2> HIDE DEF u, n
    <2>7. p = [table |-> cachetable, used |-> u, nfiles |-> n, gone |-> {}, full |-> FALSE]
      BY <2>6, Zenon DEF Purged
    <2>8. ~ p.full /\ p.table = cachetable /\ p.used = u /\ p.nfiles = n /\ p.gone = {}
      BY <2>7, Zenon
    <2>9. /\ cachetable' = Put(cachetable, k, NewRecord(t))
          /\ used' = Wrap(Total(SizesOf(rest)) + NewRecord(t).fsize)
          /\ nfiles' = Wrap(Cardinality(DOMAIN rest) + 1)
          /\ disk' = Unlinked(disk, {cachetable[k].file})
      <3>1. replaced \cup {} = {cachetable[k].file}
        BY <1>4, Zenon
      <3> HIDE DEF replaced, k
      <3> QED
        BY <1>1, <2>4, <2>8, <3>1, Zenon
    <2>10. /\ DOMAIN cachetable' = DOMAIN rest \cup {k}
           /\ \A j \in DOMAIN rest : cachetable'[j] = cachetable[j]
           /\ cachetable'[k] = NewRecord(t)
      BY <1>4, <2>1, <2>9, Zenon DEF Put
    <2>11. DOMAIN cachetable \ DOMAIN rest = {k}
      BY <1>4, <2>1, Zenon
    <2>12. /\ DOMAIN disk' = DOMAIN disk \ {cachetable[j].file : j \in DOMAIN cachetable \ DOMAIN rest}
           /\ \A f \in DOMAIN disk' : disk'[f] = disk[f]
      BY <2>9, <2>11, Zenon DEF Unlinked, Restrict
    <2>13. DOMAIN rest \subseteq DOMAIN cachetable \ {key[t]}
      BY <2>1, Zenon
    <2> QED
      BY <1>2, <2>1, <2>5, <2>9, <2>10, <2>12, <2>13, PutExact, Zenon
  <1>5. CASE ~ present
    <2>1. u = Total(SizesOf(cachetable)) /\ n = Cardinality(DOMAIN cachetable) /\ replaced = {}
      BY <1>3, <1>5, Zenon
    <2> HIDE DEF u, n, replaced
    <2>2. p \in Purged(cachetable, blocked_files, Total(SizesOf(cachetable)), Cardinality(DOMAIN cachetable))
      BY <1>1, <2>1, Zenon
    <2>3. PICK E \in SUBSET DOMAIN cachetable :
              /\ DOMAIN p.table = DOMAIN cachetable \ E
              /\ \A j \in DOMAIN cachetable \ E : p.table[j] = cachetable[j]
              /\ p.gone = {cachetable[j].file : j \in E}
              /\ p.used = Total(SizesOf(p.table))
              /\ p.nfiles = Cardinality(DOMAIN p.table)
              /\ MaxNfiles > 0 /\ ~ p.full => p.nfiles < MaxNfiles
      BY <1>3, <2>2, PurgedExactly, ZenonT(30)
    <2>4. CASE p.full
      <3>1. /\ cachetable' = p.table /\ used' = p.used /\ nfiles' = p.nfiles
            /\ disk' = Unlinked(disk, replaced \cup p.gone \cup {file[t]})
        BY <1>1, <2>4, Zenon
      <3>2. /\ DOMAIN disk' = DOMAIN disk \ ({cachetable[j].file : j \in E} \cup {file[t]})
            /\ \A f \in DOMAIN disk' : disk'[f] = disk[f]
        BY <2>1, <2>3, <3>1, Zenon DEF Unlinked, Restrict
      <3>3. {file[t]} \cap Registered = {}
        BY <1>2, Zenon DEF IInv, Own, Writing
      <3>4. /\ DOMAIN cachetable' = DOMAIN cachetable \ E
            /\ \A j \in DOMAIN cachetable' : cachetable'[j] = cachetable[j]
            /\ used' = Total(SizesOf(cachetable')) /\ nfiles' = Cardinality(DOMAIN cachetable')
        BY <2>3, <3>1, Zenon
      <3> QED
        BY <1>2, <3>2, <3>3, <3>4, DropExact, Zenon
    <2>5. CASE ~ p.full
      <3>1. /\ cachetable' = Put(p.table, k, NewRecord(t))
            /\ used' = Wrap(p.used + NewRecord(t).fsize)
            /\ nfiles' = Wrap(p.nfiles + 1)
            /\ disk' = Unlinked(disk, replaced \cup p.gone)
        BY <1>1, <2>5, Zenon
      <3> DEFINE rest == p.table
      <3>2. /\ DOMAIN rest \subseteq DOMAIN cachetable \ {key[t]}
            /\ \A j \in DOMAIN rest : rest[j] = cachetable[j]
            /\ used' = Wrap(Total(SizesOf(rest)) + NewRecord(t).fsize)
            /\ nfiles' = Wrap(Cardinality(DOMAIN rest) + 1)
            /\ MaxNfiles > 0 => Cardinality(DOMAIN rest) < MaxNfiles
        BY <1>5, <2>3, <2>5, <3>1, Zenon
      <3>3. DOMAIN cachetable \ DOMAIN rest = E
        BY <2>3, Zenon
      <3>4. /\ DOMAIN disk' = DOMAIN disk \ {cachetable[j].file : j \in DOMAIN cachetable \ DOMAIN rest}
            /\ \A f \in DOMAIN disk' : disk'[f] = disk[f]
        BY <2>1, <2>3, <3>1, <3>3, Zenon DEF Unlinked, Restrict
      <3>5. /\ DOMAIN cachetable' = DOMAIN rest \cup {key[t]}
            /\ \A j \in DOMAIN rest : cachetable'[j] = rest[j]
            /\ cachetable'[key[t]] = NewRecord(t)
        BY <3>1, <3>2, Zenon DEF Put
      <3>6. \A j \in DOMAIN rest : cachetable'[j] = cachetable[j]
        BY <3>2, <3>5, Zenon
      <3> HIDE DEF rest
      <3> QED
        BY <1>2, <3>2, <3>4, <3>5, <3>6, PutExact, ZenonT(30)
    <2> QED
      BY <2>4, <2>5, Zenon
  <1> QED
    BY <1>4, <1>5, Zenon

\* Reading the index: a record for each entry, so counting records counts entries.
LEMMA LoadedExactly ==
    ASSUME IInv, Exact, DirectoryFits, NEW records \in SUBSET index.records,
           \A r \in records : r.record.file \in DOMAIN disk,
           NEW table \in Loaded(records)
    PROVE  /\ IsFiniteSet(DOMAIN table) /\ \A n \in DOMAIN table : table[n] \in Record
           /\ \A n \in DOMAIN table : table[n].file \in DOMAIN disk /\ table[n].fsize = disk[table[n].file].fsize
           /\ \A m, n \in DOMAIN table : table[m].file = table[n].file => m = n
           /\ Wrap(Total([r \in records |-> r.record.fsize])) = Total(SizesOf(table))
           /\ Wrap(Cardinality(records)) = Cardinality(DOMAIN table)
           /\ Total(SizesOf(table)) < CounterMod
           /\ MaxNfiles > 0 => Cardinality(DOMAIN table) <= MaxNfiles
PROOF
  <1> DEFINE names == {r.name : r \in records}
             s == [r \in records |-> r.name]
             size == [r \in records |-> r.record.fsize]
  <1>1. PICK last \in [names -> records] :
             (\A n \in names : last[n].name = n) /\ table = [n \in names |-> last[n].record]
    BY Zenon DEF Loaded
  <1>2. DOMAIN table = names /\ \A n \in names : last[n] \in records /\ last[n].name = n /\ table[n] = last[n].record
    BY <1>1, Zenon
  <1>3. \A r, q \in records : r.record.file = q.record.file \/ r.name = q.name => r = q
    BY Zenon DEF Exact, Archived
  <1>4. s \in Bijection(records, names)
    <2>1. s \in [records -> names] /\ DOMAIN s = records
      BY Zenon
    <2>2. \A r, q \in records : s[r] = s[q] => r = q
      BY <1>3, Zenon
    <2>3. \A n \in names : \E r \in records : s[r] = n
      BY Zenon
    <2> HIDE DEF s, names
    <2> QED
      BY <2>1, <2>2, <2>3, Zenon DEF Bijection, Injection, Surjection, IsInjective
  <1>5. \A r \in records : r.name \in names /\ last[r.name] = r
    <2> TAKE r \in records
    <2>1. r.name \in names
      BY Zenon
    <2>2. last[r.name] \in records /\ last[r.name].name = r.name
      BY <1>2, <2>1, Zenon
    <2> QED
      BY <1>3, <2>1, <2>2, Zenon
  <1>6. IsFiniteSet(records) /\ Cardinality(records) <= Cardinality(index.records)
        /\ Cardinality(records) \in Nat /\ Cardinality(index.records) \in Nat
    BY FS_Subset, FS_CardinalityType, Zenon DEF IInv, Places
  <1>7. IsFiniteSet(DOMAIN table) /\ Cardinality(DOMAIN table) = Cardinality(records)
    <2> HIDE DEF s, names
    <2> QED
      BY <1>2, <1>4, <1>6, FS_Bijection, Zenon DEF ExistsBijection
  <1>8. \A n \in DOMAIN table : table[n] \in Record
    BY <1>2, Zenon DEF IInv, TypeOK
  <1>9. \A n \in DOMAIN table : table[n].file \in DOMAIN disk /\ table[n].fsize = disk[table[n].file].fsize
    <2>1. \A r \in records : r.record.file \in DOMAIN disk /\ r.record.fsize = disk[r.record.file].fsize
      BY Zenon DEF Exact, Archived
    <2> HIDE DEF names
    <2> QED
      BY <1>2, <2>1
  <1>10. \A m, n \in DOMAIN table : table[m].file = table[n].file => m = n
    <2> SUFFICES ASSUME NEW m \in DOMAIN table, NEW n \in DOMAIN table, table[m].file = table[n].file PROVE m = n
      BY Zenon
    <2> HIDE DEF names
    <2>1. last[m] = last[n]
      <3>1. last[m] \in records /\ last[n] \in records /\ last[m].record.file = last[n].record.file
        BY <1>2, Zenon
      <3> QED
        BY <1>3, <3>1, Zenon
    <2> QED
      BY <1>2, <2>1, Zenon
  <1>11. Total(SizesOf(table)) < CounterMod
    <2>1. IsFiniteSet(DOMAIN disk) /\ \A f \in DOMAIN disk : disk[f] \in Content
      BY Zenon DEF Exact, Apart, IInv, TypeOK
    <2> HIDE DEF names
    <2> QED
      BY <1>7, <1>8, <1>9, <1>10, <2>1, Fits, ZenonT(30) DEF DirectoryFits
  <1>12. /\ Naturally(SizesOf(table)) /\ DOMAIN SizesOf(table) = DOMAIN table
         /\ \A n \in DOMAIN table : SizesOf(table)[n] = table[n].fsize
         /\ Total(SizesOf(table)) \in Nat /\ Cardinality(DOMAIN table) <= Total(SizesOf(table))
    BY <1>7, <1>8, SizesNatural, Zenon
  <1>13. Total(size) = Total(SizesOf(table))
    <2>1. DOMAIN size = records /\ \A r \in records : size[r] = r.record.fsize /\ s[r] = r.name
      BY Zenon
    <2> HIDE DEF s, size, names
    <2>2. \A r \in DOMAIN size : size[r] = SizesOf(table)[s[r]]
      BY <1>2, <1>5, <1>12, <2>1
    <2>3. s \in Bijection(DOMAIN size, DOMAIN SizesOf(table))
      BY <1>2, <1>4, <1>12, <2>1, Zenon
    <2> QED
      BY <1>12, <2>2, <2>3, TotalRenames
  <1> HIDE DEF s, names, size
  <1>14. Wrap(Total(size)) = Total(SizesOf(table)) /\ Wrap(Cardinality(records)) = Cardinality(DOMAIN table)
    <2>1. Cardinality(DOMAIN table) < CounterMod
      BY <1>6, <1>7, <1>11, <1>12, Below, Zenon
    <2>2. \A a \in Nat : a < CounterMod => Wrap(a) = a
      BY NoWrap
    <2> QED
      BY <1>6, <1>7, <1>11, <1>12, <1>13, <2>1, <2>2, Zenon
  <1>15. MaxNfiles > 0 => Cardinality(DOMAIN table) <= MaxNfiles
    <2>1. MaxNfiles > 0 => Cardinality(index.records) <= MaxNfiles
      BY Zenon DEF Exact, Archived
    <2> QED
      BY <1>6, <1>7, <2>1, CacheAssumption
  <1> QED
    BY <1>7, <1>8, <1>9, <1>10, <1>11, <1>14, <1>15, Zenon DEF size

\* An empty table has exact counters.
LEMMA EmptyExact ==
    ASSUME NEW table, DOMAIN table = {}
    PROVE  Total(SizesOf(table)) = 0 /\ Cardinality(DOMAIN table) = 0
PROOF
  <1>1. Units(SizesOf(table)) = {}
    BY Zenon DEF Units, SizesOf
  <1> QED
    BY <1>1, FS_EmptySet, Zenon DEF Total, Units

\* The constructor counts what it loads, and purges if that is too much.
LEMMA StartExact ==
    ASSUME IInv, Exact, DirectoryFits, Start
    PROVE  Exact'
PROOF
  <1>0. ~ up /\ DOMAIN cachetable = {}
    BY Zenon DEF Start, IInv, TypeOK
  <1>1. CASE index.state # "present"
    <2>1. /\ disk' = << >> /\ index' = [state |-> "missing", records |-> {}]
          /\ UNCHANGED <<cachetable, used, nfiles>>
      BY <1>1, Zenon DEF Start
    <2>2. DOMAIN disk' = {} /\ index'.records = {} /\ IsFiniteSet(DOMAIN disk') /\ Cardinality(index'.records) = 0
      BY <2>1, FS_EmptySet
    <2>3. TableExact'
      BY <1>0, <2>1, Zenon DEF Exact, TableExact
    <2>4. Apart'
      BY <1>0, <2>1, <2>2, Zenon DEF Apart
    <2>5. Archived'
      <3>1. MaxNfiles > 0 => 0 <= MaxNfiles
        BY CacheAssumption
      <3> QED
        BY <2>2, <3>1, Zenon DEF Archived
    <2> QED
      BY <2>3, <2>4, <2>5, Zenon DEF Exact
  <1>2. CASE index.state = "present"
    <2> DEFINE records == {r \in index.records : r.record.file \in DOMAIN disk}
               u == Wrap(Total([r \in records |-> r.record.fsize]))
               c == Wrap(Cardinality(records))
    <2>1. PICK table \in Loaded(records) : \E p \in Purged(table, blocked_files, u, c) :
                /\ cachetable' = p.table
                /\ used' = p.used
                /\ nfiles' = p.nfiles
                /\ disk' = Restrict(disk, (DOMAIN disk \cap {table[n].file : n \in DOMAIN table}) \ p.gone)
                /\ UNCHANGED index
      BY <1>2, Zenon DEF Start
    <2>2. PICK p \in Purged(table, blocked_files, u, c) :
                /\ cachetable' = p.table
                /\ used' = p.used
                /\ nfiles' = p.nfiles
                /\ disk' = Restrict(disk, (DOMAIN disk \cap {table[n].file : n \in DOMAIN table}) \ p.gone)
                /\ UNCHANGED index
      BY <2>1, ZenonT(30)
    <2>3. records \in SUBSET index.records /\ \A r \in records : r.record.file \in DOMAIN disk
      BY Zenon
    <2> HIDE DEF records
    <2>4. /\ IsFiniteSet(DOMAIN table) /\ \A n \in DOMAIN table : table[n] \in Record
          /\ \A n \in DOMAIN table : table[n].file \in DOMAIN disk /\ table[n].fsize = disk[table[n].file].fsize
          /\ \A m, n \in DOMAIN table : table[m].file = table[n].file => m = n
          /\ u = Total(SizesOf(table)) /\ c = Cardinality(DOMAIN table)
          /\ Total(SizesOf(table)) < CounterMod
          /\ MaxNfiles > 0 => Cardinality(DOMAIN table) <= MaxNfiles
      BY <2>3, LoadedExactly
    <2> HIDE DEF u, c
    <2>5. p \in Purged(table, blocked_files, Total(SizesOf(table)), Cardinality(DOMAIN table))
      BY <2>2, <2>4, Zenon
    <2>6. PICK E \in SUBSET DOMAIN table :
              /\ DOMAIN p.table = DOMAIN table \ E
              /\ \A n \in DOMAIN table \ E : p.table[n] = table[n]
              /\ p.gone = {table[n].file : n \in E}
              /\ p.used = Total(SizesOf(p.table))
              /\ p.nfiles = Cardinality(DOMAIN p.table)
              /\ MaxNfiles > 0 /\ ~ p.full => p.nfiles < MaxNfiles
      BY <2>4, <2>5, PurgedExactly, Zenon
    <2>7. /\ DOMAIN cachetable' = DOMAIN table \ E
          /\ \A n \in DOMAIN cachetable' : n \in DOMAIN table /\ n \notin E /\ cachetable'[n] = table[n]
          /\ used' = Total(SizesOf(cachetable')) /\ nfiles' = Cardinality(DOMAIN cachetable')
      BY <2>2, <2>6, Zenon
    <2>8. /\ DOMAIN disk' = (DOMAIN disk \cap {table[n].file : n \in DOMAIN table}) \ {table[n].file : n \in E}
          /\ \A f \in DOMAIN disk' : disk'[f] = disk[f]
      BY <2>2, <2>6, Zenon DEF Restrict
    <2>9. ASSUME NEW n \in DOMAIN cachetable'
          PROVE  cachetable'[n].file \in DOMAIN disk' /\ cachetable'[n].fsize = disk'[cachetable'[n].file].fsize
      <3>1. n \in DOMAIN table /\ n \notin E /\ cachetable'[n] = table[n]
        BY <2>7, Zenon
      <3>2. table[n].file \in DOMAIN disk /\ table[n].fsize = disk[table[n].file].fsize
        BY <2>4, <3>1, Zenon
      <3>3. \A m \in E : table[m].file # table[n].file
        BY <2>4, <3>1, Zenon
      <3>4. table[n].file \in DOMAIN disk'
        BY <2>8, <3>1, <3>2, <3>3, Zenon
      <3> QED
        BY <2>8, <3>1, <3>2, <3>4, Zenon
    <2>10. MaxNfiles > 0 => nfiles' <= MaxNfiles
      <3>1. Cardinality(DOMAIN table \ E) <= Cardinality(DOMAIN table)
            /\ Cardinality(DOMAIN table \ E) \in Nat /\ Cardinality(DOMAIN table) \in Nat
        BY <2>4, FS_Subset, FS_CardinalityType, Zenon
      <3> QED
        BY <2>4, <2>7, <3>1, CacheAssumption
    <2>11. TableExact'
      BY <2>7, <2>9, <2>10, Zenon DEF TableExact, SizesOf
    <2>12. Apart'
      <3>1. IsFiniteSet(DOMAIN disk')
        BY <2>8, FS_Subset, Zenon DEF Exact, Apart
      <3> QED
        BY <2>4, <2>7, <3>1, Zenon DEF Apart
    <2>13. Archived'
      BY <2>2, <2>8, Zenon DEF Exact, Archived
    <2> QED
      BY <2>11, <2>12, <2>13, Zenon DEF Exact
  <1> QED
    BY <1>1, <1>2, Zenon

\* The process ends: an index it writes has a record for each of some entries.
LEMMA ExitExact ==
    ASSUME NamesApart, IInv, Exact, Shutdown \/ ShutdownCutOff \/ Crash
    PROVE  Exact'
PROOF
  <1>1. cachetable' = << >> /\ used' = 0 /\ nfiles' = 0 /\ UNCHANGED disk
    BY Zenon DEF Shutdown, ShutdownCutOff, Crash, Exit
  <1>2. DOMAIN cachetable' = {}
    BY <1>1
  <1>3. TableExact'
    <2>1. Total(SizesOf(cachetable')) = 0 /\ Cardinality(DOMAIN cachetable') = 0
      BY <1>2, EmptyExact
    <2>2. MaxNfiles > 0 => 0 <= MaxNfiles
      BY CacheAssumption
    <2> QED
      BY <1>1, <1>2, <2>1, <2>2, Zenon DEF TableExact, SizesOf
  <1>4. Apart'
    BY <1>1, <1>2, Zenon DEF Exact, Apart
  <1>5. UNCHANGED index \/ index'.records \subseteq IndexRecords
    <2>1. CASE Shutdown
      <3>1. index' = [state |-> "present", records |-> IndexRecords]
        BY <2>1, Zenon DEF Shutdown
      <3> QED
        BY <3>1, Zenon
    <2>2. CASE ShutdownCutOff
      <3>1. (\E some \in SUBSET IndexRecords : index' = [state |-> "present", records |-> some])
            \/ index' = [state |-> "corrupt", records |-> {}]
        BY <2>2, Zenon DEF ShutdownCutOff
      <3> QED
        BY <3>1
    <2>3. CASE Crash
      BY <2>3, Zenon DEF Crash
    <2> QED
      BY <2>1, <2>2, <2>3, Zenon
  <1>6. CASE UNCHANGED index
    <2>1. Archived'
      BY <1>1, <1>6, Zenon DEF Exact, Archived
    <2> QED
      BY <1>3, <1>4, <2>1, Zenon DEF Exact
  <1>7. CASE index'.records \subseteq IndexRecords
    <2> DEFINE rec == [k \in DOMAIN cachetable |-> [name |-> WrittenAs[k], record |-> cachetable[k]]]
    <2>1. \A r \in IndexRecords : \E k \in DOMAIN cachetable : r = rec[k] /\ r.name = WrittenAs[k] /\ r.record = cachetable[k]
      <3> TAKE r \in IndexRecords
      <3>1. PICK k \in DOMAIN cachetable : r = [name |-> WrittenAs[k], record |-> cachetable[k]]
        BY Zenon DEF IndexRecords
      <3>2. r = rec[k] /\ r.name = WrittenAs[k] /\ r.record = cachetable[k]
        BY <3>1
      <3> QED
        BY <3>2, Zenon
    <2>2. \A r, q \in IndexRecords : r.record.file = q.record.file \/ r.name = q.name => r = q
      <3> SUFFICES ASSUME NEW r \in IndexRecords, NEW q \in IndexRecords,
                          r.record.file = q.record.file \/ r.name = q.name
                   PROVE  r = q
        BY Zenon
      <3> HIDE DEF rec
      <3>1. PICK j \in DOMAIN cachetable : r = rec[j] /\ r.name = WrittenAs[j] /\ r.record = cachetable[j]
        BY <2>1, Zenon
      <3>2. PICK k \in DOMAIN cachetable : q = rec[k] /\ q.name = WrittenAs[k] /\ q.record = cachetable[k]
        BY <2>1, Zenon
      <3>3. j \in IndexNames /\ k \in IndexNames
        BY Zenon DEF IInv, TypeOK
      <3>4. j = k
        BY <3>1, <3>2, <3>3, Zenon DEF NamesApart, Exact, Apart
      <3> QED
        BY <3>1, <3>2, <3>4, Zenon
    <2>3. \A r \in IndexRecords : r.record.file \in DOMAIN disk => r.record.fsize = disk[r.record.file].fsize
      BY <2>1, Zenon DEF Exact, TableExact
    <2>4. MaxNfiles > 0 => Cardinality(index'.records) <= MaxNfiles
      <3>1. rec \in Surjection(DOMAIN cachetable, IndexRecords)
        <4>1. \A k \in DOMAIN cachetable : rec[k] \in IndexRecords
          BY Zenon DEF IndexRecords
        <4>2. DOMAIN rec = DOMAIN cachetable /\ rec = [k \in DOMAIN cachetable |-> rec[k]]
          BY Zenon
        <4> HIDE DEF rec
        <4> QED
          BY <2>1, <4>1, <4>2, Zenon DEF Surjection
      <3> HIDE DEF rec
      <3>2. IsFiniteSet(DOMAIN cachetable) /\ nfiles = Cardinality(DOMAIN cachetable) /\ (MaxNfiles > 0 => nfiles <= MaxNfiles)
        BY Zenon DEF IInv, Places, Exact, TableExact
      <3>3. IsFiniteSet(IndexRecords) /\ Cardinality(IndexRecords) <= Cardinality(DOMAIN cachetable)
        BY <3>1, <3>2, FS_Surjection
      <3>4. IsFiniteSet(index'.records) /\ Cardinality(index'.records) <= Cardinality(IndexRecords)
        BY <1>7, <3>3, FS_Subset, ZenonT(30)
      <3>5. /\ Cardinality(index'.records) \in Nat /\ Cardinality(IndexRecords) \in Nat
            /\ Cardinality(DOMAIN cachetable) \in Nat
        BY <3>2, <3>3, <3>4, FS_CardinalityType
      <3> QED
        BY <3>2, <3>3, <3>4, <3>5, CacheAssumption
    <2>5. Archived'
      BY <1>1, <1>7, <2>2, <2>3, <2>4, Zenon DEF Archived
    <2> QED
      BY <1>3, <1>4, <2>5, Zenon DEF Exact
  <1> QED
    BY <1>5, <1>6, <1>7, Zenon

LEMMA RunningExact ==
    ASSUME ~ (MaxCacheSize > 0), IInv, IInv', Exact, DirectoryFits, DirectoryFits', [Running]_vars
    PROVE  Exact'
PROOF
  <1>1. CASE (\E k \in Keys : ReplaceOriginal(k)) \/ Tick \/ UNCHANGED vars
    <2>1. UNCHANGED <<cachetable, used, nfiles, disk, index>>
      BY <1>1, Zenon DEF ReplaceOriginal, Tick, vars, shared, world
    <2>2. IsFiniteSet(DOMAIN disk)
      BY Zenon DEF Exact, Apart
    <2> QED
      BY <2>1, <2>2, QuietExact, Zenon
  <1>2. ASSUME NEW t \in Threads, Serve(t) PROVE Exact'
    BY <1>2, ServeExact, AddExact, Zenon
  <1>3. ASSUME NEW k \in IndexNames, Remove(k) PROVE Exact'
    BY <1>3, RemoveExact, Zenon
  <1>4. CASE Purge
    BY <1>4, PurgeExact, Zenon
  <1>5. CASE Start
    BY <1>5, StartExact, Zenon
  <1> QED
    BY <1>1, <1>2, <1>3, <1>4, <1>5, Zenon DEF Running

LEMMA InitExact ==
    ASSUME Init
    PROVE  Exact
PROOF
  <1>1. DOMAIN cachetable = {} /\ DOMAIN disk = {} /\ index.records = {} /\ used = 0 /\ nfiles = 0
    BY DEF Init
  <1>2. Total(SizesOf(cachetable)) = 0 /\ Cardinality(DOMAIN cachetable) = 0
    BY <1>1, EmptyExact
  <1>3. MaxNfiles > 0 => 0 <= MaxNfiles
    BY CacheAssumption
  <1>4. TableExact
    BY <1>1, <1>2, <1>3, Zenon DEF TableExact, SizesOf
  <1>5. Apart /\ Archived
    BY <1>1, <1>3, FS_EmptySet, Zenon DEF Apart, Archived
  <1> QED
    BY <1>4, <1>5, Zenon DEF Exact

\* Without a byte limit the table, its counters and the directory agree at every
\* moment of every life of the process (add, remove, purge, the constructor and
\* the destructor), as long as the bytes of the directory fit the counter and
\* no two names are the same after the index has cut them.
THEOREM TableIsExact ==
    ASSUME ~ (MaxCacheSize > 0), NamesApart
    PROVE  Spec /\ []DirectoryFits => []TableExact
PROOF
  <1>1. ASSUME IInv, IInv', Exact, DirectoryFits, DirectoryFits', [Next]_vars
        PROVE  Exact'
    <2>1. [Running]_vars \/ Shutdown \/ ShutdownCutOff \/ Crash
      BY <1>1, Zenon DEF Next
    <2> QED
      BY <1>1, <2>1, RunningExact, ExitExact, Zenon
  <1>2. Exact => TableExact
    BY Zenon DEF Exact
  <1> QED
    BY <1>1, <1>2, Invariance, InitExact, PTL DEF Spec

\* In one life no index is read, so the names do not matter.
THEOREM TableIsExactInOneLife ==
    ASSUME ~ (MaxCacheSize > 0)
    PROVE  OneLife /\ []DirectoryFits => []TableExact
PROOF
  <1>1. ASSUME IInv, IInv', Exact, DirectoryFits, DirectoryFits', [Running]_vars
        PROVE  Exact'
    BY <1>1, RunningExact, Zenon
  <1>2. Exact => TableExact
    BY Zenon DEF Exact
  <1>3. ASSUME [Running]_vars PROVE [Next]_vars
    BY <1>3, Zenon DEF Next
  <1>4. OneLife => Spec
    BY <1>3, PTL DEF OneLife, Spec
  <1> QED
    BY <1>1, <1>2, <1>4, Invariance, InitExact, PTL DEF OneLife

===============================================================================
