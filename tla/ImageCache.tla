------------------------------ MODULE ImageCache ------------------------------
(***************************************************************************)
(* The file cache of rendered images (SipiCache, src/SipiCache.cpp) as the *)
(* serve path of src/ffi/serve_image.cpp drives it: a hit pins its file,   *)
(* delivers it and unpins it; a miss decodes the original, writes a new    *)
(* cache file while it streams, and registers the file.  Methods of the    *)
(* cache run under one mutex and are single steps; what a serve call does  *)
(* before it takes the mutex (the stat of the original, the times it       *)
(* reads) are steps of their own.  The process may stop at any point and   *)
(* start again on the same directory.                                      *)
(***************************************************************************)
EXTENDS Integers, FiniteSets, FiniteSetsExt, Functions

CONSTANTS
    Threads,        \* concurrent sipi_serve_image calls
    Keys,           \* canonical URLs with the watermark suffix; one original each
    Files,          \* names mkstemp may return
    NoFile, NoKey,
    IndexNames,     \* the canonical names an index record can hold: Keys, and
                    \* what is left of a key cut at 255 characters
    WrittenAs,      \* the name the index record of an entry holds
    Sizes,          \* sizes of encoded images
    MaxCacheSize,   \* max_cache_size: -1 unlimited, > 0 the limit
    MaxNfiles,      \* max_nfiles: 0 none
    CounterMod,     \* the counters are unsigned: arithmetic modulo this bound
    MaxTime,        \* bound on the clock, in seconds
    MaxVersion      \* bound on the replacements of an original

ASSUME CacheAssumption ==
    /\ IsFiniteSet(Threads)
    /\ NoFile \notin Files /\ NoKey \notin Keys
    /\ Keys \subseteq IndexNames
    /\ WrittenAs \in [IndexNames -> IndexNames]
    /\ Sizes \subseteq Nat \ {0}
    /\ MaxCacheSize \in Int \ {0}
    /\ MaxNfiles \in Nat
    /\ CounterMod \in Nat /\ MaxNfiles + 1 < CounterMod
    /\ MaxTime \in Nat /\ MaxVersion \in Nat

VARIABLES
    cachetable,     \* canonical name -> record
    blocked_files,  \* pins per cache file
    used,           \* cache_used_bytes
    nfiles,
    disk,           \* the files of the cache directory
    index,          \* .sipicache: whether it can be read, and its records
    up,             \* the process runs
    orig,           \* the originals: version and modification time
    clock,          \* seconds
    pc,
    key,            \* the serve call's cache key
    seen,           \* the original as the call's stat found it
    image,          \* the decoded version and when it was read
    file,           \* the cache file the call reads or writes
    at              \* access time for the new record, read before the mutex

shared == <<cachetable, blocked_files, used, nfiles, disk>>
local == <<pc, key, seen, image, file, at>>
world == <<index, up, orig, clock>>
vars == <<shared, local, world>>

Times == 0 .. MaxTime
Original == [version : 0 .. MaxVersion, mtime : Times]
Decoded == [version : 0 .. MaxVersion, readAt : Times]
Record == [file : Files, mtime : Times, access_time : Times, fsize : Sizes]
Content == [key : Keys, version : 0 .. MaxVersion, readAt : Times,
            mtime : Times, fsize : Sizes \cup {0}, whole : BOOLEAN]

Wrap(n) == n % CounterMod

NothingSeen == [version |-> 0, mtime |-> 0]
NothingRead == [version |-> 0, readAt |-> 0]

Goto(t, label) == pc' = [pc EXCEPT ![t] = label]

\* The serve call returns; its locals are gone.
Return(t) ==
    /\ Goto(t, "idle")
    /\ key' = [key EXCEPT ![t] = NoKey]
    /\ seen' = [seen EXCEPT ![t] = NothingSeen]
    /\ image' = [image EXCEPT ![t] = NothingRead]
    /\ file' = [file EXCEPT ![t] = NoFile]
    /\ at' = [at EXCEPT ![t] = 0]

Unlinked(d, F) == Restrict(d, DOMAIN d \ F)
\* The sum of a function's values: one element for each unit of each value.
Total(size) == Cardinality(UNION {{x} \X (1 .. size[x]) : x \in DOMAIN size})
Put(f, x, v) == [y \in DOMAIN f \cup {x} |-> IF y = x THEN v ELSE f[y]]

----------------------------------------------------------------------------
\* Eviction.  The operators take the table and the counters because add and
\* the constructor change them before they purge.

SizeLow == (MaxCacheSize * 8) \div 10
NfilesLow == (MaxNfiles * 8) \div 10

Over(u, n) ==
    \/ MaxCacheSize > 0 /\ u >= MaxCacheSize
    \/ MaxNfiles > 0 /\ n >= MaxNfiles

AtLowWater(u, n) ==
    /\ MaxCacheSize > 0 => u <= SizeLow
    /\ MaxNfiles > 0 => n <= NfilesLow

Pinned(pins, r) == pins[r.file] > 0

LRUOrdersOfAll(table, pins) ==
    {s \in Bijection(1 .. Cardinality(DOMAIN table), DOMAIN table) :
        \A i, j \in DOMAIN s :
            i < j => table[s[i]].access_time <= table[s[j]].access_time}

\* The order of a sort by access time, which leaves equal times in any order.
\* Pinned files are skipped, so the order is over the others.
LRUOrders(table, pins) ==
    LET loose == {k \in DOMAIN table : ~ Pinned(pins, table[k])}
    IN  {s \in Bijection(1 .. Cardinality(loose), loose) :
            \A i, j \in DOMAIN s :
                i < j => table[s[i]].access_time <= table[s[j]].access_time}

UsedAfter(table, u, s, n) ==
    Wrap(u - Total([i \in 1 .. n |-> table[s[i]].fsize]))

\* How many entries of the order the loop evicts before it breaks.
EvictCount(table, u, n, s) ==
    LET enough == {i \in 0 .. Cardinality(DOMAIN s) :
                      AtLowWater(UsedAfter(table, u, s, i), Wrap(n - i))}
    IN  IF enough = {} THEN Cardinality(DOMAIN s) ELSE Min(enough)

\* purge(): the outcomes for a table, its counters and the pins.
Purged(table, pins, u, n) ==
    LET Outcome(s, m) ==
          [table |-> Restrict(table, DOMAIN table \ {s[i] : i \in 1 .. m}),
           used |-> UsedAfter(table, u, s, m),
           nfiles |-> Wrap(n - m),
           gone |-> {table[s[i]].file : i \in 1 .. m},
           full |-> ~ AtLowWater(UsedAfter(table, u, s, m), Wrap(n - m))]
    IN  IF Over(u, n)
        THEN {Outcome(s, EvictCount(table, u, n, s)) : s \in LRUOrders(table, pins)}
        ELSE {[table |-> table, used |-> u, nfiles |-> n, gone |-> {}, full |-> FALSE]}

----------------------------------------------------------------------------
\* Serving.

Init ==
    /\ cachetable = << >>
    /\ blocked_files = [f \in Files |-> 0]
    /\ used = 0
    /\ nfiles = 0
    /\ disk = << >>
    /\ index = [state |-> "missing", records |-> {}]
    /\ up = FALSE
    /\ orig = [k \in Keys |-> [version |-> 0, mtime |-> 0]]
    /\ clock = 0
    /\ pc = [t \in Threads |-> "idle"]
    /\ key = [t \in Threads |-> NoKey]
    /\ seen = [t \in Threads |-> NothingSeen]
    /\ image = [t \in Threads |-> NothingRead]
    /\ file = [t \in Threads |-> NoFile]
    /\ at = [t \in Threads |-> 0]

\* check() stats the original before it takes the mutex.
StatOriginal(t, k) ==
    /\ up /\ pc[t] = "idle"
    /\ Goto(t, "lookup")
    /\ key' = [key EXCEPT ![t] = k]
    /\ seen' = [seen EXCEPT ![t] = orig[k]]
    /\ UNCHANGED <<shared, world, image, file, at>>

\* check() under the mutex: a present entry is touched, then served and pinned
\* unless the original is newer than the cache file.
Touched(k) == [cachetable EXCEPT ![k].access_time = clock]

StaleByAccess(t) == seen[t].mtime > cachetable[key[t]].access_time
Stale(t) == seen[t].mtime > cachetable[key[t]].mtime

Lookup(t) ==
    LET k == key[t]
        present == k \in DOMAIN cachetable
    IN  /\ pc[t] = "lookup"
        /\ cachetable' = IF present THEN Touched(k) ELSE cachetable
        /\ IF present /\ ~ Stale(t)
           THEN /\ blocked_files' = [blocked_files EXCEPT ![cachetable[k].file] = @ + 1]
                /\ file' = [file EXCEPT ![t] = cachetable[k].file]
                /\ Goto(t, "stat")
           ELSE /\ UNCHANGED <<blocked_files, file>>
                /\ Goto(t, "decode")
        /\ UNCHANGED <<used, nfiles, disk, world, key, seen, image, at>>

Unpin(f) == blocked_files' = [blocked_files EXCEPT ![f] = IF @ = 0 THEN 0 ELSE @ - 1]

StatHitKeepsPin(t) ==
    /\ pc[t] = "stat"
    /\ \/ /\ file[t] \in DOMAIN disk
          /\ Goto(t, "send")
          /\ UNCHANGED <<key, seen, image, file, at>>
       \/ /\ file[t] \notin DOMAIN disk
          /\ Return(t)
    /\ UNCHANGED <<shared, world>>

\* full_file_body() for a hit: when the file is gone the pin is released and
\* the call fails.
StatHit(t) ==
    /\ pc[t] = "stat"
    /\ \/ /\ file[t] \in DOMAIN disk
          /\ Goto(t, "send")
          /\ UNCHANGED <<blocked_files, key, seen, image, file, at>>
       \/ /\ file[t] \notin DOMAIN disk
          /\ Unpin(file[t])
          /\ Return(t)
    /\ UNCHANGED <<cachetable, used, nfiles, disk, world>>

\* apply(): the file is opened and delivered, or is not there to be opened;
\* either way the finalizer unpins it.
Deliver(t) ==
    /\ pc[t] = "send"
    /\ Goto(t, "unpin")
    /\ UNCHANGED <<shared, world, key, seen, image, file, at>>

Finalizer(t) ==
    /\ pc[t] = "unpin"
    /\ Unpin(file[t])
    /\ Return(t)
    /\ UNCHANGED <<cachetable, used, nfiles, disk, world>>

\* The original is read and decoded, or the call ends on one of the errors and
\* disconnects between the lookup and the creation of the cache file.
Decode(t) ==
    /\ pc[t] = "decode"
    /\ image' = [image EXCEPT ![t] = [version |-> orig[key[t]].version, readAt |-> clock]]
    /\ Goto(t, "create")
    /\ UNCHANGED <<shared, world, key, seen, file, at>>

GiveUp(t) ==
    /\ pc[t] \in {"lookup", "decode", "create"}
    /\ Return(t)
    /\ UNCHANGED <<shared, world>>

\* mkstemp: a name that is not taken.  That it is also not one the cache still
\* remembers is an assumption on the random names, not on the code.
Remembered ==
    {cachetable[k].file : k \in DOMAIN cachetable} \cup {file[t] : t \in Threads}
    \cup {f \in Files : blocked_files[f] > 0} \cup {r.record.file : r \in index.records}

FreshNames == Files \ (DOMAIN disk \cup Remembered)

Partial(t) == [key |-> key[t], version |-> image[t].version, readAt |-> image[t].readAt,
               mtime |-> clock, fsize |-> 0, whole |-> FALSE]

\* getNewCacheFileName() and the probe: when the probe fails the empty file stays.
NewCacheFile(t) ==
    /\ pc[t] = "create"
    /\ \E f \in FreshNames :
        /\ disk' = Put(disk, f, Partial(t))
        /\ \/ /\ file' = [file EXCEPT ![t] = f]
              /\ Goto(t, "encode")
              /\ UNCHANGED <<key, seen, image, at>>
           \/ Return(t)
    /\ UNCHANGED <<cachetable, blocked_files, used, nfiles, world>>

\* produce(): the image goes to the client and to the file.  The file's half of
\* the tee is best effort, so it may end short of what the client got.
Encode(t) ==
    /\ pc[t] = "encode"
    /\ \E size \in Sizes \cup {0}, whole \in BOOLEAN :
        /\ whole => size # 0
        /\ disk' = [disk EXCEPT ![file[t]] = [@ EXCEPT !.mtime = clock, !.fsize = size, !.whole = whole]]
    /\ Goto(t, "finalize")
    /\ UNCHANGED <<cachetable, blocked_files, used, nfiles, world, key, seen, image, file, at>>

DropFile(t) ==
    /\ disk' = Unlinked(disk, {file[t]})
    /\ Return(t)
    /\ UNCHANGED <<cachetable, blocked_files, used, nfiles, world>>

EncodeFailsKeepsFile(t) ==
    /\ pc[t] = "encode"
    /\ disk' = [disk EXCEPT ![file[t]].fsize = CHOOSE size \in Sizes : TRUE]
    /\ Return(t)
    /\ UNCHANGED <<cachetable, blocked_files, used, nfiles, world>>

\* The client hangs up or the encoder fails: the partial file is removed.
EncodeFails(t) == pc[t] = "encode" /\ DropFile(t)

\* finalize_cache(): only a file as long as the stream and no larger than the
\* whole cache goes on to add(), which reads the clock before the mutex.
SmallEnough(t) == MaxCacheSize > 0 => disk[file[t]].fsize <= MaxCacheSize

Intact(t) ==
    /\ disk[file[t]].whole
    /\ SmallEnough(t)

FinalizeCache(t) ==
    /\ pc[t] = "finalize"
    /\ IF Intact(t)
       THEN /\ at' = [at EXCEPT ![t] = clock]
            /\ Goto(t, "add")
            /\ UNCHANGED <<shared, world, key, seen, image, file>>
       ELSE DropFile(t)

\* add() under the mutex: the file of an entry with the same name is unlinked
\* and uncounted, the entry itself stays for purge() to see; then the new
\* record goes in, or, when purge() could not free enough, the new file goes.
Add(t) ==
    LET k == key[t]
        present == k \in DOMAIN cachetable
        new == [file |-> file[t], mtime |-> disk[file[t]].mtime,
                access_time |-> at[t], fsize |-> disk[file[t]].fsize]
        replaced == IF present THEN {cachetable[k].file} ELSE {}
        u == IF present THEN Wrap(used - cachetable[k].fsize) ELSE used
        n == IF present THEN Wrap(nfiles - 1) ELSE nfiles
    IN  /\ pc[t] = "add"
        /\ \E p \in Purged(cachetable, blocked_files, u, n) :
            IF p.full
            THEN /\ cachetable' = p.table
                 /\ used' = p.used
                 /\ nfiles' = p.nfiles
                 /\ disk' = Unlinked(disk, replaced \cup p.gone \cup {file[t]})
            ELSE /\ cachetable' = Put(p.table, k, new)
                 /\ used' = Wrap(p.used + new.fsize)
                 /\ nfiles' = Wrap(p.nfiles + 1)
                 /\ disk' = Unlinked(disk, replaced \cup p.gone)
        /\ Return(t)
        /\ UNCHANGED <<blocked_files, world>>

RemoveUncounted(k) ==
    /\ up /\ k \in DOMAIN cachetable
    /\ ~ Pinned(blocked_files, cachetable[k])
    /\ disk' = Unlinked(disk, {cachetable[k].file})
    /\ cachetable' = Restrict(cachetable, DOMAIN cachetable \ {k})
    /\ UNCHANGED <<blocked_files, used, nfiles, local, world>>

\* The two public operations no serve call uses: remove() and purge(true).
Remove(k) ==
    /\ up /\ k \in DOMAIN cachetable
    /\ ~ Pinned(blocked_files, cachetable[k])
    /\ disk' = Unlinked(disk, {cachetable[k].file})
    /\ used' = Wrap(used - cachetable[k].fsize)
    /\ nfiles' = Wrap(nfiles - 1)
    /\ cachetable' = Restrict(cachetable, DOMAIN cachetable \ {k})
    /\ UNCHANGED <<blocked_files, local, world>>

Purge ==
    /\ up /\ Over(used, nfiles)
    /\ \E p \in Purged(cachetable, blocked_files, used, nfiles) :
        /\ cachetable' = p.table
        /\ used' = p.used
        /\ nfiles' = p.nfiles
        /\ disk' = Unlinked(disk, p.gone)
    /\ UNCHANGED <<blocked_files, local, world>>

----------------------------------------------------------------------------
\* The life of the process.

\* The constructor: without a readable index every file goes; with one, records
\* whose file is missing are skipped, files no record names are removed, and
\* the cache is purged.  Records with equal names overwrite each other.
Loaded(records) ==
    LET names == {r.name : r \in records}
    IN  {[n \in names |-> last[n].record] :
            last \in {g \in [names -> records] : \A n \in names : g[n].name = n}}

Start ==
    LET records == {r \in index.records : r.record.file \in DOMAIN disk}
    IN  /\ ~ up
        /\ up' = TRUE
        /\ IF index.state = "present"
           THEN \E table \in Loaded(records) :
                LET known == {table[n].file : n \in DOMAIN table}
                IN  \E p \in Purged(table, blocked_files,
                                    Wrap(Total([r \in records |-> r.record.fsize])),
                                    Wrap(Cardinality(records))) :
                    /\ cachetable' = p.table
                    /\ used' = p.used
                    /\ nfiles' = p.nfiles
                    /\ disk' = Restrict(disk, (DOMAIN disk \cap known) \ p.gone)
                    /\ UNCHANGED index
           ELSE /\ disk' = << >>
                /\ index' = [state |-> "missing", records |-> {}]
                /\ UNCHANGED <<cachetable, used, nfiles>>
        /\ UNCHANGED <<blocked_files, local, orig, clock>>

\* The process ends and its memory with it.
Exit ==
    /\ up' = FALSE
    /\ cachetable' = << >>
    /\ blocked_files' = [f \in Files |-> 0]
    /\ used' = 0
    /\ nfiles' = 0
    /\ pc' = [t \in Threads |-> "idle"]
    /\ key' = [t \in Threads |-> NoKey]
    /\ seen' = [t \in Threads |-> NothingSeen]
    /\ image' = [t \in Threads |-> NothingRead]
    /\ file' = [t \in Threads |-> NoFile]
    /\ at' = [t \in Threads |-> 0]
    /\ UNCHANGED <<disk, orig, clock>>

\* The destructor writes one record per entry; it runs after the serve calls
\* have returned.  It may fail to open the index, or be cut off.
IndexRecords == {[name |-> WrittenAs[k], record |-> cachetable[k]] : k \in DOMAIN cachetable}

Shutdown ==
    /\ up /\ \A t \in Threads : pc[t] = "idle"
    /\ index' = [state |-> "present", records |-> IndexRecords]
    /\ Exit

ShutdownCutOff ==
    /\ up /\ \A t \in Threads : pc[t] = "idle"
    /\ \/ \E some \in SUBSET IndexRecords :
            index' = [state |-> "present", records |-> some]
       \/ index' = [state |-> "corrupt", records |-> {}]
    /\ Exit

Crash == up /\ UNCHANGED index /\ Exit

----------------------------------------------------------------------------
\* The environment.

ReplaceOriginal(k) ==
    /\ orig[k].version < MaxVersion
    /\ orig' = [orig EXCEPT ![k] = [version |-> @.version + 1, mtime |-> clock]]
    /\ UNCHANGED <<shared, local, index, up, clock>>

Tick ==
    /\ clock < MaxTime
    /\ clock' = clock + 1
    /\ UNCHANGED <<shared, local, index, up, orig>>

Serve(t) ==
    \/ \E k \in Keys : StatOriginal(t, k)
    \/ Lookup(t)
    \/ StatHit(t)
    \/ Deliver(t)
    \/ Finalizer(t)
    \/ Decode(t)
    \/ GiveUp(t)
    \/ NewCacheFile(t)
    \/ Encode(t)
    \/ EncodeFails(t)
    \/ FinalizeCache(t)
    \/ Add(t)

Running ==
    \/ \E t \in Threads : Serve(t)
    \/ \E k \in IndexNames : Remove(k)
    \/ Purge
    \/ Start
    \/ \E k \in Keys : ReplaceOriginal(k)
    \/ Tick

Next ==
    \/ Running
    \/ Shutdown
    \/ ShutdownCutOff
    \/ Crash

\* One life of the process, and any number of lives.
OneLife == Init /\ [][Running]_vars
Spec == Init /\ [][Next]_vars

----------------------------------------------------------------------------
\* Properties.

PCs == {"idle", "lookup", "stat", "send", "unpin", "decode", "create",
        "encode", "finalize", "add"}

\* Every variable holds a value of its type: the table names files the cache
\* made, the counters stay in their unsigned range, and only a running process
\* has entries, pins and serve calls.
TypeOK ==
    /\ DOMAIN cachetable \subseteq IndexNames
    /\ \A k \in DOMAIN cachetable : cachetable[k] \in Record
    /\ blocked_files \in [Files -> Nat]
    /\ used \in 0 .. (CounterMod - 1)
    /\ nfiles \in 0 .. (CounterMod - 1)
    /\ DOMAIN disk \subseteq Files
    /\ \A f \in DOMAIN disk : disk[f] \in Content
    /\ index.state \in {"missing", "corrupt", "present"}
    /\ \A r \in index.records : r.name \in IndexNames /\ r.record \in Record
    /\ up \in BOOLEAN
    /\ orig \in [Keys -> Original]
    /\ clock \in Times
    /\ pc \in [Threads -> PCs]
    /\ key \in [Threads -> Keys \cup {NoKey}]
    /\ seen \in [Threads -> Original]
    /\ image \in [Threads -> Decoded]
    /\ file \in [Threads -> Files \cup {NoFile}]
    /\ at \in [Threads -> Times]
    /\ ~ up => /\ DOMAIN cachetable = {}
               /\ \A t \in Threads : pc[t] = "idle"

Pinning(f) == {t \in Threads : pc[t] \in {"stat", "send", "unpin"} /\ file[t] = f}
Writing(t) == pc[t] \in {"encode", "finalize", "add"}

\* A cache file's pin count is the number of serve calls that hold it: check()
\* pins once, and every exit of the hit path (the failed stat and apply()'s
\* finalizer) unpins once, so no file stays pinned for ever and none is
\* unpinned under a reader.
PinsExact == \A f \in Files : blocked_files[f] = Cardinality(Pinning(f))

\* A pinned file leaves the directory only when add() replaces the entry that
\* names it: neither purge(), remove() nor another call's clean-up unlinks it.
EvictionSparesPinned ==
    [][\A f \in DOMAIN disk \ DOMAIN disk' :
        blocked_files[f] > 0 =>
            \E t \in Threads :
                /\ pc[t] = "add" /\ pc'[t] = "idle"
                /\ key[t] \in DOMAIN cachetable
                /\ cachetable[key[t]].file = f]_vars

\* What a hit delivers is a complete rendering of the requested image: a short
\* write, a crash in the middle of an encode, a stale or cut-off index and the
\* reuse of the directory never put another file's bytes, or half of one,
\* behind a key.  Every variable keeps its type.
HitServesItsImage ==
    /\ TypeOK
    /\ \A t \in Threads :
          pc[t] \in {"stat", "send"} /\ file[t] \in DOMAIN disk =>
              disk[file[t]].key = key[t] /\ disk[file[t]].whole

\* A hit delivers an outdated rendering only if the original was replaced
\* between the second it was read for that rendering and the second the
\* rendering was last written.
OutdatedOnlyIfReplacedMeanwhile ==
    \A t \in Threads :
        pc[t] \in {"stat", "send"} /\ file[t] \in DOMAIN disk =>
            LET c == disk[file[t]]
            IN  c.version < seen[t].version =>
                    c.readAt <= seen[t].mtime /\ seen[t].mtime <= c.mtime

Registered == {cachetable[k].file : k \in DOMAIN cachetable}

\* Every file of a running cache's directory that takes up space belongs to an
\* entry or to a serve call that is writing it: failed encodes, refused and
\* replaced files and the leftovers of earlier lives are gone.
NoBytesLeak ==
    up => \A f \in DOMAIN disk :
            \/ f \in Registered
            \/ \E t \in Threads : Writing(t) /\ file[t] = f
            \/ disk[f].fsize = 0

\* The table, its counters and the directory agree: the counters are the number
\* and the bytes of the entries (the member comments of SipiCache.h), every
\* entry's file is there with the size the entry counts, and there are no more
\* entries than the limit allows (add, remove, purge).
TableExact ==
    /\ nfiles = Cardinality(DOMAIN cachetable)
    /\ used = Total([k \in DOMAIN cachetable |-> cachetable[k].fsize])
    /\ \A k \in DOMAIN cachetable :
          /\ cachetable[k].file \in DOMAIN disk
          /\ cachetable[k].fsize = disk[cachetable[k].file].fsize
    /\ MaxNfiles > 0 => nfiles <= MaxNfiles

=============================================================================
