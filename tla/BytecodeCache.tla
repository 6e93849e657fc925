---------------------------- MODULE BytecodeCache ----------------------------
(***************************************************************************)
(* The compiled-chunk cache that every request VM loads its scripts        *)
(* through, and the script files behind it.  load_function is not one      *)
(* step: the file is stat'ed, the cache is looked up under its lock, the   *)
(* file is read and compiled without it, and the chunk is inserted under   *)
(* it again, while other calls do the same and the files are edited.       *)
(***************************************************************************)
EXTENDS Naturals, FiniteSetsExt

CONSTANTS
    Calls,          \* the calls that load scripts
    Scripts,        \* the paths
    MaxEdits        \* bound: edits of the files

VARIABLES
    disk,           \* path -> the file: its version, stamp and content
    chunks,         \* path -> the cached chunk, or NoChunk
    load            \* call -> its load_function in flight

cacheVars == <<disk, chunks, load>>

\* A file holds a script that defines the hook, one that does not, one that
\* does not compile, or is absent.
Contents == {"hook", "nohook", "broken", "absent"}

\* The stamp stands for the pair mtime and length.
Files == [version : 0..MaxEdits, stamp : 0..MaxEdits, content : Contents]

NoChunk == [stamp |-> MaxEdits + 1, version |-> 0, content |-> "absent"]
Chunks  == Files \cup {NoChunk}

\* since: the versions the file had while the load was under way.
NoLoad == [step |-> "none", path |-> "none", stamp |-> 0, chunk |-> NoChunk,
           since |-> {}]

CacheInit ==
    /\ disk = [p \in Scripts |-> [version |-> 0, stamp |-> 0, content |-> "hook"]]
    /\ chunks = [p \in Scripts |-> NoChunk]
    /\ load = [c \in Calls |-> NoLoad]

\* Somebody edits, replaces or deletes a script; every edit moves its stamp.
Edit(p, content) ==
    LET v == 1 + Max({disk[q].version : q \in Scripts}) IN
    /\ v <= MaxEdits
    /\ disk' = [disk EXCEPT ![p] = [version |-> v, stamp |-> v,
                                    content |-> content]]
    /\ load' = [c \in Calls |->
                  IF load[c].step \in {"lookup", "read", "insert"} /\ load[c].path = p
                  THEN [load[c] EXCEPT !.since = @ \cup {v}]
                  ELSE load[c]]
    /\ UNCHANGED chunks

Loading(c, step) == load[c].step = step
Step(c, r) == load' = [load EXCEPT ![c] = r]

\* The metadata of the path; a missing file ends the load, as NotFound.
Stat(c, p) ==
    /\ Loading(c, "none")
    /\ Step(c, [step  |-> IF disk[p].content = "absent" THEN "notfound" ELSE "lookup",
                path  |-> p, stamp |-> disk[p].stamp, chunk |-> NoChunk,
                since |-> {disk[p].version}])
    /\ UNCHANGED <<disk, chunks>>

\* Slip: any cached chunk of the path will do.
LookupByPath(c) ==
    /\ Loading(c, "lookup")
    /\ LET chunk == chunks[load[c].path] IN
       Step(c, IF chunk # NoChunk
               THEN [load[c] EXCEPT !.step = "loaded", !.chunk = chunk]
               ELSE [load[c] EXCEPT !.step = "read"])
    /\ UNCHANGED <<disk, chunks>>

\* The chunk under the lock: a hit when mtime and length are the stat'ed ones.
Lookup(c) ==
    /\ Loading(c, "lookup")
    /\ LET chunk == chunks[load[c].path] IN
       Step(c, IF chunk # NoChunk /\ chunk.stamp = load[c].stamp
               THEN [load[c] EXCEPT !.step = "loaded", !.chunk = chunk]
               ELSE [load[c] EXCEPT !.step = "read"])
    /\ UNCHANGED <<disk, chunks>>

\* The file is read and compiled as it is now, whatever was stat'ed: a file
\* gone meanwhile is an Io error, not NotFound.
Read(c) ==
    /\ Loading(c, "read")
    /\ LET f == disk[load[c].path] IN
       Step(c, CASE f.content = "absent" -> [load[c] EXCEPT !.step = "io"]
                 [] f.content = "broken" -> [load[c] EXCEPT !.step = "compile"]
                 [] OTHER -> [load[c] EXCEPT !.step = "insert",
                                !.chunk = [f EXCEPT !.stamp = load[c].stamp]])
    /\ UNCHANGED <<disk, chunks>>

\* The chunk goes in under the stat'ed stamp.
Insert(c) ==
    /\ Loading(c, "insert")
    /\ chunks' = [chunks EXCEPT ![load[c].path] = load[c].chunk]
    /\ Step(c, [load[c] EXCEPT !.step = "loaded"])
    /\ UNCHANGED disk

LoadSteps(c) == Lookup(c) \/ Read(c) \/ Insert(c)

\* load_function has returned: a chunk or one of its errors.
Returned == {"loaded", "notfound", "io", "compile"}

CacheTypeOK ==
    /\ disk \in [Scripts -> Files]
    /\ chunks \in [Scripts -> Chunks]
    /\ \A c \in Calls :
          /\ load[c].step \in {"none", "lookup", "read", "insert"} \cup Returned
          /\ load[c].chunk \in Chunks
          /\ load[c].since \subseteq 0..MaxEdits
=============================================================================
