---------------------------- MODULE FileBindings ----------------------------
(***************************************************************************)
(* The file functions of the server table over a small directory: what     *)
(* each does to the files and which of its steps may fail.                 *)
(***************************************************************************)
EXTENDS Naturals, Sequences

CONSTANTS
    Paths,          \* the names scripts use
    Uploads         \* sequence of the spooled temporary files, some of Paths

\* A path is absent, a directory, or a file with a content; "" is an empty
\* file, "part" one that a copy or an encoder was cut off in, "image" and
\* "service" what SipiImage.write leaves, the latter with its Essentials.
FileStates == {"absent", "dir", "", "part", "a", "b", "image", "service"}
IsFile(f)  == f \notin {"absent", "dir"}

Outcome(ok, why, files) == [ok |-> ok, why |-> why, files |-> files]
Fails(why, files) == Outcome(FALSE, why, files)

\* upload_tmpname: indices are 1-based; 0 and negative ones are no upload.
UploadTmpname(i) == IF i \in 1..Len(Uploads) THEN Uploads[i] ELSE "none"

\* The queries change nothing: ftype and modtime need the path to exist,
\* readdir a directory, the access probes answer whatever they find.
Probe(files, op, p) ==
    Outcome(CASE op \in {"ftype", "modtime"} -> files[p] # "absent"
              [] op = "readdir" -> files[p] = "dir"
              [] OTHER -> TRUE, "query", files)

\* The system refuses for a reason of its own: permissions, a full disk.
Refusals == {"none", "os"}

Unlink(files, p, os) ==
    IF IsFile(files[p]) /\ os = "none"
    THEN Outcome(TRUE, "done", [files EXCEPT ![p] = "absent"]) ELSE Fails("os", files)

Mkdir(files, p, os) ==
    IF files[p] = "absent" /\ os = "none"
    THEN Outcome(TRUE, "done", [files EXCEPT ![p] = "dir"]) ELSE Fails("os", files)

Rmdir(files, p, os) ==
    IF files[p] = "dir" /\ os = "none"
    THEN Outcome(TRUE, "done", [files EXCEPT ![p] = "absent"]) ELSE Fails("os", files)

\* Slip: the target is created before the source is opened.
CopyTargetFirst(files, from, to, os) ==
    IF files[to] = "dir" \/ os = "create" THEN Fails("create", files)
    ELSE LET truncated == [files EXCEPT ![to] = ""] IN
    IF truncated[from] = "absent" \/ os = "open" THEN Fails("open", truncated)
    ELSE IF truncated[from] = "dir" THEN Fails("data", truncated)
    ELSE IF os = "data" THEN Fails("data", [truncated EXCEPT ![to] = "part"])
    ELSE Outcome(TRUE, "done", [truncated EXCEPT ![to] = truncated[from]])

\* copy_file_impl: the source is opened (a directory opens too), the target
\* is created or truncated, then the data is copied: a file copied onto
\* itself is read after it was truncated.
CopyFile(files, from, to, os) ==
    IF files[from] = "absent" \/ os = "open" THEN Fails("open", files)
    ELSE IF files[to] = "dir" \/ os = "create" THEN Fails("create", files)
    ELSE LET truncated == [files EXCEPT ![to] = ""] IN
    IF truncated[from] = "dir" THEN Fails("data", truncated)
    ELSE IF os = "data" THEN Fails("data", [truncated EXCEPT ![to] = "part"])
    ELSE Outcome(TRUE, "done", [truncated EXCEPT ![to] = truncated[from]])

CopyRefusals == {"none", "open", "create", "data"}

\* moveFile is a rename: it replaces a file by a file and a directory by a
\* directory, and never crosses file systems.
MoveFile(files, from, to, os) ==
    IF \/ files[from] = "absent" \/ os # "none"
       \/ files[to] # "absent" /\ (files[from] = "dir") # (files[to] = "dir")
    THEN Fails("os", files)
    ELSE IF from = to THEN Outcome(TRUE, "done", files)
    ELSE Outcome(TRUE, "done", [files EXCEPT ![to] = files[from], ![from] = "absent"])

\* The spooled uploads are removed when the request is over, if they are
\* still there as files.
DropUploads(files) ==
    [p \in Paths |-> IF (\E i \in 1..Len(Uploads) : Uploads[i] = p) /\ IsFile(files[p])
                     THEN "absent" ELSE files[p]]
=============================================================================
