----------------------------- MODULE LuaBindings -----------------------------
(***************************************************************************)
(* One VM and the functions a script may call in it: files, the response,  *)
(* images, sqlite, outbound http and the conversions.  Every function that *)
(* is registered as a binding checks the deadline first; what it owns in   *)
(* the engine or in sqlite is released by the collector or with the VM.    *)
(***************************************************************************)
EXTENDS SqliteHandles, FileBindings, ResponseWriter, LuaValues

CONSTANTS
    Images,         \* bound: the images of one VM
    Ext,            \* path -> its extension
    Args,           \* the argument lists scripts pass, by the kinds of values
    HttpTimeouts,   \* the timeouts scripts ask for
    HttpDefault,    \* the one used otherwise: 2 s in the code
    MaxWrites,      \* bound: body writes of the script
    MaxHead,        \* bound: headers, and cookies, waiting for the commit
    Samples         \* the values converted

ASSUME BindingsAssumption ==
    /\ Timeout \in Nat \ {0} /\ MaxWrites \in Nat /\ MaxHead \in Nat
    /\ HttpTimeouts \subseteq Int /\ HttpDefault \in Nat
    /\ Samples \subseteq Values
    /\ \A v \in Values : v.t = "table" => \A k \in DOMAIN v.fields : v.fields[k] \in Values
    /\ DOMAIN Ext = Paths /\ \A i \in 1..Len(Uploads) : Uploads[i] \in Paths
    /\ Paths \cap {"none", "http"} = {}

VARIABLES
    family,         \* the functions this script uses: fixed
    files,          \* path -> what it holds
    writer, gone,   \* the response; whether the client has left
    img,            \* image -> its userdata and engine handle
    sample,         \* the value the conversions work on: fixed
    last,           \* what the last call returned
    ended           \* the VM has been dropped

vars == <<sqliteVars, family, files, writer, gone, img, sample, last, ended>>

Families == {"files", "response", "image", "sqlite", "http", "values"}

NoImage == [held |-> FALSE, native |-> "none", frees |-> 0]
NewImage == [held |-> TRUE, native |-> "live", frees |-> 0]
Reply(ok, why, from, to) == [ok |-> ok, why |-> why, from |-> from, to |-> to]
NoReply == Reply("none", "none", "none", "none")
Result(ok, why) == Reply(IF ok THEN "ok" ELSE "fail", why, "none", "none")
BadArgs == Result(FALSE, "args")
Raised  == Reply("raised", "error", "none", "none")

Init ==
    /\ SqliteInit /\ now = 0
    /\ family \in Families
    /\ files = [p \in Paths |-> IF \E i \in 1..Len(Uploads) : Uploads[i] = p THEN "b" ELSE "a"]
    /\ writer = NewWriter /\ gone = FALSE
    /\ img = [i \in Images |-> NoImage]
    /\ IF family = "values" THEN sample \in Samples ELSE sample = Failure
    /\ last = NoReply /\ ended = FALSE

-----------------------------------------------------------------------------
(* Arguments.                                                              *)

Is(a, i, kinds) == i <= Len(a) /\ a[i] \in kinds

\* lua_tolstring: strings and numbers.
CoerceString == {"str", "int", "num"}
StringArg(a) == Is(a, 1, CoerceString)

\* A path or a 1-based upload index.
FileArg(a, p, n) ==
    IF Is(a, 1, {"int"}) THEN UploadTmpname(n) ELSE IF Is(a, 1, {"str"}) THEN p ELSE "none"

\* The scripts of this family call it and the deadline has not passed.
Calls(f) == family = f /\ ~ended /\ ~Late

\* A binding called after the deadline raises and does nothing.
Chokepoint ==
    /\ ~ended /\ Late
    /\ last' = Raised
    /\ UNCHANGED <<sqliteVars, family, files, writer, gone, img, sample, ended>>

-----------------------------------------------------------------------------
(* Files.                                                                  *)

FileCall(outcome, from, to) ==
    /\ files' = outcome.files
    /\ last' = IF outcome.ok THEN Reply("ok", outcome.why, from, to)
               ELSE Result(FALSE, outcome.why)
    /\ UNCHANGED <<sqliteVars, family, writer, gone, img, sample, ended>>

FsQuery(op, a, p) ==
    FileCall(IF ~StringArg(a) THEN Fails("args", files) ELSE Probe(files, op, p), "none", "none")

FsUnlink(a, p, os) ==
    FileCall(IF ~StringArg(a) THEN Fails("args", files) ELSE Unlink(files, p, os), "none", "none")

FsRmdir(a, p, os) ==
    FileCall(IF ~StringArg(a) THEN Fails("args", files) ELSE Rmdir(files, p, os), "none", "none")

FsMkdir(a, p, os) ==
    FileCall(IF Is(a, 1, {"str"}) /\ Is(a, 2, {"int"}) THEN Mkdir(files, p, os)
                ELSE Fails("args", files), "none", "none")

FsCopyFile(a, p, q, os) ==
    FileCall(IF Is(a, 1, {"str"}) /\ Is(a, 2, {"str"}) THEN CopyFile(files, p, q, os)
                ELSE Fails("args", files), p, q)

\* copyTmpfile takes an upload index.
CopyTmpfile(a, n, q, os) ==
    LET p == UploadTmpname(n) IN
       FileCall(IF Is(a, 1, {"int"}) /\ p # "none" /\ Is(a, 2, CoerceString)
                THEN CopyFile(files, p, q, os) ELSE Fails("args", files), p, q)

FsMoveFile(a, p, n, q, os) ==
    LET from == FileArg(a, p, n) IN
       FileCall(IF from # "none" /\ Is(a, 2, {"str"}) THEN MoveFile(files, from, q, os)
                ELSE Fails("args", files), "none", "none")

\* file_mimetype, file_mimeconsistency and filename_hash ask the engine.
EngineAnswers(code) == Outcome(code = 0, "engine", files)
EngineQuery(a, p, n, code) ==
    FileCall(IF FileArg(a, p, n) = "none" THEN Fails("args", files) ELSE EngineAnswers(code),
             "none", "none")

-----------------------------------------------------------------------------
(* The response.                                                           *)

ResponseCall(w, reply) ==
    /\ writer' = w
    /\ last' = reply
    /\ UNCHANGED <<sqliteVars, family, files, gone, img, sample, ended>>

\* Values that do not render are skipped; the first failed write ends it.
ServerPrint(a) ==
    /\ writer.body + Len(a) <= MaxWrites
    /\ LET rendered == Cardinality({i \in 1..Len(a) : a[i] \in CoerceString}) IN
       IF gone /\ rendered > 0 THEN ResponseCall(Write(writer, FALSE), Result(FALSE, "gone"))
       ELSE ResponseCall(Writes(writer, rendered), Result(TRUE, "done"))

SetBuffer(a) ==
    ResponseCall(writer, Result(\A i \in 1..2 : i <= Len(a) => a[i] = "int", "args"))

\* sendStatus clamps into 0..999 on its way to a u16.
SendStatus(status) ==
    ResponseCall(SetStatus(writer, IF status < 0 THEN 0 ELSE IF status > 999 THEN 999 ELSE status),
                    Result(TRUE, "done"))

SendHeader(a) ==
    /\ Len(writer.headers) < MaxHead
    /\ IF Len(a) = 2 /\ \A i \in 1..2 : a[i] \in CoerceString
       THEN ResponseCall(AddHeader(writer, "header"), Result(TRUE, "done"))
       ELSE ResponseCall(writer, BadArgs)

\* Slip: the options are applied as they are read, false included.
CookieAssigned(options) ==
    IF "secure=false" \in options THEN "plain" ELSE "secure"

\* A boolean option only turns its flag on.
Cookie(options) ==
    IF "http_only=true" \in options THEN "secure httponly" ELSE "secure"

\* The statuses sent: one in range and one on either side.
Statuses == {-1, 404, 1000}

CookieOptions == {"secure=false", "http_only=true", "path", "bad"}

\* The cookie is added once every option has been accepted.
SendCookie(a, options) ==
    /\ Len(writer.cookies) < MaxHead
    /\ IF /\ Len(a) \in 2..3 /\ Is(a, 1, CoerceString) /\ Is(a, 2, CoerceString)
          /\ Len(a) = 3 => a[3] = "table" /\ "bad" \notin options
       THEN ResponseCall(AddCookie(writer, IF Len(a) = 3 THEN Cookie(options) ELSE Cookie({})),
                         Result(TRUE, "done"))
       ELSE ResponseCall(writer, BadArgs)

ClientLeaves ==
    /\ family \in {"response", "image"} /\ ~ended /\ ~gone
    /\ gone' = TRUE
    /\ UNCHANGED <<sqliteVars, family, files, writer, img, sample, last, ended>>

-----------------------------------------------------------------------------
(* Images: the engine answers or fails.                                    *)

ImageCall(i, image, fs, w, reply) ==
    /\ img' = [img EXCEPT ![i] = image]
    /\ files' = fs /\ writer' = w /\ last' = reply
    /\ UNCHANGED <<sqliteVars, family, gone, sample, ended>>

ImageFails(i, why) == ImageCall(i, img[i], files, writer, Result(FALSE, why))
ImageRaises(i)     == ImageCall(i, img[i], files, writer, Raised)

\* The handle exists only when the engine read the file; the options are
\* checked before it is asked.
ImageNew(i, a, p, n, optionsOk, engineOk) ==
    /\ img[i].native = "none"
    /\ LET path == FileArg(a, p, n) IN
       IF path = "none" \/ (Len(a) >= 2 /\ ~(a[2] = "table" /\ optionsOk))
       THEN ImageFails(i, "args")
       ELSE IF engineOk /\ IsFile(files[path])
       THEN ImageCall(i, NewImage, files, writer, Result(TRUE, "done"))
       ELSE ImageFails(i, "engine")

\* The codes of the engine: 0 is success; reading EXIF tells three failures
\* apart, and an answer without a value is an internal error.
Codes == 0..3
StatusToResult(code) == Result(code = 0, "engine")
ExifOutcome(code, emitted) == Result(code = 0 /\ emitted, "engine")

\* dims, exif, gps and mimetype_consistency report what the engine answers.
ImageQuery(i, argsOk, code, emitted) ==
    /\ img[i].held
    /\ ImageCall(i, img[i], files, writer, IF argsOk THEN ExifOutcome(code, emitted) ELSE BadArgs)

\* crop, scale, rotate and watermark report the engine's status; topleft
\* reports success whatever it was.
ImageChange(i, op, argsOk, code) ==
    /\ img[i].held
    /\ ImageCall(i, img[i], files, writer,
                 IF ~argsOk THEN BadArgs
                 ELSE IF op = "topleft" THEN Result(TRUE, "engine") ELSE StatusToResult(code))

WriteParams == {"param", "nonstring", "badvalue", "service", "origname", "mimetype"}

\* validate_write_params: the pairs come in any order and the first bad one
\* decides between an answer and a raised error.
ParamsOutcome(params) ==
    IF params \cap {"nonstring", "badvalue"} = {} THEN {"ok"}
    ELSE (IF "nonstring" \in params THEN {"fail"} ELSE {}) \cup
         (IF "badvalue" \in params THEN {"raise"} ELSE {})

MapExtension(ext, allowJp2) ==
    CASE ext \in {"tif", "jpg", "png"} -> ext
      [] ext = "jpx" \/ (ext = "jp2" /\ allowJp2) -> "jpx"
      [] OTHER -> "none"

\* The two carriers of service files.
Carries(ftype) == ftype \in {"jpx", "tif"}

\* The engine wrote the file, or failed with or without having begun it.
WriteFile(i, dest, service, wrote, engineOk) ==
    IF engineOk /\ files[dest] # "dir"
    THEN ImageCall(i, img[i], [files EXCEPT ![dest] = IF service THEN "service" ELSE "image"],
                   writer, Result(TRUE, "done"))
    ELSE ImageCall(i, img[i], [files EXCEPT ![dest] = IF wrote /\ @ # "dir" THEN "part" ELSE @],
                   writer, Result(FALSE, "engine"))

\* The engine streams into the response; a write that fails ends the encoder
\* with an error, and it may fail by itself before or after a write.
Stream(i, wrote, engineOk) ==
    LET w == IF wrote THEN Write(writer, ~gone) ELSE writer IN
    /\ engineOk => wrote /\ ~gone
    /\ ImageCall(i, img[i], files, w, Result(engineOk, "engine"))

\* SipiImage.write to a file or, for the basename "http", to the client.
ImageWrite(i, dest, params, wrote, engineOk) ==
    /\ img[i].held /\ writer.body < MaxWrites
    /\ LET path    == dest # "http"
           ftype   == MapExtension(IF path THEN Ext[dest] ELSE "jpg", TRUE)
           bare    == ~({"origname", "mimetype"} \subseteq params /\ Carries(ftype))
           refused == ftype = "none" \/ ("service" \in params /\ bare) IN
       \E outcome \in ParamsOutcome(params) :
          IF outcome = "fail" THEN ImageFails(i, "args")
          ELSE IF outcome = "raise" \/ refused THEN ImageRaises(i)
          ELSE IF path THEN WriteFile(i, dest, "service" \in params, wrote, engineOk)
          ELSE Stream(i, wrote, engineOk)

ImageSend(i, ext, wrote, engineOk) ==
    /\ img[i].held /\ writer.body < MaxWrites
    /\ IF MapExtension(ext, FALSE) = "none" THEN ImageRaises(i)
       ELSE Stream(i, wrote, engineOk)

\* Drop frees the engine handle.
DropImage(i) ==
    /\ img[i].held
    /\ img' = [img EXCEPT ![i] = [held |-> FALSE, native |-> "freed", frees |-> @.frees + 1]]
    /\ UNCHANGED <<sqliteVars, family, files, writer, gone, sample, last>>

-----------------------------------------------------------------------------
(* Sqlite, http and the conversions.                                       *)

Database ==
    /\ family = "sqlite" /\ ~ended
    /\ \/ \E ok \in BOOLEAN : SqliteNew(ok)
       \/ \E s \in Stmts, wait \in 0..Timeout :
            \/ \E native \in {"live", "null", "error"} : DbQuery(s, native, wait)
            \/ \E binds \in {"none", "good", "bad"}, outcome \in {"row", "done", "error", "raised"} :
                  StmtNext(s, binds, wait, outcome)
       \/ DbBnot
       \/ \E s \in Stmts : StmtBnot(s)
    /\ UNCHANGED <<family, files, writer, gone, img, sample, last, ended>>

\* The timeout of the whole request is cut to what is left of the deadline.
HttpBudget(asked) == IF asked < Budget THEN asked ELSE Budget

\* Only GET; the response comes, or does not, within the timeout; a body over
\* the cap is an error.
HttpClient(a, get, asked, took, answered, withinCap) ==
    /\ LET sent == Len(a) >= 2 /\ get
           timeout == HttpBudget(IF \E i \in 3..Len(a) : a[i] = "int"
                                 THEN (IF asked < 0 THEN 0 ELSE asked) ELSE HttpDefault) IN
       /\ took <= (IF sent THEN timeout ELSE 0)
       /\ now' = now + took
       /\ last' = IF ~sent THEN BadArgs ELSE Result(answered /\ withinCap, "http")
    /\ UNCHANGED <<db, stmt, family, files, writer, gone, img, sample, ended>>

Answer(ok) ==
    /\ last' = Result(ok, "value")
    /\ UNCHANGED <<sqliteVars, family, files, writer, gone, img, sample, ended>>

\* server.log: a message that coerces, and an integer level.
Log(a) == Answer(StringArg(a) /\ (Len(a) >= 2 => a[2] = "int"))

\* Conversions answer and touch nothing.
ValueSteps == Calls("values") /\
    \/ Answer(Failure \notin TableToJson(sample))
    \/ \E t \in Tokens : Answer(DecodeJwt(t))
    \/ \E h \in AuthHeaders : Answer(RequireAuth(h) # "ERROR")
    \/ \E m \in Mimes : Answer(SplitMimetype(m))
    \/ \E a \in Args : Log(a)

-----------------------------------------------------------------------------
(* Time, the collector and the end of the VM.                              *)

\* Only the calls that wait tell the moments before the deadline apart.
Tick ==
    /\ ~ended /\ now < Timeout
    /\ now' = IF family \in {"sqlite", "http"} THEN now + 1 ELSE Timeout
    /\ UNCHANGED <<db, stmt, family, files, writer, gone, img, sample, last, ended>>

Collect ==
    \/ \E i \in Images : DropImage(i) /\ UNCHANGED ended
    \/ (DropDb \/ \E s \in Stmts : DropStmt(s)) /\ UNCHANGED <<family, files, writer, gone, img,
                                                              sample, last, ended>>

\* The state is closed once everything in it has been dropped, then the
\* request removes its uploads.
EndVm ==
    /\ ~ended /\ Gone /\ \A i \in Images : ~img[i].held
    /\ ended' = TRUE
    /\ files' = DropUploads(files)
    /\ last' = NoReply
    /\ UNCHANGED <<sqliteVars, family, writer, gone, img, sample>>

Done == ended /\ UNCHANGED vars

-----------------------------------------------------------------------------
FileSteps == Calls("files") /\
    \E a \in Args, p \in Paths :
       \/ \E op \in {"ftype", "modtime", "readdir", "exists"} : FsQuery(op, a, p)
       \/ \E os \in Refusals : \/ FsUnlink(a, p, os) \/ FsRmdir(a, p, os) \/ FsMkdir(a, p, os)
                               \/ \E n \in 0..2, q \in Paths : FsMoveFile(a, p, n, q, os)
       \/ \E q \in Paths, os \in CopyRefusals :
            FsCopyFile(a, p, q, os) \/ \E n \in 0..2 : CopyTmpfile(a, n, q, os)
       \/ \E n \in 0..2, code \in {0, 1} : EngineQuery(a, p, n, code)

ResponseSteps == Calls("response") /\
    \E a \in Args :
       \/ ServerPrint(a) \/ SetBuffer(a) \/ SendHeader(a)
       \/ \E options \in SUBSET CookieOptions : SendCookie(a, options)
       \/ \E status \in Statuses : SendStatus(status)

ImageSteps == Calls("image") /\
    \E i \in Images, engineOk \in BOOLEAN :
       \/ \E a \in Args, p \in Paths, n \in 0..2, ok \in BOOLEAN : ImageNew(i, a, p, n, ok, engineOk)
       \/ \E code \in Codes, ok \in BOOLEAN :
            \/ ImageQuery(i, ok, code, engineOk)
            \/ \E op \in {"crop", "topleft"} : ImageChange(i, op, ok, code)
       \/ \E wrote \in BOOLEAN :
            \/ \E dest \in Paths \cup {"http"}, params \in SUBSET WriteParams :
                  ImageWrite(i, dest, params, wrote, engineOk)
            \/ \E ext \in {"tif", "jp2", "none"} : ImageSend(i, ext, wrote, engineOk)

HttpSteps == Calls("http") /\
    \E a \in Args, get, answered, withinCap \in BOOLEAN, asked \in HttpTimeouts, took \in 0..Timeout :
       HttpClient(a, get, asked, took, answered, withinCap)

Next ==
    \/ FileSteps \/ ResponseSteps \/ ImageSteps \/ Database \/ HttpSteps
    \/ ValueSteps \/ ClientLeaves
    \/ Chokepoint \/ Tick \/ Collect \/ EndVm \/ Done

Spec == Init /\ [][Next]_vars

-----------------------------------------------------------------------------
TypeOK ==
    /\ files \in [Paths -> FileStates]
    /\ img \in [Images -> [held : BOOLEAN, native : {"none", "live", "freed"}, frees : 0..1]]
    /\ stmt \in [Stmts -> [held : BOOLEAN, native : {"none", "live", "null"},
                           cursor : {"fresh", "row", "done", "error"}, frees : 0..1]]
    /\ db.native \in {"none", "open", "closed"}

\* HandlesReleasedOnce: whatever order the collector drops the userdata in,
\* and whatever the script closes itself, no userdata of the script points to
\* a closed connection or a freed image, a connection closes only after its
\* last statement was finalized, no handle is released twice, and none
\* outlives the VM.
HandlesReleasedOnce ==
    /\ TypeOK
    /\ db.held \/ (\E s \in Stmts : stmt[s].held) => db.native = "open"
    /\ \A s \in Stmts : stmt[s].native = "live" => stmt[s].frees = 0 /\ db.native = "open"
    /\ \A i \in Images : img[i].held = (img[i].native = "live")
    /\ ended => db.native # "open" /\ \A s \in Stmts : stmt[s].native # "live"

\* WaitsEndInTime: no call of the script ends after the deadline, except one
\* that waits for a database lock: its busy timeout was fixed when the
\* connection was opened, so it may end as much later as the connection is
\* older than the call, never a whole deadline later.
WaitsEndInTime ==
    \/ now <= Timeout
    \/ db.native # "none" /\ now + db.opened < 2 * Timeout

\* What a step may make of the files, and of the response.
FilesStep ==
    /\ last'.ok \in {"fail", "raised"} /\ last'.why \notin {"data", "engine"} => files' = files
    /\ last'.to # "none" =>
          files'[last'.to] = IF last'.from = last'.to THEN "" ELSE files[last'.from]
    /\ \A p \in Paths : files'[p] = "service" => Carries(MapExtension(Ext[p], TRUE))
    /\ ended' => \A p \in Paths : IF \E i \in 1..Len(Uploads) : Uploads[i] = p
                                   THEN ~IsFile(files'[p]) ELSE files'[p] = files[p]

ResponseStep ==
    /\ Len(writer'.heads) <= 1
    /\ writer.heads # <<>> => writer'.heads = writer.heads
    /\ (writer'.body > 0 \/ writer'.committed) => writer'.heads # <<>>
    /\ last'.ok # "ok" /\ last'.why = "args" => writer' = writer
    /\ \A i \in 1..Len(writer'.cookies) : writer'.cookies[i] # "plain"

\* FilesAsReported: a call that reports failure or raises leaves every file as
\* it was, unless data was already being copied or encoded; a copy that
\* reports success has copied, a file onto itself excepted; Essentials are
\* only ever in a file whose format carries them; and the end of the request
\* removes its spooled uploads and nothing a script moved or copied elsewhere.
FilesAsReported == [][FilesStep]_vars

\* ResponseAsReported: the head goes out once and stays what it was, whether
\* the script prints or the engine streams; a call refused for its arguments
\* leaves the response alone; every cookie keeps its Secure flag.
ResponseAsReported == [][ResponseStep]_vars

\* Two Lua values a round trip through JSON may not tell apart: arrays are
\* renumbered in any order.
Same[v \in Values, w \in {JsonToLua[j] : j \in JsonValues}] ==
    IF v.t # "table" \/ w.t # "table" THEN v.t = w.t \/ {v.t, w.t} = {"int", "whole"}
    ELSE LET K == DOMAIN v.fields
             L == DOMAIN w.fields
             maps == IF K = Keys(v, "s") THEN {f \in {[k \in K |-> k]} : K = L} ELSE Bijection(K, L) IN
         \E f \in maps : \A k \in K : Same[v.fields[k], w.fields[f[k]]]

Strings == UNION {[1..n -> 0..Base] : n \in 0..(MaxDigits + 1)}
Number(s) == FoldFunction(+, 0, [i \in 1..Len(s) |-> s[i] * Base ^ (Len(s) - i)])

\* ConversionsFaithful: a table that converts to JSON comes back with the
\* same content, whatever order pairs() yields, and one that does not is
\* refused rather than cut; a UUID survives base 62, a base-62 string that
\* does not denote a word is refused; and a token the script generated is
\* accepted exactly while it has an expiry ahead.
ConversionsFaithful ==
    family = "values" =>
        /\ \A j \in TableToJson(sample) \ {Failure} :
              j.t = "nil" \/ Same[sample, JsonToTable(j)]
        /\ \A u \in (0..(Word - 1)) \X (0..(Word - 1)) : FromBase62(Base62(u)) = u[1] * Word + u[2]
        /\ \A s \in Strings : LET v == Number(s) IN
              Decode(s) = IF /\ Len(s) \in 1..MaxDigits /\ v < Word
                             /\ \A i \in 1..Len(s) : s[i] < Base THEN v ELSE None
        /\ \A exp \in {"none", "past", "future"} : DecodeJwt(GenerateJwt(exp)) = (exp = "future")
=============================================================================
