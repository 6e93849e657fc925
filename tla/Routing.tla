------------------------------ MODULE Routing ------------------------------
(***************************************************************************)
(* The request edge of the shell (server-rs/src/routes.rs): what happens   *)
(* to a request between the HTTP router and the engine, the Lua runtime or *)
(* the file server, and what is answered.                                  *)
(*                                                                         *)
(* An async handler checks the request, spools its uploads and queues for  *)
(* a permit; a blocking task that owns the permit (and the upload temp     *)
(* files) decides access, resolves the path and serves.  The client may    *)
(* leave at any point: the handler's future is then dropped, a task goes   *)
(* on.  Files may change between any two steps.                            *)
(*                                                                         *)
(* The admission queue (Admission), the preflight cache (PreflightCache),  *)
(* the body channel (BodyStream) and a Lua call (LuaCall) have modules of  *)
(* their own; here they appear by what they may answer.                    *)
(***************************************************************************)
EXTENDS IiifRequest, FiniteSets, TLC

CONSTANTS Requests, Threads,
          Scenes,       \* the startup states: a configuration, the requests to come, the files
          Replies,      \* what a hook may return
          DiskChanges, MaxChanges

None == "none"

(* What startup and the clients hand in.  A bound of a range that is left out
   is -1; no file is longer than the byte offsets reach. *)
Configuration ==
    [ready : BOOLEAN, prefixAsPath : BOOLEAN, preflight : BOOLEAN, filePreflight : BOOLEAN, cache : BOOLEAN,
     lua : BOOLEAN, maxPost : Nat, docroot : BOOLEAN]
Request ==
    [route : {"iiif", "lua", "www", None}, method : STRING, url : Seq(Segment), cred : STRING, origin : STRING,
     range : [form : {"none", "bad", "bytes"}, start : Nat \cup {-1}, end : Nat \cup {-1}],
     suffix : [stripped : BOOLEAN, control : BOOLEAN, traversal : BOOLEAN, empty : BOOLEAN, ext : STRING, path : Seq(STRING)],
     multipart : BOOLEAN, parts : Seq(STRING), size : Nat, sampled : BOOLEAN]
FileEntry ==
    [at : {"inside", "outside", "missing"}, regular : BOOLEAN, mime : STRING, size : 0 .. (Word - 1),
     dims : [w : Nat, h : Nat, tw : Nat, th : Nat, pages : Nat],
     readable : BOOLEAN, essentials : BOOLEAN, sidecar : BOOLEAN]
ASSUME RoutingAssumption ==
    /\ None \notin Requests \cup Threads
    /\ \A s \in Scenes :
          /\ s.config \in Configuration
          /\ s.requests \in [Requests -> Request]
          /\ s.disk \in [DOMAIN s.disk -> FileEntry] /\ <<"missing">> \in DOMAIN s.disk
    /\ \A c \in DiskChanges : c.entry \in FileEntry

VARIABLES config,  \* the AppState: read at startup, never changes
          req,     \* the requests: they never change
          rq,      \* what is known of each request so far
          trace,   \* the trace context each blocking thread's engine logs carry
          cached,  \* the live entries of the preflight cache: [key, decision]
          granted, \* every decision a hook ever returned, and what it was asked
          disk,    \* the files: path -> entry
          changes  \* how often the files have changed
vars == <<config, req, rq, trace, cached, granted, disk, changes>>

NoSpan == [ok |-> FALSE, start |-> 0, end |-> 0]
NoAnswer == [status |-> 0, body |-> None, span |-> NoSpan, length |-> 0, sent |-> 0, of |-> 0,
             size |-> None, watermark |-> None, acao |-> None, credentials |-> FALSE, keys |-> {}, sizes |-> <<>>]
ErrorResponse(status) == [NoAnswer EXCEPT !.status = status]
NoAccess == [infile |-> <<>>, permission |-> None, size |-> None, watermark |-> None, urls |-> {}]
Fresh == [pc |-> "sent", parsed |-> Malformed, access |-> NoAccess, file |-> <<>>, answer |-> NoAnswer,
          temps |-> {}, part |-> 0, on |-> None, gone |-> FALSE, disagree |-> FALSE, seen |-> 0]

(* AppState::load: without an image root the server starts, but answers no
   IIIF request, and mounts no route and no docroot. *)
Load(c) ==
    IF c.ready THEN c
    ELSE [c EXCEPT !.prefixAsPath = TRUE, !.preflight = FALSE, !.filePreflight = FALSE, !.lua = FALSE,
                   !.maxPost = 0, !.docroot = FALSE]
Init ==
    /\ \E s \in Scenes : config = Load(s.config) /\ req = s.requests /\ disk = s.disk
    /\ rq = [r \in Requests |-> IF req[r].route = None THEN [Fresh EXCEPT !.pc = "done"] ELSE Fresh]
    /\ trace = [t \in Threads |-> None]
    /\ cached = {} /\ granted = {}
    /\ changes = 0

----------------------------------------------------------------------------
(* Steps of one request: what it learns, how it ends. *)

At(r, pc) == rq[r].pc = pc
Becomes(r, new) == rq' = [rq EXCEPT ![r] = new]
Goes(r, pc) == Becomes(r, [rq[r] EXCEPT !.pc = pc])

(* The handler or its task returns: the answer is delivered unless the client
   left, the temp files are dropped, the thread and with it the permit are
   free, and the guard of the trace context clears it. *)
Ended(r, answer) ==
    [rq[r] EXCEPT !.pc = "done", !.on = None, !.temps = {},
                  !.answer = IF rq[r].gone THEN NoAnswer ELSE answer]
ClearTraceNever(r) == UNCHANGED trace
ClearTrace(r) ==
    trace' = IF rq[r].on # None /\ req[r].sampled THEN [trace EXCEPT ![rq[r].on] = None] ELSE trace
Finish(r, answer) == Becomes(r, Ended(r, answer)) /\ ClearTrace(r)

(* CORS headers echo the Origin of the request. *)
Echo(r, answer) ==
    [answer EXCEPT !.acao = req[r].origin, !.credentials = (req[r].origin # None)]
CorsPreflight(r) == Echo(r, ErrorResponse(204))

----------------------------------------------------------------------------
(* The IIIF handler. *)

IiifRefusal(c, p) ==
    CASE ~c.ready -> 503
      [] c.ready /\ ~p.ok -> 400
      [] c.ready /\ p.ok /\ (HasNul(p.identifier) \/ \E i \in DOMAIN p.prefix : HasNul(p.prefix[i])) -> 400
      [] c.ready /\ p.ok /\ (\/ ContainsTraversal(p.identifier)
                             \/ c.prefixAsPath /\ \E i \in DOMAIN p.prefix : ContainsTraversal(p.prefix[i])) -> 400
      [] OTHER -> 0

(* A Location that is no legal header value is answered 400. *)
Redirect(p) ==
    LET Legal(s) == s.form # "control"
    IN  ErrorResponse(IF Legal(p.identifier) /\ \A i \in DOMAIN p.prefix : Legal(p.prefix[i]) THEN 303 ELSE 400)

Iiif(r) ==
    LET p == ParseRequest(req[r].url)
        refusal == IiifRefusal(config, p)
    IN  /\ At(r, "sent") /\ req[r].route = "iiif"
        /\ IF req[r].method = "OPTIONS" THEN Finish(r, CorsPreflight(r))
           ELSE IF refusal # 0 THEN Finish(r, ErrorResponse(refusal))
           ELSE IF p.kind = "Redirect" THEN Finish(r, Redirect(p))
           ELSE Becomes(r, [rq[r] EXCEPT !.pc = "queued", !.parsed = p]) /\ UNCHANGED trace
        /\ UNCHANGED <<config, req, cached, granted, disk, changes>>

(* The two-lane pool admits the request, which then runs on a blocking thread
   of its own, or sheds it. *)
Admit(r) ==
    /\ At(r, "queued")
    /\ \E t \in Threads :
        /\ \A o \in Requests : rq[o].on # t
        /\ IF req[r].route # "iiif" /\ ~config.lua THEN Finish(r, ErrorResponse(500))
           ELSE /\ Becomes(r, [rq[r] EXCEPT !.on = t, !.pc = IF req[r].route = "iiif" THEN "access" ELSE "script"])
                /\ trace' = IF req[r].sampled THEN [trace EXCEPT ![t] = r] ELSE trace
    /\ UNCHANGED <<config, req, cached, granted, disk, changes>>
Shed(r) ==
    /\ At(r, "queued")
    /\ Finish(r, ErrorResponse(503))
    /\ UNCHANGED <<config, req, cached, granted, disk, changes>>

----------------------------------------------------------------------------
(* Access: the preflight hooks and the cache of their decisions. *)

PermissionFromStr(s) ==
    IF s \in {"allow", "login", "clickthrough", "kiosk", "external", "restrict"} THEN s ELSE "deny"
Open(permission) == permission \in {"allow", "restrict"}
IsAuthType(permission) == permission \in {"login", "clickthrough", "kiosk", "external"}

(* access_from: the outcome of a hook as the path and permission it grants. *)
AccessFrom(reply) ==
    [infile |-> reply.infile, permission |-> PermissionFromStr(reply.permission),
     size |-> reply.size, watermark |-> reply.watermark, urls |-> reply.urls]
DefaultAccess(p) ==
    [NoAccess EXCEPT !.infile = BuildRequestPath(p.prefix, p.identifier, config.prefixAsPath),
                     !.permission = "allow"]
KeyWithoutCredentials(r) == [prefix |-> rq[r].parsed.prefix, identifier |-> rq[r].parsed.identifier, cred |-> None]
Key(r) == [prefix |-> rq[r].parsed.prefix, identifier |-> rq[r].parsed.identifier, cred |-> req[r].cred]
Asked(r) == [prefix |-> rq[r].parsed.prefix, identifier |-> rq[r].parsed.identifier, cred |-> req[r].cred,
             file |-> rq[r].parsed.kind = "FileDownload"]
IsFile(r) == rq[r].parsed.kind = "FileDownload"
Hooked(r) == IF IsFile(r) THEN config.filePreflight ELSE config.preflight

(* An image is refused here unless its permission is open; info.json and
   knora.json go on with whatever the hook said. *)
Grant(r, access) ==
    IF rq[r].parsed.kind \in {"Iiif", "FileDownload"} /\ ~Open(access.permission)
    THEN Finish(r, ErrorResponse(401))
    ELSE Becomes(r, [rq[r] EXCEPT !.pc = "resolve", !.access = access]) /\ UNCHANGED trace

DefaultGrant(r) ==
    /\ At(r, "access") /\ ~Hooked(r)
    /\ Grant(r, DefaultAccess(rq[r].parsed))
    /\ UNCHANGED <<config, req, cached, granted, disk, changes>>

CacheHit(r) ==
    /\ At(r, "access") /\ Hooked(r) /\ ~IsFile(r)
    /\ \E entry \in cached : entry.key = Key(r) /\ Grant(r, entry.access)
    /\ UNCHANGED <<config, req, cached, granted, disk, changes>>

(* Nothing to find: the hook is run.  A second request with the same key may
   miss as well before the first one's decision is stored. *)
CacheMiss(r) ==
    /\ At(r, "access") /\ Hooked(r)
    /\ IsFile(r) \/ \A entry \in cached : entry.key # Key(r)
    /\ Goes(r, "hook")
    /\ UNCHANGED <<config, req, trace, cached, granted, disk, changes>>

(* The hook decides, answers the request itself, or fails; only a decision of
   the image hook is cached. *)
RunHook(r) ==
    /\ At(r, "hook")
    /\ \E reply \in Replies :
        LET access == AccessFrom(reply)
        IN  CASE ~config.lua \/ reply.type = "error" ->
                    Finish(r, ErrorResponse(500)) /\ UNCHANGED <<cached, granted>>
              [] config.lua /\ reply.type = "direct" ->
                    Finish(r, ErrorResponse(302)) /\ UNCHANGED <<cached, granted>>
              [] OTHER ->
                    /\ Grant(r, access)
                    /\ granted' = granted \cup {[asked |-> Asked(r), access |-> access]}
                    /\ cached' = IF config.cache /\ ~IsFile(r) THEN cached \cup {[key |-> Key(r), access |-> access]}
                                 ELSE cached
    /\ UNCHANGED <<config, req, disk, changes>>

(* An entry expires or is displaced (PreflightCache). *)
Forget ==
    /\ \E entry \in cached : cached' = cached \ {entry}
    /\ UNCHANGED <<config, req, rq, trace, granted, disk, changes>>

----------------------------------------------------------------------------
(* Paths: realpath of the granted path, then containment in the image root. *)

Entry(path) == IF path \in DOMAIN disk THEN disk[path] ELSE [disk[<<"missing">>] EXCEPT !.at = "missing"]
ValidateResolvedPath(path) ==
    CASE Entry(path).at = "missing" -> 404 [] Entry(path).at = "outside" -> 400 [] OTHER -> 0

Resolve(r) ==
    LET refusal == ValidateResolvedPath(rq[r].access.infile)
    IN  /\ At(r, "resolve")
        /\ IF refusal # 0 THEN Finish(r, ErrorResponse(refusal))
           ELSE /\ Becomes(r, [rq[r] EXCEPT !.pc = "serve", !.file = rq[r].access.infile])
                /\ UNCHANGED trace
        /\ UNCHANGED <<config, req, cached, granted, disk, changes>>

----------------------------------------------------------------------------
(* Serving. *)

(* The head is committed: the body follows in a step of its own.  Image and
   file answers carry the shell's CORS headers. *)
Commit(r, answer) ==
    /\ Becomes(r, [rq[r] EXCEPT !.pc = "stream", !.answer = answer, !.seen = changes])
    /\ UNCHANGED trace

(* serve_image: the engine gets the restrictions of the decision, and only
   of a restricting one.  It may fail, notice that the client left, answer
   without a body (HEAD), or stream. *)
ServeImage(r) ==
    LET access == rq[r].access
        limited == access.permission = "restrict"
        answer == [ErrorResponse(200) EXCEPT !.body = "image",
                      !.size = IF limited THEN access.size ELSE None,
                      !.watermark = IF limited THEN access.watermark ELSE None]
    IN  /\ At(r, "serve") /\ rq[r].parsed.kind = "Iiif"
        /\ \/ Finish(r, ErrorResponse(500))
           \/ /\ Entry(rq[r].file).at # "missing" /\ ~rq[r].gone
              /\ IF req[r].method = "HEAD" THEN Finish(r, [answer EXCEPT !.body = None])
                 ELSE Commit(r, Echo(r, answer))
        /\ UNCHANGED <<config, req, cached, granted, disk, changes>>

(* sipi_serve_file: the length is fixed from one stat; a range is checked and
   clamped against it. *)
FileAnswer(range, fsize) ==
    LET span == EngineRange(range, fsize)
        whole == [ErrorResponse(200) EXCEPT !.body = "file", !.length = fsize, !.of = fsize]
    IN  CASE range.form = "none" -> whole
          [] range.form # "none" /\ (range.form = "bad" \/ range.start = -1) -> ErrorResponse(400)
          [] range.form = "bytes" /\ range.start # -1 /\ ~span.ok -> ErrorResponse(500)
          [] OTHER -> [whole EXCEPT !.status = 206, !.span = span, !.length = SpanLength(span)]
ServeFile(r) ==
    LET entry == Entry(rq[r].file)
        answer == FileAnswer(req[r].range, entry.size)
    IN  /\ At(r, "serve") /\ IsFile(r)
        /\ IF entry.at = "missing" THEN Finish(r, ErrorResponse(404))
           ELSE IF answer.body = None THEN Finish(r, answer)
           ELSE IF answer.length = 0 THEN Finish(r, [answer EXCEPT !.body = None])
           ELSE Commit(r, Echo(r, answer))
        /\ UNCHANGED <<config, req, cached, granted, disk, changes>>

----------------------------------------------------------------------------
(* The two JSON documents. *)

(* What the engine says of a path: its type, and for an image its shape and
   the identity its embedded packet gives, both parts or neither. *)
Sniffed(entry) == entry.at # "missing" /\ entry.mime # "error"
IsImage(entry) == entry.mime = "image"
ShapeRead(entry) == entry.at # "missing" /\ entry.readable
Essentials(entry) == IF entry.essentials THEN {"originalMimeType", "originalFilename"} ELSE {}
(* Described: the type is known, and so is the shape or the size. *)
Described(entry) == Sniffed(entry) /\ (IsImage(entry) => ShapeRead(entry))
ImageInfoJson(dims) ==
    LET factors == PyramidScaleFactors(dims)
    IN  [keys |-> {"width", "height", "sizes"} \cup (IF dims.pages > 0 THEN {"numpages"} ELSE {})
                  \cup (IF dims.tw > 0 /\ dims.th > 0 THEN {"tiles"} ELSE {}),
         sizes |-> SizesFor(dims, factors)]
BitstreamInfoJson == [keys |-> {"internalMimeType", "fileSize"}, sizes |-> <<>>]

(* The service block needs both URLs of the decision. *)
AuthService(access) == {"cookieUrl", "tokenUrl"} \subseteq access.urls
InfoStatus(access) ==
    IF ~IsAuthType(access.permission) THEN 200 ELSE IF AuthService(access) THEN 401 ELSE 500

(* json_response: credentials are allowed only beside a concrete origin. *)
JsonResponse(status, doc, acao) ==
    [ErrorResponse(status) EXCEPT !.body = "json", !.keys = doc.keys, !.sizes = doc.sizes,
                                  !.acao = acao, !.credentials = (acao # "*")]
ServeInfoJson(entry, access) ==
    LET doc == IF IsImage(entry) THEN ImageInfoJson(entry.dims) ELSE BitstreamInfoJson
        status == InfoStatus(access)
        withService == [doc EXCEPT !.keys = @ \cup (IF status = 401 THEN {"service"} ELSE {})]
    IN  IF ~Described(entry) \/ status = 500 THEN ErrorResponse(500)
        ELSE JsonResponse(status, withService, "*")

(* The keys each kind of knora.json adds; a missing or unreadable sidecar is
   the empty one. *)
Sidecar(entry, keys) == IF entry.sidecar THEN keys ELSE {}
KnoraBase(entry) == {"id", "internalMimeType"} \cup Sidecar(entry, {"checksumOriginal", "checksumDerivative"})
ImageKnoraJson(entry) ==
    {"width", "height"} \cup Essentials(entry) \cup (IF entry.dims.pages > 0 THEN {"numpages"} ELSE {})
VideoKnoraJson(entry) ==
    {"fileSize"} \cup Sidecar(entry, {"originalFilename", "duration", "fps", "height", "width"})
GenericKnoraJson == {"fileSize", "originalFilename"}
KnoraKeys(entry) ==
    KnoraBase(entry) \cup (IF IsImage(entry) THEN ImageKnoraJson(entry)
                          ELSE IF entry.mime = "video" THEN VideoKnoraJson(entry) ELSE GenericKnoraJson)
ServeKnoraJson(entry, origin) ==
    IF ~Described(entry) THEN ErrorResponse(500)
    ELSE JsonResponse(200, [keys |-> KnoraKeys(entry), sizes |-> <<>>], IF origin = None THEN "*" ELSE origin)

ServeJson(r) ==
    LET entry == Entry(rq[r].file)
    IN  /\ At(r, "serve") /\ rq[r].parsed.kind \in {"InfoJson", "KnoraJson"}
        /\ Finish(r, IF rq[r].parsed.kind = "InfoJson" THEN ServeInfoJson(entry, rq[r].access)
                     ELSE ServeKnoraJson(entry, req[r].origin))
        /\ UNCHANGED <<config, req, cached, granted, disk, changes>>

----------------------------------------------------------------------------
(* Bodies.  A file region is read from the file as it is now; whatever is
   missing of the announced length is simply not sent.  After an image the
   shell compares its admission class with the engine's estimate. *)

Delivered(answer, entry) ==
    IF entry.at = "missing" THEN 0 ELSE Min({answer.length, Max({entry.size - answer.span.start, 0})})
Stream(r) ==
    LET answer == rq[r].answer
    IN  /\ At(r, "stream")
        /\ \E estimate \in (IF answer.body = "image" THEN {0, Threshold - 1, Threshold} ELSE {0}) :
             Becomes(r, [Ended(r, [answer EXCEPT !.sent = Delivered(answer, Entry(rq[r].file))])
                            EXCEPT !.disagree = Disagrees(rq[r].parsed, estimate)])
        /\ ClearTrace(r)
        /\ UNCHANGED <<config, req, cached, granted, disk, changes>>

----------------------------------------------------------------------------
(* Lua routes: uploads are spooled to temp files before a permit is asked for. *)

HasRequestBody(method) == method \in {"POST", "PUT", "PATCH", "DELETE"}
TooLarge(r) == config.maxPost > 0 /\ req[r].size > config.maxPost
Parts(r) == req[r].parts

LuaRoute(r) ==
    /\ At(r, "sent") /\ req[r].route = "lua"
    /\ Goes(r, "spool")
    /\ UNCHANGED <<config, req, trace, cached, granted, disk, changes>>

(* One part of a multipart body: a field without a file name is a form value,
   any other is written to a temp file of its own. *)
SpoolPart(r) ==
    LET i == rq[r].part + 1
    IN  /\ At(r, "spool") /\ req[r].multipart /\ i \in DOMAIN Parts(r)
        /\ \/ /\ ~TooLarge(r) \/ i < Len(Parts(r))
              /\ Becomes(r, [rq[r] EXCEPT !.part = i,
                                !.temps = IF Parts(r)[i] = "file" THEN @ \cup {i} ELSE @])
              /\ UNCHANGED trace
           \/ Parts(r)[i] = "file" /\ Finish(r, ErrorResponse(500))
           \/ TooLarge(r) /\ Finish(r, ErrorResponse(413))
           \/ Finish(r, ErrorResponse(400))
        /\ UNCHANGED <<config, req, cached, granted, disk, changes>>

(* The body is complete (or there is none to read): queue for a permit. *)
BodyRead(r) ==
    /\ At(r, "spool")
    /\ req[r].multipart => rq[r].part = Len(Parts(r))
    /\ IF ~req[r].multipart /\ HasRequestBody(req[r].method) /\ TooLarge(r)
       THEN Finish(r, ErrorResponse(413))
       ELSE Goes(r, "queued") /\ UNCHANGED trace
    /\ UNCHANGED <<config, req, cached, granted, disk, changes>>

(* The script runs with its temp files in place and ends in any of the ways
   LuaCall describes; the task drops the files when it returns. *)
RunScript(r) ==
    /\ At(r, "script")
    /\ \E status \in {200, 404, 500} : Finish(r, [ErrorResponse(status) EXCEPT !.body = "script"])
    /\ UNCHANGED <<config, req, cached, granted, disk, changes>>

----------------------------------------------------------------------------
(* The docroot file server. *)

DocrootRefusal(suffix) ==
    CASE ~suffix.stripped -> 404
      [] suffix.stripped /\ suffix.control -> 400
      [] suffix.stripped /\ ~suffix.control /\ suffix.traversal -> 400
      [] suffix.stripped /\ ~suffix.control /\ ~suffix.traversal /\ suffix.empty -> 404
      [] OTHER -> 0
IsScript(suffix) == suffix.ext \in {"lua", "elua"}

Docroot(r) ==
    LET refusal == DocrootRefusal(req[r].suffix)
    IN  /\ At(r, "sent") /\ req[r].route = "www"
        /\ IF req[r].method = "OPTIONS" THEN Finish(r, CorsPreflight(r))
           ELSE IF refusal # 0 THEN Finish(r, ErrorResponse(refusal))
           ELSE Goes(r, "docfile") /\ UNCHANGED trace
        /\ UNCHANGED <<config, req, cached, granted, disk, changes>>

(* resolve_docroot_file, on a blocking thread without a permit. *)
ResolveDocrootFile(path) ==
    IF ~config.docroot THEN 404
    ELSE IF ValidateResolvedPath(path) # 0 THEN ValidateResolvedPath(path)
    ELSE IF ~Entry(path).regular THEN 404 ELSE 0
ResolveDoc(r) ==
    LET path == req[r].suffix.path
        refusal == ResolveDocrootFile(path)
    IN  /\ At(r, "docfile")
        /\ IF refusal # 0 THEN Finish(r, ErrorResponse(refusal))
           ELSE /\ Becomes(r, [rq[r] EXCEPT !.file = path,
                                  !.pc = IF IsScript(req[r].suffix) THEN "spool" ELSE "static"])
                /\ UNCHANGED trace
        /\ UNCHANGED <<config, req, cached, granted, disk, changes>>

(* Stylesheets, scripts and sniffed HTML go out whole, other files honour a
   Range; a HEAD gets the same head and no body. *)
StaticAnswer(entry, ext, range) ==
    LET special == ext \in {"js", "css"} \/ (ext = "html" /\ entry.mime = "html")
        span == ParseByteRange(range, entry.size)
        whole == [ErrorResponse(200) EXCEPT !.body = "static", !.length = entry.size, !.of = entry.size]
    IN  CASE entry.at = "missing" -> ErrorResponse(404)
          [] entry.at # "missing" /\ entry.mime = "error" /\ ext \notin {"js", "css"} -> ErrorResponse(500)
          [] entry.at # "missing" /\ (special \/ (entry.mime # "error" /\ range.form = "none")) -> whole
          [] OTHER -> IF ~span.ok THEN ErrorResponse(500)
                      ELSE [whole EXCEPT !.status = 206, !.span = span, !.length = SpanLength(span)]
ServeStatic(r) ==
    LET answer == StaticAnswer(Entry(rq[r].file), req[r].suffix.ext, req[r].range)
        withCors == [answer EXCEPT !.acao = req[r].origin]
    IN  /\ At(r, "static")
        /\ IF answer.body = None THEN Finish(r, answer)
           ELSE IF req[r].method = "HEAD" THEN Finish(r, [withCors EXCEPT !.body = None])
           ELSE Commit(r, withCors)
        /\ UNCHANGED <<config, req, cached, granted, disk, changes>>

----------------------------------------------------------------------------
(* The environment. *)

(* The client leaves.  A handler that still waits is dropped with all it owns;
   a task on its thread only finds nobody to answer to. *)
Leave(r) ==
    /\ rq[r].pc # "done" /\ ~rq[r].gone
    /\ IF rq[r].on = None THEN Becomes(r, [Ended(r, NoAnswer) EXCEPT !.gone = TRUE])
       ELSE Becomes(r, [rq[r] EXCEPT !.gone = TRUE])
    /\ UNCHANGED <<config, req, trace, cached, granted, disk, changes>>

ChangeDisk ==
    /\ changes < MaxChanges
    /\ \E c \in DiskChanges : disk' = [disk EXCEPT ![c.path] = c.entry] /\ disk' # disk
    /\ changes' = changes + 1
    /\ UNCHANGED <<config, req, rq, trace, cached, granted>>

Next ==
    \/ \E r \in Requests :
        \/ Iiif(r) \/ Admit(r) \/ Shed(r) \/ DefaultGrant(r) \/ CacheHit(r) \/ CacheMiss(r)
        \/ RunHook(r) \/ Resolve(r)
        \/ ServeImage(r) \/ ServeFile(r) \/ ServeJson(r) \/ Stream(r)
        \/ LuaRoute(r) \/ SpoolPart(r) \/ BodyRead(r) \/ RunScript(r)
        \/ Docroot(r) \/ ResolveDoc(r) \/ ServeStatic(r) \/ Leave(r)
    \/ Forget \/ ChangeDisk
Spec == Init /\ [][Next]_vars

----------------------------------------------------------------------------
(* Properties. *)

Answered(r) == rq[r].pc \in {"stream", "done"} /\ rq[r].answer.status # 0

(* Bytes of an image or a file leave only under an open decision: the one the
   hook returned for this very prefix, identifier and credentials (iiif_access
   and file_access, whether it came fresh or from the cache), or the default
   one where no hook is defined.  The engine opens the path that decision
   names, gets its restrictions exactly when it restricts (serve_image), and
   the path lies inside the image root (resolve). *)
ServedAsDecided ==
    \A r \in Requests :
        LET a == rq[r].access
        IN  Answered(r) /\ rq[r].answer.body \in {"image", "file"} =>
                /\ config.ready /\ Open(a.permission)
                /\ IF Hooked(r) THEN [asked |-> Asked(r), access |-> a] \in granted
                   ELSE a = DefaultAccess(rq[r].parsed)
                /\ rq[r].file = a.infile
                /\ changes = 0 => Entry(a.infile).at = "inside"
                /\ rq[r].answer.body = "image" =>
                     LET restricted == a.permission = "restrict"
                     IN  /\ rq[r].answer.size = IF restricted THEN a.size ELSE None
                         /\ rq[r].answer.watermark = IF restricted THEN a.watermark ELSE None

(* A partial answer carries exactly the bytes its Content-Range announces, and
   they lie inside the file, whichever of the two range parsers served it
   (static_binary's or build_file_response's), as long as the file stays as it
   was measured and the bounds of the request are in order. *)
RangesHonest ==
    \A r \in Requests :
        LET a == rq[r].answer
        IN  rq[r].pc = "done" /\ a.status = 206 /\ a.body # None /\ changes = rq[r].seen
            /\ (req[r].range.end # -1 => req[r].range.start <= req[r].range.end) =>
                /\ a.span.start <= a.span.end /\ a.span.end < a.of
                /\ a.sent = a.span.end - a.span.start + 1

(* What a request owns ends with it.  Its upload temp files exist from the
   part that created them until its script has returned, and all of them while
   the script runs; no two tasks share a thread; and the trace context a
   thread stamps on the engine's logs is that of the request it is running,
   never that of an earlier one (LogTraceScope). *)
NothingOutlivesItsTask ==
    /\ \A r \in Requests :
        /\ rq[r].temps # {} => rq[r].pc \in {"spool", "queued", "script"}
        /\ rq[r].pc = "script" /\ req[r].multipart => rq[r].temps = {i \in DOMAIN Parts(r) : Parts(r)[i] = "file"}
        /\ (rq[r].on # None) = (\/ rq[r].pc \in {"access", "hook", "resolve", "serve", "script"}
                                \/ rq[r].pc = "stream" /\ req[r].route = "iiif")
        /\ \A o \in Requests \ {r} : rq[r].on # None => rq[o].on # rq[r].on
    /\ \A t \in Threads :
        trace[t] = IF \E r \in Requests : rq[r].on = t /\ req[r].sampled
                   THEN CHOOSE r \in Requests : rq[r].on = t ELSE None

(* What the parser hands on is what the path said and what its consumers rely
   on: prefix, identifier and tail put together are the path again; an image
   request has dimensions between 1 and the cap wherever its size kind uses
   them, a percentage above 0, and a format the engine can write, so that
   neither serve_image's expect() nor dispatch_engine's unreachable!() is met;
   and the integers the engine gets name the parsed kinds. *)
TailLength(kind) == IF kind = "Iiif" THEN 4 ELSE 1
SizeUsable(s) ==
    /\ s.nx <= SizeCap /\ s.ny <= SizeCap
    /\ s.kind \in {"PixelsX", "PixelsXy", "Maxdim"} => s.nx >= 1
    /\ s.kind \in {"PixelsY", "PixelsXy", "Maxdim"} => s.ny >= 1
    /\ s.kind = "Percents" => s.percent > 0
    /\ s.kind \notin {"Undefined", "Reduce"}
ReadAsWritten ==
    \A r \in Requests :
        LET p == rq[r].parsed
            parts == Tokenize(req[r].url)
        IN  p.ok => /\ p.kind \in {"Iiif", "InfoJson", "KnoraJson", "FileDownload"}
                    /\ Len(p.prefix) + 1 + TailLength(p.kind) = Len(parts)
                    /\ p.prefix \o <<p.identifier>> = SubSeq(parts, 1, Len(p.prefix) + 1)
                    /\ p.kind = "Iiif" =>
                        /\ SizeUsable(p.params.size)
                        /\ SipiIiifParams(p.params).format_type \in {1, 2, 3, 5}
                        /\ SipiIiifParams(p.params).size_type \in 1..6

(* The sizes of an info.json are a pyramid a viewer can walk: they grow
   strictly up to the native size, the smallest fits into one tile, and the
   next one does not (image_info_json, pyramid_scale_factors, sizes_for). *)
PyramidFitsTiles ==
    \A r \in Requests :
        LET s == rq[r].answer.sizes
            dims == Entry(rq[r].file).dims
            Fits(x) == x.w <= TileOf(dims)[1] /\ x.h <= TileOf(dims)[2]
        IN  Answered(r) /\ s # <<>> /\ changes = 0 =>
                /\ s[Len(s)] = [w |-> dims.w, h |-> dims.h]
                /\ \A i \in 1..(Len(s) - 1) : s[i].w <= s[i+1].w /\ s[i].h <= s[i+1].h /\ s[i] # s[i+1] /\ ~Fits(s[i+1])
                /\ Fits(Head(s)) /\ s[1].w >= 1 /\ s[1].h >= 1

=============================================================================
