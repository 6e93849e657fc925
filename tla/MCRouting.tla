----------------------------- MODULE MCRouting -----------------------------
(***************************************************************************)
(* Scenes for Routing: a configuration and two requests.  Each group of    *)
(* scenes varies what one part of the edge looks at and keeps the rest     *)
(* plain; the second request is there to share threads, files and the      *)
(* preflight cache with the first.                                         *)
(***************************************************************************)
EXTENDS Routing

CONSTANTS R1, R2, T1, T2

MCRequests == {R1, R2}
MCThreads == {T1, T2}
Symmetry == Permutations(MCThreads)

----------------------------------------------------------------------------
(* Segments. *)

Id == Seg("dotted")
Pre == Seg("word")
Num(form, n) == [Seg(form) EXCEPT !.nums = n]
QualForm(q, f) == [Seg("qualform") EXCEPT !.qual = q, !.fmt = f]
Sizes ==
    {Seg("max"), Num("pct", <<0>>), Num("pct", <<50>>), Num("w,", <<2>>), Num(",h", <<0>>), Num(",h", <<2>>),
     Num("w,h", <<1, UsizeMax>>), Num("w,h", <<1, UsizeMax + 1>>), Num("w,h", <<0, 2>>), Num("w,", <<UsizeMax + 1>>)}
    \cup {[Num("w,h", <<2, 2>>) EXCEPT !.bang = b, !.up = u] : b, u \in BOOLEAN}
    \cup {[Num("w,", <<2>>) EXCEPT !.bang = TRUE], [Seg("max") EXCEPT !.up = TRUE]}
Regions == {Seg("full"), Seg("square"), Num("coords", <<0, 0, 1, 1>>), Num("pctcoords", <<0, 0, 50, 50>>), Pre}
Rotations == {Num("number", <<0>>), [Num("number", <<90>>) EXCEPT !.bang = TRUE], Num("fraction", <<1>>), Pre}
QualForms == {QualForm("default", "jpg"), QualForm("gray", "jp2"), QualForm("color", "gif"), QualForm("colour", "jpg"), Pre}
ImageTail(region, size, rotation, qualform) == <<region, size, rotation, qualform>>
PlainTail == ImageTail(Seg("full"), Seg("max"), Num("number", <<0>>), QualForm("default", "jpg"))
Tails ==
    {ImageTail(Seg("full"), s, Num("number", <<0>>), QualForm("default", "jpg")) : s \in Sizes}
    \cup {ImageTail(g, Num("w,h", <<2, 2>>), o, q) : g \in Regions, o \in Rotations, q \in QualForms}
    \cup {<<Seg("info.json")>>, <<Seg("knora.json")>>, <<Seg("file")>>, <<>>}
Heads == {<<>>, <<Id>>, <<Pre, Id>>, <<Pre, Pre, Id>>, <<Seg("empty"), Id>>, <<Pre, Seg("empty")>>}
OddHeads == {<<Seg(f), Id>> : f \in {"dotdot", "nul", "control"}} \cup {<<Pre, Seg(f)>> : f \in {"dotdot", "nul", "control"}}

----------------------------------------------------------------------------
(* Files. *)

Dims(w, h, tw, th) == [w |-> w, h |-> h, tw |-> tw, th |-> th, pages |-> 0]
Plain == [at |-> "inside", regular |-> TRUE, mime |-> "image", size |-> 4, dims |-> Dims(5, 3, 2, 2),
          readable |-> TRUE, essentials |-> TRUE, sidecar |-> TRUE]
Files ==
    {Plain, [Plain EXCEPT !.mime = "video"], [Plain EXCEPT !.mime = "other", !.sidecar = FALSE],
     [Plain EXCEPT !.mime = "html"], [Plain EXCEPT !.mime = "error"], [Plain EXCEPT !.readable = FALSE],
     [Plain EXCEPT !.at = "outside"], [Plain EXCEPT !.at = "missing"], [Plain EXCEPT !.size = 2],
     [Plain EXCEPT !.size = 0], [Plain EXCEPT !.regular = FALSE]}
    \cup {[Plain EXCEPT !.dims = d] : d \in {Dims(2, 2, 2, 2), Dims(9, 1, 2, 4), Dims(1, 8, 0, 0), Dims(3, 3, 1, 2), [Dims(4, 4, 2, 2) EXCEPT !.pages = 2]}}
APath == <<"dotted">>
PPath == <<"word", "dotted">>
DiskWith(entry) == (APath :> entry) @@ (PPath :> Plain) @@ (<<"missing">> :> [Plain EXCEPT !.at = "missing"])
MCDiskChanges ==
    {[path |-> APath, entry |-> f] : f \in {[Plain EXCEPT !.at = "outside"], [Plain EXCEPT !.at = "missing"], [Plain EXCEPT !.size = 2]}}

----------------------------------------------------------------------------
(* Hooks, requests, scenes. *)

Reply(permission, infile) ==
    [type |-> "decision", permission |-> permission, infile |-> infile, size |-> "small", watermark |-> "mark",
     urls |-> IF permission = "login" THEN {"cookieUrl", "tokenUrl"} ELSE {"cookieUrl"}]
MCReplies ==
    {Reply(p, APath) : p \in {"allow", "restrict", "login", "kiosk", "oops"}}
    \cup {Reply("allow", <<>>), [Reply("allow", APath) EXCEPT !.type = "direct"], [Reply("allow", APath) EXCEPT !.type = "error"]}

Base == [ready |-> TRUE, prefixAsPath |-> TRUE, preflight |-> FALSE, filePreflight |-> FALSE, cache |-> FALSE,
         lua |-> TRUE, maxPost |-> 2, docroot |-> TRUE]
NoSuffix == [stripped |-> TRUE, control |-> FALSE, traversal |-> FALSE, empty |-> FALSE, ext |-> "bin", path |-> APath]
Get == [route |-> "iiif", method |-> "GET", url |-> <<Id>> \o PlainTail, cred |-> "c1", origin |-> None, range |-> NoRange,
        suffix |-> NoSuffix, multipart |-> FALSE, parts |-> <<>>, size |-> 0, sampled |-> TRUE]
Url(u) == [Get EXCEPT !.url = u]
Idle == [Get EXCEPT !.route = None]
SceneOn(disk0, c, a, b) == [config |-> c, requests |-> (R1 :> a) @@ (R2 :> b), disk |-> disk0]
Scene(c, a, b) == SceneOn(DiskWith(Plain), c, a, b)

Bounds == {-1, 0, 1, 3, 5}
Ranges == {NoRange, RangeHeader("bad", 0, 0)} \cup {RangeHeader("bytes", s, e) : s, e \in Bounds}
Documents == {<<Seg("info.json")>>, <<Seg("knora.json")>>, <<Seg("file")>>}

ParseScenes == {Scene(Base, Url(h \o t), Idle) : h \in Heads, t \in Tails}
OddScenes ==
    {Scene([Base EXCEPT !.prefixAsPath = p, !.ready = y], Url(h \o t), Idle) :
        p \in BOOLEAN, y \in BOOLEAN, h \in OddHeads, t \in Documents \cup {<<>>, PlainTail}}
HookScenes ==
    {Scene([Base EXCEPT !.preflight = TRUE, !.filePreflight = f, !.cache = c],
           Url(<<Id>> \o t), [Url(<<Id>> \o PlainTail) EXCEPT !.cred = w, !.sampled = (w = "c1")]) :
        f, c \in BOOLEAN, w \in {"c1", "c2"}, t \in Documents \cup {PlainTail}}
FileScenes == {Scene(Base, [Url(<<Id, Seg("file")>>) EXCEPT !.range = g], Idle) : g \in Ranges}
JsonScenes ==
    {SceneOn(DiskWith(f), Base, [Url(<<Id>> \o t) EXCEPT !.origin = o, !.method = m], Idle) :
        f \in Files, t \in Documents \cup {PlainTail}, o \in {None, "site"}, m \in {"GET", "HEAD", "OPTIONS"}}
Multipart(parts, n) == [Get EXCEPT !.route = "lua", !.method = "POST", !.multipart = TRUE, !.parts = parts, !.size = n]
LuaScenes ==
    {Scene([Base EXCEPT !.maxPost = x], a, Idle) :
        x \in {0, 2},
        a \in {Multipart(p, n) : p \in {<<"file">>, <<"text", "file">>, <<"file", "text", "file">>}, n \in {1, 3}}
              \cup {[Multipart(<<>>, n) EXCEPT !.multipart = FALSE, !.method = m] : n \in {1, 3}, m \in {"GET", "POST"}}}
    \cup {Scene(Base, Multipart(<<"file", "file">>, 1), [Multipart(<<"file">>, 1) EXCEPT !.sampled = FALSE])}
Www(suffix, range, method) == [Get EXCEPT !.route = "www", !.suffix = suffix, !.range = range, !.method = method]
WwwScenes ==
    {SceneOn(DiskWith(f), [Base EXCEPT !.docroot = d], Www([NoSuffix EXCEPT !.ext = x], g, m), Idle) :
        f \in Files, d \in BOOLEAN, x \in {"js", "html", "bin", "lua"}, g \in {NoRange, RangeHeader("bytes", 1, -1)}, m \in {"GET", "HEAD", "OPTIONS"}}
    \cup {Scene(Base, Www(NoSuffix, g, "GET"), Idle) : g \in Ranges}
    \cup {Scene(Base, Www([NoSuffix EXCEPT ![k] = (k # "stripped")], NoRange, "GET"), Idle) :
            k \in {"stripped", "control", "traversal", "empty"}}

MCScenes == ParseScenes \cup OddScenes \cup HookScenes \cup FileScenes \cup JsonScenes \cup LuaScenes \cup WwwScenes

(* Every request has been answered, or its client has left. *)
Terminated == \A r \in Requests : rq[r].pc = "done"
MCNext == Next \/ (Terminated /\ UNCHANGED vars)
MCSpec == Init /\ [][MCNext]_vars

=============================================================================
