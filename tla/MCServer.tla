------------------------------ MODULE MCServer ------------------------------
(* Starts of the server worth telling apart, and their requests.             *)
EXTENDS Server

CONSTANTS r1, r2

TwoRequests == {r1, r2}

Layer(by, settings) ==
    [k \in Spellings |-> IF k \in DOMAIN settings THEN Value(by, settings[k]) ELSE None]

Nothing == Layer("none", <<>>)

One(k, as) == [x \in {k} |-> as]

With(f, g) == [x \in DOMAIN f \cup DOMAIN g |-> IF x \in DOMAIN f THEN f[x] ELSE g[x]]

File(flavor, settings, routes) ==
    [flavor |-> flavor, readable |-> TRUE, keys |-> Layer("file", settings), routes |-> routes]

NoFile == File("none", <<>>, <<>>)

Start(flags, env, file) ==
    [flags |-> flags, env |-> env, file |-> file, devport |-> None, taken |-> {}, init |-> "hook",
     limits |-> TRUE, threads |-> TRUE, www |-> None, otlp |-> FALSE, asan |-> FALSE]

Flavors == {"toml", "lua"}

Root == One("imgroot", "good")

Relative(method, route) == [method |-> method, route |-> route, absolute |-> FALSE]

Absolute(method, route) == [method |-> method, route |-> route, absolute |-> TRUE]

\* One key, in every combination of flag, variable and file.
LayerScenes ==
    {Start(IF "flag" \in in THEN Layer("flag", One(k, "good")) ELSE Nothing,
           IF "env" \in in THEN Layer("env", One(k, "good")) ELSE Nothing,
           File(fl, IF "file" \in in THEN With(One(k, "good"), Root)
                    ELSE IF k = "imgroot" THEN <<>> ELSE Root,
                <<Absolute("POST", "/api")>>)) :
       k \in Spellings, in \in SUBSET {"flag", "env", "file"}, fl \in Flavors}

\* The two spellings of the cache directory against each other.
SpellingScenes ==
    {Start(Layer("flag", One(a, "good")), Layer("env", One(b, as)),
           File(fl, With(Root, One(c, as)), <<>>)) :
       a \in {"cache_dir", "cachedir"}, b \in {"cache_dir", "cachedir"}, c \in {"cache_dir", "cachedir"},
       as \in {"good", "empty"}, fl \in Flavors}
    \cup {Start(Nothing, Nothing, File("lua", With(One("cache_dir", as), One("cachedir", "good")), <<>>)) :
            as \in {"good", "empty"}}

\* Where scripts are looked for, and what the init script is and does.
ScriptScenes ==
    {Start(Layer("flag", f), Nothing, File(fl, With(Root, d), <<Relative("GET", "/api")>>)) :
       f \in {<<>>, One("scriptdir", "good"), One("scriptdir", "empty")},
       d \in {<<>>, One("scriptdir", "good")}, fl \in Flavors}
    \cup
    {[Start(Layer("flag", f), Nothing, File(fl, With(Root, d), <<>>)) EXCEPT !.init = i] :
       f \in {<<>>, One("initscript", "good"), One("initscript", "empty")},
       d \in {<<>>, One("initscript", "good"), One("initscript", "dot")},
       fl \in Flavors, i \in {"hook", "plain", "fails"}}

\* One thing wrong.
FaultScenes ==
    {Start(Nothing, Nothing, File(fl, With(One(k, "bad"), Root), <<>>)) :
       k \in {"imgroot", "jpeg_quality", "tiles_memory_ratio", "cache_dir"}, fl \in Flavors}
    \cup {Start(Nothing, Nothing, File(fl, With(One("serverport", "wide"), Root), <<>>)) : fl \in Flavors}
    \cup {Start(Nothing, Nothing, File(fl, Root, <<Absolute(m, "/api")>>)) :
            fl \in Flavors, m \in {"CONNECT", "PATCH"}}
    \cup {[Start(Nothing, Nothing, [File(fl, Root, <<>>) EXCEPT !.readable = rd])
             EXCEPT !.limits = lm, !.threads = th, !.taken = tk, !.devport = dp, !.otlp = ot] :
            fl \in Flavors, rd \in BOOLEAN, lm \in BOOLEAN, th \in BOOLEAN,
            tk \in {{}, {DefaultPort}, {LuaDefault("serverport")}, {Value("dev", "good")}}, dp \in {None, Value("dev", "good")},
            ot \in BOOLEAN}

\* Routes that meet, with each other and with the server's own.
RouteScenes ==
    {[Start(Nothing, Nothing, File(fl, Root, rs)) EXCEPT !.www = w] :
       fl \in Flavors, w \in {None, "/", "/server"},
       rs \in {<<Absolute("POST", "/")>>, <<Absolute("GET", "/")>>, <<Absolute("GET", "/health")>>,
               <<Absolute("PUT", "/health")>>, <<Absolute("GET", "/server")>>, <<Absolute("PUT", "/server")>>,
               <<Absolute("GET", "/api"), Absolute("POST", "/api")>>,
               <<Absolute("GET", "/api"), Absolute("GET", "/api")>>}}

LifeScenes ==
    {[Start(Nothing, Nothing, file) EXCEPT !.asan = a, !.otlp = ot] :
       file \in {NoFile, File("toml", Root, <<>>)}, a \in BOOLEAN, ot \in BOOLEAN}

AllScenes ==
    LayerScenes \cup SpellingScenes \cup ScriptScenes \cup FaultScenes \cup RouteScenes \cup LifeScenes

=============================================================================
