---------------------------- MODULE ServerConfig ----------------------------
(***************************************************************************)
(* How the server finds the value of a setting: command-line flags and     *)
(* SIPI_* variables (cli-rs), a TOML file (config_file.rs) or a Lua file   *)
(* (scripting/rust/entry.rs), layered by config.rs and handed to the       *)
(* engine (ffi/init.cpp) and to the scripts' `config' table (lib.rs).      *)
(*                                                                         *)
(* One key stands for each way a setting is treated.  A value is the layer *)
(* that set it, `by', and the one thing about it the code asks, `as':      *)
(* "good", "bad" (fits its type, but no directory, quality or ratio to     *)
(* work with), "wide" (does not fit its type), "empty" and "dot".          *)
(***************************************************************************)
EXTENDS Naturals, Sequences

CONSTANT None

Settings == {"serverport", "imgroot", "scriptdir", "initscript", "cache_dir",
         "jpeg_quality", "tiles_memory_ratio", "hostname"}

\* The deprecated spelling of cache_dir is a key of its own in argv, in the
\* environment and in a Lua file.
Spellings == Settings \cup {"cachedir"}

Value(by, as) == [by |-> by, as |-> as]

Or(a, b) == IF a # None THEN a ELSE b

Is(v, as) == v # None /\ v.as = as

\* clap: the flag, else the variable; no default value, so an unset one stays None.
Clap(flags, env) == [k \in Spellings |-> Or(flags[k], env[k])]

\* Quality has no flag; --hostname is accepted and not forwarded.
FromArgs(args) ==
    [k \in Settings |-> CASE k \in {"jpeg_quality", "hostname"} -> None
                      [] k = "cache_dir" -> Or(args.cache_dir, args.cachedir)
                      [] OTHER -> args[k]]

LayeredUnder(top, base) == [k \in Settings |-> Or(base[k], top[k])]

LayeredOver(top, base) == [k \in Settings |-> Or(top[k], base[k])]

-----------------------------------------------------------------------------
\* The verbs the router serves; a Lua file may name two more.
Methods == {"GET", "HEAD", "POST", "PUT", "DELETE", "OPTIONS"}

RouteMethods == Methods \cup {"CONNECT", "OTHER"}

ComposeScriptPath(dir, r) == IF r.absolute THEN None ELSE dir

RouteEntries(file, dir) ==
    [i \in DOMAIN file.routes |->
        [method |-> file.routes[i].method, route |-> file.routes[i].route,
         dir |-> ComposeScriptPath(dir, file.routes[i])]]

Refused == [ok |-> FALSE]

Accepted(effective, routes) == [ok |-> TRUE, effective |-> effective, routes |-> routes]

\* A file that does not parse against the schema is refused: an unknown key,
\* a port beyond 16 bits.
TomlLoads(file) == file.readable /\ ~Is(file.keys.serverport, "wide") /\ file.keys.cachedir = None

TomlBase(file) == [k \in Settings |-> IF k = "hostname" THEN None ELSE file.keys[k]]

Resolve(cli, file) ==
    LET effective == LayeredOver(cli, TomlBase(file))
        dir == effective.scriptdir
    IN  IF \/ effective.imgroot = None
           \/ Is(effective.jpeg_quality, "bad")
           \/ /\ \E i \in DOMAIN file.routes : ~file.routes[i].absolute
              /\ dir = None \/ Is(dir, "empty")
           \/ \E i \in DOMAIN file.routes : file.routes[i].method \notin Methods
        THEN Refused
        ELSE Accepted(effective, RouteEntries(file, dir))

\* An empty string counts as unset; giving both spellings is an error.
LuaCacheDir(file) ==
    LET Set(v) == v # None /\ v.as # "empty"
    IN  IF Set(file.keys.cache_dir) THEN file.keys.cache_dir
        ELSE IF Set(file.keys.cachedir) THEN file.keys.cachedir
        ELSE Value("default", "good")

BothSpellings(file) ==
    \A k \in {"cache_dir", "cachedir"} : file.keys[k] # None /\ file.keys[k].as # "empty"

LuaDefault(k) ==
    Value("default", CASE k = "initscript" -> "dot"
                       [] k = "serverport" -> "3333"
                       [] OTHER -> "good")

\* read_routes refuses a verb it does not know; every key but the memory knobs
\* has a default, so a Lua file sets them all.
ReadConfig(file) ==
    IF \/ ~file.readable
       \/ BothSpellings(file)
       \/ \E i \in DOMAIN file.routes : file.routes[i].method \notin RouteMethods
    THEN Refused
    ELSE [ok |-> TRUE,
          keys |-> [k \in Settings |-> IF k = "cache_dir" THEN LuaCacheDir(file)
                                   ELSE Or(file.keys[k], LuaDefault(k))]]

FromLuaConfig(keys) == [keys EXCEPT !.tiles_memory_ratio = None]

\* The routes' directory is the file's, whatever a flag says.
LuaConfigured(cli, file) ==
    LET parsed == ReadConfig(file)
    IN  IF ~parsed.ok \/ Is(parsed.keys.serverport, "wide")
        THEN Refused
        ELSE Accepted(LayeredOver(cli, FromLuaConfig(parsed.keys)),
                      RouteEntries(file, parsed.keys.scriptdir))

-----------------------------------------------------------------------------
\* What crosses the boundary: a value, or a null pointer or cleared flag for
\* an unset one.  The host name stays behind.
Override(effective, k) == IF k = "hostname" THEN None ELSE effective[k]

EngineDefault(k) ==
    Value("default", CASE k \in {"imgroot", "cache_dir", "scriptdir", "initscript"} -> "empty"
                       [] k = "serverport" -> "3333"
                       [] OTHER -> "good")

\* sipi_init: a root that does not resolve and a ratio outside (0, 1) fail the
\* start; a cache directory that cannot be used only costs the cache.
SipiInit(effective) ==
    LET conf == [k \in Settings \ {"hostname"} |-> Or(Override(effective, k), EngineDefault(k))]
    IN  IF conf.tiles_memory_ratio.as = "bad" \/ conf.imgroot.as # "good"
        THEN None
        ELSE [conf |-> conf, cache |-> conf.cache_dir.as = "good"]

LuaConfigValues(effective) ==
    [k \in Settings \ {"tiles_memory_ratio"} |-> Or(effective[k], LuaDefault(k))]

InitScript(effective) ==
    IF effective.initscript = None \/ effective.initscript.as \in {"empty", "dot"}
    THEN None ELSE effective.initscript

=============================================================================
