------------------------------- MODULE Server -------------------------------
(***************************************************************************)
(* The life of the server process (server-rs/src/lib.rs): telemetry, the   *)
(* configuration and the engine, the Lua environment and its boot probe,   *)
(* the application state, the listener and the routes; requests; then the  *)
(* signal, the drain and its deadline, the flush and the runtime's         *)
(* teardown.                                                               *)
(*                                                                         *)
(* `boot' is what the process finds when it starts and never changes: the  *)
(* flags, the environment, the configuration file, what the init script    *)
(* does, whether the port is free.  A request is answered by async code;   *)
(* the engine or a script works for it on a thread of the blocking pool,   *)
(* which nothing but the end of the work stops.                            *)
(***************************************************************************)
EXTENDS ServerConfig

CONSTANTS
    Requests,
    Scenes,         \* the possible values of boot
    DrainTimeout,   \* in ticks
    Overrun         \* bound: how long past the deadline the clock is followed

ASSUME ServerAssumption ==
    /\ DrainTimeout \in Nat /\ Overrun \in Nat
    /\ \A start \in Scenes : start.file.flavor \in {"none", "toml", "lua"}

VARIABLES
    boot,
    stage,          \* the step of server_main, of serve and of run
    otel,           \* "off", "open" or "flushed"
    engine,         \* what sipi_init installed, or None
    shell,          \* the settings and routes the shell goes on with, or None
    lua,            \* the Lua environment, or None
    state,          \* AppState
    listener,       \* "none", "open" or "closed"
    drain,          \* the watch: draining has begun
    elapsed,        \* ticks since draining began
    code,           \* exit code
    req             \* per request: where its task and its blocking work are

serverVars ==
    <<boot, stage, otel, engine, shell, lua, state, listener, drain, elapsed, code, req>>

installed == <<engine, shell, lua, state>>

life == <<listener, drain, elapsed>>

ServerInit ==
    /\ boot \in Scenes
    /\ stage = "start" /\ otel = "off" /\ code = None
    /\ engine = None /\ shell = None /\ lua = None /\ state = None
    /\ listener = "none" /\ drain = FALSE /\ elapsed = 0
    /\ req = [r \in Requests |-> [task |-> "out", work |-> "none", answer |-> None]]

-----------------------------------------------------------------------------
\* Every failure of the start flushes the telemetry and exits with 1.
Refuse == stage' = "flush" /\ code' = 1

Advance(step) == stage' = step /\ UNCHANGED code

\* No endpoint, or an exporter that cannot be built, leaves the export off.
TelemetryInit ==
    /\ stage = "start"
    /\ otel' \in (IF boot.otlp THEN {"open", "off"} ELSE {"off"})
    /\ Advance("config")
    /\ UNCHANGED <<boot, installed, life, req>>

Overrides == FromArgs(Clap(boot.flags, boot.env))

\* What the config file yields; a file whose name does not end in .toml is Lua.
Configured ==
    IF boot.file.flavor = "toml"
    THEN IF TomlLoads(boot.file) THEN Resolve(Overrides, boot.file) ELSE Refused
    ELSE LuaConfigured(Overrides, boot.file)

InstallEngine ==
    /\ stage = "config" /\ boot.file.flavor # "none"
    /\ IF Configured.ok /\ SipiInit(Configured.effective) # None
       THEN /\ engine' = SipiInit(Configured.effective)
            /\ shell' = [effective |-> Configured.effective, routes |-> Configured.routes]
            /\ Advance("lua")
       ELSE Refuse /\ UNCHANGED <<engine, shell>>
    /\ UNCHANGED <<boot, otel, lua, state, life, req>>

\* Without a file the engine stays out: only /health and /favicon.ico serve.
NoConfig ==
    /\ stage = "config" /\ boot.file.flavor = "none"
    /\ shell' = [effective |-> Overrides, routes |-> None]
    /\ Advance("load")
    /\ UNCHANGED <<boot, otel, engine, lua, state, life, req>>

\* The boot probe: the init script runs once, and what it defines is frozen.
ProbeHooks == InitScript(shell.effective) # None /\ boot.init = "hook"

InitScriptFails == InitScript(shell.effective) # None /\ boot.init = "fails"

LuaEnvOf == [hook |-> ProbeHooks, config |-> LuaConfigValues(shell.effective)]

\* A probe that fails open: an init script in error counts as one without hooks.
BuildLuaOpen ==
    /\ stage = "lua"
    /\ IF ~boot.limits
       THEN Refuse /\ UNCHANGED lua
       ELSE lua' = LuaEnvOf /\ Advance("load")
    /\ UNCHANGED <<boot, otel, engine, shell, state, life, req>>

\* A limit knob that does not parse, or an init script in error, refuses the start.
BuildLua ==
    /\ stage = "lua"
    /\ IF ~boot.limits \/ InitScriptFails
       THEN Refuse /\ UNCHANGED lua
       ELSE lua' = LuaEnvOf /\ Advance("load")
    /\ UNCHANGED <<boot, otel, engine, shell, state, life, req>>

\* AppState::load reads the engine's values back; without an engine it is not ready.
NotReady == [ready |-> FALSE, imgroot |-> None, hook |-> FALSE, routes |-> <<>>, www |-> None]

Ready == [ready |-> TRUE, imgroot |-> engine.conf.imgroot, hook |-> lua.hook,
          routes |-> shell.routes, www |-> boot.www]

LoadState ==
    /\ stage = "load"
    /\ IF boot.threads
       THEN state' = (IF engine = None THEN NotReady ELSE Ready) /\ Advance("bind")
       ELSE Refuse /\ UNCHANGED state
    /\ UNCHANGED <<boot, otel, engine, shell, lua, life, req>>

DefaultPort == Value("default", "1024")

Port == Or(boot.devport, Or(shell.effective.serverport, DefaultPort))

Bind ==
    /\ stage = "bind"
    /\ IF Port \in boot.taken
       THEN Refuse /\ UNCHANGED listener
       ELSE listener' = "open" /\ Advance("mount")
    /\ UNCHANGED <<boot, otel, installed, drain, elapsed, req>>

-----------------------------------------------------------------------------
\* The routes an owner registers: [at, below, methods], `below' for the paths under `at'.
Claim(owner, at, below, methods) == [owner |-> owner, at |-> at, below |-> below, methods |-> methods]

\* A route whose verb the router does not serve is left out.
LuaClaims(routes) ==
    UNION {{Claim(<<"lua", i>>, routes[i].route, below, {routes[i].method}) :
              below \in (IF routes[i].route = "/" THEN {FALSE} ELSE BOOLEAN)} :
             i \in {j \in DOMAIN routes : routes[j].method \in Methods}}

DocrootClaims(www) ==
    IF www \in {None, "/"} THEN {}
    ELSE {Claim(<<"docroot", 0>>, www, below, {"GET", "HEAD", "POST", "OPTIONS"}) : below \in BOOLEAN}

FixedClaims ==
    {Claim(<<"iiif", 0>>, "/", below, {"GET", "HEAD", "OPTIONS"}) : below \in BOOLEAN}
        \cup {Claim(<<"probe", 0>>, at, FALSE, {"GET"}) : at \in {"/health", "/favicon.ico"}}

Claims == FixedClaims \cup LuaClaims(state.routes) \cup DocrootClaims(state.www)

\* axum panics when two handlers claim one method of one path.
Overlap ==
    \E a, b \in Claims : a # b /\ a.at = b.at /\ a.below = b.below /\ a.methods \cap b.methods # {}

\* The panic leaves main by unwinding: nothing is flushed.
Mount ==
    /\ stage = "mount"
    /\ IF Overlap
       THEN stage' = "exited" /\ code' = 101 /\ listener' = "closed"
       ELSE Advance("serving") /\ UNCHANGED listener
    /\ UNCHANGED <<boot, otel, installed, drain, elapsed, req>>

Startup ==
    \/ TelemetryInit
    \/ InstallEngine
    \/ NoConfig
    \/ BuildLua
    \/ LoadState
    \/ Bind
    \/ Mount

-----------------------------------------------------------------------------
\* Tasks run while the runtime stands: also during the flush.
RuntimeUp == stage \in {"serving", "flush"}

\* A liveness probe, and any request of a server that is not ready, needs no engine.
Accept(r, probe) ==
    /\ stage = "serving" /\ listener = "open" /\ req[r].task = "out"
    /\ req' = [req EXCEPT ![r] =
                  [task |-> IF probe \/ ~state.ready THEN "native" ELSE "open", work |-> "none",
                   answer |-> IF ~probe /\ ~state.ready THEN 503 ELSE 200]]
    /\ UNCHANGED <<boot, stage, otel, installed, life, code>>

StartWork(r) ==
    /\ RuntimeUp /\ req[r].task = "open" /\ req[r].work = "none"
    /\ req' = [req EXCEPT ![r].work = "running"]
    /\ UNCHANGED <<boot, stage, otel, installed, life, code>>

\* A blocking thread stops when its work is done, whoever still waits for it.
FinishWork(r) ==
    /\ stage # "exited" /\ req[r].work = "running"
    /\ req' = [req EXCEPT ![r].work = "over"]
    /\ UNCHANGED <<boot, stage, otel, installed, life, code>>

Answer(r) ==
    /\ RuntimeUp
    /\ req[r].task = "native" \/ (req[r].task = "open" /\ req[r].work = "over")
    /\ req' = [req EXCEPT ![r].task = "answered"]
    /\ UNCHANGED <<boot, stage, otel, installed, life, code>>

ClientLeaves(r) ==
    /\ RuntimeUp /\ req[r].task \in {"native", "open"}
    /\ req' = [req EXCEPT ![r].task = "left"]
    /\ UNCHANGED <<boot, stage, otel, installed, life, code>>

InFlight == {r \in Requests : req[r].task \in {"native", "open"}}

-----------------------------------------------------------------------------
\* SIGTERM or Ctrl-C: the watch latches, and the drain clock starts.  A later
\* signal finds nobody listening.
Signal ==
    /\ stage = "serving" /\ ~drain
    /\ drain' = TRUE
    /\ UNCHANGED <<boot, stage, otel, installed, listener, elapsed, code, req>>

\* axum sees the latch and stops accepting.
StopAccepting ==
    /\ stage = "serving" /\ drain /\ listener = "open"
    /\ listener' = "closed"
    /\ UNCHANGED <<boot, stage, otel, installed, drain, elapsed, code, req>>

\* axum ends the drain when the requests it waits for are over; one that does
\* not wait ends it at once.
DrainedEarly ==
    /\ stage = "serving" /\ listener = "closed"
    /\ stage' = "flush" /\ code' = 0
    /\ UNCHANGED <<boot, otel, installed, life, req>>

Drained ==
    /\ stage = "serving" /\ listener = "closed" /\ InFlight = {}
    /\ stage' = "flush" /\ code' = 0
    /\ UNCHANGED <<boot, otel, installed, life, req>>

\* A deadline that still waits for the requests.
DeadlineWaits ==
    /\ stage = "serving" /\ drain /\ elapsed >= DrainTimeout /\ InFlight = {}
    /\ stage' = "flush" /\ code' = 0 /\ listener' = "closed"
    /\ UNCHANGED <<boot, otel, installed, drain, elapsed, req>>

DeadlinePasses ==
    /\ stage = "serving" /\ drain /\ elapsed >= DrainTimeout
    /\ stage' = "flush" /\ code' = 0 /\ listener' = "closed"
    /\ UNCHANGED <<boot, otel, installed, drain, elapsed, req>>

CutAll ==
    [r \in Requests |-> IF r \in InFlight THEN [req[r] EXCEPT !.task = "cut"] ELSE req[r]]

\* Under a sanitizer the process leaves by _exit, with its threads.
FlushTelemetry ==
    /\ stage = "flush"
    /\ otel' = IF otel = "open" THEN "flushed" ELSE otel
    /\ IF boot.asan /\ listener # "none"
       THEN stage' = "exited" /\ req' = CutAll
       ELSE stage' = "drop" /\ UNCHANGED req
    /\ UNCHANGED <<boot, installed, life, code>>

\* The runtime goes out of scope: it drops the tasks that are left ...
DropTasks ==
    /\ stage = "drop"
    /\ req' = CutAll
    /\ stage' = "join"
    /\ UNCHANGED <<boot, otel, installed, life, code>>

Busy == {r \in Requests : req[r].work = "running"}

\* ... and waits for the blocking threads.
JoinThreads ==
    /\ stage = "join" /\ Busy = {}
    /\ stage' = "exited"
    /\ UNCHANGED <<boot, otel, installed, life, code, req>>

\* Time passes where the process waits: for the drain, or for its threads.
TimePasses ==
    /\ drain /\ elapsed < DrainTimeout + Overrun
    /\ \/ stage = "serving" /\ elapsed < DrainTimeout
       \/ stage = "join" /\ Busy # {}
    /\ elapsed' = elapsed + 1
    /\ UNCHANGED <<boot, stage, otel, installed, listener, drain, code, req>>

Shutdown ==
    \/ StopAccepting
    \/ Drained
    \/ DeadlinePasses
    \/ FlushTelemetry
    \/ DropTasks
    \/ JoinThreads

Serve(r) == StartWork(r) \/ FinishWork(r) \/ Answer(r)

Done == stage = "exited" /\ UNCHANGED serverVars

ServerNext ==
    \/ Startup
    \/ Signal
    \/ Shutdown
    \/ TimePasses
    \/ \E r \in Requests :
          Serve(r) \/ ClientLeaves(r) \/ \E probe \in BOOLEAN : Accept(r, probe)
    \/ Done

\* The runtime polls its tasks, the timer fires, and the engine's work ends;
\* whether a client leaves or a signal comes is anybody's choice.
Fairness ==
    /\ WF_serverVars(Startup)
    /\ WF_serverVars(Shutdown)
    /\ WF_serverVars(TimePasses)
    /\ \A r \in Requests : WF_serverVars(FinishWork(r))

ServerSpec == ServerInit /\ [][ServerNext]_serverVars /\ Fairness

-----------------------------------------------------------------------------
\* The settings of a key in the order of their precedence, from the raw inputs:
\* flag, variable, file.  Quality and host name have no flag, the ratio is not
\* a Lua key, the host name not a TOML key; cache_dir has a second spelling.
Outside(layer, s) == IF s \in {"jpeg_quality", "hostname"} THEN None ELSE layer[s]

InFile(s) ==
    IF \/ <<boot.file.flavor, s>> \in {<<"lua", "tiles_memory_ratio">>, <<"toml", "hostname">>}
       \/ boot.file.flavor = "lua" /\ s \in {"cache_dir", "cachedir"} /\ Is(boot.file.keys[s], "empty")
    THEN None ELSE boot.file.keys[s]

Given(k) ==
    IF k = "cache_dir"
    THEN <<Outside(boot.flags, k), Outside(boot.env, k), Outside(boot.flags, "cachedir"),
           Outside(boot.env, "cachedir"), InFile(k), InFile("cachedir")>>
    ELSE <<Outside(boot.flags, k), Outside(boot.env, k), InFile(k)>>

First(given) ==
    LET set == {i \in DOMAIN given : given[i] # None}
    IN  IF set = {} THEN None ELSE given[CHOOSE i \in set : \A j \in set : i <= j]

Winner(k) == First(Given(k))

\* An init script that is empty or "." counts as none.
NamesScript == Winner("initscript") # None /\ Winner("initscript").as \notin {"empty", "dot"}

\* A server that accepts requests runs on one configuration: for every key that
\* flag, variable or file sets, the engine (sipi_init) and the scripts' config
\* table (lua_config_values) hold the value of the highest of them, whatever
\* parser and layer it came through; the shell's image root is the engine's; a
\* TOML file's scripts lie in the winning script directory; and the hook is
\* consulted exactly when the winning init script defines it.
ServesOneConfiguration ==
    stage = "serving" /\ boot.file.flavor # "none" =>
        /\ \A k \in Settings : Winner(k) # None =>
              /\ k \in DOMAIN engine.conf => engine.conf[k] = Winner(k)
              /\ k \in DOMAIN lua.config => lua.config[k] = Winner(k)
        /\ state.imgroot = engine.conf.imgroot
        /\ boot.file.flavor = "toml" =>
              \A i \in DOMAIN state.routes : state.routes[i].dir \in {None, Winner("scriptdir")}
        /\ state.hook = (NamesScript /\ boot.init = "hook")

\* The start fails closed: a server that accepts requests has no init script in
\* error, no unusable limit, pool, root or file behind it and is ready unless it
\* was started without a file; a process that refused to start took no request
\* and lost no telemetry; and exit code 0 means that somebody asked it to stop.
StartFailsClosed ==
    /\ stage = "serving" =>
          /\ boot.threads
          /\ boot.file.flavor = "none" \/ (boot.file.readable /\ boot.limits /\ state.ready)
          /\ boot.file.flavor # "none" => ~(NamesScript /\ boot.init = "fails")
    /\ stage = "exited" /\ code = 1 =>
          otel # "open" /\ \A r \in Requests : req[r].task = "out"
    /\ stage = "exited" => (code = 0 <=> drain)

\* Once asked to stop, the server gives every request it accepted the whole
\* drain timeout: none is cut before, however the end of the others, the flush
\* and the teardown interleave.
NoneCutEarly ==
    \A r \in Requests : req[r].task = "cut" => drain /\ elapsed >= DrainTimeout

\* A server that was asked to stop exits in the end: clients that neither leave
\* nor read cannot keep it, as long as the engine's own work ends.
StopsInTheEnd == drain ~> stage = "exited"

=============================================================================
