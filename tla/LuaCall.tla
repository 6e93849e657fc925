------------------------------- MODULE LuaCall -------------------------------
(***************************************************************************)
(* The calls into the Lua environment: the boot-time probe, the two        *)
(* preflight hooks, a .lua route and an .elua page.  Each builds a fresh   *)
(* VM under its own deadline, runs the init script, then its own chunk,    *)
(* and turns what the script did into a reply.  The script is arbitrary:   *)
(* it may write to the response, call require, trap the errors raised into *)
(* it, fail or return.  The calls share the bytecode cache.                *)
(***************************************************************************)
EXTENDS BytecodeCache, ResponseWriter

CONSTANTS
    InitScript, RouteScript,    \* two of Scripts
    Vms                         \* the calls followed here: the others of Calls
                                \* only matter for what they load

\* The boot probe, the two hooks, and routes by their script's extension.
AllKinds == {"probe", "pre_flight", "file_pre_flight", "lua", "elua", "other"}

ASSUME LuaAssumption ==
    /\ {InitScript, RouteScript} \subseteq Scripts
    /\ Vms \subseteq Calls
    /\ MaxEdits \in Nat

VARIABLES
    call,           \* call -> its VM
    kills           \* KillStats: reason -> number

vars == <<cacheVars, call, kills>>

Reasons == {"timeout", "memory"}

\* What a hook returns: no value, a string, a table with a usable type and
\* string values, any other table, any other value; then the second value.
HookValues == [shape  : {"none", "string", "table", "badtable", "other"},
               perm   : {"allow", "deny", "kiosk", "junk"},
               infile : {"none", "string", "other"}]
NoValue == [shape |-> "none", perm |-> "junk", infile |-> "none"]

\* hasInit: the configuration names an init script; defines: the one this VM
\* ran defines the hook; late: the deadline has passed; back: where a require
\* returns to; reported: the committed flag of a RouteOutcome.
NewCall(kind, hasInit) ==
    [kind |-> kind, hasInit |-> hasInit, pc |-> "start", late |-> FALSE, defines |-> FALSE,
     back |-> "none", writer |-> NewWriter, result |-> "none",
     value |-> NoValue, head |-> 0, reported |-> FALSE]

Init ==
    /\ CacheInit
    /\ \E hasInit \in BOOLEAN :
          call \in [Vms -> {NewCall(kind, hasInit) : kind \in AllKinds}]
    /\ kills = [r \in Reasons |-> 0]

At(c, pcs) == call[c].pc \in pcs
Is(c, kinds) == call[c].kind \in kinds
Routed == {"lua", "elua", "other"}
Hooks  == {"pre_flight", "file_pre_flight"}

Goto(c, pc) == call' = [call EXCEPT ![c].pc = pc]

\* Where a call goes once its VM is built.
OwnChunk(c) ==
    CASE Is(c, Hooks) -> "run" [] Is(c, {"lua"}) -> "main" [] Is(c, {"elua"}) -> "page"
      [] OTHER -> "built"

\* The call is over.  A kill is counted where run classifies it.
End(c, result, value, head, reported) ==
    /\ call' = [call EXCEPT ![c].pc = "done", ![c].result = result,
                            ![c].value = value, ![c].head = head,
                            ![c].reported = reported]
    /\ kills' = IF result \in Reasons THEN [kills EXCEPT ![result] = @ + 1] ELSE kills

-----------------------------------------------------------------------------
(* The VM: request_vm arms the deadline, then the init script is loaded.   *)

StartVm(c) ==
    /\ At(c, {"start"})
    /\ Goto(c, IF call[c].hasInit THEN "init" ELSE OwnChunk(c))
    /\ UNCHANGED <<cacheVars, kills>>

\* The wall clock passes the deadline of a VM that is up.
Expire(c) ==
    /\ ~At(c, {"start", "done"}) /\ ~call[c].late
    /\ call' = [call EXCEPT ![c].late = TRUE]
    /\ UNCHANGED <<cacheVars, kills>>

LoadScript(c) ==
    /\ At(c, {"init", "main", "require"})
    /\ \/ Stat(c, IF At(c, {"init"}) THEN InitScript ELSE RouteScript)
       \/ LoadSteps(c)
    /\ UNCHANGED <<call, kills>>

\* A failed VM build: a hook reports the error, a route an uncommitted one,
\* whatever the init script had written by then.
BuildFails(c, result) ==
    End(c, result, NoValue, IF Is(c, Routed) THEN 500 ELSE 0, FALSE)

\* The init script is loaded: a load error is a Setup error.
InitLoaded(c) ==
    /\ At(c, {"init"}) /\ load[c].step \in Returned
    /\ IF load[c].step = "loaded"
       THEN /\ call' = [call EXCEPT ![c].pc = "initrun",
                                    ![c].defines = load[c].chunk.content = "hook"]
            /\ UNCHANGED kills
       ELSE BuildFails(c, "error")
    /\ Step(c, NoLoad)
    /\ UNCHANGED <<disk, chunks>>

-----------------------------------------------------------------------------
(* What a script does while it runs.                                       *)

Scripting(c) == At(c, {"initrun", "run"})

\* A binding: its entry checks the deadline before it does anything.
Binding(c, w) ==
    /\ Scripting(c) /\ ~call[c].late
    /\ call' = [call EXCEPT ![c].writer = w]
    /\ UNCHANGED <<cacheVars, kills>>

SendStatus(c) == ~call[c].writer.set /\ Binding(c, SetStatus(call[c].writer, 401))

\* server.print tells the script when the client is gone, and goes on.
ServerPrint(c) ==
    /\ call[c].writer.body = 0
    /\ \E delivered \in BOOLEAN : (Is(c, Routed) \/ delivered)
                                /\ Binding(c, Write(call[c].writer, delivered))

\* require: its searcher checks the deadline and loads through the cache.
Require(c) ==
    /\ Scripting(c) /\ ~call[c].late
    /\ call' = [call EXCEPT ![c].back = call[c].pc, ![c].pc = "require"]
    /\ UNCHANGED <<cacheVars, kills>>

\* The module is loaded or the script gets an error it may trap.
Required(c) ==
    /\ At(c, {"require"}) /\ load[c].step \in Returned
    /\ call' = [call EXCEPT ![c].pc = call[c].back, ![c].back = "none"]
    /\ Step(c, NoLoad)
    /\ UNCHANGED <<disk, chunks, kills>>

\* Slip: run trusts the script's own ending.
ClassifyByError(late, how) ==
    CASE how = "memory" -> "memory" [] how = "error" -> IF late THEN "timeout" ELSE "error"
      [] OTHER -> "ok"

\* run: an expired deadline is a timeout kill however the script ended (it
\* may have trapped the error and returned); a memory error is one otherwise.
Classify(late, how) == IF late THEN "timeout" ELSE how

Endings == {"ok", "error", "memory"}

\* The init script ends; the call goes on to its own chunk.
InitEnds(c, how) ==
    /\ At(c, {"initrun"})
    /\ LET r == Classify(call[c].late, how) IN
       \/ r # "ok" /\ BuildFails(c, r)
       \/ r = "ok" /\ Goto(c, OwnChunk(c)) /\ UNCHANGED kills
    /\ UNCHANGED cacheVars

\* probe_hooks reads the globals the init script left.
Probe(c) ==
    /\ At(c, {"built"}) /\ Is(c, {"probe"})
    /\ End(c, IF call[c].defines THEN "hook" ELSE "nohook", NoValue, 0, FALSE)
    /\ UNCHANGED cacheVars

-----------------------------------------------------------------------------
(* The preflight hooks.                                                    *)

ValidPermission(perm, extended) ==
    perm \in {"allow", "deny"} \/ (extended /\ perm = "kiosk")

\* Slip: the infile of a non-deny permission is not required.
ParseWithoutInfile(v, extended) ==
    IF v.shape \in {"string", "table"} /\ ValidPermission(v.perm, extended)
    THEN v.perm ELSE "invalid"

ParsePreflightValues(v, extended) ==
    IF /\ v.shape \in {"string", "table"}
       /\ ValidPermission(v.perm, extended)
       /\ v.perm = "deny" \/ v.infile = "string"
    THEN v.perm ELSE "invalid"

\* The committed head when the hook printed, the buffered one otherwise.
DirectStatus(w) == IF w.heads # <<>> THEN w.heads[1].status ELSE w.status

\* The hook ends.  A kill is a failure; a status set by the script answers
\* the request, even when the hook then failed; the returned values decide
\* otherwise.  A hook the script does not define is an error of the run.
HookEnds(c, how, v) ==
    /\ At(c, {"run"}) /\ Is(c, Hooks)
    /\ call[c].defines \/ how = "error"
    /\ LET r    == Classify(call[c].late, how)
           w    == call[c].writer
           perm == ParsePreflightValues(v, Is(c, {"pre_flight"})) IN
       IF r \in Reasons THEN End(c, r, NoValue, 0, FALSE)
       ELSE IF w.set THEN End(c, "direct", NoValue, DirectStatus(w), FALSE)
       ELSE IF r = "ok" /\ perm # "invalid" THEN End(c, "decision", v, 0, FALSE)
       ELSE End(c, "error", NoValue, 0, FALSE)
    /\ UNCHANGED cacheVars

-----------------------------------------------------------------------------
(* Routes and docroot scripts.                                             *)

\* RouteOutcome: the writer says what was committed.
RouteEnds(c, r) ==
    End(c, r, NoValue, HeadSnapshot(call[c].writer).status, call[c].writer.committed)

RouteLoaded(c) ==
    /\ At(c, {"main"}) /\ load[c].step \in Returned
    /\ CASE load[c].step = "loaded"   -> Goto(c, "run") /\ UNCHANGED kills
         [] load[c].step = "notfound" -> RouteEnds(c, "notfound")
         [] OTHER                     -> RouteEnds(c, "error")
    /\ Step(c, NoLoad)
    /\ UNCHANGED <<disk, chunks>>

\* A script that is neither .lua nor .elua.
NoExtension(c) ==
    /\ At(c, {"built"}) /\ Is(c, {"other"})
    /\ RouteEnds(c, "error")
    /\ UNCHANGED cacheVars

LuaRouteEnds(c, how) ==
    /\ At(c, {"run"}) /\ Is(c, {"lua"})
    /\ RouteEnds(c, Classify(call[c].late, how))
    /\ UNCHANGED cacheVars

\* run_elua: the page is read once, not through the cache.
OpenPage(c) ==
    /\ At(c, {"page"})
    /\ \/ /\ disk[RouteScript].content = "absent"
          /\ RouteEnds(c, "notfound")
       \/ /\ disk[RouteScript].content # "absent"
          /\ Goto(c, "html")
          /\ UNCHANGED kills
    /\ UNCHANGED cacheVars

\* HTML between the chunks: no deadline check, and a client that is gone
\* fails the route.
Html(c) ==
    /\ At(c, {"html"}) /\ call[c].writer.body = 0
    /\ \/ call' = [call EXCEPT ![c].writer = Write(@, TRUE)]
       \/ LET w == Write(call[c].writer, FALSE) IN
          call' = [call EXCEPT ![c].writer = w, ![c].pc = "done", ![c].result = "error",
                               ![c].head = w.status, ![c].reported = w.committed]
    /\ UNCHANGED kills
    /\ UNCHANGED cacheVars

\* A chunk runs; an unterminated one is the last and fails the route.
PageChunk(c) ==
    /\ At(c, {"html"})
    /\ Goto(c, "run")
    /\ UNCHANGED <<cacheVars, kills>>

ChunkEnds(c, how, terminated) ==
    /\ At(c, {"run"}) /\ Is(c, {"elua"})
    /\ LET r == Classify(call[c].late, how) IN
       \/ r # "ok" /\ RouteEnds(c, r)
       \/ r = "ok" /\ ~terminated /\ RouteEnds(c, "error")
       \/ r = "ok" /\ terminated /\ Goto(c, "html") /\ UNCHANGED kills
    /\ UNCHANGED cacheVars

PageEnds(c) ==
    /\ At(c, {"html"})
    /\ RouteEnds(c, "ok")
    /\ UNCHANGED cacheVars

-----------------------------------------------------------------------------
Host(c) ==
    \/ StartVm(c) \/ LoadScript(c) \/ InitLoaded(c) \/ Required(c)
    \/ Probe(c) \/ NoExtension(c) \/ RouteLoaded(c) \/ OpenPage(c) \/ PageEnds(c)

Script(c) ==
    \/ SendStatus(c) \/ ServerPrint(c) \/ Require(c) \/ Html(c) \/ PageChunk(c)
    \/ \E how \in Endings :
          \/ InitEnds(c, how) \/ LuaRouteEnds(c, how)
          \/ \E v \in HookValues : HookEnds(c, how, v)
          \/ \E terminated \in BOOLEAN : ChunkEnds(c, how, terminated)

\* A call that may still look at the files; what happens to them at other
\* times commutes with the steps of a running script.
Observed == \E c \in Vms : At(c, {"start", "init", "main", "require", "page"})

\* Other requests load scripts through the same cache.
OtherLoads ==
    /\ Observed
    /\ \E c \in Calls \ Vms : LoadSteps(c) \/ \E p \in Scripts : Stat(c, p)
    /\ UNCHANGED <<call, kills>>

Editor ==
    /\ Observed
    /\ \E p \in Scripts, content \in Contents \ {"hook"} : Edit(p, content)
    /\ UNCHANGED <<call, kills>>

Done == (\A c \in Vms : At(c, {"done"})) /\ UNCHANGED vars

Next ==
    \/ Editor \/ OtherLoads \/ Done
    \/ \E c \in Vms : Host(c) \/ Script(c) \/ Expire(c)

Spec == Init /\ [][Next]_vars

-----------------------------------------------------------------------------
TypeOK ==
    /\ CacheTypeOK
    /\ \A c \in Vms :
          /\ call[c].kind \in AllKinds
          /\ call[c].value \in HookValues
          /\ call[c].result \in Reasons \cup {"none", "ok", "error", "notfound", "hook",
                                              "nohook", "decision", "direct"}

Over(c) == At(c, {"done"})

\* FreshScript: the code a call loads through the bytecode cache is what the
\* file held at some moment of that load_function, although the stat, the
\* lookup, the read and the insert are separate steps that race with edits of
\* the file and with the loads of other calls.
FreshScript ==
    /\ TypeOK
    /\ \A c \in Calls : load[c].step = "loaded" =>
          load[c].chunk.version \in load[c].since

\* LateNeverAnswers: no hook decides or answers, and no .lua route succeeds,
\* once its deadline has passed, not even when the script traps the error the
\* instruction hook raises and returns normally.
LateNeverAnswers ==
    \A c \in Vms : Over(c) /\ call[c].late /\ Is(c, Hooks \cup {"lua"}) =>
        call[c].result \in {"timeout", "error", "notfound"}

\* HookFailsClosed: a preflight decision is only ever made by a hook that the
\* init script this very VM ran defines, that returned in time, that did not
\* answer by itself, with a permission of its own vocabulary and a file
\* unless it denies.
HookFailsClosed ==
    \A c \in Vms : call[c].result = "decision" =>
        /\ Is(c, Hooks) /\ call[c].hasInit /\ call[c].defines
        /\ ~call[c].late /\ ~call[c].writer.set
        /\ call[c].value.perm \in {"allow", "deny"} \cup
              IF Is(c, {"pre_flight"}) THEN {"kiosk"} ELSE {}
        /\ call[c].value.perm # "deny" => call[c].value.infile = "string"

\* CommitIsReported: a route reports its head committed exactly when the
\* transport was given one, and never two; the exception is a VM whose init
\* script wrote a body and then failed or was killed.
CommitIsReported ==
    \A c \in Vms : Over(c) /\ Is(c, Routed) =>
        /\ Len(call[c].writer.heads) <= 1
        /\ call[c].reported = (call[c].writer.heads # <<>>) \/ call[c].head = 500
=============================================================================
