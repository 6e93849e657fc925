----------------------------- MODULE BodyStream -----------------------------
(***************************************************************************)
(* One streamed response of the shell: the blocking thread that makes the  *)
(* body (the engine behind StreamSink, the docroot's file reader or a Lua  *)
(* route), the oneshot that carries the head, the bounded channel that     *)
(* carries the body, and the async handler with the client behind it.      *)
(* Dropping the channel's sender ends the body cleanly; only a BodyAbort   *)
(* item makes hyper reset the connection.                                  *)
(***************************************************************************)
EXTENDS Integers, Sequences, SequencesExt

CONSTANTS
    Modes,          \* the producers under study, a subset of AllModes
    Cap,            \* BODY_CHANNEL_CAP
    MaxChunks,      \* bound: the longest body
    Timeout,        \* the Lua deadline, in ticks
    AbortBudget,    \* the budget of abort_deadline()
    MaxSetup        \* bound: ticks that pass while a Lua VM is built

AllModes == {"image", "file", "static", "lua", "elua"}

ASSUME StreamAssumption ==
    /\ Modes \subseteq AllModes
    /\ Cap \in Nat \ {0}
    /\ MaxChunks \in Nat
    /\ {Timeout, AbortBudget, MaxSetup} \subseteq Nat

VARIABLES
    mode,       \* who makes the body
    pc,         \* the blocking thread: "setup", "run", "send", "abort", "done"
    size,       \* the chunks of the complete body
    built,      \* a Lua route's init script is over, its VM is built
    made,       \* the chunks made so far
    strict,     \* a failed write of the current chunk fails the producer
    lost,       \* the chunks a Lua write gave up although the client was there
    result,     \* how the producer ended
    outcome,    \* the oneshot: "none", "head", "ok" or "error"
    channel,    \* the body channel: chunk numbers, or Abort
    client,     \* the handler and its client: "waiting", "streaming", or an end
    received,   \* the chunks that reached the client
    clock, killBy, abortBy,
    gaveUp      \* the abort ran out of its budget

vars == <<mode, pc, size, built, made, strict, lost, result, outcome, channel,
          client, received, clock, killBy, abortBy, gaveUp>>

producerVars == <<mode, size, built>>
timeVars     == <<clock, killBy, abortBy>>
clientVars   == <<client, received>>

\* The marker sink::BodyAbort on the channel; chunks are numbered from 1.
Abort == 0

Scripted == mode \in {"lua", "elua"}

\* The receiver lives in the handler's future, then in the response body.
Listening == client \in {"waiting", "streaming"}

Full == Len(channel) = Cap

\* run_lua_route_blocking takes the write deadline before the VM is built.
WriteBy == Timeout

Init ==
    /\ mode \in Modes
    /\ pc = IF mode = "static" THEN "run" ELSE "setup"
    /\ size \in 0..MaxChunks
    /\ built = FALSE
    /\ made = 0
    /\ strict = TRUE
    /\ lost = {}
    /\ result = "none"
    /\ outcome = IF mode = "static" THEN "head" ELSE "none"
    /\ channel = <<>>
    /\ client = IF mode = "static" THEN "streaming" ELSE "waiting"
    /\ received = <<>>
    /\ clock = 0 /\ killBy = 0 /\ abortBy = 0
    /\ gaveUp = FALSE

-----------------------------------------------------------------------------
(* The engine: sipi_serve_image and sipi_serve_file over a StreamSink.     *)

\* The call ends; serve_streaming's tail answers if no body callback did.  A
\* failure inside apply() is not a status: the call still returns Ok.
Return(r, tail) ==
    /\ pc' = "done"
    /\ result' = r
    /\ outcome' = IF outcome = "none" THEN tail ELSE outcome
    /\ UNCHANGED <<made, strict, lost, channel, gaveUp>>

\* build_*_response fails, or finds the client gone between two stages: the
\* code is the answer, nothing was committed.
BuildFails ==
    /\ mode \in {"image", "file"} /\ pc = "setup"
    /\ Return("failed", "error")
    /\ UNCHANGED <<producerVars, timeVars, clientVars>>

\* build_*_response succeeds; a HEAD of an image is answered by the
\* tail.  A file body commits the head before the file is opened.
BuildOk ==
    /\ mode \in {"image", "file"} /\ pc = "setup"
    /\ \/ /\ mode = "image" /\ size = 0
          /\ Return("ok", "ok")
       \/ /\ mode = "file" \/ size > 0
          /\ pc' = "run"
          /\ outcome' = IF mode = "file" THEN "head" ELSE outcome
          /\ UNCHANGED <<made, strict, lost, result, channel, gaveUp>>
    /\ UNCHANGED <<producerVars, timeVars, clientVars>>

\* Slip: the first write does not commit the head.
MakeChunkWithoutHead ==
    /\ ~Scripted /\ pc = "run" /\ made < size
    /\ pc' = "send"
    /\ made' = made + 1
    /\ UNCHANGED <<producerVars, strict, lost, result, outcome, channel,
                   timeVars, clientVars, gaveUp>>

\* The encoder or the file reader has its next chunk: cb_write commits the
\* head and then blocks in the send.
MakeChunk ==
    /\ ~Scripted /\ pc = "run" /\ made < size
    /\ pc' = "send"
    /\ made' = made + 1
    /\ outcome' = IF outcome = "none" THEN "head" ELSE outcome
    /\ UNCHANGED <<producerVars, strict, lost, result, channel, timeVars,
                   clientVars, gaveUp>>

\* The encoder throws, the file cannot be opened, is shorter than announced
\* or cannot be read: the producer returns 1, which apply() drops.
ProduceFails ==
    /\ ~Scripted /\ pc = "run"
    /\ Return("failed", "ok")
    /\ UNCHANGED <<producerVars, timeVars, clientVars>>

\* The whole body has been sent.
ProduceEnds ==
    /\ ~Scripted /\ pc = "run" /\ made = size
    /\ Return("ok", "ok")
    /\ UNCHANGED <<producerVars, timeVars, clientVars>>

\* Slips: a send that drops the chunk when the channel is full, one on an
\* unbounded channel, and one that waits on although the receiver is gone.
SendDropsWhenFull ==
    /\ ~Scripted /\ pc = "send"
    /\ \/ /\ Listening
          /\ channel' = IF Full THEN channel ELSE Append(channel, made)
          /\ pc' = "run"
          /\ UNCHANGED <<made, strict, lost, result, outcome, gaveUp>>
       \/ ~Listening /\ Return("failed", "ok")
    /\ UNCHANGED <<producerVars, timeVars, clientVars>>

\* blocking_send: waits for room, fails once the receiver is gone.
BlockingSend ==
    /\ ~Scripted /\ pc = "send"
    /\ \/ /\ Listening /\ ~Full
          /\ channel' = Append(channel, made)
          /\ pc' = "run"
          /\ UNCHANGED <<made, strict, lost, result, outcome, gaveUp>>
       \/ /\ ~Listening
          /\ Return("failed", "ok")
    /\ UNCHANGED <<producerVars, timeVars, clientVars>>

-----------------------------------------------------------------------------
(* A Lua route: run_lua_route_blocking around LuaEnv::run_route.           *)

\* Slips: a failed route that drops the sender without the abort marker, and
\* one killed before its first write that answers nothing.
RouteEndsSilently(r) ==
    /\ result' = r
    /\ outcome' = IF outcome # "none" THEN outcome
                  ELSE IF r = "ok" THEN "ok" ELSE "error"
    /\ pc' = "done"
    /\ UNCHANGED <<made, strict, lost, channel, timeVars, gaveUp>>

\* run_route is over with r.  Without a commit the outcome is a complete
\* response; a killed or failed one that reports its commit is aborted: one
\* whose VM was not built reports none, whatever its init script wrote.
RouteEnds(r) ==
    /\ result' = r
    /\ outcome' = IF outcome # "none" THEN outcome
                  ELSE IF r = "ok" THEN "ok" ELSE "error"
    /\ IF outcome = "head" /\ built /\ r \in {"killed", "failed"}
       THEN pc' = "abort" /\ abortBy' = clock + AbortBudget
       ELSE pc' = "done" /\ UNCHANGED abortBy
    /\ UNCHANGED <<made, strict, lost, channel, clock, killBy, gaveUp>>

\* The VM and its bindings; the deadline is armed and the init script runs.
BuildVm ==
    /\ Scripted /\ pc = "setup"
    /\ \/ /\ pc' = "run"
          /\ killBy' = clock + Timeout
          /\ UNCHANGED <<made, strict, lost, result, outcome, channel, clock,
                         abortBy, gaveUp>>
       \/ RouteEnds("failed")
    /\ UNCHANGED <<producerVars, clientVars>>

\* The init script returns in time: the VM is built, and the route's own
\* script is there or not.
InitEnds ==
    /\ Scripted /\ pc = "run" /\ ~built /\ clock < killBy
    /\ built' = TRUE
    /\ \/ UNCHANGED <<pc, made, strict, lost, result, outcome, channel, timeVars,
                      gaveUp>>
       \/ RouteEnds("notfound")
    /\ UNCHANGED <<mode, size, clientVars>>

\* A write of the route: the first one commits the head.  A binding
\* (server.print, img:send) checks the deadline on entry and only tells the
\* script when its write fails; the HTML of an .elua page checks nothing and
\* fails the route.
Write(html) ==
    /\ Scripted /\ pc = "run" /\ made < size
    /\ IF html THEN mode = "elua" /\ built ELSE clock < killBy
    /\ pc' = "send"
    /\ made' = made + 1
    /\ strict' = html
    /\ outcome' = IF outcome = "none" THEN "head" ELSE outcome
    /\ UNCHANGED <<producerVars, lost, result, channel, timeVars, clientVars,
                   gaveUp>>

\* send_body_until fails: an HTML write ends the route with an error, a
\* binding returns false and the script goes on.
WriteFails ==
    IF strict
    THEN /\ RouteEnds("failed")
         /\ UNCHANGED <<producerVars, clientVars>>
    ELSE /\ pc' = "run"
         /\ lost' = IF Listening THEN lost \cup {made} ELSE lost
         /\ UNCHANGED <<producerVars, made, strict, result, outcome, channel,
                        timeVars, clientVars, gaveUp>>

\* Slip: the write waits for room without a deadline.
SendChunkBlocking ==
    /\ Scripted /\ pc = "send"
    /\ \/ /\ Listening /\ ~Full
          /\ channel' = Append(channel, made)
          /\ pc' = "run"
          /\ UNCHANGED <<producerVars, made, strict, lost, result, outcome,
                         timeVars, clientVars, gaveUp>>
       \/ ~Listening /\ WriteFails

\* send_body_until of a chunk: queued when there is room, given up when the
\* client is gone or the channel is still full at the write deadline.
SendChunk ==
    /\ Scripted /\ pc = "send"
    /\ \/ /\ Listening /\ ~Full
          /\ channel' = Append(channel, made)
          /\ pc' = "run"
          /\ UNCHANGED <<producerVars, made, strict, lost, result, outcome,
                         timeVars, clientVars, gaveUp>>
       \/ /\ ~Listening \/ (Full /\ clock >= WriteBy)
          /\ WriteFails

\* The script returns.  An expired deadline makes that a kill, unless HTML
\* followed the last chunk of an .elua page.
ScriptEnds ==
    /\ Scripted /\ pc = "run" /\ built /\ made = size
    /\ RouteEnds(IF clock < killBy \/ (mode = "elua" /\ strict)
                 THEN "ok" ELSE "killed")
    /\ UNCHANGED <<producerVars, clientVars>>

\* An uncaught error of the script, at any point of it.
ScriptFails ==
    /\ Scripted /\ pc = "run"
    /\ RouteEnds(IF clock < killBy THEN "failed" ELSE "killed")
    /\ UNCHANGED <<producerVars, clientVars>>

\* The instruction hook or the check at a binding's entry.
ScriptKilled ==
    /\ Scripted /\ pc = "run" /\ clock >= killBy
    /\ RouteEnds("killed")
    /\ UNCHANGED <<producerVars, clientVars>>

\* send_body_until of the abort marker.
SendAbort ==
    /\ pc = "abort"
    /\ \/ Listening /\ ~Full /\ channel' = Append(channel, Abort) /\ UNCHANGED gaveUp
       \/ ~Listening /\ UNCHANGED <<channel, gaveUp>>
       \/ Listening /\ Full /\ clock >= abortBy /\ gaveUp' = TRUE /\ UNCHANGED channel
    /\ pc' = "done"
    /\ UNCHANGED <<producerVars, made, strict, lost, result, outcome, timeVars,
                   clientVars>>

\* Time passes while some deadline is still ahead.
Tick ==
    /\ Scripted
    /\ \/ pc = "setup" /\ clock < MaxSetup
       \/ pc \in {"run", "send"} /\ clock < killBy
       \/ pc = "abort" /\ clock < abortBy
    /\ clock' = clock + 1
    /\ UNCHANGED <<producerVars, pc, made, strict, lost, result, outcome,
                   channel, clientVars, killBy, abortBy, gaveUp>>

-----------------------------------------------------------------------------
(* The handler, hyper and the client.                                      *)

threadVars == <<producerVars, pc, made, strict, lost, result, outcome,
                timeVars, gaveUp>>

\* The handler's await on the oneshot.
TakeOutcome ==
    /\ client = "waiting" /\ outcome # "none"
    /\ client' = CASE outcome = "head" -> "streaming"
                   [] outcome = "ok"   -> "answered"
                   [] OTHER            -> "refused"
    /\ UNCHANGED <<threadVars, channel, received>>

\* hyper polls the body: a chunk goes out, an abort resets the connection,
\* the end of a closed and drained channel ends the body cleanly.
PollBody ==
    /\ client = "streaming"
    /\ \/ /\ channel # <<>>
          /\ channel' = IF Head(channel) = Abort THEN <<>> ELSE Tail(channel)
          /\ IF Head(channel) = Abort
             THEN client' = "reset" /\ UNCHANGED received
             ELSE received' = Append(received, Head(channel)) /\ UNCHANGED client
       \/ /\ channel = <<>> /\ pc = "done"
          /\ client' = "clean"
          /\ UNCHANGED <<channel, received>>
    /\ UNCHANGED threadVars

\* The client disconnects: the future or the body is dropped, with the
\* receiver.
Leave ==
    /\ Listening
    /\ client' = "left"
    /\ channel' = <<>>
    /\ UNCHANGED <<threadVars, received>>

Over == pc = "done" /\ ~Listening /\ UNCHANGED vars

-----------------------------------------------------------------------------
Engine == BuildFails \/ BuildOk \/ MakeChunk \/ ProduceFails \/ ProduceEnds
          \/ BlockingSend

\* What happens to a script whatever it does.
Bounded == BuildVm \/ SendChunk \/ ScriptKilled \/ SendAbort

Script == (\E html \in BOOLEAN : Write(html)) \/ InitEnds \/ ScriptEnds \/ ScriptFails

Reader == TakeOutcome \/ PollBody

Next == Engine \/ Bounded \/ Script \/ Tick \/ Reader \/ Leave \/ Over

Spec == Init /\ [][Next]_vars

\* The threads are scheduled, codecs and file reads terminate, time passes.
\* A script may loop for ever, and nothing is assumed of the client.
ThreadFairness == WF_vars(Engine) /\ WF_vars(Bounded) /\ WF_vars(Tick)
FairThreads == Spec /\ ThreadFairness

\* Assumed of the client only where it is stated: it reads what it is sent.
ClientReads == WF_vars(Reader)

-----------------------------------------------------------------------------
\* Every variable keeps its type; the body channel never holds more than
\* BODY_CHANNEL_CAP items, which is what bounds a slow client's memory.
TypeOK ==
    /\ mode \in Modes
    /\ pc \in {"setup", "run", "send", "abort", "done"}
    /\ size \in 0..MaxChunks
    /\ made \in 0..size
    /\ strict \in BOOLEAN
    /\ lost \subseteq 1..made
    /\ result \in {"none", "ok", "failed", "killed", "notfound"}
    /\ outcome \in {"none", "head", "ok", "error"}
    /\ channel \in BoundedSeq(0..MaxChunks, Cap)
    /\ client \in {"waiting", "streaming", "answered", "refused", "clean",
                   "reset", "left"}
    /\ received \in BoundedSeq(1..MaxChunks, MaxChunks)
    /\ {clock, killBy, abortBy} \subseteq 0..(MaxSetup + Timeout + AbortBudget)
    /\ gaveUp \in BOOLEAN

\* A killed or failed Lua route whose head is out ends the client's body
\* with a reset: it reads as complete only when the client had stopped
\* reading for the whole abort budget, or when it was the init script that
\* wrote, and the route's own script never ran (run_lua_route_blocking).
AbortReachesClient ==
    Scripted /\ client = "clean" /\ result # "ok" =>
        gaveUp \/ ~built \/ result = "notfound"

\* Back-pressure loses nothing: a producer that ended well behind a client
\* that read to the end has delivered every chunk, once and in order
\* (blocking_send, the try_send loop of send_body_until).  Every variable
\* keeps its type, the channel its bound.
OkMeansWhole ==
    /\ TypeOK
    /\ client = "clean" /\ result = "ok" /\ lost = {}
          => received = [i \in 1..size |-> i]

\* Threads come back: that of a Lua route whatever the script does and however
\* little the client reads (send_body_until, the deadline hook), and that of
\* the engine, with its permit and its memory reservation, once the client
\* disconnects, even out of a full channel (cb_write's Err arm).
ThreadIsFreed == Scripted \/ client = "left" ~> pc = "done"

\* A client that keeps reading gets an end: an answer, the end of the body
\* or a reset (the handler's match on the outcome, stream_response).
ReaderIsServed == ClientReads => <>~Listening

\* "the client never sees a clean end" of a committed response that
\* terminates abnormally (the contract stated at BodyItem), for the engine
\* and the docroot.
CleanMeansComplete == client = "clean" /\ ~Scripted => result = "ok"

=============================================================================
