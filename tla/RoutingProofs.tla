---------------------------- MODULE RoutingProofs ----------------------------
(***************************************************************************)
(* Proofs about the request edge, for every set of requests and threads,   *)
(* every configuration, every file tree and every answer of the hooks.     *)
(*                                                                         *)
(* The inductive invariant IInv says of each request, by how far it has    *)
(* come, what it owns (Owns), under which decision it goes on (Serves),    *)
(* what was measured for its answer (Measured) and what its path was       *)
(* parsed to (Parses); and of the state, that no two requests share a      *)
(* thread (Alone), that a thread's trace context is its request's          *)
(* (Traced), and that what the cache holds was decided for the key it is   *)
(* found under (CachedGranted).  A step moves one request: it either ends  *)
(* it with an answer that carries neither an image nor part of a file      *)
(* (FinishStep), commits a head (CommitStep), or takes it on (MoveStep).   *)
(* What a path is parsed to and which bytes a range names is proved apart, *)
(* as lemmas about the operators of IiifRequest.                           *)
(***************************************************************************)
EXTENDS Routing, TLAPS

PCs == {"sent", "queued", "access", "hook", "resolve", "serve", "stream", "spool", "script",
        "docfile", "static", "done"}

\* The fields of an answer and of a request's progress.
AnswerFields(a) ==
    a = [status |-> a.status, body |-> a.body, span |-> a.span, length |-> a.length, sent |-> a.sent, of |-> a.of,
         size |-> a.size, watermark |-> a.watermark, acao |-> a.acao, credentials |-> a.credentials,
         keys |-> a.keys, sizes |-> a.sizes]
ProgressFields(q) ==
    q = [pc |-> q.pc, parsed |-> q.parsed, access |-> q.access, file |-> q.file, answer |-> q.answer,
         temps |-> q.temps, part |-> q.part, on |-> q.on, gone |-> q.gone, disagree |-> q.disagree,
         seen |-> q.seen]

Shapes ==
    /\ config \in Configuration
    /\ req \in [Requests -> Request]
    /\ rq = [r \in Requests |-> rq[r]]
    /\ \A r \in Requests : ProgressFields(rq[r]) /\ AnswerFields(rq[r].answer) /\ rq[r].pc \in PCs
    /\ trace = [t \in Threads |-> trace[t]]
    /\ disk \in [DOMAIN disk -> FileEntry] /\ <<"missing">> \in DOMAIN disk
    /\ changes \in Nat

\* What a request R that has come as far as q owns: the temp files of the parts
\* it has spooled, and a thread from admission to the end of its task.
Owns(q, R) ==
    /\ q.temps = IF q.pc \in {"spool", "queued", "script"} /\ R.multipart
                 THEN {i \in 1 .. q.part : R.parts[i] = "file"} ELSE {}
    /\ q.part \in 0 .. Len(R.parts)
    /\ q.pc \in {"queued", "script"} /\ R.multipart /\ R.route # "iiif" => q.part = Len(R.parts)
    /\ q.pc \in {"sent", "docfile"} \/ R.route = "iiif" => q.part = 0
    /\ q.pc \in {"access", "hook", "resolve", "serve"} => R.route = "iiif"
    /\ q.pc \in {"docfile", "static"} => R.route = "www"
    /\ q.pc \in {"spool", "script"} => R.route # "iiif"
    /\ q.on \in Threads \cup {None}
    /\ (q.on # None) <=> \/ q.pc \in {"access", "hook", "resolve", "serve", "script"}
                         \/ q.pc = "stream" /\ R.route = "iiif"

Alone ==
    \A r, o \in Requests : r # o /\ rq[r].on # None => rq[o].on # rq[r].on
Traced ==
    \A t \in Threads :
        /\ \A r \in Requests : rq[r].on = t /\ req[r].sampled => trace[t] = r
        /\ (\A r \in Requests : ~ (rq[r].on = t /\ req[r].sampled)) => trace[t] = None

Tasks ==
    /\ \A r \in Requests : Owns(rq[r], req[r])
    /\ Alone
    /\ Traced

\* The decision a request goes by is the hook's for what it asked, or the default.
Hooks(q) == IF q.parsed.kind = "FileDownload" THEN config.filePreflight ELSE config.preflight
Decided(q, R, decisions) ==
    IF Hooks(q)
    THEN [asked |-> [prefix |-> q.parsed.prefix, identifier |-> q.parsed.identifier, cred |-> R.cred,
                     file |-> q.parsed.kind = "FileDownload"],
          access |-> q.access] \in decisions
    ELSE q.access = DefaultAccess(q.parsed)

Inside(path) == changes = 0 => Entry(path).at = "inside"

\* A request is let through by a decision, and what it is given is what the
\* decision says.
Serves(q, R, decisions) ==
    /\ R.route = "iiif" /\ q.pc \notin {"sent", "done"} => config.ready
    /\ q.pc = "hook" => Hooks(q)
    /\ q.pc \in {"resolve", "serve"} =>
          /\ Decided(q, R, decisions)
          /\ q.parsed.kind \in {"Iiif", "FileDownload"} => Open(q.access.permission)
    /\ q.pc = "serve" => q.file = q.access.infile /\ Inside(q.access.infile)
    /\ q.pc \notin {"stream", "done"} => q.answer.body = None
    /\ q.answer.body \in {"image", "file"} =>
          /\ config.ready /\ Open(q.access.permission) /\ Decided(q, R, decisions)
          /\ q.file = q.access.infile /\ Inside(q.access.infile)
    /\ q.answer.body = "image" =>
          /\ q.answer.size = IF q.access.permission = "restrict" THEN q.access.size ELSE None
          /\ q.answer.watermark = IF q.access.permission = "restrict" THEN q.access.watermark ELSE None

\* What the cache holds was decided for the key it is found under.
CachedGranted ==
    \A e \in cached :
        [asked |-> [prefix |-> e.key.prefix, identifier |-> e.key.identifier, cred |-> e.key.cred, file |-> FALSE],
         access |-> e.access] \in granted

InOrder(range) == range.end # -1 => range.start <= range.end

\* A partial answer lies inside the file that was measured for it, which is the
\* file on disk as long as nothing has changed.
Measured(q, R) ==
    LET a == q.answer
    IN  /\ q.seen \in Nat /\ q.seen <= changes
        /\ q.pc \in {"stream", "done"} /\ a.status = 206 /\ a.body # None /\ InOrder(R.range) =>
              /\ a.span.start \in Nat /\ a.span.end \in Nat
              /\ a.span.start <= a.span.end /\ a.span.end < a.of
              /\ q.pc = "stream" => /\ a.length = a.span.end - a.span.start + 1
                                    /\ q.seen = changes => Entry(q.file).at # "missing" /\ Entry(q.file).size = a.of
              /\ q.pc = "done" /\ q.seen = changes => a.sent = a.span.end - a.span.start + 1

\* A request carries what its path was parsed to, once it is accepted.
Parses(q, R) ==
    q.parsed = Malformed \/ (q.parsed = ParseRequest(R.url) /\ q.parsed.ok /\ q.parsed.kind # "Redirect")

IInv ==
    /\ Shapes /\ Tasks /\ CachedGranted
    /\ \A r \in Requests : Serves(rq[r], req[r], granted) /\ Measured(rq[r], req[r]) /\ Parses(rq[r], req[r])

----------------------------------------------------------------------------
\* Steps of one request.

LEMMA AnswersHaveFields ==
    /\ AnswerFields(NoAnswer)
    /\ \A status : /\ AnswerFields(ErrorResponse(status))
                   /\ ErrorResponse(status).body = None /\ ErrorResponse(status).status = status
PROOF
  <1>1. AnswerFields(NoAnswer)
    BY Zenon DEF AnswerFields, NoAnswer
  <1>2. NoAnswer.body = None
    BY Zenon DEF NoAnswer
  <1>3. ASSUME NEW status
        PROVE  /\ AnswerFields(ErrorResponse(status))
               /\ ErrorResponse(status).body = None /\ ErrorResponse(status).status = status
    <2> DEFINE n == NoAnswer
               e == ErrorResponse(status)
    <2>1. e = [n EXCEPT !.status = status]
      BY Zenon DEF ErrorResponse
    <2>2. AnswerFields(n) /\ n.body = None
      BY <1>1, <1>2, Zenon
    <2> HIDE DEF e, n
    <2>3. e = [status |-> status, body |-> n.body, span |-> n.span, length |-> n.length, sent |-> n.sent,
               of |-> n.of, size |-> n.size, watermark |-> n.watermark, acao |-> n.acao,
               credentials |-> n.credentials, keys |-> n.keys, sizes |-> n.sizes]
      BY <2>1, <2>2, Zenon DEF AnswerFields
    <2>4. AnswerFields(e) /\ e.body = None /\ e.status = status
      BY <2>2, <2>3, Zenon DEF AnswerFields
    <2> QED
      BY <2>4, Zenon DEF e
  <1> QED
    BY <1>1, <1>3, Zenon

Answer(status, body, span, length, sent, of, size, watermark, acao, credentials, keys, sizes) ==
    [status |-> status, body |-> body, span |-> span, length |-> length, sent |-> sent, of |-> of, size |-> size,
     watermark |-> watermark, acao |-> acao, credentials |-> credentials, keys |-> keys, sizes |-> sizes]

LEMMA AnswerHasFields ==
    ASSUME NEW status, NEW body, NEW span, NEW length, NEW sent, NEW of, NEW size, NEW watermark, NEW acao,
           NEW credentials, NEW keys, NEW sizes
    PROVE  AnswerFields(Answer(status, body, span, length, sent, of, size, watermark, acao, credentials, keys, sizes))
PROOF
  BY Zenon DEF AnswerFields, Answer

LEMMA BecomesFields ==
    ASSUME Shapes, NEW r \in Requests, NEW new, Becomes(r, new)
    PROVE  /\ rq' = [o \in Requests |-> rq'[o]]
           /\ rq'[r] = new
           /\ \A o \in Requests : o # r => rq'[o] = rq[o]
PROOF
  BY Zenon DEF Shapes, Becomes

Progress(pc, parsed, access, file, answer, temps, part, on, gone, disagree, seen) ==
    [pc |-> pc, parsed |-> parsed, access |-> access, file |-> file, answer |-> answer, temps |-> temps,
     part |-> part, on |-> on, gone |-> gone, disagree |-> disagree, seen |-> seen]

LEMMA ProgressHasFields ==
    ASSUME NEW pc0, NEW parsed, NEW access, NEW file, NEW answer, NEW temps, NEW part, NEW on, NEW gone,
           NEW disagree, NEW seen
    PROVE  ProgressFields(Progress(pc0, parsed, access, file, answer, temps, part, on, gone, disagree, seen))
PROOF
  BY Zenon DEF ProgressFields, Progress

\* What a request is when its handler or task has returned a.
Over(q, a) ==
    Progress("done", q.parsed, q.access, q.file, IF q.gone THEN NoAnswer ELSE a, {}, q.part, None, q.gone,
             q.disagree, q.seen)

LEMMA EndedIsOver ==
    ASSUME Shapes, NEW r \in Requests, NEW a
    PROVE  Ended(r, a) = Over(rq[r], a)
PROOF
  <1> DEFINE q == rq[r]
             b == IF q.gone THEN NoAnswer ELSE a
             e == Ended(r, a)
  <1>1. ProgressFields(q)
    BY Zenon DEF Shapes
  <1>2. e = [q EXCEPT !.pc = "done", !.on = None, !.temps = {}, !.answer = b]
    BY Zenon DEF Ended
  <1> HIDE DEF q, b, e
  <1>3. e = Progress("done", q.parsed, q.access, q.file, b, {}, q.part, None, q.gone, q.disagree, q.seen)
    BY <1>1, <1>2, Zenon DEF ProgressFields, Progress
  <1> QED
    BY <1>3, Zenon DEF Over, q, b, e

\* The shape of the state survives a step of one request.
LEMMA KeepsShapes ==
    ASSUME Shapes, NEW r \in Requests, NEW new, Becomes(r, new),
           ProgressFields(new), AnswerFields(new.answer), new.pc \in PCs,
           trace' = [t \in Threads |-> trace'[t]], UNCHANGED <<config, req, disk, changes>>
    PROVE  Shapes'
PROOF
  <1>1. /\ rq' = [o \in Requests |-> rq'[o]] /\ rq'[r] = new
        /\ \A o \in Requests : o # r => rq'[o] = rq[o]
    BY BecomesFields, Zenon
  <1>2. \A o \in Requests : ProgressFields(rq'[o]) /\ AnswerFields(rq'[o].answer) /\ rq'[o].pc \in PCs
    BY <1>1, Zenon DEF Shapes
  <1> QED
    BY <1>1, <1>2, Zenon DEF Shapes

----------------------------------------------------------------------------
\* Tasks.

\* A step that neither takes nor leaves a thread.
LEMMA MoveTasks ==
    ASSUME Shapes, Tasks, NEW r \in Requests, NEW new, Becomes(r, new),
           Owns(new, req[r]), new.on = rq[r].on, UNCHANGED <<req, trace>>
    PROVE  Tasks'
PROOF
  <1>1. rq'[r] = new /\ \A o \in Requests : o # r => rq'[o] = rq[o]
    BY BecomesFields, Zenon
  <1>2. \A o \in Requests : rq'[o].on = rq[o].on /\ Owns(rq'[o], req[o])
    BY <1>1, Zenon DEF Tasks
  <1> QED
    BY <1>2 DEF Tasks, Alone, Traced

\* A step that gives the thread back and clears its trace context.
LEMMA FinishTasks ==
    ASSUME Shapes, Tasks, NEW r \in Requests, NEW new, Becomes(r, new),
           Owns(new, req[r]), new.on = None, ClearTrace(r), UNCHANGED req
    PROVE  Tasks' /\ trace' = [t \in Threads |-> trace'[t]]
PROOF
  <1>0. None \notin Requests /\ None \notin Threads
    BY RoutingAssumption, Zenon
  <1>1. rq'[r].on = None /\ \A o \in Requests : o # r => rq'[o] = rq[o]
    BY BecomesFields, Zenon
  <1>2. \A o \in Requests : Owns(rq'[o], req[o])
    BY <1>1, BecomesFields, Zenon DEF Tasks
  <1>3. Alone'
    BY <1>1, Zenon DEF Tasks, Alone
  <1>4. trace = [t \in Threads |-> trace[t]] /\ rq[r].on \in Threads \cup {None}
    BY Zenon DEF Shapes, Tasks, Owns
  <1>5. CASE rq[r].on # None /\ req[r].sampled
    <2>1. trace' = [trace EXCEPT ![rq[r].on] = None]
      BY <1>5, Zenon DEF ClearTrace
    <2>2. \A o \in Requests : o # r => rq[o].on # rq[r].on
      BY <1>5, Zenon DEF Tasks, Alone
    <2>3. ASSUME NEW t \in Threads
          PROVE  /\ \A o \in Requests : rq'[o].on = t /\ req[o].sampled => trace'[t] = o
                 /\ (\A o \in Requests : ~ (rq'[o].on = t /\ req[o].sampled)) => trace'[t] = None
      <3>1. CASE t = rq[r].on
        BY <1>0, <1>1, <1>4, <2>1, <2>2, <3>1, Zenon
      <3>2. CASE t # rq[r].on
        <4>1. trace'[t] = trace[t] /\ \A o \in Requests : rq'[o].on = t <=> rq[o].on = t
          BY <1>0, <1>1, <1>4, <2>1, <3>2, Zenon
        <4> QED
          BY <4>1, Zenon DEF Tasks, Traced
      <3> QED
        BY <3>1, <3>2, Zenon
    <2>4. Traced'
      BY <2>3, Zenon DEF Traced
    <2> QED
      BY <1>2, <1>3, <1>4, <2>1, <2>4, Zenon DEF Tasks
  <1>6. CASE ~ (rq[r].on # None /\ req[r].sampled)
    <2>1. trace' = trace
      BY <1>6, Zenon DEF ClearTrace
    <2>2. \A t \in Threads : \A o \in Requests :
             rq'[o].on = t /\ req[o].sampled <=> rq[o].on = t /\ req[o].sampled
      BY <1>0, <1>1, <1>6, Zenon
    <2>3. Traced'
      BY <2>1, <2>2, Zenon DEF Tasks, Traced
    <2> QED
      BY <1>2, <1>3, <1>4, <2>1, <2>3, Zenon DEF Tasks
  <1> QED
    BY <1>5, <1>6, Zenon

LEMMA OverOwns ==
    ASSUME NEW q, NEW R, Owns(q, R), NEW a
    PROVE  Owns(Over(q, a), R)
PROOF
  BY Zenon DEF Owns, Over, Progress

\* The other requests see nothing of a step, whatever decisions it adds.
LEMMA OneMoves ==
    ASSUME IInv, NEW r \in Requests, NEW new, Shapes', Tasks', CachedGranted',
           rq'[r] = new, \A o \in Requests : o # r => rq'[o] = rq[o],
           Serves(new, req[r], granted'), Measured(new, req[r]), Parses(new, req[r]),
           granted \subseteq granted', UNCHANGED <<config, req, disk, changes>>
    PROVE  IInv'
PROOF
  <1>1. ASSUME NEW o \in Requests
        PROVE  Serves(rq'[o], req[o], granted')
    <2>1. CASE o = r
      BY <2>1, Zenon
    <2>2. CASE o # r
      <3>1. Serves(rq[o], req[o], granted) /\ rq'[o] = rq[o]
        BY <2>2, Zenon DEF IInv
      <3>2. Decided(rq[o], req[o], granted) => Decided(rq[o], req[o], granted')
        BY Zenon DEF Decided
      <3> QED
        BY <3>1, <3>2, Zenon DEF Serves
    <2> QED
      BY <2>1, <2>2, Zenon
  <1>2. \A o \in Requests : Measured(rq'[o], req[o]) /\ Parses(rq'[o], req[o])
    BY Zenon DEF IInv
  <1>3. \A o \in Requests : Serves(rq[o], req[o], granted)'
    <2> TAKE o \in Requests
    <2>1. \A path : Inside(path)' <=> Inside(path)
      BY Zenon DEF Inside, Entry
    <2>2. Decided(rq[o], req[o], granted)' <=> Decided(rq'[o], req[o], granted')
      BY Zenon DEF Decided, Hooks, DefaultAccess
    <2>3. Hooks(rq[o])' <=> Hooks(rq'[o])
      BY Zenon DEF Hooks
    <2> QED
      BY <1>1, <2>1, <2>2, <2>3, Zenon DEF Serves
  <1>4. \A o \in Requests : Measured(rq[o], req[o])' /\ Parses(rq[o], req[o])'
    <2>1. \A o \in Requests : Parses(rq[o], req[o])'
      BY <1>2, Zenon DEF Parses
    <2>2. \A o \in Requests : Measured(rq[o], req[o])'
      <3> TAKE o \in Requests
      <3>1. \A path : Entry(path)' = Entry(path)
        BY Zenon DEF Entry
      <3> QED
        BY <1>2, <3>1, Zenon DEF Measured
    <2> QED
      BY <2>1, <2>2, Zenon
  <1> QED
    BY <1>3, <1>4, Zenon DEF IInv

\* An answer without the bytes of an image or of a part of a file.
Harmless(a) ==
    /\ AnswerFields(a)
    /\ a.body \notin {"image", "file"}
    /\ ~ (a.status = 206 /\ a.body # None)

LEMMA FinishStep ==
    ASSUME IInv, NEW r \in Requests, NEW a, Harmless(a), Finish(r, a),
           granted \subseteq granted', CachedGranted', UNCHANGED <<config, req, disk, changes>>
    PROVE  IInv'
PROOF
  <1> DEFINE q == rq[r]
             new == Over(q, a)
  <1>1. Becomes(r, new) /\ ClearTrace(r)
    BY EndedIsOver, Zenon DEF Finish, IInv
  <1>2. Owns(new, req[r])
    BY OverOwns, Zenon DEF IInv, Tasks
  <1>3. /\ ProgressFields(new) /\ new.pc = "done" /\ new.on = None
        /\ new.answer = IF q.gone THEN NoAnswer ELSE a
        /\ new.parsed = q.parsed /\ new.seen = q.seen
    BY ProgressHasFields, Zenon DEF Over, Progress
  <1>4. Harmless(NoAnswer)
    <2>1. NoAnswer.body = None
      BY Zenon DEF NoAnswer
    <2> QED
      BY <2>1, AnswersHaveFields, Zenon DEF Harmless, None
  <1>5. Harmless(new.answer)
    BY <1>3, <1>4, Zenon
  <1> HIDE DEF new
  <1>6. Tasks' /\ trace' = [t \in Threads |-> trace'[t]]
    BY <1>1, <1>2, <1>3, FinishTasks, Zenon DEF IInv
  <1>7. Shapes'
    BY <1>1, <1>3, <1>5, <1>6, KeepsShapes, Zenon DEF PCs, Harmless, IInv
  <1>8. Serves(new, req[r], granted')
    BY <1>3, <1>5, Zenon DEF Serves, Harmless
  <1>9. Measured(new, req[r])
    BY <1>3, <1>5, Zenon DEF Measured, Harmless, IInv
  <1>10. Parses(new, req[r])
    BY <1>3, Zenon DEF Parses, IInv
  <1> QED
    BY <1>1, <1>6, <1>7, <1>8, <1>9, <1>10, BecomesFields, OneMoves, Zenon DEF IInv

\* A step to a progress that fits.
LEMMA MoveStep ==
    ASSUME IInv, NEW r \in Requests, NEW new, Becomes(r, new),
           ProgressFields(new), AnswerFields(new.answer), new.pc \in PCs,
           Owns(new, req[r]), new.on = rq[r].on,
           Serves(new, req[r], granted'), Measured(new, req[r]), Parses(new, req[r]),
           granted \subseteq granted', CachedGranted', UNCHANGED <<config, req, trace, disk, changes>>
    PROVE  IInv'
PROOF
  <1>1. trace' = [t \in Threads |-> trace'[t]]
    BY Zenon DEF Shapes, IInv
  <1>2. Shapes' /\ Tasks'
    BY <1>1, MoveTasks, KeepsShapes, Zenon DEF IInv
  <1> QED
    BY <1>2, BecomesFields, OneMoves, Zenon DEF IInv

\* The answers that end a request before a body follows.
LEMMA HarmlessErrors ==
    /\ \A status : Harmless(ErrorResponse(status))
    /\ \A r \in Requests : Harmless(CorsPreflight(r))
    /\ \A p0 : Harmless(Redirect(p0))
    /\ \A a : AnswerFields(a) => Harmless([a EXCEPT !.body = None])
    /\ \A status \in {200, 404, 500} : Harmless([ErrorResponse(status) EXCEPT !.body = "script"])
PROOF
  <1>1. \A status : Harmless(ErrorResponse(status))
    BY AnswersHaveFields, Zenon DEF Harmless, None
  <1>2. ASSUME NEW r \in Requests
        PROVE  Harmless(CorsPreflight(r))
    <2> DEFINE a == ErrorResponse(204)
               b == req[r].origin # None
               c == CorsPreflight(r)
    <2>1. AnswerFields(a) /\ a.body = None
      BY AnswersHaveFields, ZenonT(30)
    <2>2. c = [a EXCEPT !.acao = req[r].origin, !.credentials = b]
      BY Zenon DEF CorsPreflight, Echo
    <2> HIDE DEF a, b, c
    <2>3. c = Answer(a.status, a.body, a.span, a.length, a.sent, a.of, a.size, a.watermark, req[r].origin,
                     b, a.keys, a.sizes)
      BY <2>1, <2>2, Zenon DEF AnswerFields, Answer
    <2>4. AnswerFields(c) /\ c.body = None
      BY <2>1, <2>3, AnswerHasFields, Zenon DEF Answer
    <2> QED
      BY <2>4, Zenon DEF Harmless, None, c
  <1>3. \A p0 : Harmless(Redirect(p0))
    BY <1>1, ZenonT(30) DEF Redirect
  <1>4. ASSUME NEW a, AnswerFields(a)
        PROVE  Harmless([a EXCEPT !.body = None])
    <2> DEFINE c == [a EXCEPT !.body = None]
    <2>0. c = [a EXCEPT !.body = None]
      BY Zenon
    <2> HIDE DEF c
    <2>1. c = Answer(a.status, None, a.span, a.length, a.sent, a.of, a.size, a.watermark, a.acao,
                     a.credentials, a.keys, a.sizes)
      BY <1>4, <2>0, Zenon DEF AnswerFields, Answer
    <2>2. AnswerFields(c) /\ c.body = None
      BY <2>1, AnswerHasFields, Zenon DEF Answer
    <2>3. Harmless(c)
      BY <2>2, Zenon DEF Harmless, None
    <2> QED
      BY <2>3, Zenon DEF c
  <1>5. ASSUME NEW status \in {200, 404, 500}
        PROVE  Harmless([ErrorResponse(status) EXCEPT !.body = "script"])
    <2> DEFINE a == ErrorResponse(status)
               c == [a EXCEPT !.body = "script"]
    <2>0. c = [a EXCEPT !.body = "script"]
      BY Zenon
    <2>1. AnswerFields(a) /\ a.status = status
      BY AnswersHaveFields, ZenonT(30)
    <2> HIDE DEF a, c
    <2>2. c = Answer(a.status, "script", a.span, a.length, a.sent, a.of, a.size, a.watermark, a.acao,
                     a.credentials, a.keys, a.sizes)
      BY <2>0, <2>1 DEF AnswerFields, Answer
    <2>3. AnswerFields(c) /\ c.body = "script" /\ c.status # 206
      BY <2>1, <2>2, AnswerHasFields DEF Answer
    <2>4. Harmless(c)
      BY <2>3, Zenon DEF Harmless
    <2> QED
      BY <2>4, Zenon DEF a, c
  <1> QED
    BY <1>1, <1>2, <1>3, <1>4, <1>5, Zenon

\* The gate of the handler and the queue.
LEMMA NoRefusal ==
    ASSUME NEW c, NEW p0, IiifRefusal(c, p0) = 0
    PROVE  c.ready /\ p0.ok
PROOF
  BY DEF IiifRefusal

LEMMA IiifStep ==
    ASSUME IInv, NEW r \in Requests, Iiif(r)
    PROVE  IInv'
PROOF
  <1> DEFINE p == ParseRequest(req[r].url)
             refusal == IiifRefusal(config, p)
             q == rq[r]
             new == [q EXCEPT !.pc = "queued", !.parsed = p]
  <1>1. /\ q.pc = "sent" /\ req[r].route = "iiif"
        /\ \/ Finish(r, CorsPreflight(r))
           \/ Finish(r, ErrorResponse(refusal))
           \/ Finish(r, Redirect(p))
           \/ refusal = 0 /\ p.kind # "Redirect" /\ Becomes(r, new) /\ UNCHANGED trace
        /\ UNCHANGED <<config, req, cached, granted, disk, changes>>
    BY Zenon DEF Iiif, At
  <1>2. CachedGranted'
    BY <1>1, Zenon DEF IInv, CachedGranted
  <1>3. CASE Finish(r, CorsPreflight(r)) \/ Finish(r, ErrorResponse(refusal)) \/ Finish(r, Redirect(p))
    BY <1>1, <1>2, <1>3, HarmlessErrors, FinishStep
  <1>4. CASE refusal = 0 /\ p.kind # "Redirect" /\ Becomes(r, new) /\ UNCHANGED trace
    <2>0. new = [q EXCEPT !.pc = "queued", !.parsed = p]
      BY Zenon
    <2>1. config.ready /\ p.ok
      BY <1>4, NoRefusal, Zenon
    <2>2. /\ ProgressFields(q) /\ AnswerFields(q.answer) /\ Owns(q, req[r])
          /\ Serves(q, req[r], granted) /\ Measured(q, req[r])
      BY Zenon DEF IInv, Shapes, Tasks
    <2> HIDE DEF p, refusal, q, new
    <2>3. new = Progress("queued", p, q.access, q.file, q.answer, q.temps, q.part, q.on, q.gone, q.disagree, q.seen)
      BY <2>0, <2>2, ZenonT(30) DEF ProgressFields, Progress
    <2>4. ProgressFields(new) /\ AnswerFields(new.answer) /\ new.pc = "queued" /\ new.on = q.on
      BY <2>2, <2>3, ProgressHasFields, Zenon DEF Progress
    <2>5. Owns(new, req[r])
      BY <1>1, <2>2, <2>3 DEF Owns, Progress
    <2>6. Serves(new, req[r], granted)
      BY <1>1, <2>1, <2>2, <2>3, Zenon DEF Serves, Progress, None
    <2>7. Measured(new, req[r])
      BY <2>2, <2>3, Zenon DEF Measured, Progress
    <2>8. Parses(new, req[r])
      BY <1>4, <2>1, <2>3, Zenon DEF Parses, Progress, p
    <2> QED
      BY <1>1, <1>2, <1>4, <2>4, <2>5, <2>6, <2>7, <2>8, MoveStep, Zenon DEF PCs, q
  <1> QED
    BY <1>1, <1>3, <1>4, Zenon

LEMMA AdmitStep ==
    ASSUME IInv, NEW r \in Requests, Admit(r)
    PROVE  IInv'
PROOF
  <1>0. None \notin Requests /\ None \notin Threads
    BY RoutingAssumption, Zenon
  <1>1. PICK t \in Threads :
           /\ \A o \in Requests : rq[o].on # t
           /\ IF req[r].route # "iiif" /\ ~config.lua THEN Finish(r, ErrorResponse(500))
              ELSE /\ Becomes(r, [rq[r] EXCEPT !.on = t, !.pc = IF req[r].route = "iiif" THEN "access" ELSE "script"])
                   /\ trace' = IF req[r].sampled THEN [trace EXCEPT ![t] = r] ELSE trace
    BY Zenon DEF Admit
  <1>2. rq[r].pc = "queued" /\ UNCHANGED <<config, req, cached, granted, disk, changes>>
    BY Zenon DEF Admit, At
  <1>3. CachedGranted'
    BY <1>2, Zenon DEF IInv, CachedGranted
  <1>4. CASE req[r].route # "iiif" /\ ~config.lua
    BY <1>1, <1>2, <1>3, <1>4, HarmlessErrors, FinishStep
  <1>5. CASE ~ (req[r].route # "iiif" /\ ~config.lua)
    <2> DEFINE q == rq[r]
               pc == IF req[r].route = "iiif" THEN "access" ELSE "script"
               new == [q EXCEPT !.on = t, !.pc = pc]
    <2>1. Becomes(r, new) /\ trace' = IF req[r].sampled THEN [trace EXCEPT ![t] = r] ELSE trace
      BY <1>1, <1>5, Zenon
    <2>2. /\ ProgressFields(q) /\ AnswerFields(q.answer) /\ Owns(q, req[r])
          /\ Serves(q, req[r], granted) /\ Measured(q, req[r]) /\ Parses(q, req[r])
      BY Zenon DEF IInv, Shapes, Tasks
    <2>3. new = [q EXCEPT !.on = t, !.pc = pc] /\ q.pc = "queued"
      BY <1>2, Zenon
    <2>4. pc = IF req[r].route = "iiif" THEN "access" ELSE "script"
      BY Zenon
    <2> HIDE DEF q, pc, new
    <2>5. new = Progress(pc, q.parsed, q.access, q.file, q.answer, q.temps, q.part, t, q.gone, q.disagree, q.seen)
      BY <2>2, <2>3, ZenonT(30) DEF ProgressFields, Progress
    <2>6. ProgressFields(new) /\ AnswerFields(new.answer) /\ new.pc \in PCs /\ new.on = t
      BY <2>2, <2>4, <2>5, ProgressHasFields, Zenon DEF Progress, PCs
    <2>7. Owns(new, req[r])
      BY <1>0, <2>2, <2>3, <2>4, <2>5 DEF Owns, Progress
    <2>8. Serves(new, req[r], granted)
      BY <2>2, <2>3, <2>4, <2>5, Zenon DEF Serves, Progress, None
    <2>9. Measured(new, req[r]) /\ Parses(new, req[r])
      BY <2>2, <2>4, <2>5, Zenon DEF Measured, Parses, Progress
    <2>10. rq'[r] = new /\ \A o \in Requests : o # r => rq'[o] = rq[o]
      BY <2>1, BecomesFields, Zenon DEF IInv
    <2>11. trace = [u \in Threads |-> trace[u]]
      BY Zenon DEF IInv, Shapes
    <2>12. \A o \in Requests : Owns(rq'[o], req[o])
      BY <2>7, <2>10, Zenon DEF IInv, Tasks
    <2>13. Alone'
      BY <1>1, <2>6, <2>10 DEF IInv, Tasks, Alone
    <2>14. Traced'
      <3>1. ASSUME NEW u \in Threads
            PROVE  /\ \A o \in Requests : rq'[o].on = u /\ req[o].sampled => trace'[u] = o
                   /\ (\A o \in Requests : ~ (rq'[o].on = u /\ req[o].sampled)) => trace'[u] = None
        <4>1. CASE u = t
          <5>1. trace[t] = None
            BY <1>1, Zenon DEF IInv, Tasks, Traced
          <5>2. \A o \in Requests : rq'[o].on = t <=> o = r
            BY <1>1, <2>6, <2>10, Zenon
          <5> QED
            BY <2>1, <2>11, <4>1, <5>1, <5>2, Zenon
        <4>2. CASE u # t
          <5>1. q.on # u
            BY <1>0, <2>2, <2>3, Zenon DEF Owns
          <5>2. trace'[u] = trace[u] /\ \A o \in Requests : rq'[o].on = u <=> rq[o].on = u
            BY <2>1, <2>6, <2>10, <2>11, <4>2, <5>1, Zenon DEF q
          <5> QED
            BY <5>2, Zenon DEF IInv, Tasks, Traced
        <4> QED
          BY <4>1, <4>2, Zenon
      <3> QED
        BY <1>2, <3>1, Zenon DEF Traced
    <2>15. Tasks'
      BY <1>2, <2>12, <2>13, <2>14, Zenon DEF Tasks
    <2>16. trace' = [u \in Threads |-> trace'[u]]
      BY <2>1, <2>11, Zenon
    <2>17. Shapes'
      BY <1>2, <2>1, <2>6, <2>16, KeepsShapes, Zenon DEF IInv
    <2> QED
      BY <1>2, <1>3, <2>8, <2>9, <2>10, <2>15, <2>17, OneMoves, Zenon
  <1> QED
    BY <1>4, <1>5, Zenon

----------------------------------------------------------------------------
\* Access.

LEMMA GrantStep ==
    ASSUME IInv, NEW r \in Requests, NEW access, Grant(r, access), rq[r].pc \in {"access", "hook"},
           IF Hooked(r) THEN [asked |-> Asked(r), access |-> access] \in granted'
                        ELSE access = DefaultAccess(rq[r].parsed),
           granted \subseteq granted', CachedGranted', UNCHANGED <<config, req, disk, changes>>
    PROVE  IInv'
PROOF
  <1> DEFINE q == rq[r]
             new == [q EXCEPT !.pc = "resolve", !.access = access]
  <1>1. CASE Finish(r, ErrorResponse(401))
    BY <1>1, HarmlessErrors, FinishStep, ZenonT(30)
  <1>2. CASE /\ q.parsed.kind \in {"Iiif", "FileDownload"} => Open(access.permission)
             /\ Becomes(r, new) /\ UNCHANGED trace
    <2>1. new = [q EXCEPT !.pc = "resolve", !.access = access]
      BY Zenon
    <2>2. /\ ProgressFields(q) /\ AnswerFields(q.answer) /\ Owns(q, req[r])
          /\ Serves(q, req[r], granted) /\ Measured(q, req[r]) /\ Parses(q, req[r])
      BY Zenon DEF IInv, Shapes, Tasks
    <2>3. IF Hooks(q)
          THEN [asked |-> [prefix |-> q.parsed.prefix, identifier |-> q.parsed.identifier, cred |-> req[r].cred,
                           file |-> q.parsed.kind = "FileDownload"],
                access |-> access] \in granted'
          ELSE access = DefaultAccess(q.parsed)
      BY Zenon DEF Hooked, Hooks, IsFile, Asked
    <2>4. q.pc \in {"access", "hook"}
      BY Zenon
    <2> HIDE DEF q, new
    <2>5. new = Progress("resolve", q.parsed, access, q.file, q.answer, q.temps, q.part, q.on, q.gone, q.disagree,
                         q.seen)
      BY <2>1, <2>2, ZenonT(30) DEF ProgressFields, Progress
    <2>6. /\ ProgressFields(new) /\ AnswerFields(new.answer) /\ new.pc = "resolve" /\ new.on = q.on
          /\ new.parsed = q.parsed /\ new.access = access /\ new.answer = q.answer
      BY <2>2, <2>5, ProgressHasFields, Zenon DEF Progress
    <2>7. Owns(new, req[r])
      BY <2>2, <2>4, <2>5, Zenon DEF Owns, Progress
    <2>8. Decided(new, req[r], granted')
      <3>1. Hooks(new) <=> Hooks(q)
        BY <2>6, Zenon DEF Hooks
      <3> QED
        BY <2>3, <2>6, <3>1, Zenon DEF Decided
    <2>9. config.ready /\ q.answer.body = None
      BY <2>2, <2>4, Zenon DEF Owns, Serves
    <2>10. Serves(new, req[r], granted')
      BY <1>2, <2>6, <2>8, <2>9, Zenon DEF Serves, None
    <2>11. Measured(new, req[r]) /\ Parses(new, req[r])
      BY <2>2, <2>5, Zenon DEF Measured, Parses, Progress
    <2> QED
      BY <1>2, <2>6, <2>7, <2>10, <2>11, MoveStep, Zenon DEF PCs, q
  <1> QED
    BY <1>1, <1>2, Zenon DEF Grant

LEMMA AccessStep ==
    ASSUME IInv, NEW r \in Requests, DefaultGrant(r) \/ CacheHit(r)
    PROVE  IInv'
PROOF
  <1>1. rq[r].pc = "access" /\ UNCHANGED <<config, req, cached, granted, disk, changes>>
    BY Zenon DEF DefaultGrant, CacheHit, At
  <1>2. CachedGranted'
    BY <1>1, Zenon DEF IInv, CachedGranted
  <1>3. CASE DefaultGrant(r)
    BY <1>1, <1>2, <1>3, GrantStep, Zenon DEF DefaultGrant
  <1>4. CASE CacheHit(r)
    <2>1. PICK e \in cached : e.key = Key(r) /\ Grant(r, e.access)
      BY <1>4, Zenon DEF CacheHit
    <2>2. Hooked(r) /\ ~IsFile(r)
      BY <1>4, Zenon DEF CacheHit
    <2>3. [asked |-> [prefix |-> e.key.prefix, identifier |-> e.key.identifier, cred |-> e.key.cred, file |-> FALSE],
           access |-> e.access] \in granted
      BY Zenon DEF IInv, CachedGranted
    <2>4. Asked(r) = [prefix |-> e.key.prefix, identifier |-> e.key.identifier, cred |-> e.key.cred, file |-> FALSE]
      <3>1. /\ e.key.prefix = rq[r].parsed.prefix /\ e.key.identifier = rq[r].parsed.identifier
            /\ e.key.cred = req[r].cred
        BY <2>1 DEF Key
      <3>2. (rq[r].parsed.kind = "FileDownload") = FALSE
        BY <2>2, Zenon DEF IsFile
      <3> QED
        BY <3>1, <3>2, Zenon DEF Asked
    <2> QED
      BY <1>1, <1>2, <2>1, <2>2, <2>3, <2>4, GrantStep, Zenon
  <1> QED
    BY <1>3, <1>4, Zenon

LEMMA HookStep ==
    ASSUME IInv, NEW r \in Requests, RunHook(r)
    PROVE  IInv'
PROOF
  <1>1. PICK reply \in Replies :
           CASE ~config.lua \/ reply.type = "error" ->
                    Finish(r, ErrorResponse(500)) /\ UNCHANGED <<cached, granted>>
             [] config.lua /\ reply.type = "direct" ->
                    Finish(r, ErrorResponse(302)) /\ UNCHANGED <<cached, granted>>
             [] OTHER ->
                    /\ Grant(r, AccessFrom(reply))
                    /\ granted' = granted \cup {[asked |-> Asked(r), access |-> AccessFrom(reply)]}
                    /\ cached' = IF config.cache /\ ~IsFile(r)
                                 THEN cached \cup {[key |-> Key(r), access |-> AccessFrom(reply)]} ELSE cached
    BY Zenon DEF RunHook
  <1>2. rq[r].pc = "hook" /\ UNCHANGED <<config, req, disk, changes>>
    BY Zenon DEF RunHook, At
  <1>3. ASSUME NEW status, Finish(r, ErrorResponse(status)), UNCHANGED <<cached, granted>>
        PROVE  IInv'
    <2>1. CachedGranted'
      BY <1>3, Zenon DEF IInv, CachedGranted
    <2> QED
      BY <1>2, <1>3, <2>1, HarmlessErrors, FinishStep, Zenon
  <1>4. CASE /\ Grant(r, AccessFrom(reply))
             /\ granted' = granted \cup {[asked |-> Asked(r), access |-> AccessFrom(reply)]}
             /\ cached' = IF config.cache /\ ~IsFile(r)
                          THEN cached \cup {[key |-> Key(r), access |-> AccessFrom(reply)]} ELSE cached
    <2> DEFINE access == AccessFrom(reply)
    <2>1. [asked |-> Asked(r), access |-> access] \in granted' /\ granted \subseteq granted'
      BY <1>4, Zenon
    <2> HIDE DEF access
    <2>2. ASSUME NEW e \in cached'
          PROVE  [asked |-> [prefix |-> e.key.prefix, identifier |-> e.key.identifier, cred |-> e.key.cred,
                             file |-> FALSE], access |-> e.access] \in granted'
      <3>1. CASE e \in cached
        BY <2>1, <3>1, Zenon DEF IInv, CachedGranted
      <3>2. CASE e \notin cached
        <4>1. ~IsFile(r) /\ e = [key |-> Key(r), access |-> access]
          BY <1>4, <3>2, Zenon DEF access
        <4>2. e.key = Key(r) /\ e.access = access
          BY <4>1, Zenon
        <4>3. Asked(r) = [prefix |-> e.key.prefix, identifier |-> e.key.identifier, cred |-> e.key.cred, file |-> FALSE]
          BY <4>1, <4>2, Zenon DEF Asked, Key, IsFile
        <4> QED
          BY <2>1, <4>2, <4>3, Zenon
      <3> QED
        BY <3>1, <3>2, Zenon
    <2>3. CachedGranted'
      BY <2>2, ZenonT(30) DEF CachedGranted
    <2>4. Hooked(r)
      BY <1>2, Zenon DEF IInv, Serves, Hooked, Hooks, IsFile
    <2> QED
      BY <1>2, <1>4, <2>1, <2>3, <2>4, GrantStep, Zenon DEF access
  <1> QED
    BY <1>1, <1>3, <1>4, ZenonT(30)

----------------------------------------------------------------------------
\* The steps that only go on.

LEMMA GoesStep ==
    ASSUME IInv, NEW r \in Requests, NEW v \in {"hook", "spool", "queued", "docfile"}, Goes(r, v),
           rq[r].pc \notin {"stream", "done"},
           Owns([rq[r] EXCEPT !.pc = v], req[r]),
           rq[r].pc # "sent" \/ req[r].route # "iiif",
           v = "hook" => Hooks(rq[r]),
           UNCHANGED <<config, req, trace, cached, granted, disk, changes>>
    PROVE  IInv'
PROOF
  <1> DEFINE q == rq[r]
             new == [q EXCEPT !.pc = v]
  <1>1. new = [q EXCEPT !.pc = v] /\ Becomes(r, new) /\ Owns(new, req[r])
    BY Zenon DEF Goes
  <1>2. /\ ProgressFields(q) /\ AnswerFields(q.answer)
        /\ Serves(q, req[r], granted) /\ Measured(q, req[r]) /\ Parses(q, req[r])
    BY Zenon DEF IInv, Shapes
  <1>3. q.pc \notin {"stream", "done"} /\ (q.pc # "sent" \/ req[r].route # "iiif") /\ (v = "hook" => Hooks(q))
    BY Zenon
  <1>4. CachedGranted'
    BY Zenon DEF IInv, CachedGranted
  <1> HIDE DEF q, new
  <1>5. new = Progress(v, q.parsed, q.access, q.file, q.answer, q.temps, q.part, q.on, q.gone, q.disagree, q.seen)
    BY <1>1, <1>2, Zenon DEF ProgressFields, Progress
  <1>6. /\ ProgressFields(new) /\ AnswerFields(new.answer) /\ new.pc = v /\ new.on = q.on
        /\ new.parsed = q.parsed /\ new.answer = q.answer
    BY <1>2, <1>5, ProgressHasFields, Zenon DEF Progress
  <1>7. Hooks(new) <=> Hooks(q)
    BY <1>6, Zenon DEF Hooks
  <1>8. Serves(new, req[r], granted)
    BY <1>2, <1>3, <1>6, <1>7, Zenon DEF Serves, None
  <1>9. Measured(new, req[r]) /\ Parses(new, req[r])
    BY <1>2, <1>5, Zenon DEF Measured, Parses, Progress
  <1> QED
    BY <1>1, <1>4, <1>6, <1>8, <1>9, MoveStep, Zenon DEF PCs, q

\* Only the program counter changes what a request should own.
LEMMA MovedOwns ==
    ASSUME NEW q, ProgressFields(q), NEW R, Owns(q, R), NEW v,
           \/ q.pc = "access" /\ v = "hook"
           \/ q.pc = "sent" /\ R.route = "lua" /\ v = "spool"
           \/ q.pc = "sent" /\ R.route = "www" /\ v = "docfile"
           \/ q.pc = "spool" /\ (R.multipart => q.part = Len(R.parts)) /\ v = "queued"
    PROVE  Owns([q EXCEPT !.pc = v], R)
PROOF
  <1> DEFINE new == [q EXCEPT !.pc = v]
  <1>1. new = [q EXCEPT !.pc = v]
    BY Zenon
  <1> HIDE DEF new
  <1>2. new = Progress(v, q.parsed, q.access, q.file, q.answer, q.temps, q.part, q.on, q.gone, q.disagree, q.seen)
    BY <1>1, Zenon DEF ProgressFields, Progress
  <1>3. /\ new.pc = v /\ new.temps = q.temps /\ new.part = q.part /\ new.on = q.on
    BY <1>2, Zenon DEF Progress
  <1>4. Owns(new, R)
    <2>1. CASE q.pc = "access" /\ v = "hook"
      BY <1>3, <2>1, Zenon DEF Owns
    <2>2. CASE q.pc = "sent" /\ R.route = "lua" /\ v = "spool"
      BY <1>3, <2>2 DEF Owns
    <2>3. CASE q.pc = "sent" /\ R.route = "www" /\ v = "docfile"
      BY <1>3, <2>3, Zenon DEF Owns
    <2>4. CASE q.pc = "spool" /\ (R.multipart => q.part = Len(R.parts)) /\ v = "queued"
      BY <1>3, <2>4, Zenon DEF Owns
    <2> QED
      BY <2>1, <2>2, <2>3, <2>4, Zenon
  <1> QED
    BY <1>1, <1>4, Zenon

LEMMA GoingOn ==
    ASSUME IInv, NEW r \in Requests, CacheMiss(r) \/ LuaRoute(r) \/ BodyRead(r) \/ Docroot(r)
    PROVE  IInv'
PROOF
  <1>1. UNCHANGED <<config, req, cached, granted, disk, changes>>
    BY Zenon DEF CacheMiss, LuaRoute, BodyRead, Docroot
  <1>2. CachedGranted'
    BY <1>1, Zenon DEF IInv, CachedGranted
  <1>3. ProgressFields(rq[r]) /\ Owns(rq[r], req[r])
    BY Zenon DEF IInv, Shapes, Tasks
  <1>4. ASSUME NEW a, Finish(r, a), Harmless(a)
        PROVE  IInv'
    BY <1>1, <1>2, <1>4, FinishStep, Zenon
  <1>5. CASE CacheMiss(r)
    <2>1. rq[r].pc = "access" /\ Goes(r, "hook") /\ Hooks(rq[r]) /\ UNCHANGED trace
      BY <1>5, Zenon DEF CacheMiss, At, Hooked, Hooks, IsFile
    <2>2. Owns([rq[r] EXCEPT !.pc = "hook"], req[r])
      BY <1>3, <2>1, MovedOwns, Zenon
    <2> QED
      BY <1>1, <2>1, <2>2, GoesStep, Zenon
  <1>6. CASE LuaRoute(r)
    <2>1. rq[r].pc = "sent" /\ req[r].route = "lua" /\ Goes(r, "spool") /\ UNCHANGED trace
      BY <1>6, Zenon DEF LuaRoute, At
    <2>2. Owns([rq[r] EXCEPT !.pc = "spool"], req[r])
      BY <1>3, <2>1, MovedOwns, Zenon
    <2> QED
      BY <1>1, <2>1, <2>2, GoesStep, Zenon
  <1>7. CASE BodyRead(r)
    <2>1. /\ rq[r].pc = "spool" /\ (req[r].multipart => rq[r].part = Len(req[r].parts))
          /\ Finish(r, ErrorResponse(413)) \/ (Goes(r, "queued") /\ UNCHANGED trace)
      BY <1>7, Zenon DEF BodyRead, At, Parts
    <2>2. Owns([rq[r] EXCEPT !.pc = "queued"], req[r])
      BY <1>3, <2>1, MovedOwns, Zenon
    <2>3. CASE Finish(r, ErrorResponse(413))
      BY <1>4, <2>3, HarmlessErrors, ZenonT(30)
    <2>4. CASE Goes(r, "queued") /\ UNCHANGED trace
      BY <1>1, <2>1, <2>2, <2>4, GoesStep, Zenon
    <2> QED
      BY <2>1, <2>3, <2>4, Zenon
  <1>8. CASE Docroot(r)
    <2>1. /\ rq[r].pc = "sent" /\ req[r].route = "www"
          /\ \/ Finish(r, CorsPreflight(r))
             \/ Finish(r, ErrorResponse(DocrootRefusal(req[r].suffix)))
             \/ Goes(r, "docfile") /\ UNCHANGED trace
      BY <1>8, Zenon DEF Docroot, At
    <2>2. Owns([rq[r] EXCEPT !.pc = "docfile"], req[r])
      BY <1>3, <2>1, MovedOwns, Zenon
    <2> QED
      BY <1>1, <1>4, <2>1, <2>2, HarmlessErrors, GoesStep, ZenonT(30)
  <1> QED
    BY <1>5, <1>6, <1>7, <1>8, Zenon

\* A path that is not refused is one of a file inside the root.
LEMMA EntryFacts ==
    ASSUME Shapes, NEW path
    PROVE  /\ Entry(path).at \in {"inside", "outside", "missing"}
           /\ Entry(path).size \in 0 .. (Word - 1)
           /\ ValidateResolvedPath(path) = 0 => Entry(path).at = "inside"
PROOF
  <1> DEFINE e == Entry(path)
  <1>1. e \in FileEntry
    <2>1. CASE path \in DOMAIN disk
      BY <2>1, Zenon DEF Shapes, Entry
    <2>2. CASE path \notin DOMAIN disk
      <3>1. disk[<<"missing">>] \in FileEntry
        BY Zenon DEF Shapes
      <3>2. e = [disk[<<"missing">>] EXCEPT !.at = "missing"]
        BY <2>2, Zenon DEF Entry
      <3> HIDE DEF e
      <3> QED
        BY <3>1, <3>2, Zenon DEF FileEntry
    <2> QED
      BY <2>1, <2>2, Zenon
  <1> HIDE DEF e
  <1>2. e.at \in {"inside", "outside", "missing"} /\ e.size \in 0 .. (Word - 1)
    BY <1>1, Zenon DEF FileEntry
  <1>3. ValidateResolvedPath(path) = 0 => e.at # "missing" /\ e.at # "outside"
    BY DEF ValidateResolvedPath, e
  <1> QED
    BY <1>2, <1>3, Zenon DEF e

LEMMA ResolveStep ==
    ASSUME IInv, NEW r \in Requests, Resolve(r)
    PROVE  IInv'
PROOF
  <1> DEFINE q == rq[r]
             path == q.access.infile
             new == [q EXCEPT !.pc = "serve", !.file = path]
  <1>1. /\ q.pc = "resolve"
        /\ \/ Finish(r, ErrorResponse(ValidateResolvedPath(path)))
           \/ ValidateResolvedPath(path) = 0 /\ Becomes(r, new) /\ UNCHANGED trace
        /\ UNCHANGED <<config, req, cached, granted, disk, changes>>
    BY Zenon DEF Resolve, At
  <1>2. CachedGranted'
    BY <1>1, Zenon DEF IInv, CachedGranted
  <1>3. CASE Finish(r, ErrorResponse(ValidateResolvedPath(path)))
    BY <1>1, <1>2, <1>3, HarmlessErrors, FinishStep, Zenon
  <1>4. CASE ValidateResolvedPath(path) = 0 /\ Becomes(r, new) /\ UNCHANGED trace
    <2>1. new = [q EXCEPT !.pc = "serve", !.file = path]
      BY Zenon
    <2>2. /\ ProgressFields(q) /\ AnswerFields(q.answer) /\ Owns(q, req[r])
          /\ Serves(q, req[r], granted) /\ Measured(q, req[r]) /\ Parses(q, req[r])
      BY Zenon DEF IInv, Shapes, Tasks
    <2>3. Inside(path)
      BY <1>4, EntryFacts, Zenon DEF IInv, Inside
    <2> HIDE DEF q, path, new
    <2>4. new = Progress("serve", q.parsed, q.access, path, q.answer, q.temps, q.part, q.on, q.gone, q.disagree, q.seen)
      BY <2>1, <2>2, Zenon DEF ProgressFields, Progress
    <2>5. /\ ProgressFields(new) /\ AnswerFields(new.answer) /\ new.pc = "serve" /\ new.on = q.on
          /\ new.parsed = q.parsed /\ new.access = q.access /\ new.file = path /\ new.answer = q.answer
      BY <2>2, <2>4, ProgressHasFields, ZenonT(30) DEF Progress
    <2>6. Decided(new, req[r], granted) <=> Decided(q, req[r], granted)
      BY <2>5, Zenon DEF Decided, Hooks
    <2>7. Owns(new, req[r])
      BY <1>1, <2>2, <2>4, Zenon DEF Owns, Progress
    <2>8. Serves(new, req[r], granted)
      BY <1>1, <2>2, <2>3, <2>5, <2>6, ZenonT(30) DEF Serves, None, path
    <2>9. Measured(new, req[r]) /\ Parses(new, req[r])
      BY <2>2, <2>4, Zenon DEF Measured, Parses, Progress
    <2> QED
      BY <1>1, <1>2, <1>4, <2>5, <2>7, <2>8, <2>9, MoveStep, Zenon DEF PCs, q
  <1> QED
    BY <1>1, <1>3, <1>4, Zenon

LEMMA ResolveDocStep ==
    ASSUME IInv, NEW r \in Requests, ResolveDoc(r)
    PROVE  IInv'
PROOF
  <1> DEFINE q == rq[r]
             path == req[r].suffix.path
             pc == IF IsScript(req[r].suffix) THEN "spool" ELSE "static"
             new == [q EXCEPT !.file = path, !.pc = pc]
  <1>1. /\ q.pc = "docfile"
        /\ \/ Finish(r, ErrorResponse(ResolveDocrootFile(path)))
           \/ Becomes(r, new) /\ UNCHANGED trace
        /\ UNCHANGED <<config, req, cached, granted, disk, changes>>
    BY Zenon DEF ResolveDoc, At
  <1>2. CachedGranted'
    BY <1>1, Zenon DEF IInv, CachedGranted
  <1>3. CASE Finish(r, ErrorResponse(ResolveDocrootFile(path)))
    BY <1>1, <1>2, <1>3, HarmlessErrors, FinishStep, Zenon
  <1>4. CASE Becomes(r, new) /\ UNCHANGED trace
    <2>1. new = [q EXCEPT !.file = path, !.pc = pc] /\ pc \in {"spool", "static"}
      BY Zenon
    <2>2. /\ ProgressFields(q) /\ AnswerFields(q.answer) /\ Owns(q, req[r])
          /\ Serves(q, req[r], granted) /\ Measured(q, req[r]) /\ Parses(q, req[r])
      BY Zenon DEF IInv, Shapes, Tasks
    <2> HIDE DEF q, path, pc, new
    <2>3. new = Progress(pc, q.parsed, q.access, path, q.answer, q.temps, q.part, q.on, q.gone, q.disagree, q.seen)
      BY <2>1, <2>2, Zenon DEF ProgressFields, Progress
    <2>4. /\ ProgressFields(new) /\ AnswerFields(new.answer) /\ new.pc = pc /\ new.on = q.on /\ new.answer = q.answer
      BY <2>2, <2>3, ProgressHasFields, ZenonT(30) DEF Progress
    <2>5. req[r].route = "www"
      BY <1>1, <2>2, Zenon DEF Owns
    <2>6. Owns(new, req[r])
      BY <1>1, <2>1, <2>2, <2>3 DEF Owns, Progress
    <2>7. Serves(new, req[r], granted)
      BY <1>1, <2>1, <2>2, <2>4, <2>5, Zenon DEF Serves, None
    <2>8. Measured(new, req[r]) /\ Parses(new, req[r])
      BY <2>1, <2>2, <2>3, Zenon DEF Measured, Parses, Progress
    <2> QED
      BY <1>1, <1>2, <1>4, <2>1, <2>4, <2>6, <2>7, <2>8, MoveStep, Zenon DEF PCs, q
  <1> QED
    BY <1>1, <1>3, <1>4, Zenon

LEMMA SpoolStep ==
    ASSUME IInv, NEW r \in Requests, SpoolPart(r)
    PROVE  IInv'
PROOF
  <1> DEFINE q == rq[r]
             i == q.part + 1
             temps == IF req[r].parts[i] = "file" THEN q.temps \cup {i} ELSE q.temps
             new == [q EXCEPT !.part = i, !.temps = temps]
  <1>1. /\ q.pc = "spool" /\ req[r].multipart /\ i \in DOMAIN req[r].parts
        /\ \/ Becomes(r, new) /\ UNCHANGED trace
           \/ Finish(r, ErrorResponse(500))
           \/ Finish(r, ErrorResponse(413))
           \/ Finish(r, ErrorResponse(400))
        /\ UNCHANGED <<config, req, cached, granted, disk, changes>>
    BY ZenonT(30) DEF SpoolPart, At, Parts
  <1>2. CachedGranted'
    BY <1>1, Zenon DEF IInv, CachedGranted
  <1>3. CASE Finish(r, ErrorResponse(500)) \/ Finish(r, ErrorResponse(413)) \/ Finish(r, ErrorResponse(400))
    BY <1>1, <1>2, <1>3, HarmlessErrors, FinishStep, SMTT(30)
  <1>4. CASE Becomes(r, new) /\ UNCHANGED trace
    <2>1. /\ new = [q EXCEPT !.part = i, !.temps = temps]
          /\ temps = IF req[r].parts[i] = "file" THEN q.temps \cup {i} ELSE q.temps
          /\ i = q.part + 1
      BY Zenon
    <2>2. /\ ProgressFields(q) /\ AnswerFields(q.answer) /\ Owns(q, req[r])
          /\ Serves(q, req[r], granted) /\ Measured(q, req[r]) /\ Parses(q, req[r])
      BY Zenon DEF IInv, Shapes, Tasks
    <2>3. req[r].parts \in Seq(STRING)
      BY Zenon DEF IInv, Shapes, Request
    <2>4. i \in 1 .. Len(req[r].parts)
      BY <1>1, <2>3
    <2> HIDE DEF q, i, temps, new
    <2>5. new = Progress(q.pc, q.parsed, q.access, q.file, q.answer, temps, i, q.on, q.gone, q.disagree, q.seen)
      BY <2>1, <2>2, Zenon DEF ProgressFields, Progress
    <2>6. /\ ProgressFields(new) /\ AnswerFields(new.answer) /\ new.pc = "spool" /\ new.on = q.on
          /\ new.temps = temps /\ new.part = i
      BY <1>1, <2>2, <2>5, ProgressHasFields, ZenonT(30) DEF Progress
    <2>7. temps = {j \in 1 .. i : req[r].parts[j] = "file"}
      <3>1. q.temps = {j \in 1 .. q.part : req[r].parts[j] = "file"} /\ q.part \in Nat
        BY <1>1, <2>2 DEF Owns
      <3>2. 1 .. i = (1 .. q.part) \cup {i}
        BY <2>1, <3>1
      <3> QED
        BY <2>1, <3>1, <3>2, Zenon
    <2>8. req[r].route # "iiif"
      BY <1>1, <2>2, Zenon DEF Owns
    <2>9. Len(req[r].parts) \in Nat
      BY <2>3, SMTT(30)
    <2>10. Owns(new, req[r])
      BY <1>1, <2>2, <2>4, <2>6, <2>7, <2>8, <2>9, SMTT(30) DEF Owns
    <2>11. Serves(new, req[r], granted)
      BY <1>1, <2>2, <2>5, <2>8, Zenon DEF Serves, Progress, None
    <2>12. Measured(new, req[r]) /\ Parses(new, req[r])
      BY <2>2, <2>5, Zenon DEF Measured, Parses, Progress
    <2> QED
      BY <1>1, <1>2, <1>4, <2>6, <2>10, <2>11, <2>12, MoveStep, Zenon DEF PCs, q
  <1> QED
    BY <1>1, <1>3, <1>4, ZenonT(30)

LEMMA LeaveStep ==
    ASSUME IInv, NEW r \in Requests, Leave(r)
    PROVE  IInv'
PROOF
  <1> DEFINE q == rq[r]
             over == Over(q, NoAnswer)
             dropped == [over EXCEPT !.gone = TRUE]
             left == [q EXCEPT !.gone = TRUE]
  <1>1. /\ \/ q.on = None /\ Becomes(r, dropped)
           \/ q.on # None /\ Becomes(r, left)
        /\ UNCHANGED <<config, req, trace, cached, granted, disk, changes>>
    BY EndedIsOver, Zenon DEF Leave, IInv
  <1>2. CachedGranted'
    BY <1>1, Zenon DEF IInv, CachedGranted
  <1>3. /\ ProgressFields(q) /\ AnswerFields(q.answer) /\ Owns(q, req[r])
        /\ Serves(q, req[r], granted) /\ Measured(q, req[r]) /\ Parses(q, req[r]) /\ q.pc \in PCs
    BY Zenon DEF IInv, Shapes, Tasks
  <1>4. CASE q.on = None /\ Becomes(r, dropped)
    <2>1. dropped = [over EXCEPT !.gone = TRUE] /\ ProgressFields(over)
      BY ProgressHasFields, Zenon DEF Over
    <2>2. Owns(over, req[r])
      BY <1>3, OverOwns, Zenon
    <2>3. /\ over.pc = "done" /\ over.on = None /\ over.answer = NoAnswer
          /\ over.parsed = q.parsed /\ over.seen = q.seen
      BY Zenon DEF Over, Progress
    <2> HIDE DEF over, dropped
    <2>4. dropped = Progress(over.pc, over.parsed, over.access, over.file, over.answer, over.temps, over.part,
                             over.on, TRUE, over.disagree, over.seen)
      BY <2>1, ZenonT(30) DEF ProgressFields, Progress
    <2>5. Owns(dropped, req[r])
      BY <2>2, <2>4, Zenon DEF Owns, Progress
    <2>6. /\ ProgressFields(dropped) /\ dropped.pc = "done" /\ dropped.on = None /\ dropped.answer = NoAnswer
          /\ dropped.parsed = q.parsed /\ dropped.seen = q.seen
      BY <2>3, <2>4, ProgressHasFields, Zenon DEF Progress
    <2>7. NoAnswer.body = None
      BY Zenon DEF NoAnswer
    <2>8. Serves(dropped, req[r], granted) /\ Measured(dropped, req[r]) /\ Parses(dropped, req[r])
      BY <1>3, <2>6, <2>7, Zenon DEF Serves, Measured, Parses, None
    <2> QED
      BY <1>1, <1>2, <1>4, <2>5, <2>6, <2>8, AnswersHaveFields, MoveStep, Zenon DEF PCs
  <1>5. CASE q.on # None /\ Becomes(r, left)
    <2>1. left = [q EXCEPT !.gone = TRUE]
      BY Zenon
    <2> HIDE DEF q, left
    <2>2. left = Progress(q.pc, q.parsed, q.access, q.file, q.answer, q.temps, q.part, q.on, TRUE, q.disagree, q.seen)
      BY <1>3, <2>1, Zenon DEF ProgressFields, Progress
    <2>3. /\ ProgressFields(left) /\ left.answer = q.answer /\ left.pc = q.pc /\ left.on = q.on
          /\ left.parsed = q.parsed /\ left.access = q.access /\ left.file = q.file /\ left.seen = q.seen
          /\ left.temps = q.temps /\ left.part = q.part
      BY <2>2, ProgressHasFields, Zenon DEF Progress
    <2>4. Owns(left, req[r])
      BY <1>3, <2>3, Zenon DEF Owns
    <2>5. Serves(left, req[r], granted)
      BY <1>3, <2>3, ZenonT(30) DEF Serves, Decided, Hooks
    <2>6. Measured(left, req[r]) /\ Parses(left, req[r])
      BY <1>3, <2>3, SMTT(30) DEF Measured, Parses
    <2> QED
      BY <1>1, <1>2, <1>3, <1>5, <2>3, <2>4, <2>5, <2>6, MoveStep, Zenon DEF q
  <1> QED
    BY <1>1, <1>4, <1>5, Zenon

LEMMA ShortAnswers ==
    ASSUME IInv, NEW r \in Requests, Shed(r) \/ RunScript(r)
    PROVE  IInv'
PROOF
  <1>1. PICK a : Finish(r, a) /\ Harmless(a)
    BY HarmlessErrors DEF Shed, RunScript
  <1>2. UNCHANGED <<config, req, cached, granted, disk, changes>>
    BY ZenonT(30) DEF Shed, RunScript
  <1>3. CachedGranted'
    BY <1>2, Zenon DEF IInv, CachedGranted
  <1> QED
    BY <1>1, <1>2, <1>3, FinishStep, Zenon

----------------------------------------------------------------------------
\* Byte ranges.

LEMMA MinMaxOfTwo ==
    ASSUME NEW a \in Int, NEW b \in Int
    PROVE  /\ Min({a, b}) = IF a <= b THEN a ELSE b
           /\ Max({a, b}) = IF a >= b THEN a ELSE b
PROOF
  <1>1. Min({a, b}) = IF a <= b THEN a ELSE b
    <2> DEFINE m == IF a <= b THEN a ELSE b
    <2>1. m \in {a, b} /\ \A y \in {a, b} : m <= y
      OBVIOUS
    <2>2. \A x \in {a, b} : (\A y \in {a, b} : x <= y) => x = m
      OBVIOUS
    <2> QED
      BY <2>1, <2>2, Zenon DEF Min
  <1>2. Max({a, b}) = IF a >= b THEN a ELSE b
    <2> DEFINE m == IF a >= b THEN a ELSE b
    <2>1. m \in {a, b} /\ \A y \in {a, b} : m >= y
      OBVIOUS
    <2>2. \A x \in {a, b} : (\A y \in {a, b} : x >= y) => x = m
      OBVIOUS
    <2> QED
      BY <2>1, <2>2, Zenon DEF Max
  <1> QED
    BY <1>1, <1>2, Zenon

ByteRange == [form : {"none", "bad", "bytes"}, start : Nat \cup {-1}, end : Nat \cup {-1}]

\* The span of a range that a parser accepts, in a file of fsize bytes.
Fits(span, fsize) ==
    /\ span.start \in Nat /\ span.end \in Nat
    /\ span.start <= span.end /\ span.end < fsize
    /\ SpanLength(span) = span.end - span.start + 1

LEMMA SpanFits ==
    ASSUME NEW fsize \in 0 .. (Word - 1), NEW start \in Nat, NEW end \in Nat, start <= end, end < fsize
    PROVE  Fits(Whole(start, end), fsize)
PROOF
  <1> DEFINE n == end - start + 1
  <1>1. n \in Nat /\ Word \in Nat /\ n < Word
    BY IiifAssumption
  <1>2. \A m \in Nat : m < Word => m % Word = m
    BY IiifAssumption
  <1>3. n % Word = n
    BY <1>1, <1>2, Zenon
  <1> QED
    BY <1>3, Zenon DEF Fits, Whole, SpanLength

LEMMA EngineRangeFits ==
    ASSUME NEW range \in ByteRange, NEW fsize \in 0 .. (Word - 1), EngineRange(range, fsize).ok, InOrder(range)
    PROVE  Fits(EngineRange(range, fsize), fsize)
PROOF
  <1> DEFINE end == IF range.end = -1 THEN Max({fsize - 1, 0}) ELSE range.end
             last == IF end >= fsize THEN fsize - 1 ELSE end
  <1>1. range.start \in Nat \cup {-1} /\ range.end \in Nat \cup {-1} /\ fsize \in Nat
    BY IiifAssumption DEF ByteRange
  <1>2. /\ range.start # -1 /\ ~ (range.start >= fsize)
        /\ EngineRange(range, fsize) = Whole(range.start, last)
    BY Zenon DEF EngineRange, BadRange
  <1>3. Max({fsize - 1, 0}) = fsize - 1
    <2> DEFINE top == fsize - 1
    <2>1. top \in Int /\ top >= 0
      BY <1>1, <1>2
    <2> HIDE DEF top
    <2>2. Max({top, 0}) = top
      BY <2>1, MinMaxOfTwo
    <2> QED
      BY <2>2, Zenon DEF top
  <1>4. last \in Nat /\ range.start <= last /\ last < fsize
    BY <1>1, <1>2, <1>3 DEF InOrder
  <1> QED
    BY <1>1, <1>2, <1>4, SpanFits, Zenon

LEMMA ParseByteRangeFits ==
    ASSUME NEW range \in ByteRange, NEW fsize \in 0 .. (Word - 1), ParseByteRange(range, fsize).ok
    PROVE  Fits(ParseByteRange(range, fsize), fsize)
PROOF
  <1> DEFINE end == IF range.end = -1 THEN Max({fsize - 1, 0}) ELSE range.end
             clamped == Min({end, fsize - 1})
  <1>1. range.start \in Nat \cup {-1} /\ range.end \in Nat \cup {-1} /\ fsize \in Nat
    BY IiifAssumption DEF ByteRange
  <1>2. /\ range.start # -1 /\ ~ (range.start >= fsize) /\ ~ (clamped < range.start)
        /\ ParseByteRange(range, fsize) = Whole(range.start, clamped)
    BY Zenon DEF ParseByteRange, BadRange
  <1>3. Max({fsize - 1, 0}) = fsize - 1
    <2> DEFINE top == fsize - 1
    <2>1. top \in Int /\ top >= 0
      BY <1>1, <1>2
    <2> HIDE DEF top
    <2>2. Max({top, 0}) = top
      BY <2>1, MinMaxOfTwo
    <2> QED
      BY <2>2, Zenon DEF top
  <1>4. end \in Nat
    BY <1>1, <1>2, <1>3
  <1> HIDE DEF end
  <1>5. clamped = IF end <= fsize - 1 THEN end ELSE fsize - 1
    BY <1>1, <1>4, MinMaxOfTwo
  <1>6. clamped \in Nat /\ range.start <= clamped /\ clamped < fsize
    BY <1>1, <1>2, <1>4, <1>5
  <1> QED
    BY <1>1, <1>2, <1>6, SpanFits, Zenon

\* A partial answer announces a span of the file that was measured.
Announces(a, range, fsize) ==
    /\ AnswerFields(a)
    /\ a.status = 206 /\ a.body # None /\ InOrder(range) =>
          /\ Fits(a.span, fsize) /\ a.length = SpanLength(a.span) /\ a.of = fsize

WholeFile(body, fsize) == [ErrorResponse(200) EXCEPT !.body = body, !.length = fsize, !.of = fsize]
PartOf(whole, span) == [whole EXCEPT !.status = 206, !.span = span, !.length = SpanLength(span)]

LEMMA WholeAnnounces ==
    ASSUME NEW body, NEW fsize, NEW range
    PROVE  LET whole == WholeFile(body, fsize)
           IN  Announces(whole, range, fsize) /\ whole.status = 200 /\ whole.body = body /\ whole.of = fsize
PROOF
  <1> DEFINE a == ErrorResponse(200)
             whole == WholeFile(body, fsize)
  <1>1. AnswerFields(a) /\ a.status = 200
    BY AnswersHaveFields, ZenonT(30)
  <1>2. whole = [a EXCEPT !.body = body, !.length = fsize, !.of = fsize]
    BY Zenon DEF WholeFile
  <1> HIDE DEF a, whole
  <1>3. whole = Answer(a.status, body, a.span, fsize, a.sent, fsize, a.size, a.watermark, a.acao,
                       a.credentials, a.keys, a.sizes)
    BY <1>1, <1>2, ZenonT(30) DEF AnswerFields, Answer
  <1>4. AnswerFields(whole) /\ whole.status = 200 /\ whole.body = body /\ whole.of = fsize
    BY <1>1, <1>3, AnswerHasFields DEF Answer
  <1>5. Announces(whole, range, fsize)
    BY <1>4 DEF Announces
  <1> QED
    BY <1>4, <1>5, Zenon DEF whole

LEMMA PartAnnounces ==
    ASSUME NEW whole, NEW fsize, NEW span, NEW range, AnswerFields(whole), whole.of = fsize,
           InOrder(range) => Fits(span, fsize)
    PROVE  Announces(PartOf(whole, span), range, fsize) /\ PartOf(whole, span).body = whole.body
PROOF
  <1> DEFINE n == SpanLength(span)
             part == PartOf(whole, span)
  <1>1. part = [whole EXCEPT !.status = 206, !.span = span, !.length = n]
    BY Zenon DEF PartOf
  <1> HIDE DEF n, part
  <1>2. part = Answer(206, whole.body, span, n, whole.sent, whole.of, whole.size, whole.watermark,
                      whole.acao, whole.credentials, whole.keys, whole.sizes)
    BY <1>1, ZenonT(30) DEF AnswerFields, Answer
  <1>3. AnswerFields(part) /\ part.body = whole.body /\ part.of = fsize /\ part.span = span /\ part.length = n
    BY <1>2, AnswerHasFields DEF Answer
  <1>4. Announces(part, range, fsize)
    BY <1>3, Zenon DEF Announces, n
  <1> QED
    BY <1>3, <1>4, Zenon DEF part

LEMMA FileAnswers ==
    ASSUME NEW range \in ByteRange, NEW fsize \in 0 .. (Word - 1)
    PROVE  Announces(FileAnswer(range, fsize), range, fsize) /\ FileAnswer(range, fsize).body \in {None, "file"}
PROOF
  <1> DEFINE span == EngineRange(range, fsize)
             whole == WholeFile("file", fsize)
             a == FileAnswer(range, fsize)
  <1>1. a \in {whole, ErrorResponse(400), ErrorResponse(500)} \/ (a = PartOf(whole, span) /\ span.ok)
    BY DEF FileAnswer, ByteRange, WholeFile, PartOf
  <1>2. \A status : Announces(ErrorResponse(status), range, fsize) /\ ErrorResponse(status).body = None
    BY AnswersHaveFields, Zenon DEF Announces
  <1>3. span.ok /\ InOrder(range) => Fits(span, fsize)
    BY EngineRangeFits, Zenon
  <1>4. Announces(whole, range, fsize) /\ whole.body = "file" /\ whole.of = fsize
    BY WholeAnnounces
  <1> HIDE DEF span, whole, a
  <1>5. span.ok => Announces(PartOf(whole, span), range, fsize) /\ PartOf(whole, span).body = "file"
    BY <1>3, <1>4, PartAnnounces DEF Announces
  <1> QED
    BY <1>1, <1>2, <1>4, <1>5 DEF a

LEMMA StaticAnswers ==
    ASSUME NEW entry, entry.size \in 0 .. (Word - 1), NEW ext, NEW range \in ByteRange
    PROVE  LET a == StaticAnswer(entry, ext, range)
           IN  /\ Announces(a, range, entry.size) /\ a.body \in {None, "static"}
               /\ a.body # None => entry.at # "missing"
PROOF
  <1> DEFINE fsize == entry.size
             span == ParseByteRange(range, fsize)
             whole == WholeFile("static", fsize)
             a == StaticAnswer(entry, ext, range)
  <1>1. \/ a \in {ErrorResponse(404), ErrorResponse(500)}
        \/ entry.at # "missing" /\ (a = whole \/ (a = PartOf(whole, span) /\ span.ok))
    BY DEF StaticAnswer, WholeFile, PartOf
  <1>2. \A status : Announces(ErrorResponse(status), range, fsize) /\ ErrorResponse(status).body = None
    BY AnswersHaveFields, Zenon DEF Announces
  <1>3. span.ok => Fits(span, fsize)
    BY ParseByteRangeFits, Zenon
  <1>4. Announces(whole, range, fsize) /\ whole.body = "static" /\ whole.of = fsize
    BY WholeAnnounces
  <1> HIDE DEF fsize, span, whole, a
  <1>5. span.ok => Announces(PartOf(whole, span), range, fsize) /\ PartOf(whole, span).body = "static"
    BY <1>3, <1>4, PartAnnounces DEF Announces
  <1> QED
    BY <1>1, <1>2, <1>4, <1>5 DEF a, fsize

----------------------------------------------------------------------------
\* Serving.

\* Headers do not change what is said of the bytes.
Alike(a, b) ==
    /\ AnswerFields(a) /\ a.status = b.status /\ a.body = b.body /\ a.span = b.span /\ a.length = b.length
    /\ a.of = b.of /\ a.size = b.size /\ a.watermark = b.watermark

LEMMA HeadersOnly ==
    ASSUME NEW a, AnswerFields(a), NEW r
    PROVE  Alike(Echo(r, a), a) /\ Alike([a EXCEPT !.acao = req[r].origin], a)
PROOF
  <1> DEFINE b == req[r].origin # None
             c == Echo(r, a)
             d == [a EXCEPT !.acao = req[r].origin]
  <1>1. /\ c = [a EXCEPT !.acao = req[r].origin, !.credentials = b]
        /\ d = [a EXCEPT !.acao = req[r].origin]
    BY Zenon DEF Echo
  <1> HIDE DEF b, c, d
  <1>2. c = Answer(a.status, a.body, a.span, a.length, a.sent, a.of, a.size, a.watermark, req[r].origin,
                   b, a.keys, a.sizes)
    BY <1>1, Zenon DEF AnswerFields, Answer
  <1>3. d = Answer(a.status, a.body, a.span, a.length, a.sent, a.of, a.size, a.watermark, req[r].origin,
                   a.credentials, a.keys, a.sizes)
    BY <1>1, Zenon DEF AnswerFields, Answer
  <1>4. Alike(c, a)
    BY <1>2, AnswerHasFields, ZenonT(30) DEF Answer, Alike
  <1>5. Alike(d, a)
    BY <1>3, AnswerHasFields, Zenon DEF Answer, Alike
  <1> QED
    BY <1>4, <1>5, Zenon DEF c, d

LEMMA CommitStep ==
    ASSUME IInv, NEW r \in Requests, NEW a, Commit(r, a), AnswerFields(a),
           rq[r].pc \in {"serve", "static"},
           a.body \in {"image", "file"} => rq[r].pc = "serve" /\ Open(rq[r].access.permission),
           a.body = "image" =>
              /\ a.size = IF rq[r].access.permission = "restrict" THEN rq[r].access.size ELSE None
              /\ a.watermark = IF rq[r].access.permission = "restrict" THEN rq[r].access.watermark ELSE None,
           a.status = 206 => Entry(rq[r].file).at # "missing" /\ Announces(a, req[r].range, Entry(rq[r].file).size),
           UNCHANGED <<config, req, cached, granted, disk, changes>>
    PROVE  IInv'
PROOF
  <1> DEFINE q == rq[r]
             new == [q EXCEPT !.pc = "stream", !.answer = a, !.seen = changes]
  <1>1. /\ ProgressFields(q) /\ Owns(q, req[r]) /\ changes \in Nat
        /\ Serves(q, req[r], granted) /\ Measured(q, req[r]) /\ Parses(q, req[r])
    BY Zenon DEF IInv, Shapes, Tasks
  <1>2. new = [q EXCEPT !.pc = "stream", !.answer = a, !.seen = changes] /\ Becomes(r, new) /\ UNCHANGED trace
    BY Zenon DEF Commit
  <1>3. q.pc \in {"serve", "static"}
    BY Zenon
  <1>4. CachedGranted'
    BY Zenon DEF IInv, CachedGranted
  <1>5. a.body \in {"image", "file"} =>
           q.pc = "serve" /\ Open(q.access.permission) /\ req[r].route = "iiif"
    BY <1>1, ZenonT(30) DEF Owns
  <1>6. a.body = "image" =>
              /\ a.size = IF q.access.permission = "restrict" THEN q.access.size ELSE None
              /\ a.watermark = IF q.access.permission = "restrict" THEN q.access.watermark ELSE None
    BY Zenon
  <1>7. a.status = 206 => Entry(q.file).at # "missing" /\ Announces(a, req[r].range, Entry(q.file).size)
    BY Zenon
  <1> HIDE DEF q, new
  <1>8. new = Progress("stream", q.parsed, q.access, q.file, a, q.temps, q.part, q.on, q.gone, q.disagree, changes)
    BY <1>1, <1>2, Zenon DEF ProgressFields, Progress
  <1>9. /\ ProgressFields(new) /\ new.answer = a /\ new.pc = "stream" /\ new.on = q.on
        /\ new.parsed = q.parsed /\ new.access = q.access /\ new.file = q.file /\ new.seen = changes
        /\ new.temps = q.temps /\ new.part = q.part
    BY <1>8, ProgressHasFields, ZenonT(30) DEF Progress
  <1>10. Owns(new, req[r])
    BY <1>1, <1>3, <1>9, ZenonT(30) DEF Owns
  <1>11. Decided(new, req[r], granted) <=> Decided(q, req[r], granted)
    BY <1>9, Zenon DEF Decided, Hooks
  <1>12. Serves(new, req[r], granted)
    BY <1>1, <1>3, <1>5, <1>6, <1>9, <1>11, ZenonT(30) DEF Serves
  <1>13. Measured(new, req[r])
    BY <1>1, <1>7, <1>9, SMTT(30) DEF Measured, Announces, Fits
  <1>14. Parses(new, req[r])
    BY <1>1, <1>9, Zenon DEF Parses
  <1> QED
    BY <1>2, <1>4, <1>9, <1>10, <1>12, <1>13, <1>14, MoveStep, ZenonT(30) DEF PCs, q

LEMMA ServeImageStep ==
    ASSUME IInv, NEW r \in Requests, ServeImage(r)
    PROVE  IInv'
PROOF
  <1> DEFINE access == rq[r].access
             size == IF access.permission = "restrict" THEN access.size ELSE None
             mark == IF access.permission = "restrict" THEN access.watermark ELSE None
             e == ErrorResponse(200)
             a == [e EXCEPT !.body = "image", !.size = size, !.watermark = mark]
  <1>1. /\ rq[r].pc = "serve" /\ rq[r].parsed.kind = "Iiif"
        /\ \/ Finish(r, ErrorResponse(500))
           \/ Finish(r, [a EXCEPT !.body = None])
           \/ Commit(r, Echo(r, a))
        /\ UNCHANGED <<config, req, cached, granted, disk, changes>>
    BY Zenon DEF ServeImage, At
  <1>2. CachedGranted'
    BY <1>1, Zenon DEF IInv, CachedGranted
  <1>3. /\ AnswerFields(e) /\ e.status = 200
        /\ a = [e EXCEPT !.body = "image", !.size = size, !.watermark = mark]
    BY AnswersHaveFields, ZenonT(30)
  <1>4. Open(access.permission)
    BY <1>1, Zenon DEF IInv, Serves
  <1>5. AnswerFields(a) /\ a.status = 200 /\ a.body = "image" /\ a.size = size /\ a.watermark = mark
    <2> DEFINE b == "image"
    <2>1. AnswerFields(e) /\ a = [e EXCEPT !.body = b, !.size = size, !.watermark = mark]
      BY <1>3, Zenon
    <2>2. b = "image" /\ e.status = 200
      BY <1>3, Zenon
    <2> HIDE DEF e, a, b, size, mark
    <2>3. a = Answer(e.status, b, e.span, e.length, e.sent, e.of, size, mark, e.acao, e.credentials, e.keys, e.sizes)
      BY <2>1, Zenon DEF AnswerFields, Answer
    <2>4. AnswerFields(a) /\ a.status = e.status /\ a.body = b /\ a.size = size /\ a.watermark = mark
      BY <2>3, AnswerHasFields, Zenon DEF Answer
    <2> QED
      BY <2>2, <2>4, Zenon
  <1>6. CASE Finish(r, ErrorResponse(500)) \/ Finish(r, [a EXCEPT !.body = None])
    <2> HIDE DEF a
    <2> QED
      BY <1>1, <1>2, <1>5, <1>6, HarmlessErrors, FinishStep
  <1>7. CASE Commit(r, Echo(r, a))
    <2> HIDE DEF a
    <2> DEFINE c == Echo(r, a)
    <2>1. Alike(c, a) /\ Commit(r, c)
      BY <1>5, <1>7, HeadersOnly, Zenon
    <2> HIDE DEF c
    <2>2. AnswerFields(c) /\ c.status = 200 /\ c.body = "image" /\ c.size = size /\ c.watermark = mark
      BY <1>5, <2>1, Zenon DEF Alike
    <2> QED
      BY <1>1, <1>4, <2>1, <2>2, CommitStep
  <1> QED
    BY <1>1, <1>6, <1>7, Zenon

LEMMA AlikeAnnounces ==
    ASSUME NEW a, NEW b, Alike(a, b), NEW range, NEW fsize, Announces(b, range, fsize)
    PROVE  Announces(a, range, fsize)
PROOF
  BY Zenon DEF Alike, Announces

LEMMA ServeFileStep ==
    ASSUME IInv, NEW r \in Requests, ServeFile(r)
    PROVE  IInv'
PROOF
  <1> DEFINE entry == Entry(rq[r].file)
             a == FileAnswer(req[r].range, entry.size)
             c == Echo(r, a)
  <1>1. /\ rq[r].pc = "serve" /\ rq[r].parsed.kind = "FileDownload"
        /\ \/ Finish(r, ErrorResponse(404))
           \/ a.body = None /\ Finish(r, a)
           \/ Finish(r, [a EXCEPT !.body = None])
           \/ entry.at # "missing" /\ Commit(r, c)
        /\ UNCHANGED <<config, req, cached, granted, disk, changes>>
    BY Zenon DEF ServeFile, At, IsFile
  <1>2. CachedGranted'
    BY <1>1, Zenon DEF IInv, CachedGranted
  <1>3. entry.size \in 0 .. (Word - 1) /\ req[r].range \in ByteRange
    BY EntryFacts, Zenon DEF IInv, Shapes, Request, ByteRange
  <1>4. Announces(a, req[r].range, entry.size) /\ a.body \in {None, "file"}
    BY <1>3, FileAnswers, Zenon
  <1>5. Open(rq[r].access.permission)
    BY <1>1, Zenon DEF IInv, Serves
  <1> HIDE DEF entry, a
  <1>6. AnswerFields(a)
    BY <1>4, Zenon DEF Announces
  <1>7. CASE Finish(r, ErrorResponse(404)) \/ Finish(r, [a EXCEPT !.body = None])
    BY <1>1, <1>2, <1>6, <1>7, HarmlessErrors, FinishStep
  <1>8. CASE a.body = None /\ Finish(r, a)
    <2>1. Harmless(a)
      BY <1>6, <1>8, Zenon DEF Harmless, None
    <2> QED
      BY <1>1, <1>2, <1>8, <2>1, FinishStep, Zenon
  <1>9. CASE entry.at # "missing" /\ Commit(r, c)
    <2>1. Alike(c, a)
      BY <1>6, HeadersOnly, Zenon
    <2> HIDE DEF c
    <2>2. Announces(c, req[r].range, entry.size)
      BY <1>4, <2>1, AlikeAnnounces, Zenon
    <2>3. AnswerFields(c) /\ c.body # "image"
      BY <1>4, <2>1, Zenon DEF Alike, None
    <2> QED
      BY <1>1, <1>5, <1>9, <2>2, <2>3, CommitStep, Zenon DEF entry
  <1> QED
    BY <1>1, <1>7, <1>8, <1>9, Zenon

LEMMA ServeStaticStep ==
    ASSUME IInv, NEW r \in Requests, ServeStatic(r)
    PROVE  IInv'
PROOF
  <1> DEFINE entry == Entry(rq[r].file)
             a == StaticAnswer(entry, req[r].suffix.ext, req[r].range)
             c == [a EXCEPT !.acao = req[r].origin]
  <1>1. /\ rq[r].pc = "static"
        /\ \/ a.body = None /\ Finish(r, a)
           \/ Finish(r, [c EXCEPT !.body = None])
           \/ a.body # None /\ Commit(r, c)
        /\ UNCHANGED <<config, req, cached, granted, disk, changes>>
    BY Zenon DEF ServeStatic, At
  <1>2. CachedGranted'
    BY <1>1, ZenonT(30) DEF IInv, CachedGranted
  <1>3. entry.size \in 0 .. (Word - 1) /\ req[r].range \in ByteRange
    BY EntryFacts, Zenon DEF IInv, Shapes, Request, ByteRange
  <1>4. /\ Announces(a, req[r].range, entry.size) /\ a.body \in {None, "static"}
        /\ a.body # None => entry.at # "missing"
    BY <1>3, StaticAnswers, Zenon
  <1> HIDE DEF entry, a
  <1>5. AnswerFields(a)
    BY <1>4, Zenon DEF Announces
  <1>6. Alike(c, a)
    BY <1>5, HeadersOnly, Zenon
  <1> HIDE DEF c
  <1>7. AnswerFields(c) /\ c.body = a.body
    BY <1>6, Zenon DEF Alike
  <1>8. CASE Finish(r, [c EXCEPT !.body = None])
    BY <1>1, <1>2, <1>7, <1>8, HarmlessErrors, FinishStep, ZenonT(30)
  <1>9. CASE a.body = None /\ Finish(r, a)
    <2>1. Harmless(a)
      BY <1>5, <1>9, Zenon DEF Harmless, None
    <2> QED
      BY <1>1, <1>2, <1>9, <2>1, FinishStep, Zenon
  <1>10. CASE a.body # None /\ Commit(r, c)
    <2>1. Announces(c, req[r].range, entry.size)
      BY <1>4, <1>6, AlikeAnnounces, Zenon
    <2>2. c.body = "static"
      BY <1>4, <1>7, <1>10, Zenon
    <2> QED
      BY <1>1, <1>4, <1>7, <1>10, <2>1, <2>2, CommitStep, Zenon DEF entry
  <1> QED
    BY <1>1, <1>8, <1>9, <1>10, Zenon

LEMMA HarmlessJson ==
    ASSUME NEW status, NEW doc, NEW acao, status # 206
    PROVE  Harmless(JsonResponse(status, doc, acao))
PROOF
  <1> DEFINE e == ErrorResponse(status)
             body == "json"
             keys == doc.keys
             sizes == doc.sizes
             b == acao # "*"
             a == JsonResponse(status, doc, acao)
  <1>1. /\ AnswerFields(e)
        /\ a = [e EXCEPT !.body = body, !.keys = keys, !.sizes = sizes, !.acao = acao, !.credentials = b]
    BY AnswersHaveFields, Zenon DEF JsonResponse
  <1>2. e.status = status /\ body = "json"
    BY AnswersHaveFields, Zenon
  <1> HIDE DEF e, body, keys, sizes, b, a
  <1>3. a = Answer(e.status, body, e.span, e.length, e.sent, e.of, e.size, e.watermark, acao, b, keys, sizes)
    BY <1>1, ZenonT(30) DEF AnswerFields, Answer
  <1>4. AnswerFields(a) /\ a.status = e.status /\ a.body = body
    BY <1>3, AnswerHasFields, Zenon DEF Answer
  <1>5. Harmless(a)
    BY <1>2, <1>4, Zenon DEF Harmless
  <1> QED
    BY <1>5, Zenon DEF a

LEMMA ServeJsonStep ==
    ASSUME IInv, NEW r \in Requests, ServeJson(r)
    PROVE  IInv'
PROOF
  <1>1. \A entry, access : Harmless(ServeInfoJson(entry, access))
    <2> TAKE entry, access
    <2>1. InfoStatus(access) # 206
      BY DEF InfoStatus
    <2> QED
      BY <2>1, HarmlessErrors, HarmlessJson DEF ServeInfoJson
  <1>2. \A entry, origin : Harmless(ServeKnoraJson(entry, origin))
    BY HarmlessErrors, HarmlessJson, SMTT(30) DEF ServeKnoraJson
  <1>3. PICK a : Harmless(a) /\ Finish(r, a)
    BY <1>1, <1>2, Zenon DEF ServeJson
  <1>4. UNCHANGED <<config, req, cached, granted, disk, changes>>
    BY Zenon DEF ServeJson
  <1>5. CachedGranted'
    BY <1>4, Zenon DEF IInv, CachedGranted
  <1> QED
    BY <1>3, <1>4, <1>5, FinishStep, Zenon

\* All of an announced span is there, as long as the file is as it was measured.
LEMMA DeliversAll ==
    ASSUME NEW a, NEW entry, entry.at # "missing", entry.size \in Nat,
           a.span.start \in Nat, a.span.end \in Nat, a.span.start <= a.span.end, a.span.end < entry.size,
           a.length = a.span.end - a.span.start + 1
    PROVE  Delivered(a, entry) = a.span.end - a.span.start + 1
PROOF
  <1> DEFINE first == a.span.start
             last == a.span.end
             fsize == entry.size
             rest == fsize - first
             n == a.length
  <1>1. rest \in Int /\ n \in Int /\ n <= rest /\ rest >= 0
    <2>1. /\ first \in Nat /\ last \in Nat /\ fsize \in Nat /\ first <= last /\ last < fsize
          /\ n = last - first + 1
      BY Zenon
    <2> HIDE DEF first, last, fsize, n
    <2> QED
      BY <2>1
  <1>2. Delivered(a, entry) = Min({n, Max({rest, 0})})
    BY Zenon DEF Delivered
  <1> HIDE DEF rest, n
  <1>3. Max({rest, 0}) = rest
    <2>1. rest \in Int /\ rest >= 0 /\ 0 \in Int
      BY <1>1
    <2> QED
      BY <2>1, MinMaxOfTwo, Zenon
  <1>4. Min({n, rest}) = n
    BY <1>1, MinMaxOfTwo, Zenon
  <1> QED
    BY <1>2, <1>3, <1>4, Zenon DEF n

LEMMA StreamStep ==
    ASSUME IInv, NEW r \in Requests, Stream(r)
    PROVE  IInv'
PROOF
  <1> DEFINE q == rq[r]
             sent == Delivered(q.answer, Entry(q.file))
             a == [q.answer EXCEPT !.sent = sent]
             over == Over(q, a)
  <1>1. PICK estimate : Becomes(r, [Ended(r, a) EXCEPT !.disagree = Disagrees(rq[r].parsed, estimate)])
    BY Zenon DEF Stream
  <1>2. q.pc = "stream" /\ ClearTrace(r) /\ UNCHANGED <<config, req, cached, granted, disk, changes>>
    BY Zenon DEF Stream, At
  <1> DEFINE differs == Disagrees(rq[r].parsed, estimate)
             new == [over EXCEPT !.disagree = differs]
  <1>3. Becomes(r, new)
    BY <1>1, EndedIsOver, Zenon DEF IInv
  <1>4. /\ ProgressFields(q) /\ AnswerFields(q.answer) /\ Owns(q, req[r])
        /\ Serves(q, req[r], granted) /\ Measured(q, req[r]) /\ Parses(q, req[r])
    BY Zenon DEF IInv, Shapes, Tasks
  <1>5. Owns(over, req[r])
    BY <1>4, OverOwns, Zenon
  <1>6. AnswerFields(a) /\ Alike(a, q.answer) /\ a.sent = sent
    <2> DEFINE b == q.answer
    <2>1. AnswerFields(b) /\ a = [b EXCEPT !.sent = sent]
      BY <1>4, Zenon
    <2> HIDE DEF q, b, sent, a
    <2>2. a = Answer(b.status, b.body, b.span, b.length, sent, b.of, b.size, b.watermark, b.acao, b.credentials,
                     b.keys, b.sizes)
      BY <2>1, Zenon DEF AnswerFields, Answer
    <2>3. AnswerFields(a) /\ Alike(a, b) /\ a.sent = sent
      BY <2>2, AnswerHasFields, Zenon DEF Answer, Alike
    <2> QED
      BY <2>3, Zenon DEF b
  <1>7. /\ new = [over EXCEPT !.disagree = differs] /\ ProgressFields(over)
        /\ over = Progress("done", q.parsed, q.access, q.file, IF q.gone THEN NoAnswer ELSE a, {}, q.part, None,
                           q.gone, q.disagree, q.seen)
    BY ProgressHasFields, Zenon DEF Over
  <1>8. sent = Delivered(q.answer, Entry(q.file))
    BY Zenon
  <1> HIDE DEF q, sent, a, over, differs, new
  <1>9. new = Progress(over.pc, over.parsed, over.access, over.file, over.answer, over.temps, over.part,
                       over.on, over.gone, differs, over.seen)
    BY <1>7, ZenonT(30) DEF ProgressFields, Progress
  <1>10. Owns(new, req[r])
    BY <1>5, <1>9, Zenon DEF Owns, Progress
  <1>11. /\ ProgressFields(new) /\ new.pc = "done" /\ new.on = None /\ new.parsed = q.parsed
         /\ new.access = q.access /\ new.file = q.file /\ new.seen = q.seen
         /\ new.answer = IF q.gone THEN NoAnswer ELSE a
    BY <1>7, <1>9, ProgressHasFields DEF Progress
  <1>12. NoAnswer.body = None /\ AnswerFields(NoAnswer)
    BY AnswersHaveFields, Zenon DEF NoAnswer
  <1>13. AnswerFields(new.answer)
    BY <1>6, <1>11, <1>12, Zenon
  <1>14. Decided(new, req[r], granted) <=> Decided(q, req[r], granted)
    BY <1>11, Zenon DEF Decided, Hooks
  <1>15. Serves(new, req[r], granted)
    <2>1. CASE q.gone
      BY <1>11, <1>12, <2>1, ZenonT(30) DEF Serves, None
    <2>2. CASE ~q.gone
      <3>1. new.answer.body = q.answer.body /\ new.answer.size = q.answer.size /\ new.answer.watermark = q.answer.watermark
        BY <1>6, <1>11, <2>2, Zenon DEF Alike
      <3> QED
        BY <1>4, <1>11, <1>14, <3>1, ZenonT(30) DEF Serves
    <2> QED
      BY <2>1, <2>2, Zenon
  <1>16. Measured(new, req[r])
    <2>1. CASE q.gone
      BY <1>4, <1>11, <1>12, <2>1, ZenonT(30) DEF Measured
    <2>2. CASE ~q.gone
      <3>1. /\ new.answer.status = q.answer.status /\ new.answer.body = q.answer.body
            /\ new.answer.span = q.answer.span /\ new.answer.of = q.answer.of /\ new.answer.sent = sent
        BY <1>6, <1>11, <2>2, Zenon DEF Alike
      <3>2. Entry(q.file).size \in Nat
        BY EntryFacts, IiifAssumption, SMTT(30) DEF IInv
      <3>3. ASSUME q.answer.status = 206, q.answer.body # None, InOrder(req[r].range), q.seen = changes
            PROVE  sent = q.answer.span.end - q.answer.span.start + 1
        BY <1>2, <1>4, <1>8, <3>2, <3>3, DeliversAll, SMTT(30) DEF Measured
      <3> QED
        BY <1>2, <1>4, <1>11, <3>1, <3>3, ZenonT(30) DEF Measured
    <2> QED
      BY <2>1, <2>2, Zenon
  <1>17. Parses(new, req[r])
    BY <1>4, <1>11, Zenon DEF Parses
  <1>18. Tasks' /\ trace' = [t \in Threads |-> trace'[t]]
    BY <1>2, <1>3, <1>10, <1>11, FinishTasks, Zenon DEF IInv
  <1>19. Shapes'
    BY <1>2, <1>3, <1>11, <1>13, <1>18, KeepsShapes, Zenon DEF PCs, IInv
  <1>20. CachedGranted'
    BY <1>2, Zenon DEF IInv, CachedGranted
  <1> QED
    BY <1>2, <1>3, <1>15, <1>16, <1>17, <1>18, <1>19, <1>20, BecomesFields, OneMoves, Zenon DEF IInv

----------------------------------------------------------------------------
\* The environment, and all steps together.

\* The cache may forget, the rest stays.
LEMMA ForgetStep ==
    ASSUME IInv, cached' \subseteq cached, UNCHANGED <<config, req, rq, trace, granted, disk, changes>>
    PROVE  IInv'
PROOF
  <1>1. cached' \subseteq cached /\ UNCHANGED <<config, req, rq, trace, granted, disk, changes>>
    BY Zenon
  <1>2. Shapes' /\ Tasks'
    BY <1>1 DEF IInv, Shapes, Tasks, Alone, Traced
  <1>3. CachedGranted'
    BY <1>1, Zenon DEF IInv, CachedGranted
  <1>4. \A path : Entry(path)' = Entry(path)
    BY <1>1, Zenon DEF Entry
  <1>5. \A o \in Requests : Serves(rq[o], req[o], granted)'
    <2> TAKE o \in Requests
    <2>1. \A path : Inside(path)' <=> Inside(path)
      BY <1>1, <1>4, Zenon DEF Inside
    <2>2. Decided(rq[o], req[o], granted)' <=> Decided(rq[o], req[o], granted)
      BY <1>1, Zenon DEF Decided, Hooks, DefaultAccess
    <2>3. Hooks(rq[o])' <=> Hooks(rq[o])
      BY <1>1, Zenon DEF Hooks
    <2> QED
      BY <1>1, <2>1, <2>2, <2>3, Zenon DEF IInv, Serves
  <1>6. \A o \in Requests : Measured(rq[o], req[o])'
    BY <1>1, <1>4, SMTT(30) DEF IInv, Measured
  <1>7. \A o \in Requests : Parses(rq[o], req[o])'
    BY <1>1, Zenon DEF IInv, Parses
  <1> QED
    BY <1>2, <1>3, <1>5, <1>6, <1>7, Zenon DEF IInv

\* Nothing is claimed of a file that has changed since it was measured.
LEMMA ChangeDiskStep ==
    ASSUME IInv, ChangeDisk
    PROVE  IInv'
PROOF
  <1>1. changes' = changes + 1 /\ changes \in Nat /\ UNCHANGED <<config, req, rq, trace, cached, granted>>
    BY Zenon DEF ChangeDisk, IInv, Shapes
  <1>2. PICK c \in DiskChanges : disk' = [disk EXCEPT ![c.path] = c.entry]
    BY Zenon DEF ChangeDisk
  <1>3. disk' \in [DOMAIN disk' -> FileEntry] /\ <<"missing">> \in DOMAIN disk'
    <2>1. c.entry \in FileEntry
      BY RoutingAssumption, Zenon
    <2>2. disk \in [DOMAIN disk -> FileEntry] /\ <<"missing">> \in DOMAIN disk
      BY Zenon DEF IInv, Shapes
    <2> QED
      BY <1>2, <2>1, <2>2, Zenon
  <1>4. Shapes' /\ Tasks'
    BY <1>1, <1>3 DEF IInv, Shapes, Tasks, Alone, Traced
  <1>5. CachedGranted'
    BY <1>1, Zenon DEF IInv, CachedGranted
  <1>6. \A o \in Requests : Serves(rq[o], req[o], granted)'
    <2> TAKE o \in Requests
    <2>1. \A path : Inside(path)'
      BY <1>1 DEF Inside
    <2>2. Decided(rq[o], req[o], granted)' <=> Decided(rq[o], req[o], granted)
      BY <1>1, Zenon DEF Decided, Hooks, DefaultAccess
    <2>3. Hooks(rq[o])' <=> Hooks(rq[o])
      BY <1>1, Zenon DEF Hooks
    <2> QED
      BY <1>1, <2>1, <2>2, <2>3, ZenonT(30) DEF IInv, Serves
  <1>7. \A o \in Requests : Measured(rq[o], req[o])'
    <2> TAKE o \in Requests
    <2>1. Measured(rq[o], req[o])
      BY Zenon DEF IInv
    <2>2. rq[o].seen \in Nat /\ rq[o].seen < changes'
      BY <1>1, <2>1 DEF Measured
    <2> QED
      BY <1>1, <2>1, <2>2, SMTT(30) DEF Measured
  <1>8. \A o \in Requests : Parses(rq[o], req[o])'
    BY <1>1, Zenon DEF IInv, Parses
  <1> QED
    BY <1>4, <1>5, <1>6, <1>7, <1>8, Zenon DEF IInv

LEMMA InitIInv == Init => IInv
PROOF
  <1> SUFFICES ASSUME Init PROVE IInv
    BY Zenon
  <1>0. None \notin Requests /\ None \notin Threads
    BY RoutingAssumption, Zenon
  <1>1. PICK s \in Scenes : config = Load(s.config) /\ req = s.requests /\ disk = s.disk
    BY Zenon DEF Init
  <1>2. config \in Configuration
    <2> DEFINE c == s.config
    <2>1. c \in Configuration /\ config = Load(c)
      BY <1>1, RoutingAssumption, Zenon
    <2> HIDE DEF c
    <2> QED
      BY <2>1, Zenon DEF Load, Configuration
  <1>3. req \in [Requests -> Request] /\ disk \in [DOMAIN disk -> FileEntry] /\ <<"missing">> \in DOMAIN disk
    BY <1>1, RoutingAssumption, Zenon
  <1>4. rq = [r \in Requests |-> IF req[r].route = None THEN [Fresh EXCEPT !.pc = "done"] ELSE Fresh]
    BY Zenon DEF Init
  <1>5. ASSUME NEW r \in Requests
        PROVE  \E start \in {"sent", "done"} :
                  rq[r] = Progress(start, Malformed, NoAccess, <<>>, NoAnswer, {}, 0, None, FALSE, FALSE, 0)
    BY <1>4, Zenon DEF Fresh, Progress
  <1>6. NoAnswer.body = None /\ AnswerFields(NoAnswer)
    BY AnswersHaveFields, ZenonT(30) DEF NoAnswer
  <1>7. ASSUME NEW r \in Requests
        PROVE  /\ ProgressFields(rq[r]) /\ rq[r].pc \in {"sent", "done"} /\ rq[r].parsed = Malformed
               /\ rq[r].answer = NoAnswer /\ rq[r].temps = {} /\ rq[r].part = 0 /\ rq[r].on = None /\ rq[r].seen = 0
    BY <1>5, ProgressHasFields DEF Progress
  <1>8. trace = [t \in Threads |-> None] /\ cached = {} /\ granted = {} /\ changes = 0
    BY Zenon DEF Init
  <1>9. Shapes
    BY <1>2, <1>3, <1>4, <1>6, <1>7, <1>8, Zenon DEF Shapes, PCs
  <1>10. Tasks
    <2>1. ASSUME NEW r \in Requests
          PROVE  Owns(rq[r], req[r])
      <3>1. req[r].parts \in Seq(STRING)
        BY <1>3, Zenon DEF Request
      <3>2. Len(req[r].parts) \in Nat
        BY <3>1
      <3> DEFINE q == rq[r]
                 R == req[r]
      <3>3. /\ q.pc \in {"sent", "done"} /\ q.temps = {} /\ q.part = 0 /\ q.on = None /\ Len(R.parts) \in Nat
        BY <1>7, <3>2, Zenon
      <3> HIDE DEF q, R
      <3>4. Owns(q, R)
        BY <3>3 DEF Owns
      <3> QED
        BY <3>4, Zenon DEF q, R
    <2>2. Alone /\ Traced
      BY <1>0, <1>7, <1>8, Zenon DEF Alone, Traced
    <2> QED
      BY <2>1, <2>2, Zenon DEF Tasks
  <1>11. CachedGranted
    BY <1>8, Zenon DEF CachedGranted
  <1>12. \A r \in Requests : Serves(rq[r], req[r], granted)
    BY <1>6, <1>7, ZenonT(30) DEF Serves, None
  <1>13. \A r \in Requests : Measured(rq[r], req[r]) /\ Parses(rq[r], req[r])
    BY <1>6, <1>7, <1>8, SMTT(30) DEF Measured, Parses
  <1> QED
    BY <1>9, <1>10, <1>11, <1>12, <1>13, Zenon DEF IInv

LEMMA NextIInv == IInv /\ [Next]_vars => IInv'
PROOF
  <1> SUFFICES ASSUME IInv, [Next]_vars PROVE IInv'
    BY Zenon
  <1>1. ASSUME NEW r \in Requests, Iiif(r) PROVE IInv'
    BY <1>1, IiifStep, Zenon
  <1>2. ASSUME NEW r \in Requests, Admit(r) PROVE IInv'
    BY <1>2, AdmitStep, Zenon
  <1>3. ASSUME NEW r \in Requests, Shed(r) \/ RunScript(r) PROVE IInv'
    BY <1>3, ShortAnswers, Zenon
  <1>4. ASSUME NEW r \in Requests, DefaultGrant(r) \/ CacheHit(r) PROVE IInv'
    BY <1>4, AccessStep, Zenon
  <1>5. ASSUME NEW r \in Requests, CacheMiss(r) \/ LuaRoute(r) \/ BodyRead(r) \/ Docroot(r) PROVE IInv'
    BY <1>5, GoingOn, Zenon
  <1>6. ASSUME NEW r \in Requests, RunHook(r) PROVE IInv'
    BY <1>6, HookStep, Zenon
  <1>7. ASSUME NEW r \in Requests, Resolve(r) PROVE IInv'
    BY <1>7, ResolveStep, Zenon
  <1>8. ASSUME NEW r \in Requests, ServeImage(r) PROVE IInv'
    BY <1>8, ServeImageStep, Zenon
  <1>9. ASSUME NEW r \in Requests, ServeFile(r) PROVE IInv'
    BY <1>9, ServeFileStep, Zenon
  <1>10. ASSUME NEW r \in Requests, ServeJson(r) PROVE IInv'
    BY <1>10, ServeJsonStep, Zenon
  <1>11. ASSUME NEW r \in Requests, Stream(r) PROVE IInv'
    BY <1>11, StreamStep, Zenon
  <1>12. ASSUME NEW r \in Requests, SpoolPart(r) PROVE IInv'
    BY <1>12, SpoolStep, Zenon
  <1>13. ASSUME NEW r \in Requests, ResolveDoc(r) PROVE IInv'
    BY <1>13, ResolveDocStep, Zenon
  <1>14. ASSUME NEW r \in Requests, ServeStatic(r) PROVE IInv'
    BY <1>14, ServeStaticStep, Zenon
  <1>15. ASSUME NEW r \in Requests, Leave(r) PROVE IInv'
    BY <1>15, LeaveStep, Zenon
  <1>16. CASE Forget \/ UNCHANGED vars
    <2>1. cached' \subseteq cached /\ UNCHANGED <<config, req, rq, trace, granted, disk, changes>>
      BY <1>16, Zenon DEF Forget, vars
    <2> QED
      BY <2>1, ForgetStep, Zenon
  <1>17. CASE ChangeDisk
    BY <1>17, ChangeDiskStep, Zenon
  <1> QED
    BY <1>1, <1>2, <1>3, <1>4, <1>5, <1>6, <1>7, <1>8, <1>9, <1>10, <1>11, <1>12, <1>13, <1>14, <1>15, <1>16, Zenon,
       <1>17 DEF Next

\* Every state the request edge can reach satisfies the inductive invariant.
THEOREM EdgeInvariance == Spec => []IInv
PROOF
  BY InitIInv, NextIInv, PTL DEF Spec

\* What a request owns ends with it: temp files, thread and trace context, for
\* every number of requests, parts and threads, wherever a client leaves or a
\* handler returns early (the drop of the blocking task's captures in routes.rs,
\* LogTraceScope).
THEOREM TasksCleanUp == Spec => []NothingOutlivesItsTask
PROOF
  <1>1. ASSUME IInv PROVE NothingOutlivesItsTask
    <2>1. ASSUME NEW r \in Requests
          PROVE  /\ rq[r].temps # {} => rq[r].pc \in {"spool", "queued", "script"}
                 /\ rq[r].pc = "script" /\ req[r].multipart =>
                       rq[r].temps = {i \in DOMAIN Parts(r) : Parts(r)[i] = "file"}
      <3>1. Owns(rq[r], req[r]) /\ req[r].parts \in Seq(STRING)
        BY <1>1, Zenon DEF IInv, Tasks, Shapes, Request
      <3>2. DOMAIN req[r].parts = 1 .. Len(req[r].parts)
        BY <3>1, SMTT(30)
      <3>3. rq[r].temps # {} => rq[r].pc \in {"spool", "queued", "script"}
        BY <3>1, Zenon DEF Owns
      <3>4. ASSUME rq[r].pc = "script", req[r].multipart
            PROVE  rq[r].temps = {i \in DOMAIN Parts(r) : Parts(r)[i] = "file"}
        <4>1. /\ rq[r].temps = {i \in 1 .. rq[r].part : req[r].parts[i] = "file"}
              /\ rq[r].part = Len(req[r].parts)
          BY <3>1, <3>4, Zenon DEF Owns
        <4> QED
          BY <3>2, <4>1, Zenon DEF Parts
      <3> QED
        BY <3>3, <3>4, Zenon
    <2>2. ASSUME NEW r \in Requests
          PROVE  (rq[r].on # None) = (\/ rq[r].pc \in {"access", "hook", "resolve", "serve", "script"}
                                      \/ rq[r].pc = "stream" /\ req[r].route = "iiif")
      <3>1. Owns(rq[r], req[r])
        BY <1>1, Zenon DEF IInv, Tasks
      <3> QED
        BY <3>1, Zenon DEF Owns
    <2>3. \A r \in Requests : \A o \in Requests \ {r} : rq[r].on # None => rq[o].on # rq[r].on
      BY <1>1, Zenon DEF IInv, Tasks, Alone
    <2>4. ASSUME NEW t \in Threads
          PROVE  trace[t] = IF \E r \in Requests : rq[r].on = t /\ req[r].sampled
                            THEN CHOOSE r \in Requests : rq[r].on = t ELSE None
      <3>1. CASE \E r \in Requests : rq[r].on = t /\ req[r].sampled
        <4>1. PICK r \in Requests : rq[r].on = t /\ req[r].sampled
          BY <3>1, Zenon
        <4>2. trace[t] = r /\ t # None
          BY <1>1, <4>1, RoutingAssumption, Zenon DEF IInv, Tasks, Traced
        <4>3. \A o \in Requests : rq[o].on = t => o = r
          BY <4>1, <4>2, <2>3, Zenon
        <4>4. (CHOOSE o \in Requests : rq[o].on = t) = r
          BY <4>1, <4>3, Zenon
        <4> QED
          BY <3>1, <4>2, <4>4, Zenon
      <3>2. CASE ~ (\E r \in Requests : rq[r].on = t /\ req[r].sampled)
        BY <1>1, <3>2, Zenon DEF IInv, Tasks, Traced
      <3> QED
        BY <3>1, <3>2, Zenon
    <2> QED
      BY <2>1, <2>2, <2>3, <2>4, Zenon DEF NothingOutlivesItsTask
  <1> QED
    BY <1>1, EdgeInvariance, PTL

\* Bytes of an image or a file leave only as a decision allows that was made for
\* this very request, fresh or cached, and with the restrictions it names, for
\* every interleaving of requests, expiries and hooks (iiif_access, file_access,
\* serve_image, resolve in routes.rs).
THEOREM DecisionsAreKept == Spec => []ServedAsDecided
PROOF
  <1>1. ASSUME IInv PROVE ServedAsDecided
    <2> SUFFICES ASSUME NEW r \in Requests, rq[r].answer.body \in {"image", "file"}
                 PROVE  /\ config.ready /\ Open(rq[r].access.permission)
                        /\ IF Hooked(r) THEN [asked |-> Asked(r), access |-> rq[r].access] \in granted
                           ELSE rq[r].access = DefaultAccess(rq[r].parsed)
                        /\ rq[r].file = rq[r].access.infile
                        /\ changes = 0 => Entry(rq[r].access.infile).at = "inside"
                        /\ rq[r].answer.body = "image" =>
                              /\ rq[r].answer.size = IF rq[r].access.permission = "restrict" THEN rq[r].access.size ELSE None
                              /\ rq[r].answer.watermark = IF rq[r].access.permission = "restrict" THEN rq[r].access.watermark ELSE None
      BY Zenon DEF ServedAsDecided
    <2>1. Serves(rq[r], req[r], granted)
      BY <1>1, Zenon DEF IInv
    <2>2. /\ config.ready /\ Open(rq[r].access.permission) /\ Decided(rq[r], req[r], granted)
          /\ rq[r].file = rq[r].access.infile /\ Inside(rq[r].access.infile)
      BY <2>1, Zenon DEF Serves
    <2>3. IF Hooked(r) THEN [asked |-> Asked(r), access |-> rq[r].access] \in granted
          ELSE rq[r].access = DefaultAccess(rq[r].parsed)
      BY <2>2, ZenonT(30) DEF Decided, Hooks, Hooked, IsFile, Asked
    <2> QED
      BY <2>1, <2>2, <2>3, ZenonT(30) DEF Serves, Inside
  <1> QED
    BY <1>1, EdgeInvariance, PTL

\* A partial answer carries exactly the bytes it announces, and they lie inside
\* the file, for every range whose bounds are in order and every file length
\* below the width of the offsets (parse_byte_range, build_file_response).
THEOREM RangesAreHonest == Spec => []RangesHonest
PROOF
  <1>1. ASSUME IInv PROVE RangesHonest
    <2>1. ASSUME NEW r \in Requests
          PROVE  Measured(rq[r], req[r])
      BY <1>1, Zenon DEF IInv
    <2> QED
      BY <2>1, ZenonT(30) DEF RangesHonest, Measured, InOrder
  <1> QED
    BY <1>1, EdgeInvariance, PTL

----------------------------------------------------------------------------
\* The parser.

LEMMA CappedInRange ==
    ASSUME NEW n \in Nat, n >= 1
    PROVE  Capped(n) \in 1 .. SizeCap
PROOF
  BY IiifAssumption, MinMaxOfTwo DEF Capped

\* A size that is accepted has the dimensions its kind needs.
LEMMA SizesUsable ==
    ASSUME NEW s \in Segment, ParseSize(s).ok
    PROVE  /\ SizeUsable(ParseSize(s))
           /\ ParseSize(s).kind \in {"Full", "Percents", "PixelsX", "PixelsY", "PixelsXy", "Maxdim"}
PROOF
  <1> DEFINE z == ParseSize(s)
             Size(kind, percent, nx, ny) ==
                 [ok |-> TRUE, kind |-> kind, upscaling |-> s.up, percent |-> percent, nx |-> nx, ny |-> ny]
  <1>0. SizeCap \in Nat
    BY IiifAssumption, Zenon
  <1>1. \/ s.form = "max" /\ z = Size("Full", 0, 0, 0)
        \/ s.form = "pct" /\ z = Size("Percents", IF s.nums[1] = 0 THEN 1 ELSE s.nums[1], 0, 0)
        \/ DimOk(s.nums[1]) /\ z = Size("PixelsY", 0, 0, Capped(s.nums[1]))
        \/ DimOk(s.nums[1]) /\ z = Size("PixelsX", 0, Capped(s.nums[1]), 0)
        \/ /\ DimOk(s.nums[1]) /\ DimOk(s.nums[2])
           /\ \E kind \in {"Maxdim", "PixelsXy"} : z = Size(kind, 0, Capped(s.nums[1]), Capped(s.nums[2]))
    BY ZenonT(30) DEF ParseSize, SizeParts, NoSize
  <1>2. \A n : DimOk(n) => Capped(n) \in 1 .. SizeCap
    BY CappedInRange, IiifAssumption DEF DimOk
  <1> HIDE DEF z
  <1>3. CASE s.form = "max" /\ z = Size("Full", 0, 0, 0)
    BY <1>0, <1>3 DEF SizeUsable, z
  <1>4. CASE s.form = "pct" /\ z = Size("Percents", IF s.nums[1] = 0 THEN 1 ELSE s.nums[1], 0, 0)
    <2>1. s.nums \in Seq(Nat) /\ Len(s.nums) = 1
      BY <1>4, Zenon DEF Segment
    <2>2. s.nums[1] \in Nat
      BY <2>1, SMTT(30)
    <2> QED
      BY <1>0, <1>4, <2>2 DEF SizeUsable, z
  <1>5. CASE DimOk(s.nums[1]) /\ z = Size("PixelsY", 0, 0, Capped(s.nums[1]))
    BY <1>0, <1>2, <1>5, SMTT(30) DEF SizeUsable, z
  <1>6. CASE DimOk(s.nums[1]) /\ z = Size("PixelsX", 0, Capped(s.nums[1]), 0)
    BY <1>0, <1>2, <1>6, SMTT(30) DEF SizeUsable, z
  <1>7. CASE /\ DimOk(s.nums[1]) /\ DimOk(s.nums[2])
             /\ \E kind \in {"Maxdim", "PixelsXy"} : z = Size(kind, 0, Capped(s.nums[1]), Capped(s.nums[2]))
    BY <1>0, <1>2, <1>7 DEF SizeUsable, z
  <1> QED
    BY <1>1, <1>3, <1>4, <1>5, <1>6, <1>7, Zenon

\* The integers of the C structure name the parsed kinds.
LEMMA FormatNumbers ==
    ASSUME NEW f \in {"jpg", "tif", "png", "jp2"}
    PROVE  SipiFormatType(FormatKind(f)) \in {1, 2, 3, 5}
PROOF
  <1> DEFINE names == <<"unsupported", "jpg", "tif", "png", "gif", "jp2", "pdf", "webp">>
             i == CHOOSE j \in DOMAIN names : names[j] = f
  <1>1. FormatKind(f) = f /\ SipiFormatType(f) = i - 1
    BY Zenon DEF FormatKind, SipiFormatType, Index
  <1>2. \E j \in DOMAIN names : names[j] = f
    OBVIOUS
  <1>3. i \in 1 .. 8 /\ names[i] = f
    BY <1>2
  <1> HIDE DEF i
  <1>4. i \in {2, 3, 4, 6}
    BY <1>3
  <1> QED
    BY <1>1, <1>4

LEMMA SizeNumbers ==
    ASSUME NEW k \in {"Full", "Percents", "PixelsX", "PixelsY", "PixelsXy", "Maxdim"}
    PROVE  SipiSizeType(k) \in 1 .. 6
PROOF
  <1> DEFINE names == <<"Undefined", "Full", "PixelsXy", "PixelsX", "PixelsY", "Maxdim", "Percents", "Reduce">>
             i == CHOOSE j \in DOMAIN names : names[j] = k
  <1>1. SipiSizeType(k) = i - 1
    BY Zenon DEF SipiSizeType, Index
  <1>2. \E j \in DOMAIN names : names[j] = k
    OBVIOUS
  <1>3. i \in 1 .. 8 /\ names[i] = k
    BY <1>2
  <1> HIDE DEF i
  <1>4. i \in 2 .. 7
    BY <1>3
  <1> QED
    BY <1>1, <1>4

LEMMA PrefixAndNext ==
    ASSUME NEW S, NEW parts \in Seq(S), NEW k \in Nat, k < Len(parts)
    PROVE  /\ Len(SubSeq(parts, 1, k)) = k
           /\ SubSeq(parts, 1, k) \o <<parts[k + 1]>> = SubSeq(parts, 1, k + 1)
           /\ parts[k + 1] \in S
PROOF
  <1> DEFINE n == Len(parts)
             front == SubSeq(parts, 1, k)
             longer == SubSeq(parts, 1, k + 1)
             x == parts[k + 1]
  <1>1. n \in Nat /\ k + 1 \in 1 .. n
    OBVIOUS
  <1>2. x \in S
    BY <1>1
  <1>3. front \in Seq(S) /\ Len(front) = k /\ \A i \in 1 .. k : front[i] = parts[i]
    BY <1>1
  <1>4. longer \in Seq(S) /\ Len(longer) = k + 1 /\ \A i \in 1 .. (k + 1) : longer[i] = parts[i]
    BY <1>1
  <1> HIDE DEF front, longer, x
  <1>5. /\ front \o <<x>> \in Seq(S) /\ Len(front \o <<x>>) = k + 1
        /\ \A i \in 1 .. (k + 1) : (front \o <<x>>)[i] = IF i <= k THEN front[i] ELSE x
    BY <1>2, <1>3
  <1>6. front \o <<x>> = longer
    <2>1. \A i \in 1 .. (k + 1) : (front \o <<x>>)[i] = longer[i]
      BY <1>3, <1>4, <1>5 DEF x
    <2> QED
      BY <1>4, <1>5, <2>1, Z3
  <1> QED
    BY <1>2, <1>3, <1>6, Zenon DEF front, longer, x

LEMMA TokensAreSegments ==
    ASSUME NEW url \in Seq(Segment)
    PROVE  Tokenize(url) \in Seq(Segment)
PROOF
  <1>1. Len(url) > 0 => SubSeq(url, 1, Len(url) - 1) \in Seq(Segment)
    OBVIOUS
  <1> QED
    BY <1>1, Zenon DEF Tokenize

\* A path that is accepted and is no redirect is one of the four requests, and
\* its prefix, its identifier and its tail are the path.
Read(parsed, parts) ==
    /\ parsed.kind \in {"Iiif", "InfoJson", "KnoraJson", "FileDownload"}
    /\ Len(parsed.prefix) + 1 + TailLength(parsed.kind) = Len(parts)
    /\ parsed.prefix \o <<parsed.identifier>> = SubSeq(parts, 1, Len(parsed.prefix) + 1)
    /\ parsed.kind = "Iiif" =>
          /\ SizeUsable(parsed.params.size)
          /\ SipiIiifParams(parsed.params).format_type \in {1, 2, 3, 5}
          /\ SipiIiifParams(parsed.params).size_type \in 1 .. 6

LEMMA DocumentsRead ==
    ASSUME NEW parts \in Seq(Segment), NEW kind \in {"InfoJson", "KnoraJson", "FileDownload"},
           Document(kind, parts).ok
    PROVE  Read(Document(kind, parts), parts)
PROOF
  <1> DEFINE n == Len(parts)
             p == Document(kind, parts)
             k == n - 2
             prefix == SubSeq(parts, 1, k)
             x == parts[n - 1]
  <1>1. n \in Nat /\ ~ (n < 2) /\ p = Parsed(kind, prefix, x, NoParams)
    BY DEF Document, Malformed
  <1>2. k \in Nat /\ k < n /\ k + 1 = n - 1
    BY <1>1
  <1>3. Len(prefix) = k /\ prefix \o <<parts[k + 1]>> = SubSeq(parts, 1, k + 1)
    BY <1>2, PrefixAndNext, Zenon
  <1>4. prefix \o <<x>> = SubSeq(parts, 1, k + 1) /\ k + 2 = n
    BY <1>1, <1>2, <1>3
  <1> HIDE DEF n, p, k, prefix, x
  <1>5. p.kind = kind /\ p.prefix = prefix /\ p.identifier = x
    BY <1>1, Zenon DEF Parsed
  <1>6. TailLength(kind) = 1
    BY Zenon DEF TailLength
  <1>7. Len(p.prefix) + 1 + TailLength(p.kind) = n
    BY <1>2, <1>3, <1>4, <1>5, <1>6
  <1> QED
    BY <1>3, <1>4, <1>5, <1>7, Zenon DEF Read, p, n

LEMMA ImagesRead ==
    ASSUME NEW parts \in Seq(Segment), Len(parts) >= 5, IsValidQualform(parts[Len(parts)]),
           ParseSize(parts[Len(parts) - 2]).ok
    PROVE  LET n == Len(parts)
           IN  Read(Parsed("Iiif", SubSeq(parts, 1, n - 5), parts[n - 4],
                           ParseIiifParams(parts[n - 3], parts[n - 2], parts[n - 1], parts[n])), parts)
PROOF
  <1> DEFINE n == Len(parts)
             k == n - 5
             prefix == SubSeq(parts, 1, k)
             x == parts[n - 4]
             size == parts[n - 2]
             params == ParseIiifParams(parts[n - 3], size, parts[n - 1], parts[n])
             p == Parsed("Iiif", prefix, x, params)
  <1>1. n \in Nat /\ k \in Nat /\ k < n /\ k + 1 = n - 4 /\ k + 5 = n
    OBVIOUS
  <1>2. Len(prefix) = k /\ prefix \o <<parts[k + 1]>> = SubSeq(parts, 1, k + 1)
    BY <1>1, PrefixAndNext, Zenon
  <1>3. prefix \o <<x>> = SubSeq(parts, 1, k + 1)
    BY <1>1, <1>2, Zenon
  <1>4. size \in Segment
    BY <1>1
  <1>5. /\ SizeUsable(params.size)
        /\ params.size.kind \in {"Full", "Percents", "PixelsX", "PixelsY", "PixelsXy", "Maxdim"}
    <2>1. params.size = ParseSize(size) /\ ParseSize(size).ok
      BY Zenon DEF ParseIiifParams
    <2> HIDE DEF size, params
    <2> QED
      BY <1>4, <2>1, SizesUsable, Zenon
  <1>6. \E f \in {"jpg", "tif", "png", "jp2"} : params.qf.format = FormatKind(f)
    BY Zenon DEF IsValidQualform, ParseIiifParams, ParseQualityFormat
  <1> HIDE DEF n, k, prefix, x, size, params
  <1>7. SipiIiifParams(params).format_type \in {1, 2, 3, 5}
    <2>1. SipiIiifParams(params).format_type = SipiFormatType(params.qf.format)
      BY Zenon DEF SipiIiifParams
    <2> QED
      BY <1>6, <2>1, FormatNumbers, Zenon
  <1>8. SipiIiifParams(params).size_type \in 1 .. 6
    <2>1. SipiIiifParams(params).size_type = SipiSizeType(params.size.kind)
      BY Zenon DEF SipiIiifParams
    <2> QED
      BY <1>5, <2>1, SizeNumbers, Zenon
  <1>9. p.kind = "Iiif" /\ p.prefix = prefix /\ p.identifier = x /\ p.params = params
    BY Zenon DEF Parsed
  <1> HIDE DEF p
  <1>10. TailLength(p.kind) = 4
    BY <1>9, Zenon DEF TailLength
  <1>11. Len(p.prefix) + 1 + TailLength(p.kind) = n
    BY <1>1, <1>2, <1>9, <1>10, SMTT(30)
  <1>12. Read(p, parts)
    BY <1>2, <1>3, <1>5, <1>7, <1>8, <1>9, <1>11, Zenon DEF Read, n
  <1> QED
    BY <1>12, Zenon DEF n, k, prefix, x, size, params, p

LEMMA RequestsRead ==
    ASSUME NEW url \in Seq(Segment), ParseRequest(url).ok, ParseRequest(url).kind # "Redirect"
    PROVE  Read(ParseRequest(url), Tokenize(url))
PROOF
  <1> DEFINE parts == Tokenize(url)
             n == Len(parts)
             size == parts[n - 2]
             params == ParseIiifParams(parts[n - 3], size, parts[n - 1], parts[n])
             image == Parsed("Iiif", SubSeq(parts, 1, n - 5), parts[n - 4], params)
             p == ParseRequest(url)
  <1>1. parts \in Seq(Segment)
    BY TokensAreSegments, Zenon
  <1> HIDE DEF parts
  <1>2. n \in Nat
    BY <1>1
  <1>3. \/ p = Malformed
        \/ ~ (n < 5) /\ params.size.ok /\ IsValidQualform(parts[n]) /\ p = image
        \/ \E kind \in {"InfoJson", "KnoraJson", "FileDownload"} : p = Document(kind, parts)
        \/ p = BuildPrefixStrict(SubSeq(parts, 1, n - 1), parts[n])
    <2> DEFINE last == parts[n]
               qualformOk == IsValidQualform(last)
               restOk == /\ n > 3
                         /\ IsValidRotation(parts[n - 1])
                         /\ IsValidSize(parts[n - 2])
                         /\ IsValidRegion(parts[n - 3])
               usable == params.size.ok
               redirect == BuildPrefixStrict(SubSeq(parts, 1, n - 1), last)
               Doc(kind) == Document(kind, parts)
    <2>1. p = CASE n = 0 -> Malformed
                [] n > 0 /\ qualformOk /\ restOk -> IF n < 5 \/ ~usable THEN Malformed ELSE image
                [] n > 0 /\ last.form = "info.json" -> Doc("InfoJson")
                [] n > 0 /\ last.form = "knora.json" -> Doc("KnoraJson")
                [] n > 0 /\ last.form = "file" -> Doc("FileDownload")
                [] OTHER -> IF (HasDot(last) /\ qualformOk) \/ restOk THEN Malformed ELSE redirect
      BY Zenon DEF ParseRequest, parts
    <2> HIDE DEF n, last, qualformOk, restOk, usable, image, redirect, Doc, p
    <2>2. \/ p = Malformed
          \/ ~ (n < 5) /\ usable /\ qualformOk /\ p = image
          \/ p = Doc("InfoJson")
          \/ p = Doc("KnoraJson")
          \/ p = Doc("FileDownload")
          \/ p = redirect
      BY <2>1
    <2> QED
      BY <2>2, Zenon DEF last, qualformOk, usable, redirect, Doc
  <1>4. ~Malformed.ok
    BY Zenon DEF Malformed
  <1>5. p # BuildPrefixStrict(SubSeq(parts, 1, n - 1), parts[n])
    BY <1>4 DEF BuildPrefixStrict, Parsed
  <1>6. CASE ~ (n < 5) /\ params.size.ok /\ IsValidQualform(parts[n]) /\ p = image
    <2>1. params.size = ParseSize(size)
      BY Zenon DEF ParseIiifParams
    <2>2. Read(image, parts)
      BY <1>1, <1>2, <1>6, <2>1, ImagesRead, SMTT(30)
    <2> QED
      BY <1>6, <2>2, Zenon DEF parts
  <1>7. CASE \E kind \in {"InfoJson", "KnoraJson", "FileDownload"} : p = Document(kind, parts)
    BY <1>1, <1>7, DocumentsRead, Zenon DEF parts
  <1> QED
    BY <1>3, <1>4, <1>5, <1>6, <1>7, Zenon

\* What the parser hands on is what the path said, and what its consumers rely
\* on holds for every path, every number and every cap (parse_request, ParseSize
\* and the conversion to the C structure).
THEOREM RequestsAreReadAsWritten == Spec => []ReadAsWritten
PROOF
  <1>1. ASSUME IInv PROVE ReadAsWritten
    <2>1. ASSUME NEW r \in Requests, rq[r].parsed.ok
          PROVE  Read(rq[r].parsed, Tokenize(req[r].url))
      <3>1. ~Malformed.ok
        BY Zenon DEF Malformed
      <3>2. rq[r].parsed = ParseRequest(req[r].url) /\ rq[r].parsed.kind # "Redirect"
        BY <1>1, <2>1, <3>1, Zenon DEF IInv, Parses
      <3>3. req[r].url \in Seq(Segment)
        BY <1>1, Zenon DEF IInv, Shapes, Request
      <3> QED
        BY <2>1, <3>2, <3>3, RequestsRead, Zenon
    <2> QED
      BY <2>1, Zenon DEF ReadAsWritten, Read
  <1> QED
    BY <1>1, EdgeInvariance, PTL

==============================================================================
