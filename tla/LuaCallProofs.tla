---------------------------- MODULE LuaCallProofs ----------------------------
(***************************************************************************)
(* Proofs about the calls into the Lua environment, for every number of    *)
(* calls, scripts and edits: a late script never answers, a preflight hook *)
(* fails closed, and a committed head is reported.  Each call has its own  *)
(* VM, so the invariant speaks of one call at a time: where a call of its  *)
(* kind can be, and what it may have ended with.                           *)
(*                                                                         *)
(* The calls share the bytecode cache.  That a load returns code its file  *)
(* held during the load needs an invariant about pairs of loads: what one  *)
(* is about to insert is fresh for every other that is still under way     *)
(* (CacheInv).                                                             *)
(***************************************************************************)
EXTENDS LuaCall, WellFoundedInduction, TLAPS

\* The fields of a call.
Record(kind, hasInit, pc, late, defines, back, writer, result, value, head, reported) ==
    [kind |-> kind, hasInit |-> hasInit, pc |-> pc, late |-> late, defines |-> defines,
     back |-> back, writer |-> writer, result |-> result,
     value |-> value, head |-> head, reported |-> reported]

Shaped(x) ==
    x = Record(x.kind, x.hasInit, x.pc, x.late, x.defines, x.back, x.writer, x.result,
               x.value, x.head, x.reported)

\* The places a kind of call can reach.
Placed(x) ==
    /\ x.pc = "main" => x.kind = "lua"
    /\ x.pc \in {"page", "html"} => x.kind = "elua"
    /\ x.pc = "built" => x.kind \notin Hooks \cup {"lua"}
    /\ x.pc \in {"init", "initrun"} \/ (x.pc = "require" /\ x.back = "initrun") => x.hasInit
    /\ x.defines => x.hasInit
    /\ x.pc = "require" => x.back \in {"initrun", "run"}
    /\ x.pc # "done" => x.result = "none"

\* The two properties, of one call.
InTime(x) ==
    x.pc = "done" /\ x.late /\ x.kind \in Hooks \cup {"lua"} =>
        x.result \in {"timeout", "error", "notfound"}

Closed(x) ==
    x.result = "decision" =>
        /\ x.kind \in Hooks /\ x.hasInit /\ x.defines /\ ~x.late /\ ~x.writer.set
        /\ x.value.perm \in {"allow", "deny"} \cup IF x.kind = "pre_flight" THEN {"kiosk"} ELSE {}
        /\ x.value.perm # "deny" => x.value.infile = "string"

\* The committed flag says whether the transport was given its one head.
WriterFields == {"status", "set", "headers", "cookies", "committed", "heads", "body"}

OneHead(w) ==
    /\ w = [f \in WriterFields |-> w[f]]
    /\ w.heads = <<>> \/ w.heads = <<w.heads[1]>>
    /\ w.committed = (w.heads # <<>>)

Reported(x) ==
    /\ OneHead(x.writer)
    /\ x.pc = "done" /\ x.kind \in Routed => x.reported = (x.writer.heads # <<>>) \/ x.head = 500

Results == Reasons \cup {"none", "ok", "error", "notfound", "hook", "nohook", "decision", "direct"}

Typed(x) == x.kind \in AllKinds /\ x.value \in HookValues /\ x.result \in Results

Good(x) == Placed(x) /\ InTime(x) /\ Closed(x) /\ Reported(x) /\ Typed(x)

IInv ==
    /\ call = [c \in Vms |-> call[c]]
    /\ \A c \in Vms : Shaped(call[c]) /\ Good(call[c])

\* A step that changes one call, to one the invariant allows.
LEMMA OneCall ==
    ASSUME IInv, NEW c \in Vms, NEW x, Shaped(x), Good(x), call' = [call EXCEPT ![c] = x]
    PROVE  IInv'
PROOF
  <1>1. call' = [d \in Vms |-> IF d = c THEN x ELSE call[d]]
    BY Zenon DEF IInv
  <1>2. call' = [d \in Vms |-> call'[d]]
    BY <1>1, Zenon
  <1>3. \A d \in Vms : call'[d] = IF d = c THEN x ELSE call[d]
    BY <1>1, Zenon
  <1>4. \A d \in Vms : Shaped(call'[d]) /\ Good(call'[d])
    BY <1>3, Zenon DEF IInv
  <1> QED
    BY <1>2, <1>4, Zenon DEF IInv

LEMMA NoValueTyped == NoValue \in HookValues
PROOF
  BY Zenon DEF NoValue, HookValues

LEMMA NewWriterOneHead == OneHead(NewWriter)
PROOF
  BY Zenon DEF NewWriter, OneHead, WriterFields

\* sendStatus leaves the heads alone.
LEMMA SetStatusOneHead ==
    ASSUME NEW w, OneHead(w), NEW status
    PROVE  OneHead(SetStatus(w, status))
PROOF
  <1> DEFINE yes == TRUE
             v == [w EXCEPT !.status = status, !.set = yes]
  <1>1. SetStatus(w, status) = v
    BY Zenon DEF SetStatus
  <1> HIDE DEF yes
  <1>2. v = [f \in WriterFields |-> v[f]] /\ v.heads = w.heads /\ v.committed = w.committed
    BY Zenon DEF OneHead, WriterFields
  <1> QED
    BY <1>1, <1>2, Zenon DEF OneHead

\* A write hands out the head once, whether or not the client takes the body.
LEMMA WriteOneHead ==
    ASSUME NEW w, OneHead(w), NEW delivered
    PROVE  OneHead(Write(w, delivered)) /\ Write(w, delivered).committed = TRUE
PROOF
  <1> DEFINE sent == IF delivered THEN w.body + 1 ELSE w.body
  <1>1. CASE w.committed
    <2> DEFINE v == [w EXCEPT !.body = sent]
    <2>1. Write(w, delivered) = v
      BY <1>1, Zenon DEF Write
    <2> HIDE DEF sent
    <2>2. v = [f \in WriterFields |-> v[f]] /\ v.heads = w.heads /\ v.committed = w.committed
      BY Zenon DEF OneHead, WriterFields
    <2>3. w.committed = TRUE
      BY <1>1, Zenon DEF OneHead
    <2> QED
      BY <2>1, <2>2, <2>3, Zenon DEF OneHead
  <1>2. CASE ~w.committed
    <2> DEFINE yes == TRUE
               none == <<>>
               heads == Append(w.heads, HeadSnapshot(w))
               v == [w EXCEPT !.committed = yes, !.heads = heads,
                              !.headers = none, !.cookies = none, !.body = sent]
    <2>1. Write(w, delivered) = v
      BY <1>2, Zenon DEF Write
    <2>2. heads = <<HeadSnapshot(w)>>
      <3>1. w.heads = <<>>
        BY <1>2, Zenon DEF OneHead
      <3>2. \A h : Append(<<>>, h) = <<h>>
        OBVIOUS
      <3> QED
        BY <3>1, <3>2, Zenon
    <2> HIDE DEF sent, yes, none, heads
    <2>3. v = [f \in WriterFields |-> v[f]] /\ v.heads = heads /\ v.committed = yes
      BY Zenon DEF OneHead, WriterFields
    <2>4. v.heads = <<HeadSnapshot(w)>> /\ v.committed = TRUE /\ v.heads # <<>>
      BY <2>2, <2>3 DEF yes
    <2>5. v.heads = <<v.heads[1]>>
      BY <2>4
    <2> HIDE DEF v
    <2> QED
      BY <2>1, <2>3, <2>4, <2>5, Zenon DEF OneHead
  <1> QED
    BY <1>1, <1>2, Zenon

LEMMA InitInv == Init => IInv
PROOF
  <1> SUFFICES ASSUME Init PROVE IInv
    BY Zenon
  <1>1. PICK hasInit \in BOOLEAN : call \in [Vms -> {NewCall(kind, hasInit) : kind \in AllKinds}]
    BY Zenon DEF Init
  <1>2. ASSUME NEW kind \in AllKinds
        PROVE  Shaped(NewCall(kind, hasInit)) /\ Good(NewCall(kind, hasInit))
    <2>1. Shaped(NewCall(kind, hasInit))
      BY Zenon DEF NewCall, Shaped, Record
    <2>2. Placed(NewCall(kind, hasInit)) /\ InTime(NewCall(kind, hasInit)) /\ Closed(NewCall(kind, hasInit))
      BY Zenon DEF NewCall, Placed, InTime, Closed
    <2>3. Reported(NewCall(kind, hasInit))
      BY NewWriterOneHead, Zenon DEF NewCall, Reported
    <2>4. Typed(NewCall(kind, hasInit))
      BY NoValueTyped, Zenon DEF NewCall, Typed, Results
    <2> QED
      BY <2>1, <2>2, <2>3, <2>4, Zenon DEF Good
  <1>3. call = [c \in Vms |-> call[c]] /\ \A c \in Vms : \E kind \in AllKinds : call[c] = NewCall(kind, hasInit)
    BY <1>1, Zenon
  <1> QED
    BY <1>2, <1>3, Zenon DEF IInv

\* What the updates of the actions do to a call, whatever the values.
LEMMA SetPc ==
    ASSUME NEW x, Shaped(x), NEW v
    PROVE  [x EXCEPT !.pc = v] =
           Record(x.kind, x.hasInit, v, x.late, x.defines, x.back, x.writer,
                  x.result, x.value, x.head, x.reported)
PROOF
  BY DEF Shaped, Record

LEMMA SetLate ==
    ASSUME NEW x, Shaped(x), NEW v
    PROVE  [x EXCEPT !.late = v] =
           Record(x.kind, x.hasInit, x.pc, v, x.defines, x.back, x.writer,
                  x.result, x.value, x.head, x.reported)
PROOF
  BY DEF Shaped, Record

LEMMA SetDefines ==
    ASSUME NEW x, Shaped(x), NEW v
    PROVE  [x EXCEPT !.defines = v] =
           Record(x.kind, x.hasInit, x.pc, x.late, v, x.back, x.writer,
                  x.result, x.value, x.head, x.reported)
PROOF
  BY DEF Shaped, Record

LEMMA SetBack ==
    ASSUME NEW x, Shaped(x), NEW v
    PROVE  [x EXCEPT !.back = v] =
           Record(x.kind, x.hasInit, x.pc, x.late, x.defines, v, x.writer,
                  x.result, x.value, x.head, x.reported)
PROOF
  BY DEF Shaped, Record

LEMMA SetWriter ==
    ASSUME NEW x, Shaped(x), NEW v
    PROVE  [x EXCEPT !.writer = v] =
           Record(x.kind, x.hasInit, x.pc, x.late, x.defines, x.back, v,
                  x.result, x.value, x.head, x.reported)
PROOF
  BY DEF Shaped, Record

LEMMA SetResult ==
    ASSUME NEW x, Shaped(x), NEW v
    PROVE  [x EXCEPT !.result = v] =
           Record(x.kind, x.hasInit, x.pc, x.late, x.defines, x.back, x.writer,
                  v, x.value, x.head, x.reported)
PROOF
  BY DEF Shaped, Record

LEMMA SetValue ==
    ASSUME NEW x, Shaped(x), NEW v
    PROVE  [x EXCEPT !.value = v] =
           Record(x.kind, x.hasInit, x.pc, x.late, x.defines, x.back, x.writer,
                  x.result, v, x.head, x.reported)
PROOF
  BY DEF Shaped, Record

LEMMA SetHead ==
    ASSUME NEW x, Shaped(x), NEW v
    PROVE  [x EXCEPT !.head = v] =
           Record(x.kind, x.hasInit, x.pc, x.late, x.defines, x.back, x.writer,
                  x.result, x.value, v, x.reported)
PROOF
  BY DEF Shaped, Record

LEMMA SetReported ==
    ASSUME NEW x, Shaped(x), NEW v
    PROVE  [x EXCEPT !.reported = v] =
           Record(x.kind, x.hasInit, x.pc, x.late, x.defines, x.back, x.writer,
                  x.result, x.value, x.head, v)
PROOF
  BY DEF Shaped, Record

LEMMA RecordShaped ==
    ASSUME NEW kind, NEW hasInit, NEW pc, NEW late, NEW defines, NEW back, NEW writer, NEW result,
           NEW value, NEW head, NEW reported
    PROVE  Shaped(Record(kind, hasInit, pc, late, defines, back, writer, result, value, head, reported))
PROOF
  BY Zenon DEF Shaped, Record

EndOf(x, result, value, head, reported) ==
    [x EXCEPT !.pc = "done", !.result = result, !.value = value, !.head = head, !.reported = reported]

LEMMA Ended ==
    ASSUME NEW x, Shaped(x), NEW result, NEW value, NEW head, NEW reported
    PROVE  EndOf(x, result, value, head, reported) =
           Record(x.kind, x.hasInit, "done", x.late, x.defines, x.back, x.writer,
                  result, value, head, reported)
PROOF
  <1> DEFINE y1 == [x EXCEPT !.pc = "done"]
             y2 == [y1 EXCEPT !.result = result]
             y3 == [y2 EXCEPT !.value = value]
             y4 == [y3 EXCEPT !.head = head]
             y5 == [y4 EXCEPT !.reported = reported]
  <1>0. EndOf(x, result, value, head, reported) = y5
    BY Zenon DEF EndOf
  <1>1. y1 = Record(x.kind, x.hasInit, "done", x.late, x.defines, x.back, x.writer, x.result, x.value, x.head, x.reported) /\ Shaped(y1)
    BY SetPc, RecordShaped
  <1> HIDE DEF y1
  <1>2. y2 = Record(x.kind, x.hasInit, "done", x.late, x.defines, x.back, x.writer, result, x.value, x.head, x.reported) /\ Shaped(y2)
    BY <1>1, SetResult, RecordShaped DEF Record
  <1> HIDE DEF y2
  <1>3. y3 = Record(x.kind, x.hasInit, "done", x.late, x.defines, x.back, x.writer, result, value, x.head, x.reported) /\ Shaped(y3)
    BY <1>2, SetValue, RecordShaped DEF Record
  <1> HIDE DEF y3
  <1>4. y4 = Record(x.kind, x.hasInit, "done", x.late, x.defines, x.back, x.writer, result, value, head, x.reported) /\ Shaped(y4)
    BY <1>3, SetHead, RecordShaped DEF Record
  <1> HIDE DEF y4
  <1>5. y5 = Record(x.kind, x.hasInit, "done", x.late, x.defines, x.back, x.writer, result, value, head, reported) /\ Shaped(y5)
    BY <1>4, SetReported, RecordShaped DEF Record
  <1> QED
    BY <1>0, <1>5, Zenon

GoneOf(x, w, status, committed) ==
    [x EXCEPT !.writer = w, !.pc = "done", !.result = "error", !.head = status, !.reported = committed]

LEMMA Gone ==
    ASSUME NEW x, Shaped(x), NEW w, NEW status, NEW committed
    PROVE  GoneOf(x, w, status, committed) =
           Record(x.kind, x.hasInit, "done", x.late, x.defines, x.back, w,
                  "error", x.value, status, committed)
PROOF
  <1> DEFINE y1 == [x EXCEPT !.writer = w]
             y2 == [y1 EXCEPT !.pc = "done"]
             y3 == [y2 EXCEPT !.result = "error"]
             y4 == [y3 EXCEPT !.head = status]
             y5 == [y4 EXCEPT !.reported = committed]
  <1>0. GoneOf(x, w, status, committed) = y5
    BY Zenon DEF GoneOf
  <1>1. y1 = Record(x.kind, x.hasInit, x.pc, x.late, x.defines, x.back, w, x.result, x.value, x.head, x.reported) /\ Shaped(y1)
    BY SetWriter, RecordShaped
  <1> HIDE DEF y1
  <1>2. y2 = Record(x.kind, x.hasInit, "done", x.late, x.defines, x.back, w, x.result, x.value, x.head, x.reported) /\ Shaped(y2)
    BY <1>1, SetPc, RecordShaped DEF Record
  <1> HIDE DEF y2
  <1>3. y3 = Record(x.kind, x.hasInit, "done", x.late, x.defines, x.back, w, "error", x.value, x.head, x.reported) /\ Shaped(y3)
    BY <1>2, SetResult, RecordShaped DEF Record
  <1> HIDE DEF y3
  <1>4. y4 = Record(x.kind, x.hasInit, "done", x.late, x.defines, x.back, w, "error", x.value, status, x.reported) /\ Shaped(y4)
    BY <1>3, SetHead, RecordShaped DEF Record
  <1> HIDE DEF y4
  <1>5. y5 = Record(x.kind, x.hasInit, "done", x.late, x.defines, x.back, w, "error", x.value, status, committed) /\ Shaped(y5)
    BY <1>4, SetReported, RecordShaped DEF Record
  <1> QED
    BY <1>0, <1>5, Zenon

\* A call that goes on, to a place its kind can reach.
LEMMA GotoInv ==
    ASSUME IInv, NEW c \in Vms, NEW pc, Goto(c, pc), call[c].pc # "done",
           pc \notin {"done", "require"},
           pc = "main" => call[c].kind = "lua",
           pc \in {"page", "html"} => call[c].kind = "elua",
           pc = "built" => call[c].kind \notin Hooks \cup {"lua"},
           pc \in {"init", "initrun"} => call[c].hasInit
    PROVE  IInv'
PROOF
  <1> DEFINE x == [call[c] EXCEPT !.pc = pc]
  <1>1. Shaped(call[c]) /\ Good(call[c])
    BY Zenon DEF IInv
  <1>2. call' = [call EXCEPT ![c] = x]
    BY Zenon DEF Goto
  <1>3. x = Record(call[c].kind, call[c].hasInit, pc, call[c].late, call[c].defines, call[c].back,
                   call[c].writer, call[c].result, call[c].value, call[c].head, call[c].reported)
    BY <1>1, SetPc, Zenon
  <1> HIDE DEF x
  <1>4. /\ x.kind = call[c].kind /\ x.hasInit = call[c].hasInit /\ x.pc = pc
        /\ x.defines = call[c].defines /\ x.result = call[c].result
        /\ x.writer = call[c].writer /\ x.value = call[c].value
    BY <1>3, Zenon DEF Record
  <1>5. Good(x)
    BY <1>1, <1>4, ZenonT(30) DEF Good, Placed, InTime, Closed, Reported, Typed
  <1>6. Shaped(x)
    BY <1>3, RecordShaped, ZenonT(30)
  <1> QED
    BY <1>2, <1>5, <1>6, OneCall, Zenon

\* A call that ends, with a result its kind and its time allow.
LEMMA EndInv ==
    ASSUME IInv, NEW c \in Vms, NEW result, NEW value, NEW head, NEW reported,
           End(c, result, value, head, reported),
           call[c].late /\ call[c].kind \in Hooks \cup {"lua"} =>
               result \in {"timeout", "error", "notfound"},
           result = "decision" =>
               /\ call[c].kind \in Hooks /\ call[c].hasInit /\ call[c].defines
               /\ ~call[c].late /\ ~call[c].writer.set
               /\ value.perm \in {"allow", "deny"} \cup
                     IF call[c].kind = "pre_flight" THEN {"kiosk"} ELSE {}
               /\ value.perm # "deny" => value.infile = "string",
           value \in HookValues, result \in Results,
           call[c].kind \in Routed => reported = (call[c].writer.heads # <<>>) \/ head = 500
    PROVE  IInv'
PROOF
  <1> DEFINE x == EndOf(call[c], result, value, head, reported)
  <1>1. Shaped(call[c]) /\ Good(call[c]) /\ call = [d \in Vms |-> call[d]]
    BY ZenonT(30) DEF IInv
  <1>2. call' = [call EXCEPT ![c] = x]
    BY <1>1, ZenonT(30) DEF End, EndOf
  <1>3. x = Record(call[c].kind, call[c].hasInit, "done", call[c].late, call[c].defines, call[c].back,
                   call[c].writer, result, value, head, reported)
    BY <1>1, Ended
  <1> HIDE DEF x
  <1>4. /\ x.kind = call[c].kind /\ x.hasInit = call[c].hasInit /\ x.pc = "done"
        /\ x.defines = call[c].defines /\ x.late = call[c].late /\ x.writer = call[c].writer
        /\ x.result = result /\ x.value = value /\ x.head = head /\ x.reported = reported
    BY <1>3, Zenon DEF Record
  <1>5. Good(x)
    <2>1. Placed(x)
      BY <1>1, <1>4, ZenonT(30) DEF Good, Placed
    <2>2. InTime(x)
      BY <1>4, ZenonT(30) DEF InTime
    <2>3. Closed(x)
      BY <1>4 DEF Closed
    <2>4. Reported(x)
      BY <1>1, <1>4 DEF Good, Reported
    <2>5. Typed(x)
      BY <1>1, <1>4, Zenon DEF Good, Typed
    <2> QED
      BY <2>1, <2>2, <2>3, <2>4, <2>5, Zenon DEF Good
  <1>6. Shaped(x)
    BY <1>3, RecordShaped
  <1> QED
    BY <1>2, <1>5, <1>6, OneCall, ZenonT(30)

\* The deadline of a call that has not ended.
LEMMA ExpireInv ==
    ASSUME IInv, NEW c \in Vms, Expire(c)
    PROVE  IInv'
PROOF
  <1> DEFINE late == TRUE
             x == [call[c] EXCEPT !.late = late]
  <1>1. Shaped(call[c]) /\ Good(call[c]) /\ call[c].pc # "done"
    BY Zenon DEF IInv, Expire, At
  <1>2. call' = [call EXCEPT ![c] = x]
    BY Zenon DEF Expire
  <1> HIDE DEF late
  <1>3. x = Record(call[c].kind, call[c].hasInit, call[c].pc, late, call[c].defines, call[c].back,
                   call[c].writer, call[c].result, call[c].value, call[c].head, call[c].reported)
    BY <1>1, SetLate, Zenon
  <1> HIDE DEF x
  <1>4. /\ x.kind = call[c].kind /\ x.hasInit = call[c].hasInit /\ x.pc = call[c].pc
        /\ x.defines = call[c].defines /\ x.result = call[c].result /\ x.back = call[c].back
        /\ x.writer = call[c].writer /\ x.value = call[c].value
    BY <1>3, Zenon DEF Record
  <1>5. Good(x)
    BY <1>1, <1>4, ZenonT(30) DEF Good, Placed, InTime, Closed, Reported, Typed
  <1>6. Shaped(x)
    BY <1>3, RecordShaped, Zenon
  <1> QED
    BY <1>2, <1>5, <1>6, OneCall, Zenon

\* A script writes to its own response.
LEMMA WriterInv ==
    ASSUME IInv, NEW c \in Vms, NEW w, call' = [call EXCEPT ![c].writer = w], call[c].pc # "done", OneHead(w)
    PROVE  IInv'
PROOF
  <1> DEFINE x == [call[c] EXCEPT !.writer = w]
  <1>1. Shaped(call[c]) /\ Good(call[c])
    BY Zenon DEF IInv
  <1>2. call' = [call EXCEPT ![c] = x]
    BY Zenon
  <1>3. x = Record(call[c].kind, call[c].hasInit, call[c].pc, call[c].late, call[c].defines, call[c].back,
                   w, call[c].result, call[c].value, call[c].head, call[c].reported)
    BY <1>1, SetWriter, Zenon
  <1> HIDE DEF x
  <1>4. /\ x.kind = call[c].kind /\ x.hasInit = call[c].hasInit /\ x.pc = call[c].pc
        /\ x.defines = call[c].defines /\ x.result = call[c].result /\ x.back = call[c].back
        /\ x.writer = w /\ x.value = call[c].value
    BY <1>3, Zenon DEF Record
  <1>5. Good(x)
    BY <1>1, <1>4, ZenonT(30) DEF Good, Placed, InTime, Closed, Reported, Typed
  <1>6. Shaped(x)
    BY <1>3, RecordShaped, Zenon
  <1> QED
    BY <1>2, <1>5, <1>6, OneCall, Zenon

-----------------------------------------------------------------------------
\* A module is required, from a script that runs.
LEMMA RequireInv ==
    ASSUME IInv, NEW c \in Vms, Require(c)
    PROVE  IInv'
PROOF
  <1> DEFINE y == [call[c] EXCEPT !.back = call[c].pc]
             x == [y EXCEPT !.pc = "require"]
  <1>1. Shaped(call[c]) /\ Good(call[c]) /\ call[c].pc \in {"initrun", "run"} /\ call = [d \in Vms |-> call[d]]
    BY Zenon DEF IInv, Require, Scripting, At
  <1>2. call' = [call EXCEPT ![c] = x]
    BY <1>1, Zenon DEF Require
  <1>3. /\ y = Record(call[c].kind, call[c].hasInit, call[c].pc, call[c].late, call[c].defines, call[c].pc,
                      call[c].writer, call[c].result, call[c].value, call[c].head, call[c].reported)
        /\ Shaped(y)
    BY <1>1, SetBack, RecordShaped
  <1> HIDE DEF y
  <1>4. /\ x = Record(call[c].kind, call[c].hasInit, "require", call[c].late, call[c].defines, call[c].pc,
                      call[c].writer, call[c].result, call[c].value, call[c].head, call[c].reported)
        /\ Shaped(x)
    BY <1>3, SetPc, RecordShaped DEF Record
  <1> HIDE DEF x
  <1>5. /\ x.kind = call[c].kind /\ x.hasInit = call[c].hasInit /\ x.pc = "require"
        /\ x.defines = call[c].defines /\ x.result = call[c].result /\ x.back = call[c].pc
        /\ x.writer = call[c].writer /\ x.value = call[c].value
    BY <1>4, Zenon DEF Record
  <1>6. Good(x)
    BY <1>1, <1>5 DEF Good, Placed, InTime, Closed, Reported, Typed
  <1> QED
    BY <1>2, <1>4, <1>6, OneCall, Zenon

\* It returns to where it was required from.
LEMMA RequiredInv ==
    ASSUME IInv, NEW c \in Vms, Required(c)
    PROVE  IInv'
PROOF
  <1> DEFINE y == [call[c] EXCEPT !.pc = call[c].back]
             x == [y EXCEPT !.back = "none"]
  <1>1. Shaped(call[c]) /\ Good(call[c]) /\ call[c].pc = "require" /\ call = [d \in Vms |-> call[d]]
    BY Zenon DEF IInv, Required, At
  <1>2. call' = [call EXCEPT ![c] = x]
    BY <1>1, Zenon DEF Required
  <1>3. /\ y = Record(call[c].kind, call[c].hasInit, call[c].back, call[c].late, call[c].defines, call[c].back,
                      call[c].writer, call[c].result, call[c].value, call[c].head, call[c].reported)
        /\ Shaped(y)
    BY <1>1, SetPc, RecordShaped
  <1> HIDE DEF y
  <1>4. /\ x = Record(call[c].kind, call[c].hasInit, call[c].back, call[c].late, call[c].defines, "none",
                      call[c].writer, call[c].result, call[c].value, call[c].head, call[c].reported)
        /\ Shaped(x)
    BY <1>3, SetBack, RecordShaped DEF Record
  <1> HIDE DEF x
  <1>5. /\ x.kind = call[c].kind /\ x.hasInit = call[c].hasInit /\ x.pc = call[c].back
        /\ x.defines = call[c].defines /\ x.result = call[c].result /\ x.back = "none"
        /\ x.writer = call[c].writer /\ x.value = call[c].value
    BY <1>4, Zenon DEF Record
  <1>6. call[c].back \in {"initrun", "run"}
    BY <1>1, Zenon DEF Good, Placed
  <1>7. Good(x)
    BY <1>1, <1>5, <1>6 DEF Good, Placed, InTime, Closed, Reported, Typed
  <1> QED
    BY <1>2, <1>4, <1>7, OneCall, Zenon

\* A VM that is not built: a route answers 500.
LEMMA BuildFailsInv ==
    ASSUME IInv, NEW c \in Vms, NEW r \in Results \ {"decision"}, BuildFails(c, r),
           call[c].late /\ call[c].kind \in Hooks \cup {"lua"} => r \in {"timeout", "error", "notfound"}
    PROVE  IInv'
PROOF
  <1> DEFINE no == FALSE
             head == IF Is(c, Routed) THEN 500 ELSE 0
  <1>1. End(c, r, NoValue, head, no)
    BY Zenon DEF BuildFails
  <1>2. call[c].kind \in Routed => head = 500
    BY Zenon DEF Is
  <1> HIDE DEF no, head
  <1> QED
    BY <1>1, <1>2, EndInv, NoValueTyped, Zenon

\* The init script is loaded, or the VM fails.
LEMMA InitLoadedInv ==
    ASSUME IInv, NEW c \in Vms, InitLoaded(c)
    PROVE  IInv'
PROOF
  <1>1. Shaped(call[c]) /\ Good(call[c]) /\ call[c].pc = "init" /\ call = [d \in Vms |-> call[d]]
    BY Zenon DEF IInv, InitLoaded, At
  <1>2. CASE load[c].step = "loaded"
    <2> DEFINE defines == load[c].chunk.content = "hook"
               y == [call[c] EXCEPT !.pc = "initrun"]
               x == [y EXCEPT !.defines = defines]
    <2>1. call' = [call EXCEPT ![c] = x]
      BY <1>1, <1>2, Zenon DEF InitLoaded
    <2> HIDE DEF defines
    <2>2. /\ y = Record(call[c].kind, call[c].hasInit, "initrun", call[c].late, call[c].defines, call[c].back,
                        call[c].writer, call[c].result, call[c].value, call[c].head, call[c].reported)
          /\ Shaped(y)
      BY <1>1, SetPc, RecordShaped
    <2> HIDE DEF y
    <2>3. /\ x = Record(call[c].kind, call[c].hasInit, "initrun", call[c].late, defines, call[c].back,
                        call[c].writer, call[c].result, call[c].value, call[c].head, call[c].reported)
          /\ Shaped(x)
      BY <2>2, SetDefines, RecordShaped DEF Record
    <2> HIDE DEF x
    <2>4. /\ x.kind = call[c].kind /\ x.hasInit = call[c].hasInit /\ x.pc = "initrun"
          /\ x.result = call[c].result /\ x.back = call[c].back
          /\ x.writer = call[c].writer /\ x.value = call[c].value
      BY <2>3, Zenon DEF Record
    <2>5. Good(x)
      BY <1>1, <2>4 DEF Good, Placed, InTime, Closed, Reported, Typed
    <2> QED
      BY <2>1, <2>3, <2>5, OneCall, Zenon
  <1>3. CASE load[c].step # "loaded"
    <2>1. BuildFails(c, "error")
      BY <1>3, Zenon DEF InitLoaded
    <2> QED
      BY <2>1, BuildFailsInv, Zenon DEF Results
  <1> QED
    BY <1>2, <1>3, Zenon

\* Html finds the client gone: the route fails with what it had written.
LEMMA HtmlInv ==
    ASSUME IInv, NEW c \in Vms, Html(c)
    PROVE  IInv'
PROOF
  <1>1. Shaped(call[c]) /\ Good(call[c]) /\ call[c].pc = "html" /\ call = [d \in Vms |-> call[d]]
    BY Zenon DEF IInv, Html, At
  <1>2. CASE call' = [call EXCEPT ![c].writer = Write(@, TRUE)]
    <2> DEFINE w == Write(call[c].writer, TRUE)
    <2>1. call' = [call EXCEPT ![c].writer = w]
      BY <1>2, Zenon
    <2>2. OneHead(w)
      BY <1>1, WriteOneHead, Zenon DEF Good, Reported
    <2> HIDE DEF w
    <2> QED
      BY <1>1, <2>1, <2>2, WriterInv, Zenon
  <1> DEFINE w == Write(call[c].writer, FALSE)
  <1>3. CASE call' = [call EXCEPT ![c].writer = w, ![c].pc = "done", ![c].result = "error",
                                  ![c].head = w.status, ![c].reported = w.committed]
    <2>0. OneHead(w)
      BY <1>1, WriteOneHead, Zenon DEF Good, Reported
    <2> HIDE DEF w
    <2> DEFINE x == GoneOf(call[c], w, w.status, w.committed)
    <2>1. call' = [call EXCEPT ![c] = x]
      BY <1>1, <1>3, Zenon DEF GoneOf
    <2>2. /\ x = Record(call[c].kind, call[c].hasInit, "done", call[c].late, call[c].defines, call[c].back,
                        w, "error", call[c].value, w.status, w.committed)
          /\ Shaped(x)
      BY <1>1, Gone, RecordShaped
    <2> HIDE DEF x
    <2>3. /\ x.kind = call[c].kind /\ x.hasInit = call[c].hasInit /\ x.defines = call[c].defines
          /\ x.pc = "done" /\ x.result = "error"
          /\ x.writer = w /\ x.value = call[c].value /\ x.reported = w.committed
      BY <2>2, Zenon DEF Record
    <2>4. Good(x)
      <3>1. Placed(x) /\ InTime(x) /\ Closed(x) /\ Typed(x)
        BY <1>1, <2>3, Zenon DEF Results, Good, Placed, InTime, Closed, Typed
      <3>2. w.committed = (w.heads # <<>>)
        BY <2>0, Zenon DEF OneHead
      <3>3. Reported(x)
        BY <2>0, <2>3, <3>2 DEF Reported
      <3> QED
        BY <3>1, <3>3, Zenon DEF Good
    <2> QED
      BY <2>1, <2>2, <2>4, OneCall, Zenon
  <1> QED
    BY <1>2, <1>3, Zenon DEF Html

\* A late script is a timeout, whatever it did.
LEMMA LateIsTimeout ==
    ASSUME NEW late, NEW how, late
    PROVE  Classify(late, how) = "timeout"
PROOF
  BY Zenon DEF Classify

LEMMA HookEndsInv ==
    ASSUME IInv, NEW c \in Vms, NEW how \in Endings, NEW v \in HookValues, HookEnds(c, how, v)
    PROVE  IInv'
PROOF
  <1> DEFINE r == Classify(call[c].late, how)
             perm == ParsePreflightValues(v, Is(c, {"pre_flight"}))
  <1>1. /\ call[c].kind \in Hooks /\ Good(call[c])
        /\ call[c].defines \/ how = "error"
    BY Zenon DEF IInv, HookEnds, Is
  <1>2. call[c].late => r = "timeout"
    BY LateIsTimeout, Zenon
  <1>3. r = "ok" => how = "ok" /\ ~call[c].late
    BY Zenon DEF Classify
  <1>4. perm # "invalid" =>
            /\ v.perm \in {"allow", "deny"} \cup IF call[c].kind = "pre_flight" THEN {"kiosk"} ELSE {}
            /\ v.perm # "deny" => v.infile = "string"
    BY Zenon DEF ParsePreflightValues, ValidPermission, Is
  <1>5. \/ r \in Reasons /\ End(c, r, NoValue, 0, FALSE)
        \/ /\ r \notin Reasons /\ ~call[c].writer.set /\ r = "ok" /\ perm # "invalid"
           /\ End(c, "decision", v, 0, FALSE)
        \/ r \notin Reasons /\ End(c, "direct", NoValue, DirectStatus(call[c].writer), FALSE)
        \/ r \notin Reasons /\ End(c, "error", NoValue, 0, FALSE)
    BY Zenon DEF HookEnds
  <1> DEFINE no == FALSE
  <1> HIDE DEF r, perm
  <1>10. call[c].kind \notin Routed
    BY <1>1, Zenon DEF Hooks, Routed
  <1>6. CASE r \in Reasons /\ End(c, r, NoValue, 0, no)
    <2>1. r \in Results /\ r \in {"timeout", "memory"}
      BY <1>6, Zenon DEF Results, Reasons
    <2> HIDE DEF no
    <2> QED
      BY <1>2, <1>6, <1>10, <2>1, EndInv, NoValueTyped, Zenon
  <1>7. CASE /\ ~call[c].writer.set /\ r = "ok" /\ perm # "invalid"
             /\ End(c, "decision", v, 0, no)
    <2>1. call[c].defines /\ call[c].hasInit
      BY <1>1, <1>3, <1>7, Zenon DEF Good, Placed
    <2> HIDE DEF no
    <2> QED
      BY <1>1, <1>3, <1>4, <1>7, <1>10, <2>1, EndInv, Zenon DEF Results
  <1>8. CASE r \notin Reasons /\ End(c, "direct", NoValue, DirectStatus(call[c].writer), no)
    <2>1. ~call[c].late
      BY <1>2, <1>8, Zenon DEF Reasons
    <2> HIDE DEF no
    <2> QED
      BY <1>8, <1>10, <2>1, EndInv, NoValueTyped, Zenon DEF Results
  <1>9. CASE End(c, "error", NoValue, 0, no)
    <2> HIDE DEF no
    <2> QED
      BY <1>9, <1>10, EndInv, NoValueTyped, Zenon DEF Results
  <1> QED
    BY <1>5, <1>6, <1>7, <1>8, <1>9, Zenon

\* A built VM goes on to the chunk of its kind.
LEMMA OwnChunkInv ==
    ASSUME IInv, NEW c \in Vms, Goto(c, OwnChunk(c)), call[c].pc # "done"
    PROVE  IInv'
PROOF
  <1> DEFINE pc == OwnChunk(c)
  <1>1. /\ pc \in {"run", "main", "page", "built"}
        /\ pc = "main" => call[c].kind = "lua"
        /\ pc = "page" => call[c].kind = "elua"
        /\ pc = "built" => call[c].kind \notin Hooks \cup {"lua"}
    BY Zenon DEF OwnChunk, Is, Hooks
  <1> HIDE DEF pc
  <1> QED
    BY <1>1, GotoInv, Zenon DEF pc

LEMMA RouteEndsInv ==
    ASSUME IInv, NEW c \in Vms, NEW r \in Results, RouteEnds(c, r), r # "decision",
           call[c].late /\ call[c].kind \in Hooks \cup {"lua"} =>
               r \in {"timeout", "error", "notfound"}
    PROVE  IInv'
PROOF
  <1> DEFINE committed == call[c].writer.committed
             status == HeadSnapshot(call[c].writer).status
  <1>1. End(c, r, NoValue, status, committed)
    BY Zenon DEF RouteEnds
  <1>2. committed = (call[c].writer.heads # <<>>)
    BY ZenonT(30) DEF IInv, Good, Reported, OneHead
  <1> HIDE DEF committed, status
  <1> QED
    BY <1>1, <1>2, EndInv, NoValueTyped, ZenonT(30)

\* The steps between the scripts.
LEMMA HostInv ==
    ASSUME IInv, NEW c \in Vms,
           StartVm(c) \/ Probe(c) \/ NoExtension(c) \/ RouteLoaded(c) \/ OpenPage(c) \/ PageEnds(c) \/ PageChunk(c)
    PROVE  IInv'
PROOF
  <1>0. Good(call[c])
    BY Zenon DEF IInv
  <1>1. CASE StartVm(c)
    <2>1. Goto(c, IF call[c].hasInit THEN "init" ELSE OwnChunk(c)) /\ call[c].pc = "start"
      BY <1>1, Zenon DEF StartVm, At
    <2>2. CASE call[c].hasInit
      BY <2>1, <2>2, GotoInv, Zenon
    <2>3. CASE ~call[c].hasInit
      <3>1. Goto(c, OwnChunk(c))
        BY <2>1, <2>3, Zenon
      <3> QED
        BY <2>1, <3>1, OwnChunkInv, Zenon
    <2> QED
      BY <2>2, <2>3, Zenon
  <1>2. CASE Probe(c)
    <2> DEFINE result == IF call[c].defines THEN "hook" ELSE "nohook"
               no == FALSE
    <2>1. /\ End(c, result, NoValue, 0, no) /\ call[c].kind = "probe"
          /\ result # "decision" /\ result \in Results
      BY <1>2, Zenon DEF Probe, Is, Results
    <2> HIDE DEF result, no
    <2>2. call[c].kind \notin Hooks \cup {"lua"} /\ call[c].kind \notin Routed
      BY <2>1, Zenon DEF Hooks, Routed
    <2> QED
      BY <2>1, <2>2, EndInv, NoValueTyped, Zenon
  <1>3. CASE NoExtension(c)
    BY <1>3, RouteEndsInv, Zenon DEF NoExtension, Results
  <1>4. CASE RouteLoaded(c)
    <2>1. /\ call[c].pc = "main"
          /\ Goto(c, "run") \/ RouteEnds(c, "notfound") \/ RouteEnds(c, "error")
      BY <1>4, Zenon DEF RouteLoaded, At
    <2> QED
      BY <2>1, GotoInv, RouteEndsInv, Zenon DEF Results
  <1>5. CASE OpenPage(c)
    <2>1. /\ call[c].pc = "page"
          /\ Goto(c, "html") \/ RouteEnds(c, "notfound")
      BY <1>5, Zenon DEF OpenPage, At
    <2>2. call[c].kind = "elua"
      BY <1>0, <2>1, Zenon DEF Good, Placed
    <2> QED
      BY <2>1, <2>2, GotoInv, RouteEndsInv, Zenon DEF Results
  <1>6. CASE PageEnds(c)
    <2>1. call[c].pc = "html" /\ RouteEnds(c, "ok")
      BY <1>6, Zenon DEF PageEnds, At
    <2>2. call[c].kind = "elua"
      BY <1>0, <2>1, Zenon DEF Good, Placed
    <2> QED
      BY <2>1, <2>2, RouteEndsInv, Zenon DEF Hooks, Results
  <1>7. CASE PageChunk(c)
    <2>1. call[c].pc = "html" /\ Goto(c, "run")
      BY <1>7, Zenon DEF PageChunk, At
    <2> QED
      BY <2>1, GotoInv, Zenon
  <1> QED
    BY <1>1, <1>2, <1>3, <1>4, <1>5, <1>6, <1>7, Zenon

\* A script ends.
LEMMA EndsInv ==
    ASSUME IInv, NEW c \in Vms, NEW how \in Endings, NEW terminated \in BOOLEAN,
           InitEnds(c, how) \/ LuaRouteEnds(c, how) \/ ChunkEnds(c, how, terminated)
    PROVE  IInv'
PROOF
  <1> DEFINE r == Classify(call[c].late, how)
  <1>0. Good(call[c]) /\ (call[c].late => r = "timeout") /\ r # "decision" /\ r \in Results
    BY Zenon DEF IInv, Classify, Endings, Results, Reasons
  <1>1. CASE InitEnds(c, how)
    <2>1. /\ call[c].pc = "initrun"
          /\ BuildFails(c, r) \/ Goto(c, OwnChunk(c))
      BY <1>1, Zenon DEF InitEnds, At
    <2>2. CASE BuildFails(c, r)
      <3> HIDE DEF r
      <3> QED
        BY <1>0, <2>2, BuildFailsInv, Zenon
    <2>3. CASE Goto(c, OwnChunk(c))
      BY <2>1, <2>3, OwnChunkInv, Zenon
    <2> QED
      BY <2>1, <2>2, <2>3, Zenon
  <1>2. CASE LuaRouteEnds(c, how)
    <2>1. RouteEnds(c, r)
      BY <1>2, Zenon DEF LuaRouteEnds
    <2> HIDE DEF r
    <2> QED
      BY <1>0, <2>1, RouteEndsInv, Zenon
  <1>3. CASE ChunkEnds(c, how, terminated)
    <2>1. /\ call[c].pc = "run" /\ call[c].kind = "elua"
          /\ RouteEnds(c, r) \/ RouteEnds(c, "error") \/ Goto(c, "html")
      BY <1>3, Zenon DEF ChunkEnds, At, Is
    <2> HIDE DEF r
    <2> QED
      BY <1>0, <2>1, RouteEndsInv, GotoInv, Zenon DEF Results
  <1> QED
    BY <1>1, <1>2, <1>3, Zenon

LEMMA BindingInv ==
    ASSUME IInv, NEW c \in Vms, SendStatus(c) \/ ServerPrint(c)
    PROVE  IInv'
PROOF
  <1>0. OneHead(call[c].writer)
    BY DEF IInv, Good, Reported
  <1>1. \E w : Binding(c, w) /\ OneHead(w)
    <2>1. OneHead(SetStatus(call[c].writer, 401))
      BY <1>0, SetStatusOneHead, Zenon
    <2>2. \A delivered : OneHead(Write(call[c].writer, delivered))
      BY <1>0, WriteOneHead, Zenon
    <2>3. CASE SendStatus(c)
      BY <2>1, <2>3, Zenon DEF SendStatus
    <2>4. CASE ServerPrint(c)
      BY <2>2, <2>4, Zenon DEF ServerPrint
    <2> QED
      BY <2>3, <2>4, Zenon
  <1>2. PICK w : Binding(c, w) /\ OneHead(w)
    BY <1>1, Zenon
  <1>3. call[c].pc # "done" /\ call' = [call EXCEPT ![c].writer = w]
    BY <1>2, Zenon DEF Binding, Scripting, At
  <1> QED
    BY <1>2, <1>3, WriterInv, Zenon

\* Steps of the files, of other loads and of the loader leave every VM alone.
LEMMA SameCalls ==
    ASSUME IInv, UNCHANGED call
    PROVE  IInv'
PROOF
  BY Zenon DEF IInv

\* The invariant holds in every reachable state of the calls.
THEOREM Invariance == Spec => []IInv
PROOF
  <1>1. IInv /\ [Next]_vars => IInv'
    <2> SUFFICES ASSUME IInv, [Next]_vars PROVE IInv'
      BY Zenon
    <2>1. CASE UNCHANGED vars \/ Editor \/ OtherLoads \/ Done
      <3>1. UNCHANGED call
        BY <2>1, Zenon DEF vars, Editor, OtherLoads, Done
      <3> QED
        BY <3>1, SameCalls, Zenon
    <2>2. ASSUME NEW c \in Vms, Host(c)
          PROVE  IInv'
      <3>1. CASE LoadScript(c)
        BY <3>1, SameCalls, Zenon DEF LoadScript
      <3> QED
        BY <2>2, <3>1, InitLoadedInv, RequiredInv, HostInv, Zenon DEF Host
    <2>3. ASSUME NEW c \in Vms, Script(c)
          PROVE  IInv'
      <3>1. ASSUME NEW how \in Endings,
                   \/ InitEnds(c, how) \/ LuaRouteEnds(c, how)
                   \/ \E v \in HookValues : HookEnds(c, how, v)
                   \/ \E terminated \in BOOLEAN : ChunkEnds(c, how, terminated)
            PROVE  IInv'
        <4>1. CASE InitEnds(c, how) \/ LuaRouteEnds(c, how)
          BY <4>1, EndsInv, Zenon
        <4>2. CASE \E v \in HookValues : HookEnds(c, how, v)
          BY <4>2, HookEndsInv, Zenon
        <4>3. CASE \E terminated \in BOOLEAN : ChunkEnds(c, how, terminated)
          BY <4>3, EndsInv, Zenon
        <4> QED
          BY <3>1, <4>1, <4>2, <4>3, Zenon
      <3> QED
        BY <2>3, <3>1, BindingInv, RequireInv, HtmlInv, HostInv, Zenon DEF Script
    <2>4. ASSUME NEW c \in Vms, Expire(c)
          PROVE  IInv'
      BY <2>4, ExpireInv, Zenon
    <2> QED
      BY <2>1, <2>2, <2>3, <2>4, Zenon DEF Next
  <1> QED
    BY <1>1, InitInv, PTL DEF Spec

\* A hook or a .lua route whose deadline has passed never decides, answers or
\* succeeds, whatever its script trapped and however many calls run beside it.
THEOREM LateScriptsFail == Spec => []LateNeverAnswers
PROOF
  <1>1. IInv => LateNeverAnswers
    BY Zenon DEF IInv, Good, InTime, LateNeverAnswers, Over, At, Is
  <1> QED
    BY <1>1, Invariance, PTL

\* A decision comes only from a hook its own VM defined, that returned in time
\* and wrote no answer, in its vocabulary, with a file unless it denies.
THEOREM HooksFailClosed == Spec => []HookFailsClosed
PROOF
  <1>1. IInv => HookFailsClosed
    BY Zenon DEF IInv, Good, Closed, HookFailsClosed, Is
  <1> QED
    BY <1>1, Invariance, PTL

\* A route reports its head committed exactly when the transport was given
\* one, and it is never given two (ResponseWriter::write, RouteOutcome).
THEOREM CommitsAreReported == Spec => []CommitIsReported
PROOF
  <1>1. IInv => CommitIsReported
    <2> SUFFICES ASSUME IInv, NEW c \in Vms, call[c].pc = "done", call[c].kind \in Routed
                 PROVE  /\ Len(call[c].writer.heads) <= 1
                        /\ call[c].reported = (call[c].writer.heads # <<>>) \/ call[c].head = 500
      BY DEF CommitIsReported, Over, At, Is
    <2>1. Reported(call[c])
      BY Zenon DEF IInv, Good
    <2>2. Len(call[c].writer.heads) <= 1
      <3> DEFINE heads == call[c].writer.heads
      <3>1. heads = <<>> \/ \E h : heads = <<h>>
        BY <2>1, ZenonT(30) DEF Reported, OneHead
      <3> HIDE DEF heads
      <3>2. ASSUME heads = <<>>
            PROVE  Len(heads) <= 1
        BY <3>2
      <3>3. ASSUME NEW h, heads = <<h>>
            PROVE  Len(heads) <= 1
        BY <3>3
      <3>4. Len(heads) <= 1
        BY <3>1, <3>2, <3>3, Zenon
      <3> QED
        BY <3>4, Zenon DEF heads
    <2> QED
      BY <2>1, <2>2, ZenonT(30) DEF Reported
  <1> QED
    BY <1>1, Invariance, PTL

-----------------------------------------------------------------------------
(* The bytecode cache.  A chunk is cached under the stamp of the stat that *)
(* began its load, with the version its read found.  A load that finds it  *)
(* under its own stamp began when the file had that version, or an earlier *)
(* one: then the file changed while that load was under way as well.       *)

LoadFields == {"step", "path", "stamp", "chunk", "since"}
Active     == {"lookup", "read", "insert"}
Steps == {"none"} \cup Active \cup Returned

\* A chunk made of a version that its file has had since the stamp.
Made(file, k) == k \in Files /\ k.stamp <= k.version /\ k.version <= file.version

\* A load knows the version of k, unless its own stat came later.
Covers(r, k) == r.stamp <= k.version => k.version \in r.since

\* A load, with the files and the cache as they are.
LoadOK(r, files, cached) ==
    /\ r = [f \in LoadFields |-> r[f]]
    /\ r.step \in Steps /\ r.stamp \in 0..MaxEdits /\ r.chunk \in Chunks
    /\ r.since \subseteq 0..MaxEdits
    /\ r.step = "loaded" => r.chunk.version \in r.since
    /\ r.step \in Active =>
          /\ r.path \in Scripts
          /\ r.stamp <= files[r.path].version /\ files[r.path].version \in r.since
          /\ cached[r.path] # NoChunk => Covers(r, cached[r.path])
    /\ r.step = "insert" => Made(files[r.path], r.chunk) /\ r.chunk.stamp = r.stamp

CacheInv ==
    /\ disk \in [Scripts -> Files] /\ chunks \in [Scripts -> Chunks]
    /\ load = [c \in Calls |-> load[c]]
    /\ \A p \in Scripts : disk[p].version = disk[p].stamp
    /\ \A p \in Scripts : chunks[p] # NoChunk => Made(disk[p], chunks[p])
    /\ \A c \in Calls : LoadOK(load[c], disk, chunks)
    /\ \A c, d \in Calls :
          load[c].step \in Active /\ load[d].step = "insert" /\ load[d].path = load[c].path =>
              Covers(load[c], load[d].chunk)

\* A bounded set of numbers has a greatest one.
Less == {p \in Nat \X Nat : p[1] < p[2]}

LEMMA SmallestExists ==
    ASSUME NEW T \in SUBSET Nat, T # {}
    PROVE  \E x \in T : \A y \in T : x <= y
PROOF
  <1>1. IsWellFoundedOn(Less, Nat)
    BY NatLessThanWellFounded, Zenon DEF OpToRel, Less
  <1>2. PICK x \in T : \A y \in T : ~(<<y, x>> \in Less)
    BY <1>1, WFMin, Zenon
  <1>3. \A y \in T : y \in Nat /\ x \in Nat
    BY Zenon
  <1>4. \A y \in T : ~(y < x)
    <2> SUFFICES ASSUME NEW y \in T, y < x PROVE FALSE
      BY Zenon
    <2>1. <<y, x>> \in Nat \X Nat
      BY <1>3, Zenon
    <2>2. <<y, x>> \in Less
      BY <2>1, Zenon DEF Less
    <2> QED
      BY <1>2, <2>2, Zenon
  <1> QED
    BY <1>3, <1>4

LEMMA MaxFacts ==
    ASSUME NEW n \in Nat, NEW S \in SUBSET (0..n), S # {}
    PROVE  Max(S) \in S /\ \A y \in S : y <= Max(S)
PROOF
  <1> DEFINE T == {n - y : y \in S}
  <1>0. \A y \in S : n - y \in Nat
    OBVIOUS
  <1>1. T \in SUBSET Nat /\ T # {}
    BY <1>0, Zenon
  <1>2. PICK m \in T : \A y \in T : m <= y
    BY <1>1, SmallestExists, Zenon
  <1>3. PICK x \in S : m = n - x
    BY Zenon
  <1>4. \A y \in S : x >= y
    <2> SUFFICES ASSUME NEW y \in S PROVE x >= y
      BY Zenon
    <2>1. m <= n - y
      BY <1>2, Zenon
    <2> QED
      BY <1>3, <2>1
  <1>5. \A y \in S : Max(S) >= y /\ Max(S) \in S
    BY <1>4, Zenon DEF Max
  <1> QED
    BY <1>5, Zenon

LEMMA CacheInitInv == CacheInit => CacheInv
PROOF
  <1> SUFFICES ASSUME CacheInit PROVE CacheInv
    BY Zenon
  <1> USE LuaAssumption DEF CacheInit
  <1>1. NoChunk \in Chunks /\ 0 \in 0..MaxEdits
    BY DEF Chunks
  <1>2. disk \in [Scripts -> Files] /\ chunks \in [Scripts -> Chunks]
    BY <1>1, Zenon DEF Files, Contents
  <1>3. LoadOK(NoLoad, disk, chunks)
    <2>1. NoLoad = [f \in LoadFields |-> NoLoad[f]]
      BY Zenon DEF NoLoad, LoadFields
    <2> QED
      BY <1>1, <2>1, Zenon DEF LoadOK, NoLoad, Steps, Active
  <1>4. \A c \in Calls : load[c] = NoLoad /\ load[c].step = "none"
    BY Zenon DEF NoLoad
  <1> QED
    BY <1>2, <1>3, <1>4, Zenon DEF CacheInv, Active

\* A step of one load that leaves the files and the cache alone.
LEMMA OneLoad ==
    ASSUME CacheInv, NEW c \in Calls, NEW r, LoadOK(r, disk, chunks), Step(c, r), UNCHANGED <<disk, chunks>>,
           r.step \in Active =>
               \A d \in Calls \ {c} : load[d].step = "insert" /\ load[d].path = r.path => Covers(r, load[d].chunk),
           r.step = "insert" =>
               /\ Covers(r, r.chunk)
               /\ \A d \in Calls \ {c} : load[d].step \in Active /\ load[d].path = r.path => Covers(load[d], r.chunk)
    PROVE  CacheInv'
PROOF
  <1>1. /\ load' = [d \in Calls |-> load'[d]]
        /\ \A d \in Calls : load'[d] = IF d = c THEN r ELSE load[d]
    BY Zenon DEF CacheInv, Step
  <1>2. \A d \in Calls : LoadOK(load'[d], disk, chunks)
    BY <1>1, Zenon DEF CacheInv
  <1>4. ASSUME NEW d \in Calls, NEW e \in Calls, load'[d].step \in Active, load'[e].step = "insert",
               load'[e].path = load'[d].path
        PROVE  Covers(load'[d], load'[e].chunk)
    <2>1. CASE d = c /\ e = c
      BY <1>1, <1>4, <2>1, Zenon
    <2>2. CASE d = c /\ e # c
      BY <1>1, <1>4, <2>2, Zenon
    <2>3. CASE d # c /\ e = c
      BY <1>1, <1>4, <2>3, Zenon
    <2>4. CASE d # c /\ e # c
      BY <1>1, <1>4, <2>4, Zenon DEF CacheInv
    <2> QED
      BY <2>1, <2>2, <2>3, <2>4, Zenon
  <1> QED
    BY <1>1, <1>2, <1>4, Zenon DEF CacheInv

\* A load that is over, however it ended.
LEMMA ForgetInv ==
    ASSUME CacheInv, NEW c \in Calls, Step(c, NoLoad), UNCHANGED <<disk, chunks>>
    PROVE  CacheInv'
PROOF
  <1>1. NoLoad = [f \in LoadFields |-> NoLoad[f]]
    BY Zenon DEF NoLoad, LoadFields
  <1>2. LoadOK(NoLoad, disk, chunks)
    BY <1>1, LuaAssumption DEF LoadOK, NoLoad, Steps, Active, Chunks
  <1> QED
    BY <1>2, OneLoad, Zenon DEF NoLoad, Active

\* The versions of the chunks of a file are no later than the file's.
LEMMA StatInv ==
    ASSUME CacheInv, NEW c \in Calls, NEW p \in Scripts, Stat(c, p)
    PROVE  CacheInv'
PROOF
  <1> DEFINE step == IF disk[p].content = "absent" THEN "notfound" ELSE "lookup"
             r == [step |-> step, path |-> p, stamp |-> disk[p].stamp, chunk |-> NoChunk,
                   since |-> {disk[p].version}]
  <1>1. Step(c, r) /\ UNCHANGED <<disk, chunks>> /\ step \in {"notfound", "lookup"}
    BY Zenon DEF Stat
  <1>2. /\ disk[p] \in Files /\ disk[p].version \in 0..MaxEdits
        /\ disk[p].stamp = disk[p].version
    BY Zenon DEF CacheInv, Files
  <1> HIDE DEF step
  <1>3. /\ r = [f \in LoadFields |-> r[f]] /\ r.step = step /\ r.path = p /\ r.stamp = disk[p].stamp
        /\ r.chunk = NoChunk /\ r.since = {disk[p].version}
    BY Zenon DEF LoadFields
  <1> HIDE DEF r
  <1>4. \A k \in Files : k.version \in 0..MaxEdits
    BY Zenon DEF Files
  <1>5. \A k : Made(disk[p], k) => Covers(r, k)
    BY <1>2, <1>3, <1>4, LuaAssumption DEF Made, Covers
  <1>6. chunks[p] # NoChunk => Covers(r, chunks[p])
    BY <1>5, Zenon DEF CacheInv
  <1>7. LoadOK(r, disk, chunks)
    BY <1>1, <1>2, <1>3, <1>6, LuaAssumption DEF LoadOK, Steps, Active, Returned, Chunks
  <1>8. \A d \in Calls \ {c} : load[d].step = "insert" /\ load[d].path = r.path => Covers(r, load[d].chunk)
    BY <1>3, <1>5, Zenon DEF CacheInv, LoadOK
  <1> QED
    BY <1>1, <1>3, <1>7, <1>8, OneLoad, Zenon DEF Active

\* A hit: the chunk's version is as late as its stamp, so the load knows it.
LEMMA LookupInv ==
    ASSUME CacheInv, NEW c \in Calls, Lookup(c)
    PROVE  CacheInv'
PROOF
  <1> DEFINE chunk == chunks[load[c].path]
             hit == [load[c] EXCEPT !.step = "loaded", !.chunk = chunk]
             miss == [load[c] EXCEPT !.step = "read"]
  <1>1. LoadOK(load[c], disk, chunks) /\ load[c].step = "lookup" /\ UNCHANGED <<disk, chunks>>
    BY Zenon DEF CacheInv, Lookup, Loading
  <1>2. load[c].path \in Scripts /\ chunk \in Chunks
    BY <1>1, Zenon DEF CacheInv, LoadOK, Active
  <1>3. CASE chunk # NoChunk /\ chunk.stamp = load[c].stamp
    <2>1. Step(c, hit)
      BY <1>3, Zenon DEF Lookup
    <2>2. Made(disk[load[c].path], chunk) /\ Covers(load[c], chunk)
      BY <1>1, <1>2, <1>3, Zenon DEF CacheInv, LoadOK, Active
    <2>3. chunk.version \in load[c].since
      BY <1>3, <2>2, Zenon DEF Made, Covers
    <2> HIDE DEF chunk
    <2>4. /\ hit = [f \in LoadFields |-> hit[f]] /\ hit.step = "loaded" /\ hit.chunk = chunk
          /\ hit.since = load[c].since /\ hit.stamp = load[c].stamp
      BY <1>1, Zenon DEF LoadOK, LoadFields
    <2> HIDE DEF hit
    <2>5. LoadOK(hit, disk, chunks)
      BY <1>1, <1>2, <2>3, <2>4, Zenon DEF LoadOK, Steps, Active, Returned
    <2> QED
      BY <1>1, <2>1, <2>4, <2>5, OneLoad, Zenon DEF Active
  <1>4. CASE ~(chunk # NoChunk /\ chunk.stamp = load[c].stamp)
    <2>1. Step(c, miss)
      BY <1>4, Zenon DEF Lookup
    <2>2. /\ miss = [f \in LoadFields |-> miss[f]] /\ miss.step = "read" /\ miss.path = load[c].path
          /\ miss.since = load[c].since /\ miss.stamp = load[c].stamp /\ miss.chunk = load[c].chunk
      BY <1>1, Zenon DEF LoadOK, LoadFields
    <2> HIDE DEF miss
    <2>3. LoadOK(miss, disk, chunks)
      BY <1>1, <2>2, Zenon DEF LoadOK, Steps, Active, Covers
    <2>4. \A d \in Calls \ {c} : load[d].step = "insert" /\ load[d].path = miss.path => Covers(miss, load[d].chunk)
      BY <1>1, <2>2, Zenon DEF CacheInv, Active, Covers
    <2> QED
      BY <1>1, <2>1, <2>2, <2>3, <2>4, OneLoad, Zenon
  <1> QED
    BY <1>3, <1>4, Zenon

\* The file is read: every load of it that is under way knows this version.
LEMMA ReadInv ==
    ASSUME CacheInv, NEW c \in Calls, Read(c)
    PROVE  CacheInv'
PROOF
  <1> DEFINE f == disk[load[c].path]
             stamped == [f EXCEPT !.stamp = load[c].stamp]
             ended(step) == [load[c] EXCEPT !.step = step]
             made == [load[c] EXCEPT !.step = "insert", !.chunk = stamped]
  <1>1. LoadOK(load[c], disk, chunks) /\ load[c].step = "read" /\ UNCHANGED <<disk, chunks>>
    BY Zenon DEF CacheInv, Read, Loading
  <1>2. load[c].path \in Scripts /\ f \in Files /\ load[c].stamp \in 0..MaxEdits
    BY <1>1, Zenon DEF CacheInv, LoadOK, Active
  <1>3. Step(c, ended("io")) \/ Step(c, ended("compile")) \/ Step(c, made)
    BY Zenon DEF Read
  <1>4. ASSUME NEW step \in {"io", "compile"}, Step(c, ended(step))
        PROVE  CacheInv'
    <2> DEFINE r == ended(step)
    <2>1. /\ r = [g \in LoadFields |-> r[g]] /\ r.step = step
          /\ r.since = load[c].since /\ r.stamp = load[c].stamp /\ r.chunk = load[c].chunk
      BY <1>1, Zenon DEF LoadOK, LoadFields
    <2>2. Step(c, r)
      BY <1>4, Zenon
    <2> HIDE DEF r
    <2>3. LoadOK(r, disk, chunks)
      BY <1>1, <2>1, Zenon DEF LoadOK, Steps, Active, Returned
    <2> QED
      BY <1>1, <2>1, <2>2, <2>3, OneLoad, ZenonT(30) DEF Active
  <1>5. CASE Step(c, made)
    <2>1. /\ stamped \in Files /\ stamped.version = f.version /\ stamped.stamp = load[c].stamp
          /\ f.version \in 0..MaxEdits
      BY <1>2, ZenonT(30) DEF Files
    <2>2. Made(f, stamped)
      BY <1>1, <2>1, LuaAssumption DEF LoadOK, Active, Made
    <2> HIDE DEF stamped
    <2>3. /\ made = [g \in LoadFields |-> made[g]] /\ made.step = "insert" /\ made.path = load[c].path
          /\ made.since = load[c].since /\ made.stamp = load[c].stamp /\ made.chunk = stamped
      BY <1>1, Zenon DEF LoadOK, LoadFields
    <2> HIDE DEF made
    <2>4. LoadOK(made, disk, chunks)
      BY <1>1, <2>1, <2>2, <2>3, Zenon DEF LoadOK, Steps, Active, Covers, Chunks
    <2>5. \A d \in Calls : load[d].step \in Active /\ load[d].path = load[c].path => Covers(load[d], stamped)
      BY <2>1, Zenon DEF CacheInv, LoadOK, Covers
    <2>6. Covers(made, stamped)
      BY <1>1, <2>3, <2>5, Zenon DEF Covers, Active
    <2>7. \A d \in Calls \ {c} : load[d].step = "insert" /\ load[d].path = made.path => Covers(made, load[d].chunk)
      BY <1>1, <2>3, Zenon DEF CacheInv, Active, Covers
    <2> QED
      BY <1>1, <1>5, <2>3, <2>4, <2>5, <2>6, <2>7, OneLoad, ZenonT(30)
  <1> QED
    BY <1>3, <1>4, <1>5, Zenon

\* The chunk goes into the cache: the loads that knew it in flight know it there.
LEMMA InsertInv ==
    ASSUME CacheInv, NEW c \in Calls, Insert(c)
    PROVE  CacheInv'
PROOF
  <1> DEFINE p == load[c].path
             k == load[c].chunk
             r == [load[c] EXCEPT !.step = "loaded"]
  <1>1. LoadOK(load[c], disk, chunks) /\ load[c].step = "insert" /\ disk' = disk
    BY Zenon DEF CacheInv, Insert, Loading
  <1>2. p \in Scripts /\ Made(disk[p], k) /\ k \in Chunks /\ k.version \in load[c].since
    BY <1>1, Zenon DEF CacheInv, LoadOK, Active, Covers, Made
  <1>3. /\ \A q \in Scripts : chunks'[q] = IF q = p THEN k ELSE chunks[q]
        /\ chunks' \in [Scripts -> Chunks]
    BY <1>2, Zenon DEF CacheInv, Insert
  <1>4. /\ load' = [d \in Calls |-> load'[d]]
        /\ \A d \in Calls : load'[d] = IF d = c THEN r ELSE load[d]
    BY Zenon DEF CacheInv, Insert, Step
  <1>5. /\ r = [f \in LoadFields |-> r[f]] /\ r.step = "loaded" /\ r.since = load[c].since
        /\ r.stamp = load[c].stamp /\ r.chunk = k
    BY <1>1, Zenon DEF LoadOK, LoadFields
  <1> HIDE DEF r
  <1>6. LoadOK(r, disk, chunks')
    BY <1>1, <1>2, <1>5, Zenon DEF LoadOK, Steps, Active, Returned
  <1>7. ASSUME NEW d \in Calls, d # c
        PROVE  LoadOK(load[d], disk, chunks')
    <2>1. LoadOK(load[d], disk, chunks)
      BY Zenon DEF CacheInv
    <2>2. load[d].step \in Active /\ load[d].path = p => Covers(load[d], k)
      BY <1>1, Zenon DEF CacheInv
    <2> HIDE DEF p, k
    <2>3. load[d].step \in Active /\ chunks'[load[d].path] # NoChunk => Covers(load[d], chunks'[load[d].path])
      BY <1>3, <2>1, <2>2, Zenon DEF LoadOK
    <2> QED
      BY <2>1, <2>3, Zenon DEF LoadOK
  <1>8. \A q \in Scripts : chunks'[q] # NoChunk => Made(disk[q], chunks'[q])
    BY <1>2, <1>3, Zenon DEF CacheInv
  <1>9. \A d, e \in Calls :
            load'[d].step \in Active /\ load'[e].step = "insert" /\ load'[e].path = load'[d].path =>
                Covers(load'[d], load'[e].chunk)
    BY <1>4, <1>5, ZenonT(30) DEF CacheInv, Active
  <1> QED
    BY <1>1, <1>3, <1>4, <1>6, <1>7, <1>8, <1>9, Zenon DEF CacheInv

\* A file gets a version later than all before it; the loads of it that are
\* under way learn of it.
LEMMA EditInv ==
    ASSUME CacheInv, NEW p \in Scripts, NEW content \in Contents, Edit(p, content)
    PROVE  CacheInv'
PROOF
  <1> DEFINE versions == {disk[q].version : q \in Scripts}
             v == 1 + Max(versions)
             file == [version |-> v, stamp |-> v, content |-> content]
             more(r) == [r EXCEPT !.since = @ \cup {v}]
             told(r) == r.step \in Active /\ r.path = p
  <1>1. /\ v <= MaxEdits /\ disk' = [disk EXCEPT ![p] = file] /\ chunks' = chunks
        /\ load' = [c \in Calls |-> IF told(load[c]) THEN more(load[c]) ELSE load[c]]
    BY Zenon DEF Edit, Active
  <1>2. \A q \in Scripts : disk[q] \in Files /\ disk[q].version \in 0..MaxEdits
    BY Zenon DEF CacheInv, Files
  <1>3. Max(versions) \in versions /\ \A y \in versions : y <= Max(versions)
    <2>1. versions \in SUBSET (0..MaxEdits) /\ versions # {}
      BY <1>2, Zenon
    <2> QED
      BY <2>1, MaxFacts, LuaAssumption, Zenon
  <1>4. v \in 0..MaxEdits /\ \A q \in Scripts : disk[q].version < v
    <2> DEFINE m == Max(versions)
    <2>1. m \in 0..MaxEdits /\ v = 1 + m /\ v <= MaxEdits
      BY <1>1, <1>2, <1>3, Zenon
    <2>2. \A q \in Scripts : disk[q].version <= m
      BY <1>3, Zenon
    <2> HIDE DEF m, v
    <2> QED
      BY <1>2, <2>1, <2>2, LuaAssumption
  <1> HIDE DEF versions, v
  <1>5. file \in Files /\ file.version = v /\ file.stamp = v
    BY <1>4, Zenon DEF Files
  <1> HIDE DEF file
  <1>6. /\ disk' \in [Scripts -> Files]
        /\ \A q \in Scripts : disk'[q] = IF q = p THEN file ELSE disk[q]
    BY <1>1, <1>5, Zenon DEF CacheInv
  <1>7. \A q \in Scripts : disk'[q].version = disk'[q].stamp /\ disk[q].version <= disk'[q].version
                           /\ disk'[q].version \in 0..MaxEdits
    BY <1>2, <1>4, <1>5, <1>6, LuaAssumption DEF CacheInv
  <1>8. \A q \in Scripts : \A k : Made(disk[q], k) => Made(disk'[q], k)
    <2>1. \A k \in Files : k.version \in 0..MaxEdits
      BY Zenon DEF Files
    <2> QED
      BY <1>2, <1>7, <2>1, LuaAssumption DEF Made
  <1>9. ASSUME NEW c \in Calls
        PROVE  /\ LoadOK(load'[c], disk', chunks)
               /\ load'[c].step = load[c].step /\ load'[c].path = load[c].path
               /\ load'[c].stamp = load[c].stamp /\ load'[c].chunk = load[c].chunk
               /\ load[c].since \subseteq load'[c].since
    <2>1. LoadOK(load[c], disk, chunks)
      BY Zenon DEF CacheInv
    <2>2. CASE told(load[c])
      <3> DEFINE r == load[c]
                 s == more(load[c])
      <3>1. load'[c] = s
        BY <1>1, <2>2, Zenon
      <3>2. /\ s = [f \in LoadFields |-> s[f]] /\ s.step = r.step /\ s.path = r.path
            /\ s.stamp = r.stamp /\ s.chunk = r.chunk /\ s.since = r.since \cup {v}
        BY <2>1, Zenon DEF LoadOK, LoadFields
      <3> HIDE DEF s
      <3>3. s.stamp <= disk'[p].version /\ disk'[p].version \in s.since /\ s.since \subseteq 0..MaxEdits
        <4>1. disk'[p].version = v /\ disk[p].version \in 0..MaxEdits /\ disk[p].version < v
          BY <1>2, <1>4, <1>5, <1>6, Zenon
        <4>2. r.stamp \in 0..MaxEdits /\ r.stamp <= disk[p].version /\ r.since \subseteq 0..MaxEdits
          BY <2>1, <2>2, Zenon DEF LoadOK
        <4>3. r.stamp <= v
          BY <1>4, <4>1, <4>2, LuaAssumption
        <4> QED
          BY <1>4, <3>2, <4>1, <4>2, <4>3, Zenon
      <3>4. \A k : Covers(r, k) => Covers(s, k)
        BY <3>2, Zenon DEF Covers
      <3>5. LoadOK(s, disk', chunks)
        BY <1>8, <2>1, <2>2, <3>2, <3>3, <3>4, Zenon DEF LoadOK, Active
      <3> QED
        BY <3>1, <3>2, <3>5, Zenon
    <2>3. CASE ~told(load[c])
      <3>1. load'[c] = load[c]
        BY <1>1, <2>3, Zenon
      <3>2. load[c].step \in Active => disk'[load[c].path] = disk[load[c].path]
        BY <1>6, <2>1, <2>3, Zenon DEF LoadOK
      <3>3. LoadOK(load[c], disk', chunks)
        BY <2>1, <3>2, Zenon DEF LoadOK, Active
      <3> QED
        BY <3>1, <3>3, Zenon
    <2> QED
      BY <2>2, <2>3, Zenon
  <1>10. \A q \in Scripts : chunks[q] # NoChunk => Made(disk'[q], chunks[q])
    BY <1>8, Zenon DEF CacheInv
  <1>11. \A c, d \in Calls :
             load'[c].step \in Active /\ load'[d].step = "insert" /\ load'[d].path = load'[c].path =>
                 Covers(load'[c], load'[d].chunk)
    BY <1>9 DEF CacheInv, Covers
  <1>12. load' = [c \in Calls |-> load'[c]]
    BY <1>1, Zenon
  <1> QED
    BY <1>1, <1>6, <1>7, <1>9, <1>10, <1>11, <1>12, Zenon DEF CacheInv

LEMMA SameCache ==
    ASSUME CacheInv, UNCHANGED cacheVars
    PROVE  CacheInv'
PROOF
  BY Zenon DEF CacheInv, cacheVars

LEMMA LoadStepsInv ==
    ASSUME CacheInv, NEW c \in Calls, LoadSteps(c) \/ \E p \in Scripts : Stat(c, p)
    PROVE  CacheInv'
PROOF
  BY StatInv, LookupInv, ReadInv, InsertInv, Zenon DEF LoadSteps

\* The cache keeps its invariant whatever the calls, the other requests and
\* the editor of the scripts do.
THEOREM CacheInvariance == Spec => []CacheInv
PROOF
  <1>1. Init => CacheInv
    BY CacheInitInv, Zenon DEF Init
  <1>2. CacheInv /\ [Next]_vars => CacheInv'
    <2> SUFFICES ASSUME CacheInv, [Next]_vars PROVE CacheInv'
      BY Zenon
    <2>1. CASE UNCHANGED vars \/ Done
      BY <2>1, SameCache, Zenon DEF vars, Done
    <2>2. CASE Editor
      BY <2>2, EditInv, Zenon DEF Editor
    <2>3. CASE OtherLoads
      BY <2>3, LoadStepsInv, Zenon DEF OtherLoads
    <2>4. ASSUME NEW c \in Vms, Host(c)
          PROVE  CacheInv'
      <3>0. c \in Calls
        BY LuaAssumption, Zenon
      <3>1. CASE LoadScript(c)
        BY <3>0, <3>1, LoadStepsInv, LuaAssumption, Zenon DEF LoadScript
      <3>2. CASE InitLoaded(c) \/ Required(c) \/ RouteLoaded(c)
        BY <3>0, <3>2, ForgetInv, Zenon DEF InitLoaded, Required, RouteLoaded
      <3>3. CASE StartVm(c) \/ Probe(c) \/ NoExtension(c) \/ OpenPage(c) \/ PageEnds(c)
        BY <3>3, SameCache, Zenon DEF StartVm, Probe, NoExtension, OpenPage, PageEnds
      <3> QED
        BY <2>4, <3>1, <3>2, <3>3, Zenon DEF Host
    <2>5. ASSUME NEW c \in Vms, Script(c) \/ Expire(c)
          PROVE  CacheInv'
      BY <2>5, SameCache, Zenon DEF Script, Expire, SendStatus, ServerPrint, Binding, Require, Html, PageChunk,
             InitEnds, LuaRouteEnds, HookEnds, ChunkEnds
    <2> QED
      BY <2>1, <2>2, <2>3, <2>4, <2>5, ZenonT(30) DEF Next
  <1> QED
    BY <1>1, <1>2, PTL DEF Spec

\* The code a call loads through the bytecode cache is what the file held at
\* some moment of that very load_function, however its stat, lookup, read and
\* insert interleave with edits and with other loads; every variable keeps its
\* type.
THEOREM ScriptsAreFresh == Spec => []FreshScript
PROOF
  <1>1. IInv /\ CacheInv => FreshScript
    <2> SUFFICES ASSUME IInv, CacheInv PROVE FreshScript
      BY Zenon
    <2>1. CacheTypeOK
      BY Zenon DEF CacheInv, LoadOK, CacheTypeOK, Steps, Active
    <2>2. \A c \in Vms : Typed(call[c])
      BY Zenon DEF IInv, Good
    <2>3. TypeOK
      BY <2>1, <2>2, Zenon DEF TypeOK, Typed, Results
    <2>4. \A c \in Calls : load[c].step = "loaded" => load[c].chunk.version \in load[c].since
      BY Zenon DEF CacheInv, LoadOK
    <2> QED
      BY <2>3, <2>4, Zenon DEF FreshScript
  <1> QED
    BY <1>1, Invariance, CacheInvariance, PTL

==============================================================================
