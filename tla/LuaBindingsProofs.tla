-------------------------- MODULE LuaBindingsProofs --------------------------
(***************************************************************************)
(* Proofs about the functions a script may call, for every number of       *)
(* statements, images, paths and arguments and every deadline: handles are *)
(* released once, waits are bounded, files and response are as the calls   *)
(* reported.                                                               *)
(*                                                                         *)
(* The invariant (Inv) says what the userdata own (Owned), what is left of *)
(* the time (Timely), what the last call left in the files (Kept), and     *)
(* that the head goes out with the first byte (Headed).  One lemma for     *)
(* each family of functions says what a call may do to the rest.           *)
(***************************************************************************)
EXTENDS LuaBindings, TLAPS

\* The fields of a response writer.
WriterFields == {"status", "set", "headers", "cookies", "committed", "heads", "body"}

\* A head goes out with the first byte and only then; every cookie is secure.
Headed(w) ==
    /\ w = [f \in WriterFields |-> w[f]]
    /\ w.committed => w.heads = <<w.heads[1]>>
    /\ ~ w.committed => w.heads = <<>> /\ w.body = 0
    /\ w.cookies \in Seq({"secure", "secure httponly"})

\* What a call of the script may make of the response.
Grown(w, reply) ==
    /\ Headed(w)
    /\ writer.committed => w.committed /\ w.heads = writer.heads
    /\ reply.ok # "ok" /\ reply.why = "args" => w = writer

LEMMA Sequenced ==
    ASSUME NEW S, NEW s \in Seq(S)
    PROVE  /\ \A e \in S : Append(s, e) \in Seq(S)
           /\ \A i \in 1..Len(s) : s[i] \in S
PROOF
  OBVIOUS

LEMMA CommittedIsHeaded ==
    ASSUME NEW w, Headed(w)
    PROVE  /\ w.heads # <<>> <=> w.committed
           /\ Len(w.heads) <= 1
           /\ \A i \in 1..Len(w.cookies) : w.cookies[i] # "plain"
           /\ w.body > 0 => w.committed
PROOF
  <1>1. w.committed => w.heads = <<w.heads[1]>>
    BY Zenon DEF Headed
  <1>2. \A h : <<h>> # <<>> /\ Len(<<h>>) = 1 /\ Len(<<>>) = 0
    OBVIOUS
  <1>3. ~ w.committed => w.heads = <<>>
    BY Zenon DEF Headed
  <1>4. w.heads # <<>> <=> w.committed
    BY <1>1, <1>2, <1>3, Zenon
  <1>5. Len(w.heads) = 1 \/ Len(w.heads) = 0
    BY <1>1, <1>2, <1>3, Zenon
  <1>6. \A i \in 1..Len(w.cookies) : w.cookies[i] \in {"secure", "secure httponly"}
    <2>1. w.cookies \in Seq({"secure", "secure httponly"})
      BY Zenon DEF Headed
    <2> QED
      BY <2>1, Sequenced, Zenon
  <1>7. Len(w.heads) <= 1
    <2>1. \A n : n = 1 \/ n = 0 => n <= 1
      OBVIOUS
    <2> QED
      BY <1>5, <2>1, Zenon
  <1>8. w.body > 0 => w.committed
    <2>1. ~ (0 > 0)
      OBVIOUS
    <2> QED
      BY <2>1, Zenon DEF Headed
  <1> QED
    BY <1>4, <1>6, <1>7, <1>8, Zenon

LEMMA SetStatusHeaded ==
    ASSUME NEW w, Headed(w), NEW status
    PROVE  Headed(SetStatus(w, status)) /\ SetStatus(w, status).heads = w.heads
PROOF
  <1> DEFINE yes == TRUE
             v == [w EXCEPT !.status = status, !.set = yes]
  <1>1. SetStatus(w, status) = v
    BY Zenon DEF SetStatus
  <1> HIDE DEF yes
  <1>2. /\ v = [f \in WriterFields |-> v[f]] /\ v.heads = w.heads /\ v.committed = w.committed
        /\ v.cookies = w.cookies /\ v.body = w.body
    BY Zenon DEF Headed, WriterFields
  <1> HIDE DEF v
  <1> QED
    BY <1>1, <1>2, Zenon DEF Headed
DbType == [held : BOOLEAN, closed : BOOLEAN, native : {"none", "open", "closed"},
           budget : Nat, opened : Nat]
Cursors == {"fresh", "row", "done", "error"}
StmtType == [held : BOOLEAN, native : {"none", "live", "null"}, cursor : Cursors, frees : 0..1]
ImageType == [held : BOOLEAN, native : {"none", "live", "freed"}, frees : 0..1]

\* A live statement has its userdata and was not finalized; one that was never
\* prepared has neither.  An image is alive as long as its userdata.
StmtOwned(v) ==
    /\ v.native = "live" => v.held /\ v.frees = 0
    /\ v.native = "none" => ~ v.held /\ v.frees = 0
ImageOwned(v) ==
    /\ v.held <=> v.native = "live"
    /\ v.native # "freed" => v.frees = 0

\* What the userdata of a script own, and what they have given back.
Owned ==
    /\ now \in Nat
    /\ db \in DbType
    /\ stmt \in [Stmts -> StmtType]
    /\ img \in [Images -> ImageType]
    /\ db.native = "open" <=> db.held \/ \E s \in Stmts : stmt[s].held
    /\ \A s \in Stmts : StmtOwned(stmt[s])
    /\ \A i \in Images : ImageOwned(img[i])
    /\ ended => Gone /\ \A i \in Images : ~ img[i].held

\* The busy timeout of a connection is what was left when it was opened.
Timely ==
    /\ db.native = "none" => now <= Timeout
    /\ db.native # "none" => db.opened < Timeout /\ db.budget = Timeout - db.opened
    /\ WaitsEndInTime

\* Where Essentials may be, what the last copy has left, what the end has removed.
CarriesEssentials(fs) ==
    \A p \in Paths : fs[p] = "service" => family = "image" /\ Carries(MapExtension(Ext[p], TRUE))

Kept ==
    /\ files \in [Paths -> FileStates]
    /\ CarriesEssentials(files)
    /\ last.to # "none" => /\ {last.from, last.to} \subseteq Paths
                           /\ files[last.to] = IF last.from = last.to THEN "" ELSE files[last.from]
    /\ ended => \A i \in 1..Len(Uploads) : ~ IsFile(files[Uploads[i]])

\* What a call of the script may make of the files.
Handled(fs, reply) ==
    /\ fs \in [Paths -> FileStates]
    /\ CarriesEssentials(fs)
    /\ reply.ok \in {"fail", "raised"} /\ reply.why \notin {"data", "engine"} => fs = files
    /\ reply.to # "none" => /\ {reply.from, reply.to} \subseteq Paths
                            /\ fs[reply.to] = IF reply.from = reply.to THEN "" ELSE files[reply.from]
                            /\ reply.from # reply.to => fs[reply.from] = files[reply.from]

\* The states of a path without Essentials: a script that only uses the file
\* functions meets no other.
Plain == FileStates \ {"service"}

\* What a file function may answer.
Sound(o, from, to) ==
    /\ o.files \in [Paths -> Plain]
    /\ ~ o.ok /\ o.why # "data" => o.files = files
    /\ o.ok /\ to # "none" => /\ {from, to} \subseteq Paths
                              /\ o.files[to] = IF from = to THEN "" ELSE files[from]
                              /\ from # to => o.files[from] = files[from]

LEMMA AddHeaderHeaded ==
    ASSUME NEW w, Headed(w), NEW h
    PROVE  Headed(AddHeader(w, h)) /\ AddHeader(w, h).heads = w.heads
PROOF
  <1> DEFINE headers == Append(w.headers, h)
             v == [w EXCEPT !.headers = headers]
  <1>1. AddHeader(w, h) = v
    BY Zenon DEF AddHeader
  <1> HIDE DEF headers
  <1>2. /\ v = [f \in WriterFields |-> v[f]] /\ v.heads = w.heads /\ v.committed = w.committed
        /\ v.cookies = w.cookies /\ v.body = w.body
    BY Zenon DEF Headed, WriterFields
  <1> HIDE DEF v
  <1> QED
    BY <1>1, <1>2, Zenon DEF Headed

LEMMA AddCookieHeaded ==
    ASSUME NEW w, Headed(w), NEW k \in {"secure", "secure httponly"}
    PROVE  Headed(AddCookie(w, k)) /\ AddCookie(w, k).heads = w.heads
PROOF
  <1> DEFINE cookies == Append(w.cookies, k)
             v == [w EXCEPT !.cookies = cookies]
  <1>1. AddCookie(w, k) = v
    BY Zenon DEF AddCookie
  <1>2. cookies \in Seq({"secure", "secure httponly"})
    <2>1. w.cookies \in Seq({"secure", "secure httponly"})
      BY Zenon DEF Headed
    <2> QED
      BY <2>1, Sequenced, Zenon
  <1> HIDE DEF cookies
  <1>3. /\ v = [f \in WriterFields |-> v[f]] /\ v.heads = w.heads /\ v.committed = w.committed
        /\ v.cookies = cookies /\ v.body = w.body
    BY Zenon DEF Headed, WriterFields
  <1> HIDE DEF v
  <1> QED
    BY <1>1, <1>2, <1>3, Zenon DEF Headed

\* Bytes reach the client or do not; either way the head is out, once.
LEMMA WriteHeaded ==
    ASSUME NEW w, Headed(w), NEW delivered
    PROVE  LET v == Write(w, delivered) IN
           Headed(v) /\ v.committed /\ (w.committed => v.heads = w.heads)
PROOF
  <1> DEFINE sent == IF delivered THEN w.body + 1 ELSE w.body
  <1>1. CASE w.committed
    <2> DEFINE v == [w EXCEPT !.body = sent]
    <2>1. Write(w, delivered) = v
      BY <1>1, Zenon DEF Write
    <2> HIDE DEF sent
    <2>2. /\ v = [f \in WriterFields |-> v[f]] /\ v.heads = w.heads /\ v.committed = w.committed
          /\ v.cookies = w.cookies /\ v.body = sent
      BY Zenon DEF Headed, WriterFields
    <2> HIDE DEF v
    <2> QED
      BY <1>1, <2>1, <2>2, Zenon DEF Headed
  <1>2. CASE ~ w.committed
    <2> DEFINE yes == TRUE
               none == <<>>
               heads == Append(w.heads, HeadSnapshot(w))
               v == [w EXCEPT !.committed = yes, !.heads = heads,
                              !.headers = none, !.cookies = none, !.body = sent]
    <2>1. Write(w, delivered) = v
      BY <1>2, Zenon DEF Write
    <2>2. heads = <<heads[1]>> /\ none \in Seq({"secure", "secure httponly"})
      <3>1. w.heads = <<>>
        BY <1>2, Zenon DEF Headed
      <3>2. \A h : Append(<<>>, h) = <<h>> /\ <<h>>[1] = h
        OBVIOUS
      <3>3. <<>> \in Seq({"secure", "secure httponly"})
        OBVIOUS
      <3> QED
        BY <3>1, <3>2, <3>3, Zenon
    <2> HIDE DEF sent, yes, none, heads
    <2>3. /\ v = [f \in WriterFields |-> v[f]] /\ v.heads = heads /\ v.committed = yes
          /\ v.cookies = none /\ v.body = sent
      BY Zenon DEF Headed, WriterFields
    <2> HIDE DEF v
    <2> QED
      BY <1>2, <2>1, <2>2, <2>3, Zenon DEF Headed, yes
  <1> QED
    BY <1>1, <1>2, Zenon

LEMMA WritesHeaded ==
    ASSUME NEW w, Headed(w), NEW n
    PROVE  LET v == Writes(w, n) IN
           Headed(v) /\ (w.committed => v.committed /\ v.heads = w.heads)
PROOF
  <1>1. CASE n = 0
    BY <1>1, Zenon DEF Writes
  <1>2. CASE n # 0
    <2> DEFINE u == Write(w, TRUE)
               sent == w.body + n
               v == [u EXCEPT !.body = sent]
    <2>1. Writes(w, n) = v
      BY <1>2, Zenon DEF Writes
    <2>3. Headed(u) /\ u.committed /\ (w.committed => u.heads = w.heads)
      BY WriteHeaded, Zenon
    <2> HIDE DEF u, sent
    <2>4. /\ v = [f \in WriterFields |-> v[f]] /\ v.heads = u.heads /\ v.committed = u.committed
          /\ v.cookies = u.cookies /\ v.body = sent
      BY <2>3, Zenon DEF Headed, WriterFields
    <2> HIDE DEF v
    <2> QED
      BY <2>1, <2>3, <2>4, Zenon DEF Headed
  <1> QED
    BY <1>1, <1>2, Zenon
\* What an answer says of the call.
LEMMA Replies ==
    ASSUME NEW ok, NEW why
    PROVE  /\ Result(ok, why).why = why /\ Result(ok, why).to = "none"
           /\ ok => Result(ok, why).ok = "ok"
           /\ ~ ok => Result(ok, why).ok = "fail"
PROOF
  BY Zenon DEF Result, Reply

\* The functions that write the response, one by one.
LEMMA ResponseEffect ==
    ASSUME Headed(writer), ResponseSteps
    PROVE  \E w, reply : ResponseCall(w, reply) /\ Grown(w, reply)
PROOF
  <1>1. ASSUME NEW w, NEW why, Headed(w), writer.committed => w.committed /\ w.heads = writer.heads
        PROVE  Grown(w, Result(TRUE, why))
    BY <1>1, Replies, Zenon DEF Grown
  <1>2. \A reply : Grown(writer, reply)
    BY Zenon DEF Grown
  <1>3. PICK a \in Args :
           \/ ServerPrint(a) \/ SetBuffer(a) \/ SendHeader(a)
           \/ \E options \in SUBSET CookieOptions : SendCookie(a, options)
           \/ \E status \in Statuses : SendStatus(status)
    BY Zenon DEF ResponseSteps
  <1>4. CASE ServerPrint(a)
    <2>1. \/ ResponseCall(Write(writer, FALSE), Result(FALSE, "gone"))
          \/ \E n : ResponseCall(Writes(writer, n), Result(TRUE, "done"))
      BY <1>4, Zenon DEF ServerPrint
    <2>2. Grown(Write(writer, FALSE), Result(FALSE, "gone"))
      <3>1. /\ Headed(Write(writer, FALSE)) /\ Write(writer, FALSE).committed
            /\ writer.committed => Write(writer, FALSE).heads = writer.heads
        BY WriteHeaded, Zenon
      <3>2. Result(FALSE, "gone").why # "args"
        BY Zenon DEF Result, Reply
      <3> QED
        BY <3>1, <3>2, Zenon DEF Grown
    <2>3. ASSUME NEW rendered
          PROVE  Grown(Writes(writer, rendered), Result(TRUE, "done"))
      <3>1. /\ Headed(Writes(writer, rendered))
            /\ writer.committed => /\ Writes(writer, rendered).committed
                                   /\ Writes(writer, rendered).heads = writer.heads
        BY WritesHeaded, Zenon
      <3> QED
        BY <1>1, <3>1, Zenon
    <2> QED
      BY <2>1, <2>2, <2>3, Zenon
  <1>5. CASE SetBuffer(a)
    BY <1>2, <1>5, Zenon DEF SetBuffer
  <1>6. CASE SendHeader(a)
    <2>1. Grown(AddHeader(writer, "header"), Result(TRUE, "done"))
      <3>1. Headed(AddHeader(writer, "header")) /\ AddHeader(writer, "header").heads = writer.heads
        BY AddHeaderHeaded, Zenon
      <3> QED
        BY <1>1, <3>1, CommittedIsHeaded, Zenon
    <2> QED
      BY <1>2, <1>6, <2>1, Zenon DEF SendHeader
  <1>7. CASE \E options \in SUBSET CookieOptions : SendCookie(a, options)
    <2>1. ASSUME NEW k \in {"secure", "secure httponly"}
          PROVE  Grown(AddCookie(writer, k), Result(TRUE, "done"))
      <3>1. Headed(AddCookie(writer, k)) /\ AddCookie(writer, k).heads = writer.heads
        BY AddCookieHeaded, Zenon
      <3> QED
        BY <1>1, <3>1, CommittedIsHeaded, Zenon
    <2>2. \A o : Cookie(o) \in {"secure", "secure httponly"}
      BY Zenon DEF Cookie
    <2>3. \/ \E o : ResponseCall(AddCookie(writer, Cookie(o)), Result(TRUE, "done"))
          \/ ResponseCall(writer, BadArgs)
      BY <1>7, Zenon DEF SendCookie
    <2> QED
      BY <1>2, <2>1, <2>2, <2>3, Zenon
  <1>8. CASE \E status \in Statuses : SendStatus(status)
    <2>1. \A s : Grown(SetStatus(writer, s), Result(TRUE, "done"))
      <3> TAKE s
      <3>1. Headed(SetStatus(writer, s)) /\ SetStatus(writer, s).heads = writer.heads
        BY SetStatusHeaded, Zenon
      <3> QED
        BY <1>1, <3>1, CommittedIsHeaded, Zenon
    <2>2. \E s : ResponseCall(SetStatus(writer, s), Result(TRUE, "done"))
      <3> PICK status \in Statuses : SendStatus(status)
        BY <1>8, Zenon
      <3> DEFINE s == IF status < 0 THEN 0 ELSE IF status > 999 THEN 999 ELSE status
      <3>1. ResponseCall(SetStatus(writer, s), Result(TRUE, "done"))
        BY Zenon DEF SendStatus
      <3> HIDE DEF s
      <3> QED
        BY <3>1, Zenon
    <2> QED
      BY <2>1, <2>2, Zenon
  <1> QED
    BY <1>3, <1>4, <1>5, <1>6, <1>7, <1>8, Zenon
LEMMA ResponseAnswers ==
    ASSUME ResponseSteps
    PROVE  last'.to = "none"
PROOF
  <1>1. \A ok, why : Result(ok, why).to = "none"
    BY Zenon DEF Result, Reply
  <1>2. \A w, ok, why : ResponseCall(w, Result(ok, why)) => last'.to = "none"
    BY <1>1, Zenon DEF ResponseCall
  <1>3. \A a : ServerPrint(a) => last'.to = "none"
    BY <1>2, Zenon DEF ServerPrint
  <1>4. \A a : SetBuffer(a) => last'.to = "none"
    BY <1>2, Zenon DEF SetBuffer
  <1>5. \A a : SendHeader(a) => last'.to = "none"
    BY <1>2, Zenon DEF SendHeader, BadArgs
  <1>6. \A a, options : SendCookie(a, options) => last'.to = "none"
    BY <1>2, Zenon DEF SendCookie, BadArgs
  <1>7. ASSUME NEW status, SendStatus(status) PROVE last'.to = "none"
    <2> DEFINE s == IF status < 0 THEN 0 ELSE IF status > 999 THEN 999 ELSE status
    <2>1. ResponseCall(SetStatus(writer, s), Result(TRUE, "done"))
      BY <1>7, Zenon DEF SendStatus
    <2> HIDE DEF s
    <2> QED
      BY <1>2, <2>1, Zenon
  <1> QED
    BY <1>3, <1>4, <1>5, <1>6, <1>7, Zenon DEF ResponseSteps

LEMMA Outcomes ==
    ASSUME NEW ok, NEW why, NEW fs
    PROVE  /\ Outcome(ok, why, fs).ok = ok /\ Outcome(ok, why, fs).why = why
           /\ Outcome(ok, why, fs).files = fs
           /\ Fails(why, fs) = Outcome(FALSE, why, fs)
PROOF
  BY Zenon DEF Outcome, Fails

LEMMA Refused ==
    ASSUME files \in [Paths -> Plain], NEW why, NEW from, NEW to
    PROVE  Sound(Fails(why, files), from, to)
PROOF
  BY Zenon DEF Outcome, Fails, Sound

\* A success that is not a copy.
LEMMA Succeeded ==
    ASSUME files \in [Paths -> Plain], NEW ok, NEW why, NEW fs \in [Paths -> Plain], ~ ok => fs = files
    PROVE  Sound(Outcome(ok, why, fs), "none", "none")
PROOF
  BY Zenon DEF Outcome, Sound

LEMMA Changed ==
    ASSUME NEW fs \in [Paths -> Plain], NEW p \in Paths, NEW v \in Plain
    PROVE  /\ [fs EXCEPT ![p] = v] \in [Paths -> Plain]
           /\ [fs EXCEPT ![p] = v][p] = v
           /\ \A q \in Paths \ {p} : [fs EXCEPT ![p] = v][q] = fs[q]
PROOF
  BY Zenon

LEMMA RenamesSound ==
    ASSUME files \in [Paths -> Plain], NEW p \in Paths, NEW q \in Paths, NEW os
    PROVE  /\ Sound(Unlink(files, p, os), "none", "none")
           /\ Sound(Mkdir(files, p, os), "none", "none")
           /\ Sound(Rmdir(files, p, os), "none", "none")
           /\ Sound(MoveFile(files, p, q, os), "none", "none")
PROOF
  <1>1. {"absent", "dir", "", "part"} \subseteq Plain
    BY Zenon DEF Plain, FileStates
  <1>2. \A v \in Plain : Sound(Outcome(TRUE, "done", [files EXCEPT ![p] = v]), "none", "none")
    BY Changed, Succeeded, Zenon
  <1>3. Sound(Fails("os", files), "none", "none")
    BY Refused, Zenon
  <1>4. Sound(Unlink(files, p, os), "none", "none")
    BY <1>1, <1>2, <1>3, Zenon DEF Unlink
  <1>5. Sound(Mkdir(files, p, os), "none", "none")
    BY <1>1, <1>2, <1>3, Zenon DEF Mkdir
  <1>6. Sound(Rmdir(files, p, os), "none", "none")
    BY <1>1, <1>2, <1>3, Zenon DEF Rmdir
  <1>7. Sound(MoveFile(files, p, q, os), "none", "none")
    <2> DEFINE moved == [files EXCEPT ![q] = files[p], ![p] = "absent"]
    <2>1. moved \in [Paths -> Plain]
      BY <1>1, Zenon
    <2>2. Sound(Outcome(TRUE, "done", moved), "none", "none") /\ Sound(Outcome(TRUE, "done", files), "none", "none")
      BY <2>1, Succeeded, Zenon
    <2> QED
      BY <1>3, <2>2, Zenon DEF MoveFile
  <1> QED
    BY <1>4, <1>5, <1>6, <1>7, Zenon

\* copyFile and copyTmpfile, a file onto itself included.
LEMMA CopySound ==
    ASSUME files \in [Paths -> Plain], NEW p \in Paths, NEW q \in Paths, NEW os
    PROVE  Sound(CopyFile(files, p, q, os), p, q)
PROOF
  <1> DEFINE truncated == [files EXCEPT ![q] = ""]
             cut == [truncated EXCEPT ![q] = "part"]
             copied == [truncated EXCEPT ![q] = truncated[p]]
  <1>0. {"absent", "dir", "", "part"} \subseteq Plain
    BY Zenon DEF Plain, FileStates
  <1>1. truncated \in [Paths -> Plain] /\ truncated[q] = "" /\ \A r \in Paths \ {q} : truncated[r] = files[r]
    BY <1>0, Changed, Zenon
  <1>2. cut \in [Paths -> Plain]
    <2> HIDE DEF truncated
    <2> QED
      BY <1>0, <1>1, Changed, Zenon
  <1>3. /\ copied \in [Paths -> Plain] /\ copied[q] = truncated[p]
        /\ \A r \in Paths \ {q} : copied[r] = truncated[r]
    <2> HIDE DEF truncated
    <2> QED
      BY <1>1, Changed, Zenon
  <1>4. \/ \E why : CopyFile(files, p, q, os) = Fails(why, files)
        \/ CopyFile(files, p, q, os) = Fails("data", truncated)
        \/ CopyFile(files, p, q, os) = Fails("data", cut)
        \/ CopyFile(files, p, q, os) = Outcome(TRUE, "done", copied)
    BY Zenon DEF CopyFile
  <1> HIDE DEF truncated, cut, copied
  <1>5. \A why : Sound(Fails(why, files), p, q)
    BY Refused, Zenon
  <1>6. Sound(Fails("data", truncated), p, q) /\ Sound(Fails("data", cut), p, q)
    BY <1>1, <1>2, Zenon DEF Sound, Fails, Outcome
  <1>7. Sound(Outcome(TRUE, "done", copied), p, q)
    <2>1. copied[q] = IF p = q THEN "" ELSE files[p]
      BY <1>1, <1>3, Zenon
    <2>2. p # q => copied[p] = files[p]
      BY <1>1, <1>3, Zenon
    <2> QED
      BY <1>3, <2>1, <2>2, Zenon DEF Sound, Outcome
  <1> QED
    BY <1>4, <1>5, <1>6, <1>7, Zenon

\* The file functions, one by one.
LEMMA FileEffect ==
    ASSUME Kept, FileSteps
    PROVE  \E o, from, to : FileCall(o, from, to) /\ Sound(o, from, to)
PROOF
  <1>1. files \in [Paths -> Plain]
    <2>1. \A p \in Paths : files[p] # "service"
      BY Zenon DEF Kept, CarriesEssentials, FileSteps, Calls
    <2> QED
      BY <2>1, Zenon DEF Kept, Plain
  <1>2. \A why, from, to : Sound(Fails(why, files), from, to)
    BY <1>1, Refused, Zenon
  <1>3. \A n : UploadTmpname(n) # "none" => UploadTmpname(n) \in Paths
    BY BindingsAssumption, Zenon DEF UploadTmpname
  <1>4. \A ok, why : Sound(Outcome(ok, why, files), "none", "none")
    BY <1>1, Succeeded, Zenon
  <1>5. ASSUME NEW a, NEW p \in Paths, NEW op, FsQuery(op, a, p)
        PROVE  \E o, from, to : FileCall(o, from, to) /\ Sound(o, from, to)
    BY <1>2, <1>4, <1>5, Zenon DEF FsQuery, Probe
  <1>6. ASSUME NEW a, NEW p \in Paths, NEW os, FsUnlink(a, p, os) \/ FsRmdir(a, p, os) \/ FsMkdir(a, p, os)
        PROVE  \E o, from, to : FileCall(o, from, to) /\ Sound(o, from, to)
    <2>1. CASE FsUnlink(a, p, os)
      BY <1>1, <1>2, <2>1, RenamesSound, Zenon DEF FsUnlink
    <2>2. CASE FsRmdir(a, p, os)
      BY <1>1, <1>2, <2>2, RenamesSound, Zenon DEF FsRmdir
    <2>3. CASE FsMkdir(a, p, os)
      BY <1>1, <1>2, <2>3, RenamesSound, Zenon DEF FsMkdir
    <2> QED
      BY <1>6, <2>1, <2>2, <2>3, Zenon
  <1>7. ASSUME NEW a, NEW p \in Paths, NEW n, NEW q \in Paths, NEW os, FsMoveFile(a, p, n, q, os)
        PROVE  \E o, from, to : FileCall(o, from, to) /\ Sound(o, from, to)
    <2> DEFINE from == FileArg(a, p, n)
    <2>1. from # "none" => from \in Paths
      BY <1>3, Zenon DEF FileArg
    <2>2. \/ from # "none" /\ FileCall(MoveFile(files, from, q, os), "none", "none")
          \/ FileCall(Fails("args", files), "none", "none")
      BY <1>7, Zenon DEF FsMoveFile
    <2> HIDE DEF from
    <2> QED
      BY <1>1, <1>2, <2>1, <2>2, RenamesSound, Zenon
  <1>8. ASSUME NEW a, NEW p \in Paths, NEW q \in Paths, NEW os, FsCopyFile(a, p, q, os)
        PROVE  \E o, from, to : FileCall(o, from, to) /\ Sound(o, from, to)
    BY <1>1, <1>2, <1>8, CopySound, Zenon DEF FsCopyFile
  <1>9. ASSUME NEW a, NEW n, NEW q \in Paths, NEW os, CopyTmpfile(a, n, q, os)
        PROVE  \E o, from, to : FileCall(o, from, to) /\ Sound(o, from, to)
    <2> DEFINE from == UploadTmpname(n)
    <2>1. \/ from # "none" /\ FileCall(CopyFile(files, from, q, os), from, q)
          \/ FileCall(Fails("args", files), from, q)
      BY <1>9, Zenon DEF CopyTmpfile
    <2>2. from # "none" => from \in Paths
      BY <1>3, Zenon
    <2> HIDE DEF from
    <2> QED
      BY <1>1, <1>2, <2>1, <2>2, CopySound, Zenon
  <1>10. ASSUME NEW a, NEW p \in Paths, NEW n, NEW code, EngineQuery(a, p, n, code)
        PROVE  \E o, from, to : FileCall(o, from, to) /\ Sound(o, from, to)
    BY <1>2, <1>4, <1>10, Zenon DEF EngineQuery, EngineAnswers
  <1> QED
    BY <1>5, <1>6, <1>7, <1>8, <1>9, <1>10, Zenon DEF FileSteps

LEMMA FilesHandled ==
    ASSUME Kept, FileSteps
    PROVE  /\ Handled(files', last')
           /\ UNCHANGED <<now, db, stmt, family, writer, gone, img, sample, ended>>
PROOF
  <1>1. PICK o, from, to : FileCall(o, from, to) /\ Sound(o, from, to)
    BY FileEffect, Zenon
  <1>2. UNCHANGED <<now, db, stmt, family, writer, gone, img, sample, ended>>
    BY <1>1, Zenon DEF FileCall, sqliteVars
  <1>3. files' = o.files /\ files' \in [Paths -> FileStates] /\ CarriesEssentials(files')
    <2>1. files' = o.files /\ o.files \in [Paths -> Plain]
      BY <1>1, Zenon DEF FileCall, Sound
    <2>2. \A p \in Paths : files'[p] \in Plain
      BY <2>1, Zenon
    <2> QED
      BY <2>1, <2>2, Zenon DEF Plain, CarriesEssentials
  <1>4. CASE o.ok
    <2>1. last'.ok = "ok" /\ last'.from = from /\ last'.to = to
      BY <1>1, <1>4, Zenon DEF FileCall, Reply
    <2> QED
      BY <1>1, <1>2, <1>3, <1>4, <2>1, Zenon DEF Sound, Handled
  <1>5. CASE ~ o.ok
    <2>1. last'.why = o.why /\ last'.to = "none"
      BY <1>1, <1>5, Zenon DEF FileCall, Reply, Result
    <2> QED
      BY <1>1, <1>2, <1>3, <1>5, <2>1, Zenon DEF Sound, Handled
  <1> QED
    BY <1>2, <1>4, <1>5, Zenon

\* An image that a call may leave: the one there was, or the one it has read.
Read(i, image) ==
    \/ image = img[i]
    \/ img[i].native = "none" /\ image = NewImage

\* The functions of an image, one by one.
LEMMA ImageEffect ==
    ASSUME Kept, Headed(writer), ImageSteps
    PROVE  \E i \in Images : \E image, fs, w, reply :
              ImageCall(i, image, fs, w, reply) /\ Read(i, image) /\ Handled(fs, reply) /\ Grown(w, reply)
PROOF
  <1> DEFINE Goal == \E i \in Images : \E image, fs, w, reply :
                ImageCall(i, image, fs, w, reply) /\ Read(i, image) /\ Handled(fs, reply) /\ Grown(w, reply)
  <1>0. family = "image"
    BY Zenon DEF ImageSteps, Calls
  <1>1. ASSUME NEW reply, reply.to = "none"
        PROVE  Handled(files, reply)
    BY <1>1, Zenon DEF Handled, Kept
  <1>2. \A reply : Grown(writer, reply)
    BY Zenon DEF Grown
  <1>3. \A ok, why : Handled(files, Result(ok, why))
    <2>1. \A ok, why : Result(ok, why).to = "none"
      BY Zenon DEF Result, Reply
    <2> QED
      BY <1>1, <2>1, Zenon
  <1>4. ASSUME NEW i \in Images, NEW image, NEW ok, NEW why, Read(i, image),
               ImageCall(i, image, files, writer, Result(ok, why))
        PROVE  Goal
    BY <1>2, <1>3, <1>4, Zenon
  <1>5. ASSUME NEW i \in Images, ImageRaises(i)
        PROVE  Goal
    <2>1. Handled(files, Raised)
      <3>1. Raised.to = "none"
        BY Zenon DEF Raised, Reply
      <3> QED
        BY <1>1, <3>1, Zenon
    <2>2. Read(i, img[i])
      BY Zenon DEF Read
    <2> QED
      BY <1>2, <1>5, <2>1, <2>2, Zenon DEF ImageRaises
  <1>6. ASSUME NEW i \in Images, NEW why, ImageFails(i, why)
        PROVE  Goal
    BY <1>4, <1>6, Zenon DEF ImageFails, Read
  <1>7. ASSUME NEW i \in Images, NEW a, NEW p, NEW n, NEW ok, NEW engineOk, ImageNew(i, a, p, n, ok, engineOk)
        PROVE  Goal
    <2>1. \/ ImageFails(i, "args") \/ ImageFails(i, "engine")
          \/ ImageCall(i, NewImage, files, writer, Result(TRUE, "done"))
      BY <1>7, Zenon DEF ImageNew
    <2>2. Read(i, NewImage)
      BY <1>7, Zenon DEF ImageNew, Read
    <2> HIDE DEF Goal
    <2> QED
      BY <1>4, <1>6, <2>1, <2>2, Zenon
  <1>8. ASSUME NEW i \in Images, NEW ok, NEW code, NEW engineOk, ImageQuery(i, ok, code, engineOk)
        PROVE  Goal
    BY <1>4, <1>8, Zenon DEF ImageQuery, ExifOutcome, BadArgs, Read
  <1>9. ASSUME NEW i \in Images, NEW op, NEW ok, NEW code, ImageChange(i, op, ok, code)
        PROVE  Goal
    <2>1. Read(i, img[i])
      BY Zenon DEF Read
    <2>2. \E o, why : ImageCall(i, img[i], files, writer, Result(o, why))
      <3>1. \/ ImageCall(i, img[i], files, writer, BadArgs)
            \/ ImageCall(i, img[i], files, writer, Result(TRUE, "engine"))
            \/ ImageCall(i, img[i], files, writer, StatusToResult(code))
        BY <1>9, Zenon DEF ImageChange
      <3> QED
        BY <3>1, Zenon DEF BadArgs, StatusToResult
    <2> HIDE DEF Goal
    <2> QED
      BY <1>4, <2>1, <2>2, Zenon
  <1>10. ASSUME NEW i \in Images, NEW wrote, NEW engineOk, Stream(i, wrote, engineOk)
         PROVE  Goal
    <2> DEFINE w == IF wrote THEN Write(writer, ~gone) ELSE writer
    <2>1. ImageCall(i, img[i], files, w, Result(engineOk, "engine"))
      BY <1>10, Zenon DEF Stream
    <2>2. Grown(w, Result(engineOk, "engine"))
      <3>1. /\ Headed(Write(writer, ~gone)) /\ Write(writer, ~gone).committed
            /\ writer.committed => Write(writer, ~gone).heads = writer.heads
        BY WriteHeaded, Zenon
      <3>2. Result(engineOk, "engine").why # "args"
        BY Zenon DEF Result, Reply
      <3>3. Grown(Write(writer, ~gone), Result(engineOk, "engine"))
        BY <3>1, <3>2, Zenon DEF Grown
      <3> QED
        BY <1>2, <3>3, Zenon
    <2>3. Read(i, img[i])
      BY Zenon DEF Read
    <2> HIDE DEF w
    <2> QED
      BY <1>3, <2>1, <2>2, <2>3, Zenon
  <1>11. ASSUME NEW i \in Images, NEW dest \in Paths, NEW service, NEW wrote, NEW engineOk,
                service => Carries(MapExtension(Ext[dest], TRUE)),
                WriteFile(i, dest, service, wrote, engineOk)
         PROVE  Goal
    <2> DEFINE content == IF service THEN "service" ELSE "image"
               left == IF wrote /\ files[dest] # "dir" THEN "part" ELSE files[dest]
    <2>1. \/ ImageCall(i, img[i], [files EXCEPT ![dest] = content], writer, Result(TRUE, "done"))
          \/ ImageCall(i, img[i], [files EXCEPT ![dest] = left], writer, Result(FALSE, "engine"))
      BY <1>11, Zenon DEF WriteFile
    <2>2. /\ content \in FileStates /\ left \in FileStates
          /\ content = "service" => Carries(MapExtension(Ext[dest], TRUE))
          /\ left = "service" => Carries(MapExtension(Ext[dest], TRUE))
      BY <1>11, Zenon DEF FileStates, Kept, CarriesEssentials
    <2> HIDE DEF content, left
    <2>3. ASSUME NEW v \in FileStates, v = "service" => Carries(MapExtension(Ext[dest], TRUE))
          PROVE  [files EXCEPT ![dest] = v] \in [Paths -> FileStates] /\ CarriesEssentials([files EXCEPT ![dest] = v])
      <3> DEFINE fs == [files EXCEPT ![dest] = v]
      <3>1. fs \in [Paths -> FileStates] /\ \A p \in Paths : fs[p] = IF p = dest THEN v ELSE files[p]
        BY Zenon DEF Kept
      <3> HIDE DEF fs
      <3>2. CarriesEssentials(fs)
        BY <1>0, <2>3, <3>1, Zenon DEF CarriesEssentials, Kept
      <3> QED
        BY <3>1, <3>2, Zenon DEF fs
    <2>4. Handled([files EXCEPT ![dest] = content], Result(TRUE, "done"))
      <3>1. Result(TRUE, "done").ok = "ok" /\ Result(TRUE, "done").to = "none"
        BY Zenon DEF Result, Reply
      <3> QED
        BY <2>2, <2>3, <3>1, Zenon DEF Handled
    <2>5. Handled([files EXCEPT ![dest] = left], Result(FALSE, "engine"))
      <3>1. Result(FALSE, "engine").why = "engine" /\ Result(FALSE, "engine").to = "none"
        BY Zenon DEF Result, Reply
      <3> QED
        BY <2>2, <2>3, <3>1, Zenon DEF Handled
    <2>6. Read(i, img[i])
      BY Zenon DEF Read
    <2> QED
      BY <1>2, <2>1, <2>4, <2>5, <2>6, Zenon
  <1> HIDE DEF Goal
  <1>12. ASSUME NEW i \in Images, NEW dest \in Paths \cup {"http"}, NEW params, NEW wrote, NEW engineOk,
                ImageWrite(i, dest, params, wrote, engineOk)
         PROVE  Goal
    <2> DEFINE path == dest # "http"
               ftype == MapExtension(IF path THEN Ext[dest] ELSE "jpg", TRUE)
               bare == ~ ({"origname", "mimetype"} \subseteq params /\ Carries(ftype))
               refused == ftype = "none" \/ ("service" \in params /\ bare)
    <2>1. PICK outcome \in ParamsOutcome(params) :
             IF outcome = "fail" THEN ImageFails(i, "args")
             ELSE IF outcome = "raise" \/ refused THEN ImageRaises(i)
             ELSE IF path THEN WriteFile(i, dest, "service" \in params, wrote, engineOk)
             ELSE Stream(i, wrote, engineOk)
      BY <1>12, Zenon DEF ImageWrite
    <2>2. path /\ "service" \in params /\ ~ refused => Carries(MapExtension(Ext[dest], TRUE))
      BY Zenon
    <2>3. path => dest \in Paths
      BY Zenon
    <2> HIDE DEF path, refused
    <2> QED
      BY <1>5, <1>6, <1>10, <1>11, <2>1, <2>2, <2>3, Zenon
  <1>13. ASSUME NEW i \in Images, NEW ext, NEW wrote, NEW engineOk, ImageSend(i, ext, wrote, engineOk)
         PROVE  Goal
    BY <1>5, <1>10, <1>13, Zenon DEF ImageSend
  <1>14. PICK i \in Images, engineOk \in BOOLEAN :
       \/ \E a \in Args, p \in Paths, n \in 0..2, ok \in BOOLEAN : ImageNew(i, a, p, n, ok, engineOk)
       \/ \E code \in Codes, ok \in BOOLEAN :
            \/ ImageQuery(i, ok, code, engineOk)
            \/ \E op \in {"crop", "topleft"} : ImageChange(i, op, ok, code)
       \/ \E wrote \in BOOLEAN :
            \/ \E dest \in Paths \cup {"http"}, params \in SUBSET WriteParams :
                  ImageWrite(i, dest, params, wrote, engineOk)
            \/ \E ext \in {"tif", "jp2", "none"} : ImageSend(i, ext, wrote, engineOk)
    BY Zenon DEF ImageSteps
  <1>15. Goal
    BY <1>7, <1>8, <1>9, <1>12, <1>13, <1>14, Zenon
  <1> QED
    BY <1>15, Zenon DEF Goal

\* ~qry and the collector finalize a handle that is still live.
LEMMA Finalized ==
    ASSUME Owned, NEW s \in Stmts
    PROVE  /\ Finalize(s) \in StmtType /\ Finalize(s).held = stmt[s].held
           /\ StmtOwned(Finalize(s)) /\ StmtOwned([Finalize(s) EXCEPT !.held = FALSE])
           /\ [Finalize(s) EXCEPT !.held = FALSE] \in StmtType
           /\ ~ [Finalize(s) EXCEPT !.held = FALSE].held
PROOF
  <1> DEFINE f == IF stmt[s].native = "live" THEN stmt[s].frees + 1 ELSE stmt[s].frees
             v == [stmt[s] EXCEPT !.native = "null", !.frees = f]
  <1>1. stmt[s] \in StmtType /\ StmtOwned(stmt[s])
    BY Zenon DEF Owned
  <1>2. f \in 0..1
    <2>1. stmt[s].frees \in 0..1
      BY <1>1, Zenon DEF StmtType
    <2>2. stmt[s].native = "live" => stmt[s].frees = 0
      BY <1>1, Zenon DEF StmtOwned
    <2>3. \A x : x = 0 => x + 1 \in 0..1
      OBVIOUS
    <2> QED
      BY <2>1, <2>2, <2>3, Zenon
  <1>3. Finalize(s) = v
    BY Zenon DEF Finalize
  <1> HIDE DEF f
  <1>4. v \in StmtType /\ v.held = stmt[s].held /\ v.native = "null"
    BY <1>1, <1>2, Zenon DEF StmtType
  <1> HIDE DEF v
  <1>5. /\ [v EXCEPT !.held = FALSE] \in StmtType /\ ~ [v EXCEPT !.held = FALSE].held
        /\ [v EXCEPT !.held = FALSE].native = "null"
    BY <1>4, Zenon DEF StmtType
  <1> QED
    BY <1>3, <1>4, <1>5, Zenon DEF StmtOwned

\* The connection goes with its last owner, and only then.
LEMMA ReleasedWithTheLast ==
    ASSUME NEW d \in DbType, NEW ss, d.held \/ (\E s \in Stmts : ss[s].held) => d.native = "open"
    PROVE  LET r == Released(d, ss) IN
           /\ r \in DbType
           /\ r.native = "open" <=> r.held \/ \E s \in Stmts : ss[s].held
           /\ r.native = "none" <=> d.native = "none"
           /\ r.opened = d.opened /\ r.budget = d.budget /\ r.held = d.held
PROOF
  <1>1. CASE d.native = "open" /\ ~ d.held /\ \A s \in Stmts : ~ ss[s].held
    <2> DEFINE r == [d EXCEPT !.native = "closed"]
    <2>1. Released(d, ss) = r
      BY <1>1, Zenon DEF Released
    <2>2. r \in DbType /\ r.native = "closed" /\ r.opened = d.opened /\ r.budget = d.budget /\ r.held = d.held
      BY Zenon DEF DbType
    <2> HIDE DEF r
    <2> QED
      BY <1>1, <2>1, <2>2, Zenon
  <1>2. CASE ~ (d.native = "open" /\ ~ d.held /\ \A s \in Stmts : ~ ss[s].held)
    <2>1. Released(d, ss) = d
      BY <1>2, Zenon DEF Released
    <2>2. d.native = "open" <=> d.held \/ \E s \in Stmts : ss[s].held
      BY <1>2, Zenon
    <2> QED
      BY <2>1, <2>2, Zenon
  <1> QED
    BY <1>1, <1>2, Zenon

\* A statement changes hands.
LEMMA StmtChanges ==
    ASSUME Owned, ~ ended', UNCHANGED img, now' \in Nat, NEW s \in Stmts, NEW v \in StmtType, StmtOwned(v),
           stmt' = [stmt EXCEPT ![s] = v], db' \in DbType,
           db'.native = "open" <=> db'.held \/ \E r \in Stmts : stmt'[r].held
    PROVE  Owned'
PROOF
  <1>1. stmt' \in [Stmts -> StmtType] /\ \A r \in Stmts : StmtOwned(stmt'[r])
    BY Zenon DEF Owned
  <1>2. img' \in [Images -> ImageType] /\ \A i \in Images : ImageOwned(img'[i])
    BY Zenon DEF Owned
  <1> QED
    BY <1>1, <1>2, Zenon DEF Owned, StmtOwned, ImageOwned

\* The script opens, queries, steps and closes.
LEMMA DatabaseOwned ==
    ASSUME Owned, Database
    PROVE  Owned'
PROOF
  <1>0. /\ now \in Nat /\ db \in DbType /\ stmt \in [Stmts -> StmtType] /\ img \in [Images -> ImageType]
        /\ db.native = "open" <=> db.held \/ \E s \in Stmts : stmt[s].held
        /\ \A s \in Stmts : StmtOwned(stmt[s])
        /\ \A i \in Images : ImageOwned(img[i])
    BY Zenon DEF Owned
  <1>1. ~ ended /\ UNCHANGED <<img, ended>>
    BY Zenon DEF Database
  <1>2. \A wait \in 0..Timeout : now + wait \in Nat
    BY BindingsAssumption, <1>0
  <1>3. ASSUME NEW ok, SqliteNew(ok)
        PROVE  Owned'
    <2>1. UNCHANGED <<now, stmt>> /\ db.native = "none"
      BY <1>3, Zenon DEF SqliteNew
    <2>2. CASE ok
      <3> DEFINE yes == TRUE
                 no == FALSE
                 d == [held |-> yes, closed |-> no, native |-> "open", budget |-> Budget, opened |-> now]
      <3>1. db' = d
        BY <1>3, <2>2, Zenon DEF SqliteNew
      <3>2. Budget \in Nat
        BY BindingsAssumption, <1>0 DEF Budget, Late
      <3>3. yes \in BOOLEAN /\ no \in BOOLEAN /\ yes
        BY Zenon
      <3> HIDE DEF yes, no
      <3>4. d \in DbType /\ d.native = "open" /\ d.held
        BY <1>0, <3>2, <3>3, Zenon DEF DbType
      <3> HIDE DEF d
      <3>5. db' \in DbType /\ db'.native = "open" /\ db'.held
        BY <3>1, <3>4, Zenon
      <3> QED
        BY <1>0, <1>1, <2>1, <3>5, Zenon DEF Owned
    <2>3. CASE ~ ok
      BY <1>0, <1>1, <1>3, <2>1, <2>3, Zenon DEF SqliteNew, Owned
    <2> QED
      BY <2>2, <2>3, Zenon
  <1>4. ASSUME NEW s \in Stmts, NEW wait \in 0..Timeout, NEW native \in {"live", "null", "error"}, DbQuery(s, native, wait)
        PROVE  Owned'
    <2>1. now' \in Nat /\ db' = db /\ db.held
      BY <1>2, <1>4, Zenon DEF DbQuery
    <2>2. CASE native = "error"
      <3>1. stmt' = stmt
        BY <1>4, <2>2, Zenon DEF DbQuery
      <3> QED
        BY <1>0, <1>1, <2>1, <3>1, Zenon DEF Owned
    <2>3. CASE native # "error"
      <3>1. stmt' = [stmt EXCEPT ![s] = NewStmt(native)]
        BY <1>4, <2>3, Zenon DEF DbQuery
      <3>2. NewStmt(native) \in StmtType /\ StmtOwned(NewStmt(native))
        <4>1. 0 \in 0..1
          OBVIOUS
        <4>2. native \in {"none", "live", "null"} /\ native # "none" /\ "fresh" \in Cursors
          BY <2>3, Zenon DEF Cursors
        <4> DEFINE yes == TRUE
        <4>3. NewStmt(native) = [held |-> yes, native |-> native, cursor |-> "fresh", frees |-> 0]
          BY Zenon DEF NewStmt
        <4>4. yes \in BOOLEAN /\ yes
          BY Zenon
        <4> HIDE DEF yes
        <4> DEFINE v == [held |-> yes, native |-> native, cursor |-> "fresh", frees |-> 0]
        <4>5. v \in StmtType /\ v.held /\ v.native # "none" /\ v.frees = 0
          BY <4>1, <4>2, <4>4, Zenon DEF StmtType
        <4> HIDE DEF v
        <4>6. StmtOwned(v)
          BY <4>5, Zenon DEF StmtOwned
        <4> QED
          BY <4>3, <4>5, <4>6, Zenon DEF v
      <3>3. db'.native = "open" <=> db'.held \/ \E r \in Stmts : stmt'[r].held
        BY <1>0, <2>1, Zenon
      <3> QED
        BY <1>0, <1>1, <2>1, <3>1, <3>2, <3>3, StmtChanges, Zenon
    <2> QED
      BY <2>2, <2>3, Zenon
  <1>5. ASSUME NEW s \in Stmts, NEW wait \in 0..Timeout, NEW binds, NEW outcome \in {"row", "done", "error", "raised"},
               StmtNext(s, binds, wait, outcome)
        PROVE  Owned'
    <2>1. now' \in Nat /\ db' = db /\ stmt[s].held
      BY <1>2, <1>5, Zenon DEF StmtNext
    <2>2. PICK c \in Cursors : stmt' = [stmt EXCEPT ![s].cursor = c]
      <3> DEFINE refused == db.closed \/ stmt[s].native = "null"
                 c == IF refused THEN stmt[s].cursor ELSE IF outcome = "raised" THEN "fresh" ELSE outcome
      <3>1. stmt' = [stmt EXCEPT ![s].cursor = c]
        BY <1>5, Zenon DEF StmtNext
      <3>2. c \in Cursors
        BY <1>0, Zenon DEF StmtType, Cursors
      <3> HIDE DEF c
      <3> QED
        BY <3>1, <3>2, Zenon
    <2> DEFINE v == [stmt[s] EXCEPT !.cursor = c]
    <2>3. stmt' = [stmt EXCEPT ![s] = v]
      BY <2>2, Zenon
    <2>4. v \in StmtType /\ v.held = stmt[s].held /\ v.native = stmt[s].native /\ v.frees = stmt[s].frees
      BY <1>0, Zenon DEF StmtType
    <2> HIDE DEF v
    <2>5. StmtOwned(v)
      BY <1>0, <2>4, Zenon DEF StmtOwned
    <2>6. \A r \in Stmts : stmt'[r].held = stmt[r].held
      BY <1>0, <2>3, <2>4, Zenon
    <2>7. db'.native = "open" <=> db'.held \/ \E r \in Stmts : stmt'[r].held
      BY <1>0, <2>1, <2>6, Zenon
    <2> QED
      BY <1>0, <1>1, <2>1, <2>3, <2>4, <2>5, <2>7, StmtChanges, Zenon
  <1>6. CASE DbBnot
    <2> DEFINE yes == TRUE
               d == [db EXCEPT !.closed = yes]
    <2>1. db' = d /\ UNCHANGED <<now, stmt>>
      BY <1>6, Zenon DEF DbBnot
    <2>2. yes \in BOOLEAN
      BY Zenon
    <2> HIDE DEF yes
    <2>3. d \in DbType /\ d.native = db.native /\ d.held = db.held
      BY <1>0, <2>2, Zenon DEF DbType
    <2> HIDE DEF d
    <2>4. db' \in DbType /\ (db'.native = "open" <=> db'.held \/ \E s \in Stmts : stmt[s].held)
      BY <1>0, <2>1, <2>3, Zenon
    <2> QED
      BY <1>0, <1>1, <2>1, <2>4, Zenon DEF Owned
  <1>7. ASSUME NEW s \in Stmts, StmtBnot(s)
        PROVE  Owned'
    <2>1. stmt' = [stmt EXCEPT ![s] = Finalize(s)] /\ UNCHANGED <<now, db>>
      BY <1>7, Zenon DEF StmtBnot
    <2>2. Finalize(s) \in StmtType /\ Finalize(s).held = stmt[s].held /\ StmtOwned(Finalize(s))
      BY Finalized, Zenon
    <2>3. \A r \in Stmts : stmt'[r].held = stmt[r].held
      BY <1>0, <2>1, <2>2, Zenon
    <2>4. db'.native = "open" <=> db'.held \/ \E r \in Stmts : stmt'[r].held
      BY <1>0, <2>1, <2>3, Zenon
    <2> QED
      BY <1>0, <1>1, <2>1, <2>2, <2>4, StmtChanges, Zenon
  <1> QED
    BY <1>3, <1>4, <1>5, <1>6, <1>7, Zenon DEF Database

\* The collector and the end of the VM drop what there is, in any order.
LEMMA CollectOwned ==
    ASSUME Owned, Collect
    PROVE  Owned'
PROOF
  <1>0. /\ now \in Nat /\ db \in DbType /\ stmt \in [Stmts -> StmtType] /\ img \in [Images -> ImageType]
        /\ db.native = "open" <=> db.held \/ \E s \in Stmts : stmt[s].held
        /\ \A s \in Stmts : StmtOwned(stmt[s])
        /\ \A i \in Images : ImageOwned(img[i])
    BY Zenon DEF Owned
  <1>1. ASSUME NEW i \in Images, DropImage(i), UNCHANGED ended
        PROVE  Owned'
    <2> DEFINE no == FALSE
               f == img[i].frees + 1
               v == [held |-> no, native |-> "freed", frees |-> f]
    <2>1. /\ img' = [img EXCEPT ![i] = v] /\ UNCHANGED <<now, db, stmt>> /\ img[i].held
      BY <1>1, Zenon DEF DropImage, sqliteVars
    <2>2. f \in 0..1
      <3>1. img[i].frees = 0
        BY <1>0, <2>1, Zenon DEF ImageOwned
      <3>2. \A x : x = 0 => x + 1 \in 0..1
        OBVIOUS
      <3> QED
        BY <3>1, <3>2, Zenon
    <2>3. no \in BOOLEAN /\ ~ no
      BY Zenon
    <2> HIDE DEF f, no
    <2>4. v \in ImageType /\ ~ v.held /\ v.native = "freed"
      BY <2>2, <2>3, Zenon DEF ImageType
    <2> HIDE DEF v
    <2>5. ImageOwned(v)
      BY <2>4, Zenon DEF ImageOwned
    <2>6. img' \in [Images -> ImageType] /\ \A j \in Images : ImageOwned(img'[j])
      BY <1>0, <2>1, <2>4, <2>5, Zenon
    <2>7. ~ ended'
      BY <1>1, <2>1, Zenon DEF Owned
    <2>8. \A s \in Stmts : StmtOwned(stmt'[s])
      BY <1>0, <2>1, Zenon
    <2> QED
      BY <1>0, <2>1, <2>6, <2>7, <2>8, Zenon DEF Owned, StmtOwned, ImageOwned
  <1>2. ASSUME DropDb, UNCHANGED <<img, ended>>
        PROVE  Owned'
    <2> DEFINE no == FALSE
               d == [db EXCEPT !.held = no]
    <2>1. db' = Released(d, stmt) /\ UNCHANGED <<now, stmt>> /\ db.held
      BY <1>2, Zenon DEF DropDb
    <2>2. no \in BOOLEAN /\ ~ no
      BY Zenon
    <2> HIDE DEF no
    <2>3. d \in DbType /\ d.native = db.native /\ ~ d.held
      BY <1>0, <2>2, Zenon DEF DbType
    <2> HIDE DEF d
    <2>4. d.held \/ (\E s \in Stmts : stmt[s].held) => d.native = "open"
      BY <1>0, <2>3, Zenon
    <2>5. db' \in DbType /\ (db'.native = "open" <=> db'.held \/ \E s \in Stmts : stmt[s].held)
      BY <2>1, <2>3, <2>4, ReleasedWithTheLast, Zenon
    <2>6. ~ ended'
      BY <1>2, <2>1, Zenon DEF Owned, Gone
    <2> QED
      BY <1>0, <1>2, <2>1, <2>5, <2>6, Zenon DEF Owned
  <1>3. ASSUME NEW s \in Stmts, DropStmt(s), UNCHANGED <<img, ended>>
        PROVE  Owned'
    <2> DEFINE v == [Finalize(s) EXCEPT !.held = FALSE]
    <2>1. stmt' = [stmt EXCEPT ![s] = v] /\ db' = Released(db, stmt') /\ now' = now /\ stmt[s].held
      BY <1>3, Zenon DEF DropStmt
    <2>2. v \in StmtType /\ StmtOwned(v) /\ ~ v.held
      BY Finalized, Zenon
    <2> HIDE DEF v
    <2>3. \A r \in Stmts : stmt'[r].held => stmt[r].held
      BY <1>0, <2>1, <2>2, Zenon
    <2>4. db.held \/ (\E r \in Stmts : stmt'[r].held) => db.native = "open"
      BY <1>0, <2>3, Zenon
    <2>5. db' \in DbType /\ (db'.native = "open" <=> db'.held \/ \E r \in Stmts : stmt'[r].held)
      BY <1>0, <2>1, <2>4, ReleasedWithTheLast, Zenon
    <2>6. ~ ended'
      BY <1>3, <2>1, Zenon DEF Owned, Gone
    <2> QED
      BY <1>0, <1>3, <2>1, <2>2, <2>5, <2>6, StmtChanges, Zenon
  <1> QED
    BY <1>1, <1>2, <1>3, Zenon DEF Collect

\* The calls that wait never wait for more than is left of the deadline, or
\* than was left of it when the connection was opened.
LEMMA WaitsTimely ==
    ASSUME Owned, Timely, Database \/ HttpSteps \/ Tick \/ Collect
    PROVE  Timely' /\ now' \in Nat
PROOF
  <1>0. /\ now \in Nat /\ db.opened \in Nat /\ db.budget \in Nat /\ db \in DbType /\ Timeout \in Nat /\ Timeout > 0
        /\ db.native = "open" <=> db.held \/ \E s \in Stmts : stmt[s].held
    <2>1. Timeout \in Nat /\ Timeout > 0
      BY BindingsAssumption
    <2> QED
      BY <2>1, Zenon DEF Owned, DbType
  <1>1. /\ db.native = "none" => now <= Timeout
        /\ db.native # "none" => db.opened < Timeout /\ db.budget = Timeout - db.opened
        /\ now <= Timeout \/ (db.native # "none" /\ now + db.opened < 2 * Timeout)
    BY Zenon DEF Timely, WaitsEndInTime
  <1>2. ASSUME NEW wait \in 0..Timeout, now < Timeout, wait <= db.budget, db.native = "open"
        PROVE  now + wait \in Nat /\ now + wait + db.opened < 2 * Timeout
    BY <1>0, <1>1, <1>2
  <1>3. ASSUME now' = now, db'.native # "none", db.native # "none", db'.opened = db.opened, db'.budget = db.budget
        PROVE  Timely'
    BY <1>1, <1>3, Zenon DEF Timely, WaitsEndInTime
  <1>4. ASSUME now' <= Timeout, now' \in Nat, db' = db
        PROVE  Timely'
    BY <1>1, <1>4, Zenon DEF Timely, WaitsEndInTime
  <1>5. ASSUME NEW wait \in 0..Timeout, ~ Late, wait <= db.budget, db.native = "open", now' = now + wait, db' = db
        PROVE  Timely' /\ now' \in Nat
    <2>1. now < Timeout
      BY <1>0, <1>5 DEF Late
    <2>2. now' \in Nat /\ now' + db'.opened < 2 * Timeout
      BY <1>2, <1>5, <2>1, Zenon
    <2>3. db'.native # "none" /\ db'.opened < Timeout /\ db'.budget = Timeout - db'.opened
      BY <1>1, <1>5, Zenon
    <2> QED
      BY <2>2, <2>3, Zenon DEF Timely, WaitsEndInTime
  <1>6. CASE Database
    <2>1. ASSUME NEW ok, SqliteNew(ok)
          PROVE  Timely' /\ now' \in Nat
      <3>1. now' = now /\ ~ Late /\ db.native = "none"
        BY <2>1, Zenon DEF SqliteNew
      <3>2. CASE ok
        <4> DEFINE yes == TRUE
                   no == FALSE
                   d == [held |-> yes, closed |-> no, native |-> "open", budget |-> Budget, opened |-> now]
        <4>1. db' = d
          BY <2>1, <3>2, Zenon DEF SqliteNew
        <4> HIDE DEF yes, no
        <4>2. d.native = "open" /\ d.budget = Budget /\ d.opened = now
          BY Zenon
        <4> HIDE DEF d
        <4>3. now < Timeout /\ Budget = Timeout - now /\ now' <= Timeout
          BY <1>0, <3>1 DEF Late, Budget
        <4> QED
          BY <1>0, <3>1, <4>1, <4>2, <4>3, Zenon DEF Timely, WaitsEndInTime
      <3>3. CASE ~ ok
        <4>1. db' = db
          BY <2>1, <3>3, Zenon DEF SqliteNew
        <4> QED
          BY <1>0, <1>1, <1>4, <3>1, <4>1, Zenon
      <3> QED
        BY <3>2, <3>3, Zenon
    <2>2. ASSUME NEW s, NEW native, NEW wait \in 0..Timeout, DbQuery(s, native, wait)
          PROVE  Timely' /\ now' \in Nat
      BY <1>0, <1>5, <2>2, Zenon DEF DbQuery
    <2>3. ASSUME NEW s \in Stmts, NEW binds, NEW wait \in 0..Timeout, NEW outcome, StmtNext(s, binds, wait, outcome)
          PROVE  Timely' /\ now' \in Nat
      <3>1. ~ Late /\ wait <= db.budget /\ stmt[s].held /\ now' = now + wait /\ db' = db
        BY <2>3, Zenon DEF StmtNext
      <3> QED
        BY <1>0, <1>5, <3>1, Zenon
    <2>4. CASE DbBnot
      <3> DEFINE yes == TRUE
                 d == [db EXCEPT !.closed = yes]
      <3>1. db' = d /\ now' = now /\ db.native = "open"
        BY <1>0, <2>4, Zenon DEF DbBnot
      <3> HIDE DEF yes
      <3>2. d.native = db.native /\ d.opened = db.opened /\ d.budget = db.budget
        BY <1>0, Zenon DEF DbType
      <3> HIDE DEF d
      <3> QED
        BY <1>0, <1>3, <3>1, <3>2, Zenon
    <2>5. ASSUME NEW s, StmtBnot(s)
          PROVE  Timely' /\ now' \in Nat
      BY <1>0, <1>1, <2>5, Zenon DEF StmtBnot, Timely, WaitsEndInTime
    <2> QED
      BY <1>6, <2>1, <2>2, <2>3, <2>4, <2>5, Zenon DEF Database
  <1>7. CASE Tick
    <2>1. now' \in {now + 1, Timeout} /\ now < Timeout /\ db' = db
      BY <1>7, Zenon DEF Tick
    <2>2. now' \in Nat /\ now' <= Timeout
      BY <1>0, <2>1
    <2> QED
      BY <1>4, <2>1, <2>2, Zenon
  <1>8. CASE HttpSteps
    <2>1. ~ Late
      BY <1>8, Zenon DEF HttpSteps, Calls
    <2>2. \A t : (HttpBudget(t) = t /\ t < Budget) \/ HttpBudget(t) = Budget
      BY Zenon DEF HttpBudget
    <2>3. PICK took \in 0..Timeout : \E a, get, asked, answered, withinCap :
                asked \in Int /\ HttpClient(a, get, asked, took, answered, withinCap)
      BY BindingsAssumption, <1>8, Zenon DEF HttpSteps
    <2>4. PICK a, get, asked, answered, withinCap : asked \in Int /\ HttpClient(a, get, asked, took, answered, withinCap)
      BY <2>3, Zenon
    <2>5. PICK t \in Int : took <= 0 \/ took <= HttpBudget(t)
      <3> DEFINE wanted == IF \E i \in 3..Len(a) : a[i] = "int"
                           THEN (IF asked < 0 THEN 0 ELSE asked) ELSE HttpDefault
      <3>1. wanted \in Int
        <4>1. 0 \in Int /\ HttpDefault \in Int
          BY BindingsAssumption
        <4> QED
          BY <2>4, <4>1, Zenon
      <3>2. took <= (IF Len(a) >= 2 /\ get THEN HttpBudget(wanted) ELSE 0)
        BY <2>4, Zenon DEF HttpClient
      <3> HIDE DEF wanted
      <3> QED
        BY <3>1, <3>2, Zenon
    <2>6. now' = now + took /\ db' = db
      BY <2>4, Zenon DEF HttpClient
    <2>7. now < Timeout /\ Budget = Timeout - now
      BY <1>0, <2>1 DEF Late, Budget
    <2>8. took <= 0 \/ (took <= t /\ t < Timeout - now) \/ took <= Timeout - now
      BY <2>2, <2>5, <2>7, Zenon
    <2>9. now' \in Nat /\ now' <= Timeout
      BY <1>0, <2>6, <2>7, <2>8
    <2> QED
      BY <1>4, <2>6, <2>9, Zenon
  <1>9. CASE Collect
    <2>1. CASE \E i \in Images : DropImage(i)
      <3>1. now' = now /\ db' = db
        BY <2>1, Zenon DEF DropImage, sqliteVars
      <3> QED
        BY <1>0, <1>1, <3>1, Zenon DEF Timely, WaitsEndInTime
    <2>2. ASSUME NEW d \in DbType, NEW ss, d.held \/ (\E s \in Stmts : ss[s].held) => d.native = "open",
                 d.native = "open", d.opened = db.opened, d.budget = db.budget, db.native = "open",
                 db' = Released(d, ss), now' = now
          PROVE  Timely' /\ now' \in Nat
      <3>1. db'.native # "none" /\ db'.opened = db.opened /\ db'.budget = db.budget
        BY <2>2, ReleasedWithTheLast, Zenon
      <3> QED
        BY <1>0, <1>3, <2>2, <3>1, Zenon
    <2>3. CASE DropDb
      <3> DEFINE no == FALSE
                 d == [db EXCEPT !.held = no]
      <3>1. db' = Released(d, stmt) /\ now' = now /\ db.native = "open"
        BY <1>0, <2>3, Zenon DEF DropDb
      <3>2. no \in BOOLEAN
        BY Zenon
      <3> HIDE DEF no
      <3>3. d \in DbType /\ d.native = db.native /\ d.opened = db.opened /\ d.budget = db.budget
        BY <1>0, <3>2, Zenon DEF DbType
      <3> HIDE DEF d
      <3> QED
        BY <2>2, <3>1, <3>3, Zenon
    <2>4. CASE \E s \in Stmts : DropStmt(s)
      <3>1. db' = Released(db, stmt') /\ now' = now /\ db.native = "open"
        BY <1>0, <2>4, Zenon DEF DropStmt
      <3> QED
        BY <1>0, <2>2, <3>1, Zenon
    <2> QED
      BY <1>9, <2>1, <2>3, <2>4, Zenon DEF Collect
  <1> QED
    BY <1>6, <1>7, <1>8, <1>9, Zenon

\* What follows for the files of a call that was handled so.
LEMMA HandledKeeps ==
    ASSUME Handled(files', last'), UNCHANGED family, ~ ended'
    PROVE  Kept' /\ FilesStep
PROOF
  <1>1. Kept'
    BY Zenon DEF Handled, Kept, CarriesEssentials
  <1>2. FilesStep
    BY Zenon DEF Handled, CarriesEssentials, FilesStep
  <1> QED
    BY <1>1, <1>2, Zenon

LEMMA AnsweredKeeps ==
    ASSUME Kept, UNCHANGED <<files, family>>, ~ ended', last'.to = "none"
    PROVE  Kept' /\ FilesStep
PROOF
  <1>1. Handled(files', last')
    BY Zenon DEF Handled, Kept, CarriesEssentials
  <1> QED
    BY <1>1, HandledKeeps, Zenon

LEMMA QuietKeeps ==
    ASSUME Kept, UNCHANGED <<files, family, last, ended>>
    PROVE  Kept' /\ FilesStep
PROOF
  <1>1. Kept'
    BY Zenon DEF Kept, CarriesEssentials
  <1>2. FilesStep
    BY Zenon DEF Kept, CarriesEssentials, FilesStep
  <1> QED
    BY <1>1, <1>2, Zenon

\* The end of the request removes the uploads and nothing else.
LEMMA EndKeeps ==
    ASSUME Kept, EndVm
    PROVE  Kept' /\ FilesStep
PROOF
  <1> DEFINE up(p) == \E i \in 1..Len(Uploads) : Uploads[i] = p
  <1>1. \A p \in Paths : files'[p] = IF up(p) /\ IsFile(files[p]) THEN "absent" ELSE files[p]
    BY Zenon DEF EndVm, DropUploads
  <1>2. files' = [p \in Paths |-> files'[p]]
    BY Zenon DEF EndVm, DropUploads
  <1>3. last'.to = "none" /\ last'.ok = "none" /\ UNCHANGED family
    BY Zenon DEF EndVm, NoReply, Reply
  <1>4. \A i \in 1..Len(Uploads) : Uploads[i] \in Paths
    BY BindingsAssumption, Zenon
  <1>5. ~ IsFile("absent") /\ "absent" \in FileStates
    BY Zenon DEF IsFile, FileStates
  <1>6. files' \in [Paths -> FileStates]
    <2>1. \A p \in Paths : files'[p] \in FileStates
      BY <1>1, <1>5, Zenon DEF Kept
    <2> QED
      BY <1>2, <2>1, Zenon
  <1>7. CarriesEssentials(files')
    BY <1>1, Zenon DEF Kept, CarriesEssentials
  <1>8. \A p \in Paths : IF up(p) THEN ~ IsFile(files'[p]) ELSE files'[p] = files[p]
    BY <1>1, <1>5, Zenon
  <1>9. \A i \in 1..Len(Uploads) : ~ IsFile(files'[Uploads[i]])
    BY <1>4, <1>8, Zenon
  <1>10. Kept'
    BY <1>3, <1>6, <1>7, <1>9, Zenon DEF Kept, CarriesEssentials
  <1>11. FilesStep
    BY <1>3, <1>7, <1>8, Zenon DEF FilesStep, CarriesEssentials
  <1> QED
    BY <1>10, <1>11, Zenon

\* What follows for the response of a call that made that of it.
LEMMA GrownKeeps ==
    ASSUME Headed(writer), Grown(writer', last')
    PROVE  Headed(writer)' /\ ResponseStep
PROOF
  <1>1. Headed(writer')
    BY Zenon DEF Grown
  <1>2. /\ writer'.heads # <<>> <=> writer'.committed
        /\ Len(writer'.heads) <= 1
        /\ \A i \in 1..Len(writer'.cookies) : writer'.cookies[i] # "plain"
        /\ writer'.body > 0 => writer'.committed
    BY <1>1, CommittedIsHeaded, Zenon
  <1>3. writer.heads # <<>> <=> writer.committed
    BY CommittedIsHeaded, Zenon
  <1>4. /\ writer.committed => writer'.heads = writer.heads
        /\ last'.ok # "ok" /\ last'.why = "args" => writer' = writer
    BY Zenon DEF Grown
  <1>5. ResponseStep
    BY <1>2, <1>3, <1>4, Zenon DEF ResponseStep
  <1> QED
    BY <1>1, <1>5, Zenon DEF Headed

LEMMA SilentKeeps ==
    ASSUME Headed(writer), UNCHANGED writer
    PROVE  Headed(writer)' /\ ResponseStep
PROOF
  <1>1. Grown(writer', last')
    BY Zenon DEF Grown
  <1> QED
    BY <1>1, GrownKeeps, Zenon

LEMMA QuietOwned ==
    ASSUME Owned, Timely, UNCHANGED <<now, db, stmt, img, ended>>
    PROVE  Owned' /\ Timely'
PROOF
  <1>1. Owned'
    BY Zenon DEF Owned, StmtOwned, ImageOwned, Gone
  <1>2. Timely'
    BY Zenon DEF Timely, WaitsEndInTime
  <1> QED
    BY <1>1, <1>2, Zenon

LEMMA ImagesOwned ==
    ASSUME Owned, Timely, NEW i \in Images, NEW image, Read(i, image), img' = [img EXCEPT ![i] = image],
           UNCHANGED <<now, db, stmt, ended>>, ~ ended
    PROVE  Owned' /\ Timely'
PROOF
  <1>1. image \in ImageType /\ ImageOwned(image)
    <2>1. CASE image = img[i]
      BY <2>1, Zenon DEF Owned
    <2>2. CASE image = NewImage
      <3> DEFINE yes == TRUE
                 v == [held |-> yes, native |-> "live", frees |-> 0]
      <3>1. image = v
        BY <2>2, Zenon DEF NewImage
      <3>2. yes \in BOOLEAN /\ yes
        BY Zenon
      <3>3. 0 \in 0..1
        OBVIOUS
      <3> HIDE DEF yes
      <3>4. v \in ImageType /\ v.held /\ v.native = "live" /\ v.frees = 0
        BY <3>2, <3>3, Zenon DEF ImageType
      <3> HIDE DEF v
      <3> QED
        BY <3>1, <3>4, Zenon DEF ImageOwned
    <2> QED
      BY <2>1, <2>2, Zenon DEF Read
  <1>2. img' \in [Images -> ImageType] /\ \A j \in Images : ImageOwned(img'[j])
    BY <1>1, Zenon DEF Owned
  <1>3. Owned'
    BY <1>2, Zenon DEF Owned, StmtOwned, ImageOwned
  <1>4. Timely'
    BY Zenon DEF Timely, WaitsEndInTime
  <1> QED
    BY <1>3, <1>4, Zenon

\* The inductive invariant of a VM.
Inv == Owned /\ Timely /\ Kept /\ Headed(writer)

LEMMA VmInit ==
    ASSUME Init
    PROVE  Inv
PROOF
  <1>1. /\ now = 0 /\ db = NoDb /\ stmt = [s \in Stmts |-> NoStmt] /\ img = [i \in Images |-> NoImage]
        /\ files = [p \in Paths |-> IF \E i \in 1..Len(Uploads) : Uploads[i] = p THEN "b" ELSE "a"]
        /\ writer = NewWriter /\ last = NoReply /\ ended = FALSE
    BY Zenon DEF Init, SqliteInit
  <1>2. 0 \in Nat /\ 0 \in 0..1 /\ 0 <= Timeout
    BY BindingsAssumption
  <1>3. /\ NoDb \in DbType /\ ~ NoDb.held /\ NoDb.native = "none"
    BY <1>2, Zenon DEF NoDb, DbType
  <1>4. /\ NoStmt \in StmtType /\ StmtOwned(NoStmt) /\ ~ NoStmt.held
    BY <1>2, Zenon DEF NoStmt, StmtType, StmtOwned, Cursors
  <1>5. NoImage \in ImageType /\ ImageOwned(NoImage)
    BY <1>2, Zenon DEF NoImage, ImageType, ImageOwned
  <1>6. Owned
    BY <1>1, <1>2, <1>3, <1>4, <1>5, Zenon DEF Owned
  <1>7. Timely
    BY <1>1, <1>2, <1>3, Zenon DEF Timely, WaitsEndInTime
  <1>8. Kept
    <2>1. \A p \in Paths : files[p] \in FileStates /\ files[p] # "service"
      BY <1>1, Zenon DEF FileStates
    <2>2. last.to = "none"
      BY <1>1, Zenon DEF NoReply, Reply
    <2>3. files \in [Paths -> FileStates]
      BY <1>1, <2>1, Zenon
    <2> QED
      BY <1>1, <2>1, <2>2, <2>3, Zenon DEF Kept, CarriesEssentials
  <1>9. Headed(writer)
    <2>1. NewWriter = [f \in WriterFields |-> NewWriter[f]]
      BY Zenon DEF NewWriter, WriterFields
    <2>2. /\ ~ NewWriter.committed /\ NewWriter.heads = <<>> /\ NewWriter.body = 0
          /\ NewWriter.cookies = <<>>
      BY Zenon DEF NewWriter
    <2>3. <<>> \in Seq({"secure", "secure httponly"})
      OBVIOUS
    <2> QED
      BY <1>1, <2>1, <2>2, <2>3, Zenon DEF Headed
  <1> QED
    BY <1>6, <1>7, <1>8, <1>9, Zenon DEF Inv

\* Every step keeps it, and does to the files and the response what it reports.
LEMMA VmStep ==
    ASSUME Inv, [Next]_vars
    PROVE  Inv' /\ FilesStep /\ ResponseStep
PROOF
  <1> USE DEF Inv
  <1> DEFINE Goal == Inv' /\ FilesStep /\ ResponseStep
  <1>1. CASE FileSteps
    <2>1. /\ Handled(files', last')
          /\ UNCHANGED <<now, db, stmt, family, writer, gone, img, sample, ended>>
      BY <1>1, FilesHandled, Zenon
    <2>2. ~ ended'
      BY <1>1, <2>1, Zenon DEF FileSteps, Calls
    <2>3. Kept' /\ FilesStep
      BY <2>1, <2>2, HandledKeeps, Zenon
    <2>4. Owned' /\ Timely'
      BY <2>1, QuietOwned, Zenon
    <2>5. Headed(writer)' /\ ResponseStep
      BY <2>1, SilentKeeps, Zenon
    <2> QED
      BY <2>3, <2>4, <2>5, Zenon
  <1>2. CASE ResponseSteps
    <2>1. PICK w, reply : ResponseCall(w, reply) /\ Grown(w, reply)
      BY <1>2, ResponseEffect, Zenon
    <2>2. /\ Grown(writer', last')
          /\ UNCHANGED <<now, db, stmt, family, files, gone, img, sample, ended>>
      BY <2>1, Zenon DEF ResponseCall, sqliteVars
    <2>3. ~ ended'
      BY <1>2, <2>2, Zenon DEF ResponseSteps, Calls
    <2>4. last'.to = "none"
      BY <1>2, ResponseAnswers, Zenon
    <2>5. Kept' /\ FilesStep
      BY <2>2, <2>3, <2>4, AnsweredKeeps, Zenon
    <2>6. Owned' /\ Timely'
      BY <2>2, QuietOwned, Zenon
    <2>7. Headed(writer)' /\ ResponseStep
      BY <2>2, GrownKeeps, Zenon
    <2> QED
      BY <2>5, <2>6, <2>7, Zenon
  <1>3. CASE ImageSteps
    <2>1. PICK i \in Images : \E image, fs, w, reply :
             ImageCall(i, image, fs, w, reply) /\ Read(i, image) /\ Handled(fs, reply) /\ Grown(w, reply)
      BY <1>3, ImageEffect, Zenon
    <2>2. PICK image, fs, w, reply :
             ImageCall(i, image, fs, w, reply) /\ Read(i, image) /\ Handled(fs, reply) /\ Grown(w, reply)
      BY <2>1, Zenon
    <2>3. /\ Handled(files', last') /\ Grown(writer', last') /\ img' = [img EXCEPT ![i] = image]
          /\ UNCHANGED <<now, db, stmt, family, gone, sample, ended>>
      BY <2>2, Zenon DEF ImageCall, sqliteVars
    <2>4. ~ ended /\ ~ ended'
      BY <1>3, <2>3, Zenon DEF ImageSteps, Calls
    <2>5. Kept' /\ FilesStep
      BY <2>3, <2>4, HandledKeeps, Zenon
    <2>6. Owned' /\ Timely'
      BY <2>2, <2>3, <2>4, ImagesOwned, Zenon
    <2>7. Headed(writer)' /\ ResponseStep
      BY <2>3, GrownKeeps, Zenon
    <2> QED
      BY <2>5, <2>6, <2>7, Zenon
  <1>4. ASSUME UNCHANGED <<files, family, last, ended, writer>>
        PROVE  Kept' /\ Headed(writer)' /\ FilesStep /\ ResponseStep
    BY <1>4, QuietKeeps, SilentKeeps, Zenon
  <1>5. CASE Database
    <2>1. UNCHANGED <<files, family, last, ended, writer>>
      BY <1>5, Zenon DEF Database
    <2> QED
      BY <1>4, <1>5, <2>1, DatabaseOwned, WaitsTimely, Zenon
  <1>6. CASE HttpSteps
    <2>1. \E ok, why : last' = Result(ok, why)
      BY <1>6, Zenon DEF HttpSteps, HttpClient, BadArgs
    <2>2. UNCHANGED <<db, stmt, img, files, family, ended, writer>> /\ ~ ended
      BY <1>6, Zenon DEF HttpSteps, HttpClient, Calls
    <2>3. last'.to = "none"
      <3>1. \A ok, why : Result(ok, why).to = "none"
        BY Zenon DEF Result, Reply
      <3> QED
        BY <2>1, <3>1, Zenon
    <2>4. Kept' /\ FilesStep /\ Headed(writer)' /\ ResponseStep
      BY <2>2, <2>3, AnsweredKeeps, SilentKeeps, Zenon
    <2>5. Timely' /\ now' \in Nat
      BY <1>6, WaitsTimely, Zenon
    <2>6. Owned'
      BY <2>2, <2>5, Zenon DEF Owned, StmtOwned, ImageOwned
    <2> QED
      BY <2>4, <2>5, <2>6, Zenon
  <1>7. CASE ValueSteps \/ Chokepoint
    <2>1. UNCHANGED <<now, db, stmt, img, files, family, ended, writer>>
      <3>1. CASE ValueSteps
        BY <3>1, Zenon DEF ValueSteps, Answer, Log, sqliteVars
      <3>2. CASE Chokepoint
        BY <3>2, Zenon DEF Chokepoint, sqliteVars
      <3> QED
        BY <1>7, <3>1, <3>2, Zenon
    <2>2. ~ ended
      BY <1>7, Zenon DEF ValueSteps, Calls, Chokepoint
    <2>3. last'.to = "none"
      <3>1. \A ok, why : Result(ok, why).to = "none" /\ Raised.to = "none"
        BY Zenon DEF Result, Reply, Raised
      <3>2. (\E ok, why : last' = Result(ok, why)) \/ last' = Raised
        <4>1. CASE ValueSteps
          BY <4>1, Zenon DEF ValueSteps, Answer, Log
        <4>2. CASE Chokepoint
          BY <4>2, Zenon DEF Chokepoint
        <4> QED
          BY <1>7, <4>1, <4>2, Zenon
      <3> QED
        BY <3>1, <3>2, Zenon
    <2>4. Kept' /\ FilesStep /\ Headed(writer)' /\ ResponseStep
      BY <2>1, <2>2, <2>3, AnsweredKeeps, SilentKeeps, Zenon
    <2> QED
      BY <2>1, <2>4, QuietOwned, Zenon
  <1>8. CASE ClientLeaves
    <2>1. UNCHANGED <<now, db, stmt, img, files, family, last, ended, writer>>
      BY <1>8, Zenon DEF ClientLeaves, sqliteVars
    <2> QED
      BY <1>4, <2>1, QuietOwned, Zenon
  <1>9. CASE Tick
    <2>1. UNCHANGED <<db, stmt, img, files, family, last, ended, writer>>
      BY <1>9, Zenon DEF Tick
    <2>2. Timely' /\ now' \in Nat
      BY <1>9, WaitsTimely, Zenon
    <2>3. Owned'
      BY <2>1, <2>2, Zenon DEF Owned, StmtOwned, ImageOwned, Gone
    <2> QED
      BY <1>4, <2>1, <2>2, <2>3, Zenon
  <1>10. CASE Collect
    <2>1. UNCHANGED <<files, family, last, ended, writer>>
      BY <1>10, Zenon DEF Collect, DropImage
    <2> QED
      BY <1>4, <1>10, <2>1, CollectOwned, WaitsTimely, Zenon
  <1>11. CASE EndVm
    <2>1. UNCHANGED <<now, db, stmt, img, family, writer>> /\ Gone /\ \A i \in Images : ~ img[i].held
      BY <1>11, Zenon DEF EndVm, sqliteVars
    <2>2. Owned'
      BY <2>1, Zenon DEF Owned, StmtOwned, ImageOwned, Gone
    <2>3. Timely'
      BY <2>1, Zenon DEF Timely, WaitsEndInTime
    <2> QED
      BY <1>11, <2>1, <2>2, <2>3, EndKeeps, SilentKeeps, Zenon
  <1>12. CASE UNCHANGED vars
    <2>1. UNCHANGED <<now, db, stmt, img, files, family, last, ended, writer>>
      BY <1>12, Zenon DEF vars, sqliteVars
    <2> QED
      BY <1>4, <2>1, QuietOwned, Zenon
  <1> QED
    BY <1>1, <1>2, <1>3, <1>5, <1>6, <1>7, <1>8, <1>9, <1>10, <1>11, <1>12, Zenon DEF Next, Done

\* The inductive invariant holds in every state of a VM, whatever its script calls
\* and whatever the collector drops.
THEOREM Invariance ==
    Spec => []Inv
PROOF
  <1>1. Init => Inv
    BY VmInit, Zenon
  <1>2. Inv /\ [Next]_vars => Inv'
    BY VmStep, Zenon
  <1> QED
    BY <1>1, <1>2, PTL DEF Spec

\* Whatever order the collector and the script give up connections, statements
\* and images in, each native handle is released once, after its last user,
\* and none outlives the VM.
THEOREM HandlesAreReleasedOnce ==
    Spec => []HandlesReleasedOnce
PROOF
  <1>1. Inv => HandlesReleasedOnce
    <2> SUFFICES ASSUME Inv PROVE HandlesReleasedOnce
      BY Zenon
    <2>1. /\ db \in DbType /\ stmt \in [Stmts -> StmtType] /\ img \in [Images -> ImageType]
          /\ db.native = "open" <=> db.held \/ \E s \in Stmts : stmt[s].held
          /\ \A s \in Stmts : StmtOwned(stmt[s])
          /\ \A i \in Images : ImageOwned(img[i])
          /\ files \in [Paths -> FileStates]
      BY Zenon DEF Inv, Owned, Kept
    <2>2. TypeOK
      BY <2>1, Zenon DEF TypeOK, DbType, StmtType, ImageType, Cursors
    <2>3. \A s \in Stmts : stmt[s].native = "live" => stmt[s].frees = 0 /\ db.native = "open"
      BY <2>1, Zenon DEF StmtOwned
    <2>4. \A i \in Images : img[i].held = (img[i].native = "live")
      <3>1. \A i \in Images : img[i].held \in BOOLEAN
        BY <2>1, Zenon DEF ImageType
      <3> QED
        BY <2>1, <3>1, Zenon DEF ImageOwned
    <2>5. ended => db.native # "open" /\ \A s \in Stmts : stmt[s].native # "live"
      BY <2>1, Zenon DEF Inv, Owned, Gone, StmtOwned
    <2> QED
      BY <2>1, <2>2, <2>3, <2>4, <2>5, Zenon DEF HandlesReleasedOnce
  <1> QED
    BY <1>1, Invariance, PTL

\* No call of a script ends after the deadline, but for the wait for a database
\* lock, which ends less than a whole deadline later.
THEOREM WaitsAreBounded ==
    Spec => []WaitsEndInTime
PROOF
  <1>1. Inv => WaitsEndInTime
    BY Zenon DEF Inv, Timely
  <1> QED
    BY <1>1, Invariance, PTL

\* A file function that fails before it writes leaves the files alone, a copy
\* that succeeds has copied, Essentials are only where a format carries them,
\* and the end of the request removes its uploads and nothing else.
THEOREM FilesAreAsReported ==
    Spec => FilesAsReported
PROOF
  <1>1. Inv /\ [Next]_vars => [FilesStep]_vars
    BY VmStep, Zenon
  <1> QED
    BY <1>1, Invariance, PTL DEF Spec, FilesAsReported

\* The head goes out once and stays what it was, whether a script prints or the
\* engine streams; a refused call leaves the response alone; every cookie is
\* secure.
THEOREM ResponseIsAsReported ==
    Spec => ResponseAsReported
PROOF
  <1>1. Inv /\ [Next]_vars => [ResponseStep]_vars
    BY VmStep, Zenon
  <1> QED
    BY <1>1, Invariance, PTL DEF Spec, ResponseAsReported

=============================================================================
