-------------------------- MODULE BodyStreamProofs --------------------------
(***************************************************************************)
(* Proofs about one streamed response, for every producer, every length of *)
(* the body, every capacity of the channel and every deadline: a client    *)
(* that reads to the end of a body that ended well has all of it, and the  *)
(* failure of a Lua route whose head is out reaches the client.  Neither   *)
(* is inductive: what the client will have is what it has and what is in   *)
(* the channel, and the abort marker is the last item of the channel.      *)
(***************************************************************************)
EXTENDS BodyStream, SequenceTheorems, TLAPS

Results  == {"none", "ok", "failed", "killed", "notfound"}
Outcomes == {"none", "head", "ok", "error"}
Clients  == {"waiting", "streaming", "answered", "refused", "clean", "reset", "left"}
PCs      == {"setup", "run", "send", "abort", "done"}

Types ==
    /\ mode \in Modes /\ pc \in PCs
    /\ size \in 0..MaxChunks /\ made \in 0..size
    /\ built \in BOOLEAN /\ strict \in BOOLEAN /\ gaveUp \in BOOLEAN
    /\ lost \subseteq 1..made
    /\ result \in Results /\ outcome \in Outcomes /\ client \in Clients
    /\ channel \in Seq(0..MaxChunks) /\ Len(channel) <= Cap
    /\ received \in Seq(1..MaxChunks)
    /\ clock \in Nat /\ killBy \in Nat /\ abortBy \in Nat

\* Who is where: results and answers belong to a thread that is through.
Phases ==
    /\ result = "none" <=> pc \in {"setup", "run", "send"}
    /\ pc = "setup" => made = 0
    /\ pc = "send" => made > 0
    /\ result = "ok" => made = size
    /\ outcome \in {"ok", "error"} => pc = "done"
    /\ client \in {"answered", "refused", "clean", "reset"} => pc = "done"
    /\ client \in {"streaming", "clean", "reset"} => outcome = "head"
    /\ pc = "abort" => Scripted /\ built /\ outcome = "head" /\ result \in {"killed", "failed"}

\* The clock stops at the deadline that is ahead.
Deadlines ==
    /\ pc = "setup" => clock <= MaxSetup
    /\ Scripted /\ pc \in {"run", "send"} => clock <= killBy
    /\ pc = "abort" => clock <= abortBy
    /\ killBy <= MaxSetup + Timeout
    /\ clock <= MaxSetup + Timeout + AbortBudget
    /\ abortBy <= MaxSetup + Timeout + AbortBudget

\* The chunks whose send is over.
Sent == IF pc = "send" THEN made - 1 ELSE made

Aborted == channel # <<>> /\ channel[Len(channel)] = Abort

\* The marker is the last item; nothing is sent twice.
Queued ==
    /\ \A i \in 1..Len(channel) :
          channel[i] = Abort => i = Len(channel) /\ pc = "done" /\ result \in {"killed", "failed"}
    /\ Len(received) + Len(channel) <= Sent + (IF Aborted THEN 1 ELSE 0)

\* What the client has and what is on its way are the chunks sent, in order.
InOrder ==
    /\ Listening /\ lost = {} /\ result \in {"none", "ok"} =>
          /\ Len(received) + Len(channel) = Sent
          /\ \A i \in 1..Len(received) : received[i] = i
          /\ \A i \in 1..Len(channel) : channel[i] = Len(received) + i
    /\ client = "clean" /\ result = "ok" /\ lost = {} =>
          Len(received) = size /\ \A i \in 1..Len(received) : received[i] = i

\* A failed route leaves the marker for a client that may still read.
Marked ==
    /\ Scripted /\ pc = "done" /\ Listening /\ outcome = "head" /\ built
       /\ result \in {"killed", "failed"} => gaveUp \/ Aborted
    /\ AbortReachesClient

IInv == Types /\ Phases /\ Deadlines /\ Queued /\ InOrder /\ Marked

LEMMA InitInv == Init => IInv
PROOF
  <1> SUFFICES ASSUME Init PROVE IInv
    BY Zenon
  <1> USE StreamAssumption DEF Init, Listening, Scripted, Aborted, Abort, Sent
  <1>1. channel = <<>> /\ received = <<>> /\ Len(channel) = 0 /\ Len(received) = 0
    BY Zenon
  <1>2. Types
    <2>1. channel \in Seq(0..MaxChunks) /\ received \in Seq(1..MaxChunks) /\ Len(channel) <= Cap
      BY <1>1
    <2>2. made \in 0..size /\ lost \subseteq 1..made
      OBVIOUS
    <2>3. built \in BOOLEAN /\ strict \in BOOLEAN /\ gaveUp \in BOOLEAN
      BY Zenon
    <2> QED
      BY <2>1, <2>2, <2>3, ZenonT(30) DEF Types, PCs, Results, Outcomes, Clients
  <1>3. Phases /\ Deadlines
    BY DEF Phases, Deadlines
  <1>4. Queued
    BY <1>1 DEF Queued
  <1>5. InOrder
    BY <1>1 DEF InOrder
  <1>6. Marked
    BY <1>1, Zenon DEF Marked, AbortReachesClient
  <1> QED
    BY <1>2, <1>3, <1>4, <1>5, <1>6, ZenonT(30) DEF IInv

\* The engine's call returns.
LEMMA ReturnInv ==
    ASSUME IInv, NEW r \in {"ok", "failed"}, NEW tail \in {"ok", "error"}, Return(r, tail),
           ~Scripted, pc # "done", r = "ok" => made = size /\ pc # "send",
           pc = "send" => ~Listening,
           UNCHANGED <<producerVars, timeVars, clientVars>>
    PROVE  IInv'
PROOF
  <1> USE DEF Return, producerVars, timeVars, clientVars, IInv
  <1>1. Types'
    BY ZenonT(30) DEF Types, PCs, Results, Outcomes, Clients
  <1>2. Phases'
    BY Zenon DEF Phases, Scripted
  <1>3. Deadlines'
    BY StreamAssumption, Zenon DEF Types, Deadlines, Scripted
  <1>4. Queued'
    BY DEF Types, Queued, Sent, Aborted, Phases
  <1>5. InOrder'
    BY Zenon DEF Types, PCs, InOrder, Sent, Listening, Phases
  <1>6. Marked'
    BY Zenon DEF Marked, Scripted, AbortReachesClient
  <1> QED
    BY <1>1, <1>2, <1>3, <1>4, <1>5, <1>6, ZenonT(30)

\* The next chunk is made, its write commits the head and waits to be sent.
LEMMA ChunkInv ==
    ASSUME IInv, pc = "run", made < size, pc' = "send", made' = made + 1,
           strict' \in BOOLEAN, outcome' = IF outcome = "none" THEN "head" ELSE outcome,
           UNCHANGED <<producerVars, lost, result, channel, timeVars, clientVars, gaveUp>>
    PROVE  IInv'
PROOF
  <1> USE DEF producerVars, timeVars, clientVars, IInv
  <1>1. Types'
    BY DEF Types, PCs, Results, Outcomes, Clients
  <1>2. Phases'
    BY DEF Types, Phases
  <1>3. Deadlines'
    BY Zenon DEF Deadlines, Scripted
  <1>4. Queued'
    BY DEF Types, Queued, Sent, Aborted
  <1>5. InOrder'
    BY DEF Types, InOrder, Sent, Listening, Phases
  <1>6. Marked'
    BY Zenon DEF Marked, Scripted, AbortReachesClient
  <1> QED
    BY <1>1, <1>2, <1>3, <1>4, <1>5, <1>6, ZenonT(30)

\* There is room: the chunk is queued behind those before it.
LEMMA EnqueueInv ==
    ASSUME IInv, pc = "send", Listening, ~Full, channel' = Append(channel, made), pc' = "run",
           UNCHANGED <<producerVars, made, strict, lost, result, outcome, timeVars, clientVars, gaveUp>>
    PROVE  IInv'
PROOF
  <1> USE DEF producerVars, timeVars, clientVars, IInv
  <1>1. made \in 1..MaxChunks /\ size \in Nat /\ made \in Nat
    BY StreamAssumption DEF Types, Phases
  <1>2. /\ channel' \in Seq(0..MaxChunks) /\ Len(channel') = Len(channel) + 1
        /\ \A i \in 1..Len(channel) : channel'[i] = channel[i]
        /\ channel'[Len(channel) + 1] = made
        /\ Len(channel) \in Nat /\ Len(received) \in Nat
    BY <1>1 DEF Types
  <1>3. \A i \in 1..Len(channel) : channel[i] # Abort
    BY Zenon DEF Queued
  <1>4. \A i \in 1..Len(channel') : channel'[i] # Abort
    BY <1>1, <1>2, <1>3, SMTT(30) DEF Abort
  <1>5. ~Aborted /\ ~Aborted'
    BY <1>2, <1>3, <1>4, SMTT(30) DEF Aborted, Types
  <1>6. Types'
    BY <1>2, StreamAssumption DEF Types, Full, PCs
  <1>7. Phases' /\ Deadlines'
    BY Zenon DEF Phases, Deadlines, Scripted
  <1>8. Queued'
    BY <1>1, <1>2, <1>4, <1>5, SMTT(30) DEF Queued, Sent
  <1>9. InOrder'
    <2>1. SUFFICES ASSUME lost = {}
                   PROVE  /\ Len(received) + Len(channel') = made
                          /\ \A i \in 1..Len(received) : received[i] = i
                          /\ \A i \in 1..Len(channel') : channel'[i] = Len(received) + i
      BY Zenon DEF InOrder, Sent, Listening, Phases
    <2>2. /\ Len(received) + Len(channel) = made - 1
          /\ \A i \in 1..Len(received) : received[i] = i
          /\ \A i \in 1..Len(channel) : channel[i] = Len(received) + i
      BY <2>1, ZenonT(30) DEF InOrder, Sent, Phases
    <2>3. \A i \in 1..Len(channel') : i \in 1..Len(channel) \/ i = Len(channel) + 1
      BY <1>2
    <2>4. made = Len(received) + (Len(channel) + 1)
      BY <1>1, <1>2, <2>2, SMTT(30)
    <2>5. \A i \in 1..Len(channel') : channel'[i] = Len(received) + i
      BY <1>2, <2>2, <2>3, <2>4, ZenonT(30)
    <2> QED
      BY <1>2, <2>2, <2>4, <2>5, ZenonT(30)
  <1>10. Marked'
    BY Zenon DEF Marked, Scripted, AbortReachesClient
  <1> QED
    BY <1>6, <1>7, <1>8, <1>9, <1>10, ZenonT(30)

\* run_route is over, wherever it was.
LEMMA RouteEndsInv ==
    ASSUME IInv, Scripted, NEW r \in {"ok", "failed", "killed", "notfound"}, RouteEnds(r),
           pc \in {"setup", "run", "send"}, r = "ok" => made = size /\ pc = "run",
           built' \in BOOLEAN, r # "notfound" => built' = built,
           UNCHANGED <<mode, size, clientVars>>
    PROVE  IInv'
PROOF
  <1> USE DEF RouteEnds, clientVars, IInv
  <1>1. Types'
    BY StreamAssumption, SMTT(30) DEF Types, PCs, Results, Outcomes, Clients
  <1>2. Phases'
    BY Zenon DEF Phases, Scripted, Types, Outcomes
  <1>3. Deadlines'
    BY StreamAssumption DEF Types, Deadlines, Scripted
  <1>4. Queued'
    BY DEF Types, Queued, Sent, Aborted
  <1>5. InOrder'
    BY Zenon DEF InOrder, Sent, Listening, Phases
  <1>6. Marked'
    BY Zenon DEF Marked, Scripted, Listening, AbortReachesClient, Phases
  <1> QED
    BY <1>1, <1>2, <1>3, <1>4, <1>5, <1>6, ZenonT(30)

LEMMA EngineInv == IInv /\ Engine => IInv'
PROOF
  <1> SUFFICES ASSUME IInv, Engine PROVE IInv'
    BY Zenon
  <1>1. CASE BuildFails
    BY <1>1, ReturnInv, ZenonT(30) DEF BuildFails, Scripted
  <1>2. CASE BuildOk
    <2>1. CASE mode = "image" /\ size = 0 /\ Return("ok", "ok")
      BY <1>2, <2>1, ReturnInv, ZenonT(30) DEF BuildOk, Scripted, IInv, Phases
    <2>2. CASE pc' = "run" /\ outcome' = (IF mode = "file" THEN "head" ELSE outcome)
               /\ UNCHANGED <<made, strict, lost, result, channel, gaveUp>>
      <3> USE <1>2, <2>2 DEF BuildOk, IInv, producerVars, timeVars, clientVars
      <3>1. Types' /\ Phases'
        BY Zenon DEF Types, PCs, Outcomes, Phases, Scripted
      <3>2. Deadlines'
        BY Zenon DEF Deadlines, Scripted
      <3>3. Queued' /\ InOrder'
        BY Zenon DEF Queued, Aborted, InOrder, Sent, Listening, Phases
      <3>4. Marked'
        BY Zenon DEF Marked, Scripted, AbortReachesClient
      <3> QED
        BY <3>1, <3>2, <3>3, <3>4, ZenonT(30)
    <2> QED
      BY <1>2, <2>1, <2>2, ZenonT(30) DEF BuildOk
  <1>3. CASE MakeChunk
    BY <1>3, ChunkInv, ZenonT(30) DEF MakeChunk, IInv, Types
  <1>4. CASE ProduceFails
    BY <1>4, ReturnInv, ZenonT(30) DEF ProduceFails
  <1>5. CASE ProduceEnds
    BY <1>5, ReturnInv, ZenonT(30) DEF ProduceEnds
  <1>6. CASE BlockingSend
    BY <1>6, ReturnInv, EnqueueInv, ZenonT(30) DEF BlockingSend
  <1> QED
    BY <1>1, <1>2, <1>3, <1>4, <1>5, <1>6, ZenonT(30) DEF Engine

LEMMA SendAbortInv == IInv /\ SendAbort => IInv'
PROOF
  <1> SUFFICES ASSUME IInv, SendAbort PROVE IInv'
    BY Zenon
  <1> USE DEF SendAbort, producerVars, timeVars, clientVars, IInv
  <1>1. Phases' /\ Deadlines'
    BY Zenon DEF Phases, Deadlines, Scripted
  <1>2. InOrder'
    BY Zenon DEF InOrder, Sent, Listening, Phases
  <1>3. CASE Listening /\ ~Full /\ channel' = Append(channel, Abort) /\ UNCHANGED gaveUp
    <2>1. Abort \in 0..MaxChunks
      BY StreamAssumption DEF Abort
    <2>2. /\ channel' \in Seq(0..MaxChunks) /\ Len(channel') = Len(channel) + 1
          /\ \A i \in 1..Len(channel) : channel'[i] = channel[i]
          /\ channel'[Len(channel) + 1] = Abort
          /\ Len(channel) \in Nat /\ Len(received) \in Nat /\ made \in Nat
      BY <1>3, <2>1, StreamAssumption, SMTT(30) DEF Types
    <2>3. \A i \in 1..Len(channel) : channel[i] # Abort
      BY Zenon DEF Queued
    <2>4. \A i \in 1..Len(channel') : i \in 1..Len(channel) \/ i = Len(channel')
      BY <2>2
    <2>5. ~Aborted /\ Aborted'
      BY <2>2, <2>3, SMTT(30) DEF Aborted, Types
    <2>6. Types'
      BY <1>3, <2>2, StreamAssumption, SMTT(30) DEF Types, Full, PCs
    <2>7. Queued'
      BY <2>2, <2>3, <2>4, <2>5, SMTT(30) DEF Queued, Sent, Phases
    <2>8. Marked'
      BY <2>5, ZenonT(30) DEF Marked, Scripted, AbortReachesClient
    <2> QED
      BY <1>1, <1>2, <2>6, <2>7, <2>8, ZenonT(30)
  <1>4. CASE UNCHANGED channel /\ ((~Listening /\ UNCHANGED gaveUp) \/ gaveUp' = TRUE)
    <2>1. Types'
      BY <1>4, Zenon DEF Types, PCs
    <2>2. Queued'
      BY <1>4, Zenon DEF Queued, Aborted, Sent
    <2>3. Marked'
      BY <1>4, Zenon DEF Marked, Listening, Scripted, AbortReachesClient
    <2> QED
      BY <1>1, <1>2, <2>1, <2>2, <2>3, Zenon
  <1> QED
    BY <1>3, <1>4, ZenonT(30)

LEMMA ScriptInv == IInv /\ (Bounded \/ Script) => IInv'
PROOF
  <1> SUFFICES ASSUME IInv, Bounded \/ Script PROVE IInv'
    BY Zenon
  <1> USE DEF producerVars, timeVars, clientVars
  <1>1. CASE BuildVm
    <2>1. CASE RouteEnds("failed")
      BY <1>1, <2>1, RouteEndsInv, ZenonT(30) DEF BuildVm, IInv, Types
    <2>2. CASE pc' = "run" /\ killBy' = clock + Timeout
               /\ UNCHANGED <<made, strict, lost, result, outcome, channel, clock, abortBy, gaveUp>>
      <3> USE <1>1, <2>2 DEF BuildVm, IInv
      <3>1. Types' /\ Phases'
        BY StreamAssumption DEF Types, PCs, Phases, Scripted
      <3>2. Deadlines'
        BY StreamAssumption, SMTT(30) DEF Deadlines, Types
      <3>3. Queued' /\ InOrder'
        BY Zenon DEF Queued, Aborted, InOrder, Sent, Listening, Phases
      <3>4. Marked'
        BY Zenon DEF Marked, Scripted, AbortReachesClient
      <3> QED
        BY <3>1, <3>2, <3>3, <3>4, ZenonT(30)
    <2> QED
      BY <1>1, <2>1, <2>2, ZenonT(30) DEF BuildVm
  <1>2. CASE SendChunk
    <2>1. CASE WriteFails
      <3>1. CASE strict
        BY <1>2, <2>1, <3>1, RouteEndsInv, ZenonT(30) DEF SendChunk, WriteFails, IInv, Types
      <3>2. CASE ~strict
        <4> USE <1>2, <2>1, <3>2 DEF SendChunk, WriteFails, IInv
        <4>1. Types' /\ Phases'
          <5>1. made \in 1..made /\ lost \subseteq 1..made /\ made' = made
            BY DEF Types, Phases
          <5>2. lost' = lost \/ lost' = lost \cup {made}
            BY Zenon
          <5>3. lost' \subseteq 1..made'
            BY <5>1, <5>2, ZenonT(30)
          <5> QED
            BY <5>3, ZenonT(30) DEF Types, PCs, Phases, Scripted
        <4>2. Deadlines'
          BY ZenonT(30) DEF Deadlines, Scripted
        <4>3. Queued'
          BY DEF Queued, Aborted, Sent, Types
        <4>4. InOrder'
          BY Zenon DEF InOrder, Sent, Listening, Phases
        <4>5. Marked'
          BY Zenon DEF Marked, Scripted, AbortReachesClient
        <4> QED
          BY <4>1, <4>2, <4>3, <4>4, <4>5, ZenonT(30)
      <3> QED
        BY <3>1, <3>2, ZenonT(30)
    <2> QED
      BY <1>2, <2>1, EnqueueInv, ZenonT(30) DEF SendChunk
  <1>3. CASE ScriptKilled
    BY <1>3, RouteEndsInv, ZenonT(30) DEF ScriptKilled, IInv, Types
  <1>4. CASE SendAbort
    BY <1>4, SendAbortInv, ZenonT(30)
  <1>5. CASE \E html \in BOOLEAN : Write(html)
    BY <1>5, ChunkInv, ZenonT(30) DEF Write
  <1>6. CASE InitEnds
    <2>1. CASE RouteEnds("notfound")
      BY <1>6, <2>1, RouteEndsInv, ZenonT(30) DEF InitEnds
    <2>2. CASE UNCHANGED <<pc, made, strict, lost, result, outcome, channel, timeVars, gaveUp>>
      <3> USE <1>6, <2>2 DEF InitEnds, IInv
      <3>1. Types' /\ Phases'
        BY Zenon DEF Types, Phases, Scripted
      <3>2. Deadlines'
        BY Zenon DEF Deadlines, Scripted
      <3>3. Queued' /\ InOrder'
        BY Zenon DEF Queued, Aborted, InOrder, Sent, Listening
      <3>4. Marked'
        BY Zenon DEF Marked, Scripted, AbortReachesClient, Phases
      <3> QED
        BY <3>1, <3>2, <3>3, <3>4, ZenonT(30)
    <2> QED
      BY <1>6, <2>1, <2>2, ZenonT(30) DEF InitEnds
  <1>7. CASE ScriptEnds
    BY <1>7, RouteEndsInv, ZenonT(30) DEF ScriptEnds, IInv, Types
  <1>8. CASE ScriptFails
    BY <1>8, RouteEndsInv, ZenonT(30) DEF ScriptFails, IInv, Types
  <1> QED
    BY <1>1, <1>2, <1>3, <1>4, <1>5, <1>6, <1>7, <1>8, ZenonT(30) DEF Bounded, Script

LEMMA TickInv == IInv /\ Tick => IInv'
PROOF
  <1> SUFFICES ASSUME IInv, Tick PROVE IInv'
    BY Zenon
  <1> USE DEF Tick, producerVars, clientVars, IInv
  <1>1. Types' /\ Phases'
    BY DEF Types, Phases, Scripted
  <1>2. Deadlines'
    BY StreamAssumption, SMTT(30) DEF Deadlines, Types, Scripted
  <1>3. Queued' /\ InOrder' /\ Marked'
    BY Zenon DEF Queued, Aborted, InOrder, Sent, Listening, Marked, Scripted, AbortReachesClient
  <1> QED
    BY <1>1, <1>2, <1>3, ZenonT(30)

LEMMA ReaderInv == IInv /\ (Reader \/ Leave) => IInv'
PROOF
  <1> SUFFICES ASSUME IInv, Reader \/ Leave PROVE IInv'
    BY Zenon
  <1> USE DEF IInv, threadVars, producerVars, timeVars
  <1>1. UNCHANGED threadVars /\ Deadlines'
    BY Zenon DEF Reader, TakeOutcome, PollBody, Leave, Deadlines, Scripted
  <1>2. /\ Len(channel) \in Nat /\ Len(received) \in Nat /\ Sent \in Int
        /\ channel # <<>> => Len(channel) >= 1
    BY DEF Types, Sent
  <1>3. Sent' = Sent
    BY <1>1, Zenon DEF Sent
  <1>4. CASE TakeOutcome
    <2> USE <1>4 DEF TakeOutcome
    <2>1. Types' /\ Phases'
      BY ZenonT(30) DEF Types, Phases, Scripted, Clients, Outcomes
    <2>2. Queued' /\ InOrder'
      BY Zenon DEF Queued, Aborted, InOrder, Sent, Listening, Phases
    <2>3. Marked'
      BY Zenon DEF Marked, Scripted, Listening, Aborted, AbortReachesClient
    <2> QED
      BY <1>1, <2>1, <2>2, <2>3, ZenonT(30)
  <1>5. CASE Leave
    <2> USE <1>5 DEF Leave
    <2>1. Types' /\ Phases'
      BY StreamAssumption DEF Types, Phases, Scripted, Clients, Listening
    <2>2. channel' = <<>> /\ Len(channel') = 0 /\ received' = received /\ ~Aborted'
      BY ZenonT(30) DEF Aborted
    <2>3. Queued'
      BY <1>1, <1>2, <1>3, <2>2, SMTT(30) DEF Queued, Aborted
    <2>4. InOrder' /\ Marked'
      BY Zenon DEF InOrder, Listening, Marked, AbortReachesClient
    <2> QED
      BY <1>1, <2>1, <2>3, <2>4, ZenonT(30)
  <1>6. CASE PollBody /\ channel = <<>>
    <2> USE <1>6 DEF PollBody
    <2>1. client' = "clean" /\ pc = "done" /\ UNCHANGED <<channel, received>>
      BY Zenon
    <2>2. Types' /\ Phases'
      BY <2>1, ZenonT(30) DEF Types, Phases, Scripted, Clients
    <2>3. Queued'
      BY <1>1, <1>3, <2>1, ZenonT(30) DEF Queued, Aborted
    <2>4. InOrder'
      BY <1>1, <2>1, SMTT(30) DEF InOrder, Listening, Phases, Sent
    <2>5. Marked'
      BY <1>1, <2>1, SMTT(30) DEF Marked, Scripted, Listening, Aborted, AbortReachesClient, Phases, Types, Results
    <2> QED
      BY <1>1, <2>2, <2>3, <2>4, <2>5, ZenonT(30)
  <1>7. CASE PollBody /\ channel # <<>> /\ Head(channel) = Abort
    <2> USE <1>7 DEF PollBody
    <2>1. client' = "reset" /\ channel' = <<>> /\ Len(channel') = 0 /\ received' = received
      OBVIOUS
    <2>2. pc = "done" /\ Len(channel) = 1
      <3>1. channel[1] = Abort /\ 1 \in 1..Len(channel)
        BY <1>2, SMTT(30) DEF Types
      <3> QED
        BY <1>2, <3>1, ZenonT(30) DEF Queued
    <2>3. Types' /\ Phases'
      BY <2>1, <2>2, StreamAssumption, SMTT(30) DEF Types, Phases, Scripted, Clients
    <2>4. Queued'
      BY <1>1, <1>2, <1>3, <2>1, <2>2, SMTT(30) DEF Queued, Aborted
    <2>5. InOrder' /\ Marked'
      BY <2>1, ZenonT(30) DEF InOrder, Listening, Marked, AbortReachesClient
    <2> QED
      BY <1>1, <2>3, <2>4, <2>5, ZenonT(30)
  <1>8. CASE PollBody /\ channel # <<>> /\ Head(channel) # Abort
    <2> USE <1>8 DEF PollBody
    <2>1. client' = client /\ channel' = Tail(channel) /\ received' = Append(received, channel[1])
      BY DEF Types
    <2>2. channel[1] \in 1..MaxChunks /\ channel[1] # Abort /\ Len(channel) >= 1
      <3>1. Len(channel) >= 1 /\ 1 \in 1..Len(channel)
        BY <1>2
      <3>2. channel[1] \in 0..MaxChunks
        BY <3>1, ElementOfSeq, ZenonT(30) DEF Types
      <3>3. channel[1] # Abort
        BY DEF Types
      <3> QED
        BY <3>1, <3>2, <3>3, StreamAssumption, SMTT(30) DEF Abort
    <2>3. /\ channel' \in Seq(0..MaxChunks) /\ Len(channel') = Len(channel) - 1
          /\ \A i \in 1..Len(channel') : channel'[i] = channel[i + 1]
      BY <2>1, <2>2, SMTT(30) DEF Types
    <2>4. /\ received' \in Seq(1..MaxChunks) /\ Len(received') = Len(received) + 1
          /\ \A i \in 1..Len(received) : received'[i] = received[i]
          /\ received'[Len(received) + 1] = channel[1]
      BY <2>1, <2>2, SMTT(30) DEF Types
    <2>5. Aborted' <=> Aborted
      <3>1. CASE channel' = <<>>
        BY <1>2, <2>2, <2>3, <3>1, SMTT(30) DEF Aborted
      <3>2. CASE channel' # <<>>
        BY <1>2, <2>2, <2>3, <3>2, SMTT(30) DEF Aborted, Types
      <3> QED
        BY <3>1, <3>2, ZenonT(30)
    <2>6. Types' /\ Phases'
      BY <1>2, <2>1, <2>3, <2>4, StreamAssumption, SMTT(30) DEF Types, Phases, Scripted
    <2>7. Queued'
      <3>1. \A i \in 1..Len(channel') : i + 1 \in 1..Len(channel)
        BY <1>2, <2>3, SMTT(30)
      <3>2. ASSUME NEW i \in 1..Len(channel'), channel'[i] = Abort
            PROVE  i = Len(channel') /\ pc = "done" /\ result \in {"killed", "failed"}
        BY <1>2, <2>3, <3>1, <3>2, SMTT(30) DEF Queued
      <3>3. Len(received') + Len(channel') <= Sent' + (IF Aborted' THEN 1 ELSE 0)
        BY <1>2, <1>3, <2>3, <2>4, <2>5, SMTT(30) DEF Queued
      <3> QED
        BY <1>1, <3>2, <3>3, ZenonT(30) DEF Queued
    <2>8. InOrder'
      <3>1. SUFFICES ASSUME lost = {}, result \in {"none", "ok"}
                     PROVE  /\ Len(received') + Len(channel') = Sent'
                            /\ \A i \in 1..Len(received') : received'[i] = i
                            /\ \A i \in 1..Len(channel') : channel'[i] = Len(received') + i
        BY <1>1, <2>1, ZenonT(30) DEF InOrder, Listening
      <3>2. /\ Len(received) + Len(channel) = Sent
            /\ \A i \in 1..Len(received) : received[i] = i
            /\ \A i \in 1..Len(channel) : channel[i] = Len(received) + i
        BY <3>1, ZenonT(30) DEF InOrder, Listening
      <3>3. channel[1] = Len(received) + 1
        BY <1>2, <2>2, <3>2, SMTT(30)
      <3>4. \A i \in 1..Len(received') : i \in 1..Len(received) \/ i = Len(received) + 1
        BY <1>2, <2>4, SMTT(30)
      <3>5. \A i \in 1..Len(received') : received'[i] = i
        BY <2>4, <3>2, <3>3, <3>4, ZenonT(30)
      <3>6. \A i \in 1..Len(channel') : i + 1 \in 1..Len(channel) /\ i \in Nat
        BY <1>2, <2>3, SMTT(30)
      <3>7. \A i \in 1..Len(channel') : channel'[i] = Len(received') + i
        BY <1>2, <2>3, <2>4, <3>2, <3>6, SMTT(30)
      <3>8. Len(received') + Len(channel') = Sent'
        BY <1>2, <1>3, <2>3, <2>4, <3>2, SMTT(30)
      <3> QED
        BY <3>5, <3>7, <3>8, ZenonT(30)
    <2>9. Marked'
      BY <1>1, <2>1, <2>5, SMTT(30) DEF Marked, Scripted, Listening, AbortReachesClient
    <2> QED
      BY <1>1, <2>6, <2>7, <2>8, <2>9, ZenonT(30)
  <1> QED
    BY <1>4, <1>5, <1>6, <1>7, <1>8, ZenonT(30) DEF Reader

LEMMA StepInv == IInv /\ [Next]_vars => IInv'
PROOF
  <1> SUFFICES ASSUME IInv, [Next]_vars PROVE IInv'
    BY ZenonT(30)
  <1>1. CASE UNCHANGED vars
    BY <1>1, SMTT(30) DEF vars, IInv, Types, Phases, Deadlines, Queued, InOrder, Marked, Sent, Aborted,
                Listening, Scripted, AbortReachesClient
  <1>2. CASE Over
    BY <1>1, <1>2, Zenon DEF Over
  <1> QED
    BY <1>1, <1>2, EngineInv, ScriptInv, TickInv, ReaderInv, ZenonT(30) DEF Next

\* The inductive invariant holds in every state.
THEOREM Invariance == Spec => []IInv
PROOF
  BY InitInv, StepInv, PTL DEF Spec

\* A killed or failed Lua route whose head is out resets the client's body
\* (run_lua_route_blocking, send_body_until of the abort marker).
THEOREM AbortsReachClients == Spec => []AbortReachesClient
PROOF
  <1>1. IInv => AbortReachesClient
    BY ZenonT(30) DEF IInv, Marked
  <1> QED
    BY <1>1, Invariance, PTL

-----------------------------------------------------------------------------
\* A sequence no longer than n is one of the bounded sequences.
LEMMA InBounded ==
    ASSUME NEW S, NEW n \in Nat, NEW s \in Seq(S), Len(s) <= n
    PROVE  s \in BoundedSeq(S, n)
PROOF
  <1>1. s \in [1..Len(s) -> S] /\ Len(s) \in 0..n
    OBVIOUS
  <1> QED
    BY <1>1, ZenonT(30) DEF BoundedSeq, SeqOf

LEMMA InvIsWhole == IInv => OkMeansWhole
PROOF
  <1> SUFFICES ASSUME IInv PROVE OkMeansWhole
    BY ZenonT(30)
  <1> USE StreamAssumption DEF IInv
  <1>1. channel \in BoundedSeq(0..MaxChunks, Cap)
    BY InBounded, ZenonT(30) DEF Types
  <1>2. received \in BoundedSeq(1..MaxChunks, MaxChunks)
    <2>1. Len(received) <= MaxChunks
      <3>1. /\ Len(channel) \in Nat /\ Len(received) \in Nat /\ made \in 0..MaxChunks
            /\ channel # <<>> => Len(channel) >= 1
        BY DEF Types
      <3>2. Len(received) + Len(channel) <= made + (IF Aborted THEN 1 ELSE 0)
        BY <3>1, SMTT(30) DEF Queued, Sent
      <3> QED
        BY <3>1, <3>2, SMTT(30) DEF Aborted
    <2> QED
      BY <2>1, InBounded, ZenonT(30) DEF Types
  <1>3. {clock, killBy, abortBy} \subseteq 0..(MaxSetup + Timeout + AbortBudget)
    BY SMTT(30) DEF Types, Deadlines
  <1>4. TypeOK
    BY <1>1, <1>2, <1>3, Zenon DEF TypeOK, Types, PCs, Results, Outcomes, Clients
  <1>5. ASSUME client = "clean", result = "ok", lost = {}
        PROVE  received = [i \in 1..size |-> i]
    BY <1>5 DEF InOrder, Types
  <1> QED
    BY <1>4, <1>5, ZenonT(30) DEF OkMeansWhole

\* A body that ended well is whole at a client that read to its end, each
\* chunk once and in order, and the channel keeps BODY_CHANNEL_CAP
\* (blocking_send, the try_send loop of send_body_until).
THEOREM BodiesAreWhole == Spec => []OkMeansWhole
PROOF
  BY Invariance, InvIsWhole, PTL

=============================================================================
