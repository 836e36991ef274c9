---------------------------- MODULE LinksProofs ----------------------------
(***************************************************************************)
(* Proofs about TermThreads, Bridge and TermWire, which share no state.    *)
(*                                                                         *)
(* BlockOutlivesThreads is about the last of the steps that take a         *)
(* terminal connection apart; StopInv adds what the earlier ones leave     *)
(* behind: the reader's thread is inside stop() only while it runs, and    *)
(* whoever destroys the writer has seen its thread finish and every other  *)
(* caller leave.                                                           *)
(*                                                                         *)
(* For the bridge, RouteInv follows one broadcast: a session whose emit_st *)
(* lock is held is not deactivated, and whoever the broadcast has passed   *)
(* has the event or a target was not open.  RoutedInv says that an event   *)
(* is larger than all that were routed before it, and GroupInv that every  *)
(* creation still on its way upstream for a session that is gone has the   *)
(* destruction of its group behind it.                                     *)
(*                                                                         *)
(* For the wire, LosslessInv says what the reader will be once it has been *)
(* fed the bytes still in the pty.  Reading does not change that, so that  *)
(* the argument is about sending: base64_decode() and parse_uint() take    *)
(* back what was encoded, a sequence is captured whole, complete_chunk()   *)
(* puts the chunks together, and what is no frame flows by.  TidyInv is    *)
(* about the bytes that are cut off too: every terminator that reached the *)
(* pty ends a frame that was sent whole, or is behind a byte no frame has. *)
(***************************************************************************)
EXTENDS TermThreads, TermWire, Bridge, SeqFacts

TermThreadsSpec == TermThreadsInit /\ [][TermThreadsNext]_termThreadVars

TermWireSpec == TermWireInit /\ [][TermWireNext]_termWireVars

BridgeSpec == BridgeInit /\ [][BridgeNext]_bridgeVars
-----------------------------------------------------------------------------
(***************************************************************************)
(* The terminal's threads.                                                 *)
(***************************************************************************)
PipeState == [stopped : BOOLEAN, async : BOOLEAN, stopDone : BOOLEAN,
              thread : {"run", "closing", "done"}, finished : BOOLEAN]

CallState == [at : {"out", "stop", "wait", "join", "back"}, pipe : Pipes]

\* Every variable keeps the shape of the members it stands for.
TermThreadsTypeOK ==
    /\ pipe \in [Pipes -> PipeState]
    /\ conn \in [closed : BOOLEAN, recvClosed : BOOLEAN,
                 block : {"alive", "writer gone", "released"}]
    /\ call \in [Callers -> CallState]
    /\ srv \in [stopped : BOOLEAN, checkedOut : BOOLEAN]

\* thread_finished is the last thing a loop thread does; the reader's is in
\* its callback only while its loop runs; and the destructors find the
\* threads finished and the other callers gone.
StopInv ==
    /\ \A p \in Pipes : pipe[p].finished => pipe[p].thread = "done"
    /\ Inside("loop") => pipe["reader"].thread = "run"
    /\ conn.block # "alive" =>
         call["owner"].at = "back" /\ ~Inside("other") /\ pipe["writer"].thread = "done"
    /\ conn.block = "released" => pipe["reader"].thread = "done"

\* What a caller's step does to the calls and to the pipes.
LEMMA CallerStepFacts ==
    ASSUME TermThreadsTypeOK, NEW a \in Callers, CallerStep(a)
    PROVE  /\ UNCHANGED <<conn, srv>>
           /\ call[a].at \in {"stop", "wait", "join"}
           /\ \E c \in CallState : call' = [call EXCEPT ![a] = c]
           /\ pipe' \in [Pipes -> PipeState]
           /\ \A p \in Pipes : /\ pipe'[p].thread = pipe[p].thread
                               /\ pipe'[p].finished = pipe[p].finished
  <1> USE DEF TermThreadsTypeOK
  <1>0. call[a] \in CallState /\ call[a].pipe \in Pipes /\ pipe[call[a].pipe] \in PipeState
    BY DEF CallState
  <1>1. NextCall(a) \in CallState
    BY DEF NextCall, CallState, Pipes
  <1>2. \A at \in {"wait", "join"} :
          /\ [call[a] EXCEPT !.at = at] \in CallState
          /\ [call EXCEPT ![a].at = at] = [call EXCEPT ![a] = [call[a] EXCEPT !.at = at]]
    BY <1>0 DEF CallState
  <1>3. CASE PipeThreadStop(a)
    <2> DEFINE p == call[a].pipe
    <2>1. CASE pipe[p].stopped
      <3>1. UNCHANGED <<pipe, conn, srv>> /\ call[a].at = "stop"
            /\ call' = [call EXCEPT ![a].at = "wait"]
        BY <1>3, <2>1 DEF PipeThreadStop
      <3> QED BY <1>2, <3>1
    <2>2. CASE ~pipe[p].stopped /\ a = "loop" /\ p = "reader"
      <3>1. /\ UNCHANGED <<conn, srv>> /\ call[a].at = "stop"
            /\ pipe' = [pipe EXCEPT ![p].stopped = TRUE, ![p].async = TRUE,
                                    ![p].stopDone = TRUE]
            /\ call' = [call EXCEPT ![a] = NextCall(a)]
        BY <1>3, <2>2 DEF PipeThreadStop
      <3>2. /\ pipe' \in [Pipes -> PipeState]
            /\ \A q \in Pipes : /\ pipe'[q].thread = pipe[q].thread
                                /\ pipe'[q].finished = pipe[q].finished
        BY <1>0, <3>1 DEF PipeState
      <3> QED BY <1>1, <3>1, <3>2
    <2>3. CASE ~pipe[p].stopped /\ ~(a = "loop" /\ p = "reader")
      <3>1. /\ UNCHANGED <<conn, srv>> /\ call[a].at = "stop"
            /\ pipe' = [pipe EXCEPT ![p].stopped = TRUE, ![p].async = TRUE]
            /\ call' = [call EXCEPT ![a].at = "join"]
        BY <1>3, <2>3 DEF PipeThreadStop
      <3>2. /\ pipe' \in [Pipes -> PipeState]
            /\ \A q \in Pipes : /\ pipe'[q].thread = pipe[q].thread
                                /\ pipe'[q].finished = pipe[q].finished
        BY <1>0, <3>1 DEF PipeState
      <3> QED BY <1>2, <3>1, <3>2
    <2> QED BY <2>1, <2>2, <2>3
  <1>4. CASE PipeThreadJoined(a)
    <2>1. /\ pipe' \in [Pipes -> PipeState]
          /\ \A p \in Pipes : /\ pipe'[p].thread = pipe[p].thread
                              /\ pipe'[p].finished = pipe[p].finished
      BY <1>0, <1>4 DEF PipeThreadJoined, PipeState
    <2> QED BY <1>1, <1>4, <2>1 DEF PipeThreadJoined
  <1>5. CASE StopDoneSeen(a)
    BY <1>1, <1>5 DEF StopDoneSeen
  <1> QED BY <1>3, <1>4, <1>5 DEF CallerStep

\* Type correctness of the terminal's threads.
THEOREM TermThreadsTypeCorrect == TermThreadsSpec => []TermThreadsTypeOK
  <1>1. TermThreadsInit => TermThreadsTypeOK
    BY DEF TermThreadsInit, TermThreadsTypeOK, RunningPipe, PipeState, CallState, Pipes
  <1>2. TermThreadsTypeOK /\ [TermThreadsNext]_termThreadVars => TermThreadsTypeOK'
    <2> SUFFICES ASSUME TermThreadsTypeOK, [TermThreadsNext]_termThreadVars
                 PROVE  TermThreadsTypeOK'
      OBVIOUS
    <2> USE DEF TermThreadsTypeOK
    <2>1. CASE OnReadEof
      <3>1. "loop" \in Callers /\ call["loop"] \in CallState
        BY DEF Callers
      <3>2. /\ [at |-> "stop", pipe |-> "reader"] \in CallState
            /\ [call["loop"] EXCEPT !.at = "back"] \in CallState
        BY <3>1 DEF CallState, Pipes
      <3>3. \E c \in CallState : call' = [call EXCEPT !["loop"] = c]
        BY <2>1, <3>2 DEF OnReadEof
      <3>4. call' \in [Callers -> CallState]
        BY <3>1, <3>3
      <3>5. UNCHANGED <<pipe, srv>> /\ conn' \in [closed : BOOLEAN, recvClosed : BOOLEAN,
                                                  block : {"alive", "writer gone", "released"}]
        BY <2>1 DEF OnReadEof
      <3> QED BY <3>4, <3>5
    <2>2. ASSUME NEW a \in Callers, Shutdown(a) PROVE TermThreadsTypeOK'
      BY <2>2 DEF Shutdown, CallState, Pipes
    <2>3. ASSUME NEW a \in Callers, CallerStep(a) PROVE TermThreadsTypeOK'
      <3>1. PICK c \in CallState : call' = [call EXCEPT ![a] = c]
        BY <2>3, CallerStepFacts
      <3>2. call' \in [Callers -> CallState]
        BY <3>1
      <3> QED BY <2>3, <3>2, CallerStepFacts
    <2>4. ASSUME NEW p \in Pipes, LoopReturns(p) PROVE TermThreadsTypeOK'
      BY <2>4, ZenonT(40) DEF LoopReturns, PipeState
    <2>5. ASSUME NEW p \in Pipes, ThreadFinishes(p) PROVE TermThreadsTypeOK'
      BY <2>5, ZenonT(40) DEF ThreadFinishes, PipeState
    <2>6. CASE DestroyWriter \/ DestroyReader
      BY <2>6 DEF DestroyWriter, DestroyReader
    <2>7. CASE TermAccept \/ TermConnectionClose
      BY <2>7 DEF TermAccept, TermConnectionClose
    <2>8. CASE TermServerStop
      BY <2>8 DEF TermServerStop, CallState, Callers, Pipes
    <2>9. CASE UNCHANGED termThreadVars
      BY <2>9 DEF termThreadVars
    <2> QED
      BY <2>1, <2>2, <2>3, <2>4, <2>5, <2>6, <2>7, <2>8, <2>9 DEF TermThreadsNext
  <1> QED
    BY <1>1, <1>2, PTL DEF TermThreadsSpec

\* The memory of a term_conn_state goes only when both loop threads have
\* finished and nobody is inside stop(), whoever stopped it and in whatever
\* order.
THEOREM BlockOutlivesThreadsHolds == TermThreadsSpec => []BlockOutlivesThreads
  <1>1. TermThreadsInit => StopInv
    BY DEF TermThreadsInit, StopInv, RunningPipe, Inside, Pipes, Callers
  <1>2. TermThreadsTypeOK /\ StopInv /\ [TermThreadsNext]_termThreadVars => StopInv'
    <2> SUFFICES ASSUME TermThreadsTypeOK, StopInv, [TermThreadsNext]_termThreadVars
                 PROVE  StopInv'
      OBVIOUS
    <2>0. {"reader", "writer"} = Pipes /\ {"owner", "other", "loop"} = Callers
      BY DEF Pipes, Callers
    <2>1. CASE OnReadEof
      BY <2>0, <2>1 DEF OnReadEof, StopInv, Inside, TermThreadsTypeOK
    <2>2. ASSUME NEW a \in Callers, Shutdown(a) PROVE StopInv'
      BY <2>0, <2>2 DEF Shutdown, StopInv, Inside, TermThreadsTypeOK
    <2>3. ASSUME NEW a \in Callers, CallerStep(a) PROVE StopInv'
      <3>1. PICK c \in CallState : call' = [call EXCEPT ![a] = c]
        BY <2>3, CallerStepFacts
      <3>2. /\ Inside(a) /\ UNCHANGED conn
            /\ \A p \in Pipes : /\ pipe'[p].thread = pipe[p].thread
                                /\ pipe'[p].finished = pipe[p].finished
        BY <2>3, CallerStepFacts DEF Inside
      <3>3. \A b \in Callers : Inside(b)' => Inside(b)
        BY <3>1, <3>2 DEF Inside, TermThreadsTypeOK
      <3>4. conn.block # "alive" => a = "loop" /\ call'["owner"] = call["owner"]
        BY <2>0, <3>1, <3>2 DEF StopInv, Inside, TermThreadsTypeOK
      <3> QED BY <2>0, <3>2, <3>3, <3>4 DEF StopInv
    <2>4. ASSUME NEW p \in Pipes, LoopReturns(p) PROVE StopInv'
      <3>1. /\ UNCHANGED call /\ conn'.block = conn.block
            /\ pipe[p].thread = "run" /\ (p = "reader" => ~Inside("loop"))
            /\ pipe' = [pipe EXCEPT ![p].thread = "closing"]
        BY <2>4 DEF LoopReturns, TermThreadsTypeOK
      <3>2. /\ \A q \in Pipes : q # p => pipe'[q] = pipe[q]
            /\ pipe'[p].thread = "closing" /\ pipe'[p].finished = pipe[p].finished
        BY <3>1 DEF TermThreadsTypeOK, PipeState
      <3> QED BY <2>0, <3>1, <3>2 DEF StopInv, Inside
    <2>5. ASSUME NEW p \in Pipes, ThreadFinishes(p) PROVE StopInv'
      <3>1. /\ UNCHANGED <<call, conn>> /\ pipe[p].thread = "closing"
            /\ \A q \in Pipes : q # p => pipe'[q] = pipe[q]
            /\ pipe'[p].thread = "done"
        BY <2>5 DEF ThreadFinishes, TermThreadsTypeOK, PipeState
      <3> QED BY <2>0, <3>1 DEF StopInv, Inside
    <2>6. CASE DestroyWriter
      BY <2>0, <2>6 DEF DestroyWriter, StopInv, Inside, TermThreadsTypeOK
    <2>7. CASE DestroyReader
      BY <2>0, <2>7 DEF DestroyReader, StopInv, Inside, TermThreadsTypeOK
    <2>8. CASE TermAccept \/ TermConnectionClose
      BY <2>8 DEF TermAccept, TermConnectionClose, StopInv, Inside
    <2>9. CASE TermServerStop
      BY <2>0, <2>9 DEF TermServerStop, StopInv, Inside, TermThreadsTypeOK
    <2>10. CASE UNCHANGED termThreadVars
      BY <2>10 DEF termThreadVars, StopInv, Inside
    <2> QED
      BY <2>1, <2>2, <2>3, <2>4, <2>5, <2>6, <2>7, <2>8, <2>9, <2>10 DEF TermThreadsNext
  <1>3. StopInv => BlockOutlivesThreads
    BY DEF StopInv, BlockOutlivesThreads, Inside, Callers, Pipes
  <1> QED
    BY <1>1, <1>2, <1>3, TermThreadsTypeCorrect, PTL DEF TermThreadsSpec
-----------------------------------------------------------------------------
(***************************************************************************)
(* The bridge.                                                             *)
(***************************************************************************)
UpFrames == [op : {"create", "destroy", "destroy_group"}, group : Sessions, oneway : BOOLEAN]

DownFrames == [kind : {"response", "event"}, of : Sessions \cup {"none"}, ev : Nat]

WorkerStates == [at : {"idle", "get", "teardown"}, sess : Sessions \cup {"none"}]

Routes == [at : {"off", "targets", "local"}, ev : Nat, all : SUBSET Sessions,
           left : SUBSET Sessions, holds : SUBSET Sessions]

OwnType ==
    /\ own \in [started : BOOLEAN, stage : {"out", "listening", "stopping"},
                connects : Nat, relays : Nat]
    /\ up \in {"off", "on", "lost", "dead"}

SessType ==
    /\ sess \in [Sessions -> {"none", "open", "eof", "closed", "erased", "inactive",
                              "destroying", "gone"}]
    /\ worker \in [BridgeWorkers -> WorkerStates]

UpType == upq \in Seq(UpFrames) /\ objs \in [Sessions -> Nat]

DownType ==
    /\ downq \in Seq(DownFrames)
    /\ route \in Routes
    /\ events \in Nat
    /\ routed \in [Sessions -> Seq(Nat)]

\* Every variable of the bridge keeps its shape.
BridgeTypeOK == OwnType /\ SessType /\ UpType /\ DownType

\* Parts that a step leaves alone.
LEMMA BridgePartsUnchanged ==
    /\ OwnType /\ UNCHANGED <<own, up>> => OwnType'
    /\ SessType /\ UNCHANGED <<sess, worker>> => SessType'
    /\ UpType /\ UNCHANGED <<upq, objs>> => UpType'
    /\ DownType /\ UNCHANGED <<downq, route, events, routed>> => DownType'
  BY DEF OwnType, SessType, UpType, DownType

\* Assigning one entry of a function, in its domain or not.
LEMMA AssignType ==
    ASSUME NEW D, NEW R, NEW f \in [D -> R], NEW x, NEW v \in R
    PROVE  [f EXCEPT ![x] = v] \in [D -> R]
  OBVIOUS

\* The constants that workers and frames are made of.
LEMMA BridgeRecords ==
    /\ IdleWorker \in WorkerStates
    /\ NoRoute \in Routes
    /\ \A s \in Sessions : /\ [at |-> "get", sess |-> s] \in WorkerStates
                           /\ [at |-> "teardown", sess |-> s] \in WorkerStates
                           /\ [kind |-> "response", of |-> s, ev |-> 0] \in DownFrames
    /\ \A op \in {"create", "destroy", "destroy_group"}, s \in Sessions, b \in BOOLEAN :
         [op |-> op, group |-> s, oneway |-> b] \in UpFrames
    /\ \A e \in Nat : [kind |-> "event", of |-> "none", ev |-> e] \in DownFrames
  BY DEF IdleWorker, NoRoute, WorkerStates, Routes, UpFrames, DownFrames

\* Sending upstream.
LEMMA SentType ==
    ASSUME NEW q \in Seq(UpFrames), NEW f \in UpFrames
    PROVE  Sent(q, f) \in Seq(UpFrames)
  BY AppendHas DEF Sent

\* The steps of the owner, of the sessions and of their teardown.
LEMMA BridgeSessionsType ==
    ASSUME BridgeTypeOK,
           \/ BridgeStart \/ BridgeStop \/ UpstreamDisconnect
           \/ \E s \in Sessions : \/ OnSessionCreated(s) \/ PeerGone(s) \/ BridgeDisconnect(s)
                                  \/ TryHandleRequest(s)
           \/ TeardownStep
    PROVE  BridgeTypeOK'
  <1> USE BridgePartsUnchanged, BridgeRecords DEF BridgeTypeOK
  <1>1. CASE BridgeStart \/ BridgeStop
    <2>1. OwnType'
      <3>1. CASE /\ up' = "on"
                 /\ own' = [own EXCEPT !.started = TRUE, !.stage = "listening", !.connects = @ + 1]
        <4>1. own.connects + 1 \in Nat
          BY DEF OwnType
        <4>2. own' = [own EXCEPT !.started = TRUE, !.stage = "listening",
                                 !.connects = own.connects + 1]
          BY <3>1 DEF OwnType
        <4> QED BY <3>1, <4>1, <4>2, Zenon DEF OwnType
      <3>2. CASE UNCHANGED up /\ own' = [own EXCEPT !.started = TRUE]
        BY <3>2 DEF OwnType
      <3>3. CASE BridgeStop
        BY <3>3 DEF BridgeStop, OwnType
      <3> QED BY <1>1, <3>1, <3>2, <3>3 DEF BridgeStart
    <2> QED BY <1>1, <2>1 DEF BridgeStart, BridgeStop
  <1>2. CASE UpstreamDisconnect
    <2>1. OwnType'
      BY <1>2 DEF UpstreamDisconnect, OwnType
    <2>2. UpType' /\ DownType'
      BY <1>2, EmptyHas DEF UpstreamDisconnect, UpType, DownType
    <2> QED BY <1>2, <2>1, <2>2 DEF UpstreamDisconnect
  <1>3. ASSUME NEW s \in Sessions,
               \/ OnSessionCreated(s) \/ PeerGone(s) \/ BridgeDisconnect(s)
               \/ TeardownDeactivate(s)
        PROVE  BridgeTypeOK'
    <2>1. SessType'
      BY <1>3 DEF OnSessionCreated, PeerGone, BridgeDisconnect, TeardownDeactivate, SessType
    <2> QED
      BY <1>3, <2>1 DEF OnSessionCreated, PeerGone, BridgeDisconnect, TeardownDeactivate
  <1>4. ASSUME NEW s \in Sessions, TryHandleRequest(s) PROVE BridgeTypeOK'
    <2>1. PICK op \in {"create", "destroy"}, oneway \in BOOLEAN :
            /\ upq' = Sent(upq, [op |-> op, group |-> s, oneway |-> oneway])
            /\ worker' = IF oneway \/ up \in {"off", "dead"} THEN worker
                         ELSE [worker EXCEPT ![WorkerOf[s]] = [at |-> "get", sess |-> s]]
      BY <1>4 DEF TryHandleRequest
    <2>2. UpType'
      BY <1>4, <2>1, SentType DEF TryHandleRequest, UpType
    <2>3. worker' \in [BridgeWorkers -> WorkerStates]
      BY <2>1, AssignType DEF SessType
    <2>4. SessType'
      BY <1>4, <2>3 DEF TryHandleRequest, SessType
    <2>5. OwnType'
      BY <1>4 DEF TryHandleRequest, OwnType
    <2> QED BY <1>4, <2>2, <2>4, <2>5 DEF TryHandleRequest
  <1>5. ASSUME NEW s \in Sessions, TeardownErase(s) PROVE BridgeTypeOK'
    <2>1. worker' \in [BridgeWorkers -> WorkerStates]
      BY <1>5, AssignType DEF TeardownErase, SessType
    <2>2. SessType'
      BY <1>5, <2>1 DEF TeardownErase, SessType
    <2> QED BY <1>5, <2>2 DEF TeardownErase
  <1>6. ASSUME NEW s \in Sessions, TeardownDestroyGroup(s) PROVE BridgeTypeOK'
    <2>1. SessType'
      BY <1>6 DEF TeardownDestroyGroup, SessType
    <2>2. UpType'
      BY <1>6, SentType DEF TeardownDestroyGroup, UpType
    <2> QED BY <1>6, <2>1, <2>2 DEF TeardownDestroyGroup
  <1>7. ASSUME NEW s \in Sessions, SlotErased(s) PROVE BridgeTypeOK'
    <2>1. worker' \in [BridgeWorkers -> WorkerStates]
      BY <1>7, AssignType DEF SlotErased, SessType
    <2>2. SessType'
      BY <1>7, <2>1 DEF SlotErased, SessType
    <2> QED BY <1>7, <2>2 DEF SlotErased
  <1> QED
    BY <1>1, <1>2, <1>3, <1>4, <1>5, <1>6, <1>7 DEF TeardownStep

\* The steps of the upstream server and of the client's worker.
LEMMA BridgeUpstreamType ==
    ASSUME BridgeTypeOK, ClientWorkerStep \/ UpstreamHandles \/ UpstreamEmits \/ UpstreamLost
    PROVE  BridgeTypeOK'
  <1> USE BridgePartsUnchanged, BridgeRecords DEF BridgeTypeOK
  <1>1. CASE UpstreamHandles
    <2>1. Head(upq) \in UpFrames /\ Tail(upq) \in Seq(UpFrames) /\ Head(upq).group \in Sessions
      <3>1. Head(upq) \in UpFrames /\ Tail(upq) \in Seq(UpFrames)
        BY <1>1, TailHas DEF UpstreamHandles, UpType
      <3> QED BY <3>1 DEF UpFrames
    <2>2. objs[Head(upq).group] \in Nat
      BY <2>1 DEF UpType
    <2>3. objs' \in [Sessions -> Nat]
      <3> DEFINE n == objs[Head(upq).group]
                 v == CASE Head(upq).op = "create" -> n + 1
                        [] Head(upq).op = "destroy" -> IF n > 0 THEN n - 1 ELSE 0
                        [] OTHER -> 0
      <3>1. objs' = [objs EXCEPT ![Head(upq).group] = v]
        BY <1>1 DEF UpstreamHandles
      <3>2. v \in Nat
        <4> HIDE DEF n
        <4>1. n \in Nat
          BY <2>2 DEF n
        <4>2. CASE Head(upq).op = "create"
          BY <4>1, <4>2
        <4>3. CASE Head(upq).op = "destroy"
          BY <4>1, <4>3
        <4>4. CASE Head(upq).op \notin {"create", "destroy"}
          BY <4>4
        <4> QED BY <4>2, <4>3, <4>4
      <3> HIDE DEF v
      <3> QED BY <3>1, <3>2, AssignType DEF UpType
    <2>4. downq' \in Seq(DownFrames)
      <3>1. [kind |-> "response", of |-> Head(upq).group, ev |-> 0] \in DownFrames
        BY <2>1
      <3>2. \/ downq' = downq
            \/ downq' = Append(downq, [kind |-> "response", of |-> Head(upq).group, ev |-> 0])
        BY <1>1 DEF UpstreamHandles
      <3> QED BY <3>1, <3>2, AppendHas, SMTT(40) DEF DownType
    <2>5. UpType' /\ DownType'
      BY <1>1, <2>1, <2>3, <2>4 DEF UpstreamHandles, UpType, DownType
    <2> QED BY <1>1, <2>5 DEF UpstreamHandles
  <1>2. CASE UpstreamEmits
    <2>1. downq' \in Seq(DownFrames) /\ events' \in Nat
      BY <1>2, AppendHas DEF UpstreamEmits, DownType
    <2>2. DownType'
      BY <1>2, <2>1 DEF UpstreamEmits, DownType
    <2> QED BY <1>2, <2>2 DEF UpstreamEmits
  <1>3. CASE UpstreamLost
    <2>1. OwnType' /\ UpType'
      BY <1>3, EmptyHas DEF UpstreamLost, OwnType, UpType
    <2> QED BY <1>3, <2>1 DEF UpstreamLost
  <1>4. CASE ReceiveResponse
    <2>1. worker' \in [BridgeWorkers -> WorkerStates]
      BY <1>4, AssignType DEF ReceiveResponse, SessType
    <2>2. downq' \in Seq(DownFrames)
      BY <1>4, TailHas DEF ReceiveResponse, DownType
    <2>3. SessType' /\ DownType'
      BY <1>4, <2>1, <2>2 DEF ReceiveResponse, SessType, DownType
    <2> QED BY <1>4, <2>3 DEF ReceiveResponse
  <1>5. CASE ReceiveEvent
    <2>1. downq' \in Seq(DownFrames) /\ Head(downq).ev \in Nat
      <3>1. downq' \in Seq(DownFrames) /\ Head(downq) \in DownFrames
        BY <1>5, TailHas DEF ReceiveEvent, DownType
      <3> QED BY <3>1 DEF DownFrames
    <2>2. route' \in Routes
      BY <1>5, <2>1 DEF ReceiveEvent, Routes
    <2>3. DownType'
      BY <1>5, <2>1, <2>2 DEF ReceiveEvent, DownType
    <2> QED BY <1>5, <2>3 DEF ReceiveEvent
  <1>6. CASE RouteTargetsDone \/ RouteLocal
    <2>1. route' \in Routes
      BY <1>6 DEF RouteTargetsDone, RouteLocal, DownType, Routes
    <2>2. DownType'
      BY <1>6, <2>1 DEF RouteTargetsDone, RouteLocal, DownType
    <2> QED BY <1>6, <2>2 DEF RouteTargetsDone, RouteLocal
  <1>7. CASE UpstreamLossNoticed
    <2>1. OwnType' /\ SessType'
      BY <1>7 DEF UpstreamLossNoticed, OwnType, SessType
    <2> QED BY <1>7, <2>1 DEF UpstreamLossNoticed
  <1>8. ASSUME NEW s \in Sessions, RouteLock(s) PROVE BridgeTypeOK'
    <2>1. route' \in Routes
      BY <1>8 DEF RouteLock, DownType, Routes
    <2>2. DownType'
      BY <1>8, <2>1 DEF RouteLock, DownType
    <2> QED BY <1>8, <2>2 DEF RouteLock
  <1>9. ASSUME NEW s \in Sessions, RouteEmit(s) PROVE BridgeTypeOK'
    <2>1. route' \in Routes
      BY <1>9 DEF RouteEmit, DownType, Routes
    <2>2. Append(routed[s], route.ev) \in Seq(Nat)
      BY AppendHas DEF DownType, Routes
    <2>3. routed' \in [Sessions -> Seq(Nat)]
      BY <1>9, <2>2 DEF RouteEmit, DownType
    <2>4. DownType'
      BY <1>9, <2>1, <2>3 DEF RouteEmit, DownType
    <2> QED BY <1>9, <2>4 DEF RouteEmit
  <1> QED
    BY <1>1, <1>2, <1>3, <1>4, <1>5, <1>6, <1>7, <1>8, <1>9 DEF ClientWorkerStep

\* Type correctness of the bridge.
THEOREM BridgeTypeCorrect == BridgeSpec => []BridgeTypeOK
  <1>1. BridgeInit => BridgeTypeOK
    <2> SUFFICES ASSUME BridgeInit PROVE BridgeTypeOK
      OBVIOUS
    <2>1. << >> \in Seq(UpFrames) /\ << >> \in Seq(DownFrames) /\ << >> \in Seq(Nat)
      BY EmptyHas
    <2>2. OwnType /\ SessType
      BY BridgeRecords DEF BridgeInit, OwnType, SessType
    <2>3. UpType /\ DownType
      BY <2>1, BridgeRecords DEF BridgeInit, UpType, DownType
    <2> QED BY <2>2, <2>3 DEF BridgeTypeOK
  <1>2. BridgeTypeOK /\ [BridgeNext]_bridgeVars => BridgeTypeOK'
    <2> SUFFICES ASSUME BridgeTypeOK, [BridgeNext]_bridgeVars PROVE BridgeTypeOK'
      OBVIOUS
    <2>1. CASE UNCHANGED bridgeVars
      BY <2>1, BridgePartsUnchanged DEF bridgeVars, BridgeTypeOK
    <2> QED
      BY <2>1, BridgeSessionsType, BridgeUpstreamType DEF BridgeNext
  <1> QED
    BY <1>1, <1>2, PTL DEF BridgeSpec
-----------------------------------------------------------------------------
(***************************************************************************)
(* Broadcasts and the teardown of sessions.                                *)
(***************************************************************************)
\* One broadcast of route_event(): its targets were registered, the one it
\* holds is not deactivated, and what it has passed has the event, unless a
\* target is not open any more.
RouteInv ==
    /\ route.holds \subseteq route.all /\ route.left \subseteq route.all
    /\ route.holds \cap route.left = {}
    /\ \A a, b \in route.holds : a = b
    /\ \A s \in route.holds : sess[s] \notin {"inactive", "destroying", "gone"}
    /\ \A s \in route.all : sess[s] # "none"
    /\ route.at # "targets" => route.left = {} /\ route.holds = {}
    /\ (\A s \in route.all : sess[s] = "open") =>
         \A s \in route.all \ (route.left \cup route.holds) : Has(routed[s], route.ev)

\* How a session's state may move.
SessMoves(s) ==
    /\ sess'[s] = "open" => sess[s] \in {"open", "none"}
    /\ sess'[s] = "none" => sess[s] = "none"
    /\ sess'[s] \in {"inactive", "destroying", "gone"} =>
         sess[s] \in {"inactive", "destroying", "gone"} \/ s \notin route.holds

\* The steps of the bridge as a broadcast sees them.
LEMMA RouteSteps ==
    ASSUME BridgeTypeOK, BridgeNext
    PROVE  \/ (\A s \in Sessions : SessMoves(s)) /\ UNCHANGED <<route, routed>>
           \/ UNCHANGED sess /\ (ReceiveEvent \/ RouteTargetsDone \/ RouteLocal)
           \/ UNCHANGED sess /\ \E s \in Sessions : RouteLock(s) \/ RouteEmit(s)
  <1> USE DEF BridgeTypeOK, SessType, SessMoves
  <1>1. CASE BridgeStart \/ BridgeStop \/ UpstreamDisconnect
    BY <1>1 DEF BridgeStart, BridgeStop, UpstreamDisconnect
  <1>2. ASSUME NEW s \in Sessions,
               \/ OnSessionCreated(s) \/ PeerGone(s) \/ BridgeDisconnect(s)
               \/ TryHandleRequest(s)
        PROVE  (\A q \in Sessions : SessMoves(q)) /\ UNCHANGED <<route, routed>>
    BY <1>2 DEF OnSessionCreated, PeerGone, BridgeDisconnect, TryHandleRequest
  <1>3. CASE TeardownStep
    BY <1>3 DEF TeardownStep, TeardownErase, TeardownDeactivate, TeardownDestroyGroup,
                SlotErased
  <1>4. CASE ClientWorkerStep
    BY <1>4 DEF ClientWorkerStep, ReceiveResponse, ReceiveEvent, RouteTargetsDone, RouteLocal,
                UpstreamLossNoticed, RouteLock, RouteEmit
  <1>5. CASE UpstreamHandles \/ UpstreamEmits \/ UpstreamLost
    BY <1>5 DEF UpstreamHandles, UpstreamEmits, UpstreamLost
  <1> QED
    BY <1>1, <1>2, <1>3, <1>4, <1>5 DEF BridgeNext

\* Each step keeps the broadcast's books.
LEMMA RouteStep ==
    ASSUME BridgeTypeOK, RouteInv, [BridgeNext]_bridgeVars
    PROVE  RouteInv'
  <1>0. route \in Routes /\ route.all \subseteq Sessions /\ routed \in [Sessions -> Seq(Nat)]
        /\ route.ev \in Nat
    BY DEF BridgeTypeOK, DownType, Routes
  <1>1. CASE (\A s \in Sessions : SessMoves(s)) /\ UNCHANGED <<route, routed>>
    <2>1. \A s \in route.all : SessMoves(s)
      BY <1>0, <1>1
    <2>2. \A s \in route.all : sess'[s] # "none"
      BY <2>1 DEF SessMoves, RouteInv
    <2>3. \A s \in route.holds : sess'[s] \notin {"inactive", "destroying", "gone"}
      BY <2>1 DEF SessMoves, RouteInv
    <2>4. (\A s \in route.all : sess'[s] = "open") => \A s \in route.all : sess[s] = "open"
      BY <2>1 DEF SessMoves, RouteInv
    <2> QED BY <1>1, <2>2, <2>3, <2>4 DEF RouteInv
  <1>2. CASE ReceiveEvent /\ UNCHANGED sess
    <2> DEFINE targets == {s \in Sessions : Registered(s)}
    <2>1. /\ route'.at = "targets" /\ route'.all = targets /\ route'.left = targets
          /\ route'.holds = {}
      BY <1>2 DEF ReceiveEvent
    <2>2. \A s \in targets : sess[s] # "none"
      BY DEF Registered
    <2> HIDE DEF targets
    <2> QED BY <1>2, <2>1, <2>2 DEF RouteInv
  <1>3. CASE RouteTargetsDone /\ UNCHANGED sess
    <2>1. /\ route' = [route EXCEPT !.at = "local"] /\ route.left = {} /\ route.holds = {}
          /\ UNCHANGED routed
      BY <1>3 DEF RouteTargetsDone
    <2>2. /\ route'.all = route.all /\ route'.left = route.left /\ route'.holds = route.holds
          /\ route'.ev = route.ev
      BY <1>0, <2>1 DEF Routes
    <2> QED BY <1>3, <2>1, <2>2 DEF RouteInv
  <1>4. CASE RouteLocal /\ UNCHANGED sess
    <2>1. route'.all = {} /\ route'.left = {} /\ route'.holds = {}
      BY <1>4 DEF RouteLocal, NoRoute
    <2> QED BY <2>1 DEF RouteInv
  <1>5. ASSUME NEW s \in Sessions, RouteLock(s), UNCHANGED sess PROVE RouteInv'
    <2>1. /\ route.at = "targets" /\ route.holds = {} /\ s \in route.left /\ UNCHANGED routed
          /\ route' = [route EXCEPT !.left = @ \ {s},
                                    !.holds = IF sess[s] \in {"inactive", "destroying", "gone"}
                                              THEN {} ELSE {s}]
      BY <1>5 DEF RouteLock
    <2>2. /\ route'.at = "targets" /\ route'.all = route.all /\ route'.left = route.left \ {s}
          /\ route'.holds = IF sess[s] \in {"inactive", "destroying", "gone"} THEN {} ELSE {s}
          /\ route'.ev = route.ev
      BY <1>0, <2>1 DEF Routes
    <2>3. CASE sess[s] \in {"inactive", "destroying", "gone"}
      <3>1. route'.holds = {} /\ s \in route.all /\ sess[s] # "open"
        BY <2>1, <2>2, <2>3 DEF RouteInv
      <3> QED BY <1>5, <2>1, <2>2, <3>1 DEF RouteInv
    <2>4. CASE sess[s] \notin {"inactive", "destroying", "gone"}
      <3>1. route'.holds = {s} /\ s \in route.all
        BY <2>1, <2>2, <2>4 DEF RouteInv
      <3> QED BY <1>5, <2>1, <2>2, <2>4, <3>1 DEF RouteInv
    <2> QED BY <2>3, <2>4
  <1>6. ASSUME NEW s \in Sessions, RouteEmit(s), UNCHANGED sess PROVE RouteInv'
    <2>1. CASE sess[s] = "closed"
      <3>1. /\ s \in route.holds /\ UNCHANGED routed
            /\ route' = [route EXCEPT !.at = "local", !.left = {}, !.holds = {}]
        BY <1>6, <2>1 DEF RouteEmit
      <3>2. route'.all = route.all /\ route'.left = {} /\ route'.holds = {}
        BY <1>0, <3>1 DEF Routes
      <3>3. s \in route.all /\ sess[s] # "open"
        BY <2>1, <3>1 DEF RouteInv
      <3> QED BY <1>6, <3>2, <3>3 DEF RouteInv
    <2>2. CASE sess[s] # "closed"
      <3>1. /\ s \in route.holds
            /\ route' = [route EXCEPT !.holds = {}]
            /\ routed' = [routed EXCEPT ![s] = Append(@, route.ev)]
        BY <1>6, <2>2 DEF RouteEmit
      <3>2. /\ route'.at = route.at /\ route'.all = route.all /\ route'.left = route.left
            /\ route'.holds = {} /\ route'.ev = route.ev
        BY <1>0, <3>1 DEF Routes
      <3>3. \A q \in Sessions : Has(routed[q], route.ev) \/ q = s => Has(routed'[q], route.ev)
        <4>1. Has(Append(routed[s], route.ev), route.ev)
          BY <1>0, AppendHas
        <4> QED BY <1>0, <3>1, <4>1
      <3>4. \A q \in route.all : q \in route.holds => q = s
        BY <3>1 DEF RouteInv
      <3>5. (\A q \in route.all : sess[q] = "open") =>
              \A q \in route.all \ route.left : Has(routed'[q], route.ev)
        BY <1>0, <3>3, <3>4 DEF RouteInv
      <3> QED BY <1>6, <3>2, <3>5 DEF RouteInv
    <2> QED BY <2>1, <2>2
  <1>7. UNCHANGED bridgeVars => (\A s \in Sessions : SessMoves(s)) /\ UNCHANGED <<route, routed>>
    BY DEF bridgeVars, SessMoves
  <1> QED
    BY <1>1, <1>2, <1>3, <1>4, <1>5, <1>6, <1>7, RouteSteps

\* RouteInv is an invariant of the bridge.
LEMMA RoutesCorrect == BridgeSpec => []RouteInv
  <1>1. BridgeInit => RouteInv
    BY DEF BridgeInit, RouteInv, NoRoute
  <1> QED
    BY <1>1, RouteStep, BridgeTypeCorrect, PTL DEF BridgeSpec

\* An emit never runs on a connection that is destroyed, however the
\* broadcasts of the client's worker and the teardowns of the dispatch workers
\* interleave.
THEOREM NoEmitAfterTeardownHolds == BridgeSpec => []NoEmitAfterTeardown
  <1>1. RouteInv => NoEmitAfterTeardown
    BY DEF RouteInv, NoEmitAfterTeardown
  <1> QED
    BY <1>1, RoutesCorrect, PTL
-----------------------------------------------------------------------------
(***************************************************************************)
(* The order of the events that sessions get.                              *)
(***************************************************************************)
\* Event e is among the frames of q.
Waiting(q, e) == \E k \in 1 .. Len(q) : q[k].kind = "event" /\ q[k].ev = e

\* The events of q come in ascending order.
WaitingAscend(q) ==
    \A j, k \in 1 .. Len(q) :
        j < k /\ q[j].kind = "event" /\ q[k].kind = "event" => q[j].ev < q[k].ev

\* What was routed to a session came in order; an event under way, and more
\* so one still to be received, is later than all of it.
RoutedInv ==
    /\ \A s \in Sessions : Ascending(routed[s])
    /\ WaitingAscend(downq)
    /\ \A e \in Nat : Waiting(downq, e) => 0 < e /\ e <= events /\ route.ev < e
    /\ \A s \in Sessions, d \in Nat : Has(routed[s], d) =>
         /\ d <= events
         /\ \A e \in Nat : Waiting(downq, e) => d < e
         /\ s \in route.left \cup route.holds => d < route.ev
    /\ route.ev <= events

\* Frames that arrive from upstream.
LEMMA WaitingAppend ==
    ASSUME NEW q \in Seq(DownFrames), NEW f \in DownFrames
    PROVE  /\ \A e \in Nat : Waiting(Append(q, f), e) => Waiting(q, e) \/ (f.kind = "event" /\ f.ev = e)
           /\ WaitingAscend(q) /\ (f.kind = "event" => \A e \in Nat : Waiting(q, e) => e < f.ev)
                => WaitingAscend(Append(q, f))
  <1> DEFINE t == Append(q, f)
             n == Len(q)
  <1>1. /\ n \in Nat /\ Len(t) = n + 1 /\ t[n + 1] = f
        /\ \A k \in 1 .. n : t[k] = q[k] /\ q[k] \in DownFrames
    OBVIOUS
  <1> HIDE DEF t
  <1>2. \A k \in 1 .. Len(t) : k \in 1 .. n \/ k = n + 1
    BY <1>1
  <1>3. ASSUME NEW e \in Nat, Waiting(t, e)
        PROVE  Waiting(q, e) \/ (f.kind = "event" /\ f.ev = e)
    BY <1>1, <1>2, <1>3 DEF Waiting
  <1>4. ASSUME WaitingAscend(q), f.kind = "event" => \A e \in Nat : Waiting(q, e) => e < f.ev
        PROVE  WaitingAscend(t)
    <2> SUFFICES ASSUME NEW j \in 1 .. Len(t), NEW k \in 1 .. Len(t), j < k,
                        t[j].kind = "event", t[k].kind = "event"
                 PROVE  t[j].ev < t[k].ev
      BY DEF WaitingAscend
    <2>1. j \in 1 .. n
      BY <1>1
    <2>2. CASE k \in 1 .. n
      BY <1>1, <1>4, <2>1, <2>2 DEF WaitingAscend
    <2>3. CASE k = n + 1
      <3>1. Waiting(q, q[j].ev)
        BY <1>1, <2>1 DEF Waiting
      <3>2. q[j].ev \in Nat
        BY <1>1, <2>1 DEF DownFrames
      <3> QED BY <1>1, <1>4, <2>1, <2>3, <3>1, <3>2
    <2> QED BY <1>2, <2>2, <2>3
  <1> QED BY <1>3, <1>4 DEF t

\* Taking the first frame.
LEMMA WaitingTail ==
    ASSUME NEW q \in Seq(DownFrames), q # << >>
    PROVE  /\ \A e \in Nat : Waiting(Tail(q), e) => Waiting(q, e)
           /\ Head(q).kind = "event" => Waiting(q, Head(q).ev)
           /\ WaitingAscend(q) =>
                /\ WaitingAscend(Tail(q))
                /\ Head(q).kind = "event" => \A e \in Nat : Waiting(Tail(q), e) => Head(q).ev < e
  <1> DEFINE t == Tail(q)
             n == Len(q)
             h == Head(q)
  <1>1. /\ n \in Nat /\ n > 0 /\ Len(t) = n - 1 /\ q[1] = h /\ 1 \in 1 .. n
        /\ \A k \in 1 .. n - 1 : t[k] = q[k + 1] /\ k + 1 \in 1 .. n /\ 1 < k + 1
    OBVIOUS
  <1> HIDE DEF t, h
  <1>2. \A e \in Nat : Waiting(t, e) => Waiting(q, e)
    BY <1>1 DEF Waiting
  <1>3. h.kind = "event" => Waiting(q, h.ev)
    BY <1>1 DEF Waiting
  <1>4. WaitingAscend(q) => WaitingAscend(t)
    BY <1>1 DEF WaitingAscend
  <1>5. ASSUME WaitingAscend(q), h.kind = "event", NEW e \in Nat, Waiting(t, e)
        PROVE  h.ev < e
    <2>1. PICK k \in 1 .. Len(t) : t[k].kind = "event" /\ t[k].ev = e
      BY <1>5 DEF Waiting
    <2> QED BY <1>1, <1>5, <2>1 DEF WaitingAscend
  <1> QED BY <1>2, <1>3, <1>4, <1>5 DEF t, h

\* The steps of the bridge as the routed events see them.
LEMMA RoutedSteps ==
    ASSUME BridgeNext
    PROVE  \/ UNCHANGED <<routed, downq, route, events>>
           \/ UpstreamHandles \/ UpstreamEmits \/ ReceiveResponse \/ ReceiveEvent
           \/ RouteTargetsDone \/ RouteLocal
           \/ downq' = << >> /\ UNCHANGED <<routed, route, events>>
           \/ \E s \in Sessions : RouteLock(s) \/ RouteEmit(s)
  BY DEF BridgeNext, BridgeStart, BridgeStop, UpstreamDisconnect, OnSessionCreated, PeerGone,
         BridgeDisconnect, TryHandleRequest, TeardownStep, TeardownErase, TeardownDeactivate,
         TeardownDestroyGroup, SlotErased, ClientWorkerStep, UpstreamLossNoticed, UpstreamLost

\* Each step keeps the events in order.
LEMMA RoutedStep ==
    ASSUME BridgeTypeOK, RouteInv, RoutedInv, [BridgeNext]_bridgeVars
    PROVE  RoutedInv'
  <1>0. /\ downq \in Seq(DownFrames) /\ events \in Nat /\ routed \in [Sessions -> Seq(Nat)]
        /\ route \in Routes /\ route.ev \in Nat
    BY DEF BridgeTypeOK, DownType, Routes
  <1>1. CASE UNCHANGED <<routed, downq, route, events>>
    BY <1>1 DEF RoutedInv
  <1>2. CASE downq' = << >> /\ UNCHANGED <<routed, route, events>>
    <2>1. WaitingAscend(downq') /\ \A e : ~Waiting(downq', e)
      BY <1>2 DEF WaitingAscend, Waiting
    <2> QED BY <1>2, <2>1 DEF RoutedInv
  <1>3. CASE UpstreamHandles
    <2>1. UNCHANGED <<routed, route, events>>
      BY <1>3 DEF UpstreamHandles
    <2>2. WaitingAscend(downq') /\ \A e \in Nat : Waiting(downq', e) => Waiting(downq, e)
      <3>1. CASE downq' = downq
        BY <3>1 DEF RoutedInv
      <3>2. CASE downq' = Append(downq, [kind |-> "response", of |-> Head(upq).group, ev |-> 0])
        <4> DEFINE f == [kind |-> "response", of |-> Head(upq).group, ev |-> 0]
        <4>1. Head(upq) \in UpFrames
          BY <1>3, TailHas DEF UpstreamHandles, BridgeTypeOK, UpType
        <4>2. f \in DownFrames /\ f.kind # "event"
          BY <4>1 DEF UpFrames, DownFrames
        <4> HIDE DEF f
        <4> QED BY <1>0, <3>2, <4>2, WaitingAppend DEF RoutedInv, f
      <3> QED BY <1>3, <3>1, <3>2 DEF UpstreamHandles
    <2> QED BY <2>1, <2>2 DEF RoutedInv
  <1>4. CASE UpstreamEmits
    <2> DEFINE f == [kind |-> "event", of |-> "none", ev |-> events + 1]
    <2>1. UNCHANGED <<routed, route>> /\ events' = events + 1 /\ downq' = Append(downq, f)
      BY <1>4 DEF UpstreamEmits
    <2>2. f \in DownFrames /\ f.kind = "event" /\ f.ev = events' /\ events' \in Nat
      BY <1>0, <2>1 DEF DownFrames
    <2> HIDE DEF f
    <2>3. /\ \A e \in Nat : e <= events => e < events' /\ e <= events'
          /\ 0 < events' /\ events' <= events' /\ route.ev < events' /\ route.ev <= events'
      BY <1>0, <2>1 DEF RoutedInv
    <2>4. \A e \in Nat : Waiting(downq, e) => e < f.ev
      BY <2>2, <2>3 DEF RoutedInv
    <2>5. WaitingAscend(downq')
      BY <1>0, <2>1, <2>2, <2>4, WaitingAppend DEF RoutedInv
    <2>6. \A e \in Nat : Waiting(downq', e) => Waiting(downq, e) \/ e = events'
      BY <1>0, <2>1, <2>2, WaitingAppend
    <2> QED BY <2>1, <2>3, <2>5, <2>6 DEF RoutedInv
  <1>5. CASE ReceiveResponse
    <2>1. UNCHANGED <<routed, route, events>> /\ downq # << >> /\ downq' = Tail(downq)
      BY <1>5 DEF ReceiveResponse
    <2>2. WaitingAscend(downq') /\ \A e \in Nat : Waiting(downq', e) => Waiting(downq, e)
      BY <1>0, <2>1, WaitingTail DEF RoutedInv
    <2> QED BY <2>1, <2>2 DEF RoutedInv
  <1>6. CASE ReceiveEvent
    <2>1. /\ UNCHANGED <<routed, events>> /\ downq # << >> /\ downq' = Tail(downq)
          /\ Head(downq).kind = "event" /\ route'.ev = Head(downq).ev
      BY <1>6 DEF ReceiveEvent
    <2>2. Head(downq) \in DownFrames
      BY <1>0, <2>1, TailHas
    <2>3. route'.ev \in Nat
      BY <2>1, <2>2 DEF DownFrames
    <2>4. /\ WaitingAscend(downq') /\ \A e \in Nat : Waiting(downq', e) => Waiting(downq, e)
          /\ Waiting(downq, route'.ev)
          /\ \A e \in Nat : Waiting(downq', e) => route'.ev < e
      BY <1>0, <2>1, WaitingTail DEF RoutedInv
    <2> QED BY <2>1, <2>3, <2>4 DEF RoutedInv
  <1>7. CASE RouteTargetsDone
    <2>1. /\ UNCHANGED <<routed, events, downq>> /\ route'.ev = route.ev
          /\ route'.left = route.left /\ route'.holds = route.holds
      BY <1>0, <1>7 DEF RouteTargetsDone, Routes
    <2> QED BY <2>1 DEF RoutedInv
  <1>8. CASE RouteLocal
    <2>1. /\ UNCHANGED <<routed, events, downq>> /\ route'.ev = 0
          /\ route'.left = {} /\ route'.holds = {}
      BY <1>8 DEF RouteLocal, NoRoute
    <2>2. 0 <= events
      BY <1>0
    <2> QED BY <2>1, <2>2 DEF RoutedInv
  <1>9. ASSUME NEW s \in Sessions, RouteLock(s) PROVE RoutedInv'
    <2>1. /\ UNCHANGED <<routed, events, downq>> /\ s \in route.left
          /\ route' = [route EXCEPT !.left = @ \ {s},
                                    !.holds = IF sess[s] \in {"inactive", "destroying", "gone"}
                                              THEN {} ELSE {s}]
      BY <1>9 DEF RouteLock
    <2>2. /\ route'.left = route.left \ {s} /\ route'.ev = route.ev
          /\ route'.holds = IF sess[s] \in {"inactive", "destroying", "gone"} THEN {} ELSE {s}
      BY <1>0, <2>1 DEF Routes
    <2>3. route'.left \cup route'.holds \subseteq route.left \cup route.holds
      BY <2>1, <2>2
    <2> QED BY <2>1, <2>2, <2>3 DEF RoutedInv
  <1>10. ASSUME NEW s \in Sessions, RouteEmit(s) PROVE RoutedInv'
    <2>1. CASE sess[s] = "closed"
      <3>1. /\ UNCHANGED <<routed, events, downq>>
            /\ route' = [route EXCEPT !.at = "local", !.left = {}, !.holds = {}]
        BY <1>10, <2>1 DEF RouteEmit
      <3>2. route'.left = {} /\ route'.holds = {} /\ route'.ev = route.ev
        BY <1>0, <3>1 DEF Routes
      <3> QED BY <3>1, <3>2 DEF RoutedInv
    <2>2. CASE sess[s] # "closed"
      <3>1. /\ UNCHANGED <<events, downq>> /\ s \in route.holds
            /\ route' = [route EXCEPT !.holds = {}]
            /\ routed' = [routed EXCEPT ![s] = Append(@, route.ev)]
        BY <1>10, <2>2 DEF RouteEmit
      <3>2. route'.left = route.left /\ route'.holds = {} /\ route'.ev = route.ev
        BY <1>0, <3>1 DEF Routes
      <3>3. s \notin route'.left
        BY <3>1, <3>2 DEF RouteInv
      <3>4. /\ \A q \in Sessions : q # s => routed'[q] = routed[q]
            /\ routed'[s] = Append(routed[s], route.ev)
        BY <1>0, <3>1
      <3>5. \A d \in Nat : Has(routed[s], d) => d < route.ev
        BY <3>1 DEF RoutedInv
      <3>6. Ascending(routed'[s])
        BY <1>0, <3>4, <3>5, AscendingSteps, ZenonT(40) DEF RoutedInv
      <3>7. \A d \in Nat : Has(routed'[s], d) => Has(routed[s], d) \/ d = route.ev
        BY <1>0, <3>4, AppendHas
      <3>8. ASSUME NEW q \in Sessions, NEW d \in Nat, Has(routed'[q], d)
            PROVE  /\ d <= events
                   /\ \A e \in Nat : Waiting(downq, e) => d < e
                   /\ q \in route'.left \cup route'.holds => d < route.ev
        <4>1. CASE q = s
          BY <3>2, <3>3, <3>7, <3>8, <4>1 DEF RoutedInv
        <4>2. CASE q # s
          BY <3>2, <3>4, <3>8, <4>2 DEF RoutedInv
        <4> QED BY <4>1, <4>2
      <3>9. \A q \in Sessions : Ascending(routed'[q])
        BY <3>4, <3>6 DEF RoutedInv
      <3> QED BY <3>1, <3>2, <3>8, <3>9 DEF RoutedInv
    <2> QED BY <2>1, <2>2
  <1>11. UNCHANGED bridgeVars => UNCHANGED <<routed, downq, route, events>>
    BY DEF bridgeVars
  <1> QED
    BY <1>1, <1>2, <1>3, <1>4, <1>5, <1>6, <1>7, <1>8, <1>9, <1>10, <1>11, RoutedSteps

\* Sessions get the upstream server's events in order and at most once, and a
\* broadcast that met only open connections has reached all of them.
THEOREM EventsReachTheOpenHolds == BridgeSpec => []EventsReachTheOpen
  <1>1. BridgeInit => RoutedInv
    <2> SUFFICES ASSUME BridgeInit PROVE RoutedInv
      OBVIOUS
    <2>1. Ascending(<< >>) /\ WaitingAscend(<< >>) /\ \A e : ~Waiting(<< >>, e)
      BY DEF Ascending, WaitingAscend, Waiting
    <2> QED BY <2>1, EmptyHas DEF BridgeInit, RoutedInv, NoRoute
  <1>2. BridgeTypeOK /\ RouteInv /\ RoutedInv => EventsReachTheOpen
    <2> SUFFICES ASSUME BridgeTypeOK, RouteInv, RoutedInv PROVE EventsReachTheOpen
      OBVIOUS
    <2>1. ASSUME NEW s \in Sessions, NEW i \in DOMAIN routed[s], NEW j \in DOMAIN routed[s], i < j
          PROVE  routed[s][i] < routed[s][j]
      <3>1. routed[s] \in Seq(Nat)
        BY DEF BridgeTypeOK, DownType
      <3>2. DOMAIN routed[s] = 1 .. Len(routed[s])
        BY <3>1
      <3> QED BY <2>1, <3>2 DEF RoutedInv, Ascending
    <2>2. route.at = "local" /\ (\A s \in route.all : sess[s] = "open") =>
            \A s \in route.all : Contains(routed[s], route.ev)
      BY DEF RouteInv, Has, Contains
    <2> QED BY <2>1, <2>2 DEF EventsReachTheOpen
  <1> QED
    BY <1>1, <1>2, RoutedStep, RoutesCorrect, BridgeTypeCorrect, PTL DEF BridgeSpec
-----------------------------------------------------------------------------
(***************************************************************************)
(* What a session leaves on the upstream server.                           *)
(***************************************************************************)
IsCreate(f, s) == f.op = "create" /\ f.group = s
IsDestroyGroup(f, s) == f.op = "destroy_group" /\ f.group = s

\* The destruction of s's group is on its way.
Destroys(q, s) == \E i \in 1 .. Len(q) : IsDestroyGroup(q[i], s)

\* Every creation in s's group that is on its way has the destruction of the
\* group behind it.
Covered(q, s) ==
    \A k \in 1 .. Len(q) : IsCreate(q[k], s) =>
        \E i \in 1 .. Len(q) : i > k /\ IsDestroyGroup(q[i], s)

\* Without a connection nothing is on its way upstream and nothing exists
\* there; a session that told the upstream server to destroy its group has
\* nothing there that will not be destroyed.
GroupInv ==
    /\ up # "on" => upq = << >> /\ \A s \in Sessions : objs[s] = 0
    /\ \A s \in Sessions : sess[s] \in {"destroying", "gone"} =>
         Covered(upq, s) /\ (objs[s] > 0 => Destroys(upq, s))

\* Frames that are sent upstream.
LEMMA GroupAppend ==
    ASSUME NEW q \in Seq(UpFrames), NEW f \in UpFrames, NEW s \in Sessions
    PROVE  /\ Destroys(q, s) \/ IsDestroyGroup(f, s) => Destroys(Append(q, f), s)
           /\ Covered(q, s) /\ ~IsCreate(f, s) => Covered(Append(q, f), s)
           /\ IsDestroyGroup(f, s) => Covered(Append(q, f), s)
  <1> DEFINE t == Append(q, f)
             n == Len(q)
  <1>1. /\ n \in Nat /\ Len(t) = n + 1 /\ t[n + 1] = f /\ n + 1 \in 1 .. Len(t)
        /\ \A k \in 1 .. n : t[k] = q[k] /\ k \in 1 .. Len(t) /\ n + 1 > k
        /\ \A k \in 1 .. Len(t) : k \in 1 .. n \/ k = n + 1
    OBVIOUS
  <1> HIDE DEF t
  <1>2. Destroys(q, s) \/ IsDestroyGroup(f, s) => Destroys(t, s)
    BY <1>1 DEF Destroys
  <1>3. ASSUME Covered(q, s), ~IsCreate(f, s) PROVE Covered(t, s)
    <2> SUFFICES ASSUME NEW k \in 1 .. Len(t), IsCreate(t[k], s)
                 PROVE  \E i \in 1 .. Len(t) : i > k /\ IsDestroyGroup(t[i], s)
      BY DEF Covered
    <2>1. k \in 1 .. n /\ IsCreate(q[k], s)
      BY <1>1, <1>3
    <2>2. PICK i \in 1 .. Len(q) : i > k /\ IsDestroyGroup(q[i], s)
      BY <1>3, <2>1 DEF Covered
    <2> QED BY <1>1, <2>2
  <1>4. ASSUME IsDestroyGroup(f, s) PROVE Covered(t, s)
    <2>1. ~IsCreate(f, s)
      BY <1>4 DEF IsDestroyGroup, IsCreate
    <2> QED BY <1>1, <1>4, <2>1 DEF Covered
  <1> QED BY <1>2, <1>3, <1>4 DEF t

\* The upstream server takes the first frame.
LEMMA GroupTail ==
    ASSUME NEW q \in Seq(UpFrames), NEW s \in Sessions, q # << >>
    PROVE  /\ Destroys(q, s) /\ ~IsDestroyGroup(Head(q), s) => Destroys(Tail(q), s)
           /\ Covered(q, s) => Covered(Tail(q), s)
           /\ Covered(q, s) /\ IsCreate(Head(q), s) => Destroys(Tail(q), s)
  <1> DEFINE t == Tail(q)
             n == Len(q)
             h == Head(q)
  <1>1. /\ n \in Nat /\ n > 0 /\ Len(t) = n - 1 /\ q[1] = h /\ 1 \in 1 .. n
        /\ \A k \in 1 .. Len(t) : t[k] = q[k + 1] /\ k + 1 \in 1 .. n
        /\ \A k \in 1 .. n : k # 1 => k - 1 \in 1 .. Len(t) /\ t[k - 1] = q[k]
        /\ \A j \in 1 .. Len(t), k \in 1 .. n : k > j + 1 => k # 1 /\ k - 1 > j
        /\ \A k \in 1 .. n : k > 1 => k # 1
    OBVIOUS
  <1> HIDE DEF t, h, n
  <1>2. ASSUME Destroys(q, s), ~IsDestroyGroup(h, s) PROVE Destroys(t, s)
    <2>1. PICK i \in 1 .. n : IsDestroyGroup(q[i], s)
      BY <1>2 DEF Destroys, n
    <2>2. i # 1
      BY <1>1, <1>2, <2>1
    <2> QED BY <1>1, <2>1, <2>2 DEF Destroys
  <1>3. ASSUME Covered(q, s), NEW k \in 1 .. Len(t), IsCreate(t[k], s)
        PROVE  \E i \in 1 .. Len(t) : i > k /\ IsDestroyGroup(t[i], s)
    <2>1. k + 1 \in 1 .. n /\ IsCreate(q[k + 1], s)
      BY <1>1, <1>3
    <2>2. PICK i \in 1 .. n : i > k + 1 /\ IsDestroyGroup(q[i], s)
      BY <1>3, <2>1 DEF Covered, n
    <2> QED BY <1>1, <2>2
  <1>4. ASSUME Covered(q, s), IsCreate(h, s) PROVE Destroys(t, s)
    <2>1. PICK i \in 1 .. n : i > 1 /\ IsDestroyGroup(q[i], s)
      BY <1>1, <1>4 DEF Covered, n
    <2> QED BY <1>1, <2>1 DEF Destroys
  <1> QED BY <1>2, <1>3, <1>4 DEF Covered, t, h

\* The steps of the bridge as the groups see them.
LEMMA GroupSteps ==
    ASSUME BridgeTypeOK, BridgeNext
    PROVE  \/ /\ \A s \in Sessions : sess'[s] \in {"destroying", "gone"} =>
                                        sess[s] \in {"destroying", "gone"}
              /\ UNCHANGED <<upq, objs>> /\ (up' # "on" => up # "on")
           \/ /\ upq' = << >> /\ objs' = [s \in Sessions |-> 0] /\ UNCHANGED sess
           \/ UpstreamHandles
           \/ \E s \in Sessions : TryHandleRequest(s) \/ TeardownDestroyGroup(s)
  <1> USE DEF BridgeTypeOK, SessType, OwnType
  <1>1. CASE BridgeStart \/ BridgeStop \/ UpstreamDisconnect \/ UpstreamLost \/ UpstreamEmits
    BY <1>1 DEF BridgeStart, BridgeStop, UpstreamDisconnect, UpstreamLost, UpstreamEmits
  <1>2. ASSUME NEW s \in Sessions,
               \/ OnSessionCreated(s) \/ PeerGone(s) \/ BridgeDisconnect(s)
               \/ TeardownErase(s) \/ TeardownDeactivate(s) \/ SlotErased(s)
        PROVE  /\ \A q \in Sessions : sess'[q] \in {"destroying", "gone"} =>
                                        sess[q] \in {"destroying", "gone"}
               /\ UNCHANGED <<upq, objs, up>>
    BY <1>2 DEF OnSessionCreated, PeerGone, BridgeDisconnect, TeardownErase,
                TeardownDeactivate, SlotErased
  <1>3. CASE ClientWorkerStep
    BY <1>3 DEF ClientWorkerStep, ReceiveResponse, ReceiveEvent, RouteTargetsDone, RouteLocal,
                UpstreamLossNoticed, RouteLock, RouteEmit
  <1> QED
    BY <1>1, <1>2, <1>3 DEF BridgeNext, TeardownStep

\* Each step keeps the groups' books.
LEMMA GroupStep ==
    ASSUME BridgeTypeOK, GroupInv, [BridgeNext]_bridgeVars
    PROVE  GroupInv'
  <1>0. upq \in Seq(UpFrames) /\ objs \in [Sessions -> Nat]
    BY DEF BridgeTypeOK, UpType
  <1>1. CASE /\ \A s \in Sessions : sess'[s] \in {"destroying", "gone"} =>
                                       sess[s] \in {"destroying", "gone"}
             /\ UNCHANGED <<upq, objs>> /\ (up' # "on" => up # "on")
    BY <1>1 DEF GroupInv
  <1>2. CASE upq' = << >> /\ objs' = [s \in Sessions |-> 0] /\ UNCHANGED sess
    <2>1. \A s : Covered(upq', s)
      BY <1>2 DEF Covered
    <2> QED BY <1>2, <2>1 DEF GroupInv
  <1>3. CASE UpstreamHandles
    <2> DEFINE r == Head(upq)
               n == objs[r.group]
               v == CASE r.op = "create" -> n + 1
                      [] r.op = "destroy" -> IF n > 0 THEN n - 1 ELSE 0
                      [] OTHER -> 0
    <2>1. /\ up = "on" /\ upq # << >> /\ upq' = Tail(upq) /\ UNCHANGED <<up, sess>>
          /\ objs' = [objs EXCEPT ![r.group] = v]
      BY <1>3 DEF UpstreamHandles
    <2>2. r \in UpFrames
      BY <1>0, <2>1, TailHas
    <2>3. r.group \in Sessions /\ r.op \in {"create", "destroy", "destroy_group"}
      BY <2>2 DEF UpFrames
    <2>4. n \in Nat
      BY <1>0, <2>3
    <2> HIDE DEF r, n
    <2>5. /\ v > 0 => r.op = "create" \/ n > 0
          /\ r.op = "destroy_group" => v = 0
      <3>1. CASE r.op = "create"
        BY <3>1
      <3>2. CASE r.op = "destroy"
        BY <2>4, <3>2
      <3>3. CASE r.op = "destroy_group"
        BY <3>3
      <3> QED BY <2>3, <3>1, <3>2, <3>3
    <2> HIDE DEF v
    <2>6. ASSUME NEW s \in Sessions, sess[s] \in {"destroying", "gone"}
          PROVE  Covered(upq', s) /\ (objs'[s] > 0 => Destroys(upq', s))
      <3>1. Covered(upq, s) /\ (objs[s] > 0 => Destroys(upq, s))
        BY <2>6 DEF GroupInv
      <3>2. Covered(upq', s)
        BY <1>0, <2>1, <3>1, GroupTail
      <3>3. CASE s # r.group
        <4>1. objs'[s] = objs[s] /\ ~IsDestroyGroup(r, s)
          BY <1>0, <2>1, <3>3 DEF IsDestroyGroup
        <4> QED BY <1>0, <2>1, <3>1, <3>2, <4>1, GroupTail DEF r
      <3>4. CASE s = r.group
        <4>1. objs'[s] = v /\ objs[s] = n
          BY <1>0, <2>1, <3>4 DEF n
        <4>2. CASE r.op = "create"
          BY <1>0, <2>1, <3>1, <3>2, <3>4, <4>2, GroupTail DEF IsCreate, r
        <4>3. CASE r.op = "destroy"
          <5>1. ~IsDestroyGroup(r, s)
            BY <4>3 DEF IsDestroyGroup
          <5>2. objs'[s] > 0 => Destroys(upq, s)
            BY <2>5, <3>1, <4>1, <4>3
          <5> QED BY <1>0, <2>1, <3>2, <5>1, <5>2, GroupTail DEF r
        <4>4. CASE r.op = "destroy_group"
          BY <2>5, <3>2, <4>1, <4>4
        <4> QED BY <2>3, <4>2, <4>3, <4>4
      <3> QED BY <3>3, <3>4
    <2> QED BY <2>1, <2>6 DEF GroupInv
  <1>4. ASSUME NEW s \in Sessions, TryHandleRequest(s) PROVE GroupInv'
    <2>1. PICK op \in {"create", "destroy"}, oneway \in BOOLEAN :
            upq' = Sent(upq, [op |-> op, group |-> s, oneway |-> oneway])
      BY <1>4 DEF TryHandleRequest
    <2> DEFINE f == [op |-> op, group |-> s, oneway |-> oneway]
    <2>2. /\ UNCHANGED <<up, sess, objs>> /\ sess[s] \notin {"destroying", "gone"}
      BY <1>4 DEF TryHandleRequest, Registered
    <2>3. f \in UpFrames /\ \A q : IsCreate(f, q) => q = s
      BY DEF UpFrames, IsCreate
    <2> HIDE DEF f
    <2>4. CASE up = "on"
      <3>1. upq' = Append(upq, f)
        BY <2>1, <2>4 DEF Sent, f
      <3>2. \A q \in Sessions : sess[q] \in {"destroying", "gone"} =>
              Covered(upq', q) /\ (objs[q] > 0 => Destroys(upq', q))
        BY <1>0, <2>2, <2>3, <3>1, GroupAppend DEF GroupInv
      <3> QED BY <2>2, <2>4, <3>2 DEF GroupInv
    <2>5. CASE up # "on"
      BY <2>1, <2>2, <2>5 DEF Sent, GroupInv
    <2> QED BY <2>4, <2>5
  <1>5. ASSUME NEW s \in Sessions, TeardownDestroyGroup(s) PROVE GroupInv'
    <2> DEFINE f == [op |-> "destroy_group", group |-> s, oneway |-> TRUE]
    <2>1. /\ upq' = Sent(upq, f) /\ UNCHANGED <<up, objs>>
          /\ \A q \in Sessions : q # s => sess'[q] = sess[q]
      BY <1>5 DEF TeardownDestroyGroup, BridgeTypeOK, SessType
    <2>2. f \in UpFrames /\ (\A q : ~IsCreate(f, q)) /\ IsDestroyGroup(f, s)
      BY DEF UpFrames, IsCreate, IsDestroyGroup
    <2> HIDE DEF f
    <2>3. CASE up = "on"
      <3>1. upq' = Append(upq, f)
        BY <2>1, <2>3 DEF Sent
      <3>2. Covered(upq', s) /\ Destroys(upq', s)
        BY <1>0, <2>2, <3>1, GroupAppend
      <3>3. \A q \in Sessions : q # s /\ sess[q] \in {"destroying", "gone"} =>
              Covered(upq', q) /\ (objs[q] > 0 => Destroys(upq', q))
        BY <1>0, <2>2, <3>1, GroupAppend DEF GroupInv
      <3> QED BY <2>1, <2>3, <3>2, <3>3 DEF GroupInv
    <2>4. CASE up # "on"
      <3>1. upq' = << >> /\ \A q \in Sessions : objs[q] = 0
        BY <2>1, <2>4 DEF Sent, GroupInv
      <3>2. \A q : Covered(upq', q)
        BY <3>1 DEF Covered
      <3> QED BY <2>1, <3>1, <3>2 DEF GroupInv
    <2> QED BY <2>3, <2>4
  <1>6. CASE UNCHANGED bridgeVars
    BY <1>6 DEF bridgeVars, GroupInv
  <1> QED
    BY <1>1, <1>2, <1>3, <1>4, <1>5, <1>6, GroupSteps

\* A session that is gone leaves nothing on the upstream server: the
\* destruction of its group is behind everything it ever sent.
THEOREM NoOrphansHolds == BridgeSpec => []NoOrphans
  <1>1. BridgeInit => GroupInv
    BY DEF BridgeInit, GroupInv
  <1>2. BridgeTypeOK /\ GroupInv => NoOrphans
    <2> SUFFICES ASSUME BridgeTypeOK, GroupInv PROVE NoOrphans
      OBVIOUS
    <2>1. DOMAIN upq = 1 .. Len(upq)
      BY DEF BridgeTypeOK, UpType
    <2> QED BY <2>1 DEF GroupInv, Destroys, IsDestroyGroup, NoOrphans
  <1> QED
    BY <1>1, <1>2, GroupStep, BridgeTypeCorrect, PTL DEF BridgeSpec
-----------------------------------------------------------------------------
(***************************************************************************)
(* The terminal's wire: base64 and decimal numbers.                        *)
(***************************************************************************)
Octet == 0 .. 255
Word24(n) == n \in Nat /\ n < 16777216
Glue(a, b, c) == a * 65536 + b * 256 + c
Unite(v) == v[0] * 262144 + v[1] * 4096 + v[2] * 64 + v[3]

\* Quotient and remainder.
LEMMA DivFacts ==
    ASSUME NEW i \in Nat
    PROVE  /\ i \div 4 \in Nat /\ i % 4 \in 0 .. 3 /\ i = 4 * (i \div 4) + (i % 4)
           /\ i \div 3 \in Nat /\ i % 3 \in 0 .. 2 /\ i = 3 * (i \div 3) + (i % 3)
  OBVIOUS

\* What is left of four g + j and of three g + j when they are divided.
LEMMA DivOf ==
    ASSUME NEW g \in Nat
    PROVE  /\ \A j \in 0 .. 3 : (4 * g + j) \div 4 = g /\ (4 * g + j) % 4 = j
           /\ \A j \in 0 .. 2 : (3 * g + j) \div 3 = g /\ (3 * g + j) % 3 = j
           /\ (4 * g) \div 4 = g /\ (4 * g) % 4 = 0
  OBVIOUS

\* Six bits are a small number.
LEMMA SmallNat == \A x \in 0 .. 63 : x \in Nat /\ x < 64
  OBVIOUS

\* Characters of the alphabet stand for their number, and none is the padding.
LEMMA CharFacts ==
    ASSUME NEW v \in 0 .. 63
    PROVE  /\ Base64Char(v) \in Nat /\ Base64Value(Base64Char(v)) = v
           /\ Base64Char(v) # Equals
  <1>1. v \in 0 .. 25 \/ v \in 26 .. 51 \/ v \in 52 .. 61 \/ v = 62 \/ v = 63
    OBVIOUS
  <1>2. CASE v \in 0 .. 25
    <2>1. Base64Char(v) = 65 + v
      BY <1>2 DEF Base64Char
    <2> QED BY <1>2, <2>1 DEF Base64Value, Equals
  <1>3. CASE v \in 26 .. 51
    <2>1. Base64Char(v) = 71 + v
      BY <1>3 DEF Base64Char
    <2> QED BY <1>3, <2>1 DEF Base64Value, Equals
  <1>4. CASE v \in 52 .. 61
    <2>1. Base64Char(v) = v - 4
      BY <1>4 DEF Base64Char
    <2> QED BY <1>4, <2>1 DEF Base64Value, Equals
  <1>5. CASE v = 62
    <2>1. Base64Char(v) = 43
      BY <1>5 DEF Base64Char
    <2> QED BY <1>5, <2>1 DEF Base64Value, Equals
  <1>6. CASE v = 63
    <2>1. Base64Char(v) = 47
      BY <1>6 DEF Base64Char
    <2> QED BY <1>6, <2>1 DEF Base64Value, Equals
  <1> QED BY <1>1, <1>2, <1>3, <1>4, <1>5, <1>6

\* Values of characters, whichever.
LEMMA ValueType == \A c \in Nat : Base64Value(c) \in 0 .. 64 /\ Base64Value(c) \in Nat
  BY DEF Base64Value

\* Three bytes are 24 bits, and four times six bits.
LEMMA GroupBits ==
    ASSUME NEW a \in Octet, NEW b \in Octet, NEW c \in Octet,
           NEW n, n = Glue(a, b, c)
    PROVE  /\ Word24(n)
           /\ \A j \in 0 .. 2 : QuadByte(n, j) = IF j = 0 THEN a ELSE IF j = 1 THEN b ELSE c
           /\ c = 0 => \A j \in 3 .. 3 : Sextet(n, j) = 0
           /\ b = 0 /\ c = 0 => \A j \in 2 .. 2 : Sextet(n, j) = 0
  <1>0. n = a * 65536 + b * 256 + c
    BY SMT DEF Glue
  <1>1. Word24(n)
    BY <1>0, SMT DEF Octet, Word24
  <1>2. n \div 65536 = a
    BY <1>0, SMT DEF Octet
  <1>3. (n \div 256) % 256 = b
    <2>1. n \div 256 = a * 256 + b
      BY <1>0, SMT DEF Octet
    <2>2. (a * 256 + b) % 256 = b
      BY SMT DEF Octet
    <2> QED BY <2>1, <2>2
  <1>4. n % 256 = c
    BY <1>0, SMT DEF Octet
  <1>5. c = 0 => n % 64 = 0
    BY <1>0, SMT DEF Octet
  <1>6. b = 0 /\ c = 0 => (n \div 64) % 64 = 0
    BY <1>0, SMT DEF Octet
  <1>7. ASSUME NEW j \in 0 .. 2 PROVE QuadByte(n, j) = IF j = 0 THEN a ELSE IF j = 1 THEN b ELSE c
    BY <1>2, <1>3, <1>4 DEF QuadByte
  <1> QED BY <1>1, <1>5, <1>6, <1>7 DEF Sextet

\* The six bits of a number.
LEMMA SextetIs ==
    ASSUME NEW n \in Nat, NEW j \in 0 .. 3
    PROVE  Sextet(n, j) = IF j = 0 THEN n \div 262144 ELSE IF j = 1 THEN (n \div 4096) % 64
                          ELSE IF j = 2 THEN (n \div 64) % 64 ELSE n % 64
  BY DEF Sextet

\* The six bits of a number put together again.
LEMMA SextetBits ==
    ASSUME NEW n, Word24(n),
           NEW v \in [0 .. 3 -> Nat], \A j \in 0 .. 3 : v[j] = Sextet(n, j)
    PROVE  /\ \A j \in 0 .. 3 : v[j] \in 0 .. 63
           /\ Unite(v) = n
  <1>1. n \div 262144 \in 0 .. 63 /\ (n \div 4096) % 64 \in 0 .. 63
    BY SMT DEF Word24
  <1>2. (n \div 64) % 64 \in 0 .. 63 /\ n % 64 \in 0 .. 63
    BY SMT DEF Word24
  <1>3. (n \div 262144) * 262144 + ((n \div 4096) % 64) * 4096 + ((n \div 64) % 64) * 64 + (n % 64) = n
    BY SMT DEF Word24
  <1>4. /\ v[0] = n \div 262144 /\ v[1] = (n \div 4096) % 64
        /\ v[2] = (n \div 64) % 64 /\ v[3] = n % 64
    <2>1. \A j \in 0 .. 3 : v[j] = IF j = 0 THEN n \div 262144 ELSE IF j = 1 THEN (n \div 4096) % 64
                          ELSE IF j = 2 THEN (n \div 64) % 64 ELSE n % 64
      BY SMT DEF Sextet
    <2> QED BY <2>1
  <1>5. \A j \in 0 .. 3 : j = 0 \/ j = 1 \/ j = 2 \/ j = 3
    OBVIOUS
  <1>6. \A j \in 0 .. 3 : v[j] \in 0 .. 63
    BY <1>1, <1>2, <1>4, <1>5
  <1> QED BY <1>3, <1>4, <1>6, SMT DEF Unite

\* Six bits of a number of 24.
LEMMA SextetRange ==
    ASSUME NEW n, Word24(n), NEW j \in 0 .. 3
    PROVE  Sextet(n, j) \in 0 .. 63
  <1>1. n \div 262144 \in 0 .. 63 /\ (n \div 4096) % 64 \in 0 .. 63
    BY SMT DEF Word24
  <1>2. (n \div 64) % 64 \in 0 .. 63 /\ n % 64 \in 0 .. 63
    BY SMT DEF Word24
  <1>3. Sextet(n, j) = IF j = 0 THEN n \div 262144 ELSE IF j = 1 THEN (n \div 4096) % 64
                          ELSE IF j = 2 THEN (n \div 64) % 64 ELSE n % 64
    BY SMT DEF Sextet
  <1> QED BY <1>1, <1>2, <1>3

\* What base64_encode() puts at each place.
LEMMA EncodedAt ==
    ASSUME NEW bytes \in Seq(Octet)
    PROVE  LET n == Len(bytes)
               m == (n + 2) \div 3
               e == Base64Encode(bytes)
           IN /\ m \in Nat /\ n <= 3 * m /\ 3 * m < n + 3 /\ Len(e) = 4 * m /\ e \in Seq(Nat)
              /\ \A g \in 0 .. m - 1 : Word24(Group(bytes, g))
              /\ \A g \in 0 .. m - 1, j \in 0 .. 3 :
                    e[4 * g + j + 1] = IF 3 * g + j > n THEN Equals
                                       ELSE Base64Char(Sextet(Group(bytes, g), j))
  <1> DEFINE n == Len(bytes)
             m == (n + 2) \div 3
             e == Base64Encode(bytes)
             Put(g, j) == IF 3 * g + j > n THEN Equals ELSE Base64Char(Sextet(Group(bytes, g), j))
  <1>1. n \in Nat /\ m \in Nat /\ n <= 3 * m /\ 3 * m < n + 3
    OBVIOUS
  <1>2. \A g \in 0 .. m - 1 : Word24(Group(bytes, g))
    <2> TAKE g \in 0 .. m - 1
    <2> DEFINE at(i) == IF i <= n THEN bytes[i] ELSE 0
    <2>1. \A i \in Nat \ {0} : at(i) \in Octet
      <3>1. 0 \in Octet
        BY DEF Octet
      <3> QED BY <1>1, <3>1
    <2>2. /\ 3 * g + 1 \in Nat \ {0} /\ 3 * g + 2 \in Nat \ {0} /\ 3 * g + 3 \in Nat \ {0}
      BY <1>1
    <2>3. Group(bytes, g) = Glue(at(3 * g + 1), at(3 * g + 2), at(3 * g + 3))
      BY SMT DEF Group, Glue
    <2> HIDE DEF at
    <2> QED BY <2>1, <2>2, <2>3, GroupBits
  <1>3. \A g \in 0 .. m - 1, j \in 0 .. 3 : Put(g, j) \in Nat
    <2> TAKE g \in 0 .. m - 1, j \in 0 .. 3
    <2>1. Sextet(Group(bytes, g), j) \in 0 .. 63
      BY <1>2, SextetRange
    <2>2. Equals \in Nat
      BY DEF Equals
    <2> QED BY <2>1, <2>2, CharFacts
  <1> HIDE DEF Put
  <1>4. e = [i \in 1 .. 4 * m |-> Put((i - 1) \div 4, (i - 1) % 4)]
    BY DEF Base64Encode, Put
  <1> HIDE DEF e, n, m
  <1>5. ASSUME NEW i \in 1 .. 4 * m PROVE (i - 1) \div 4 \in 0 .. m - 1 /\ (i - 1) % 4 \in 0 .. 3
    <2>1. i - 1 \in Nat /\ i - 1 < 4 * m
      BY <1>1
    <2> DEFINE x == i - 1
    <2> HIDE DEF x
    <2>2. x \div 4 \in Nat /\ x % 4 \in 0 .. 3 /\ x = 4 * (x \div 4) + (x % 4)
      BY <2>1, DivFacts DEF x
    <2>3. x \div 4 < m
      BY <1>1, <2>1, <2>2 DEF x
    <2> QED BY <1>1, <2>2, <2>3 DEF x
  <1>6. \A i \in 1 .. 4 * m : e[i] \in Nat
    BY <1>3, <1>4, <1>5
  <1>7. Len(e) = 4 * m /\ e \in Seq(Nat)
    <2>1. 4 * m \in Nat
      BY <1>1
    <2> DEFINE k == 4 * m
    <2> HIDE DEF k
    <2>2. e \in [1 .. k -> Nat] /\ k \in Nat
      BY <1>4, <1>6, <2>1 DEF k
    <2>3. e \in Seq(Nat) /\ Len(e) = k
      BY <2>2
    <2> QED BY <2>3 DEF k
  <1>8. \A g \in 0 .. m - 1, j \in 0 .. 3 : e[4 * g + j + 1] = Put(g, j)
    <2> TAKE g \in 0 .. m - 1, j \in 0 .. 3
    <2>1. 4 * g + j + 1 \in 1 .. 4 * m /\ (4 * g + j + 1) - 1 = 4 * g + j /\ g \in Nat
      BY <1>1
    <2>2. (4 * g + j) \div 4 = g /\ (4 * g + j) % 4 = j
      BY <2>1, DivOf
    <2> QED BY <1>4, <2>1, <2>2
  <1> QED BY <1>1, <1>2, <1>7, <1>8 DEF n, m, e, Put

\* The bytes of a group, missing ones 0.
ByteAt(bytes, i) == IF i <= Len(bytes) THEN bytes[i] ELSE 0

\* A group is its three bytes, the ones past the end 0.
LEMMA GroupFacts ==
    ASSUME NEW bytes \in Seq(Octet), NEW g \in Nat
    PROVE  LET a == ByteAt(bytes, 3 * g + 1)
               b == ByteAt(bytes, 3 * g + 2)
               c == ByteAt(bytes, 3 * g + 3)
           IN /\ a \in Octet /\ b \in Octet /\ c \in Octet
              /\ Group(bytes, g) = Glue(a, b, c)
  <1>1. 0 \in Octet
    BY DEF Octet
  <1>2. \A i \in Nat \ {0} : ByteAt(bytes, i) \in Octet
    BY <1>1 DEF ByteAt
  <1>3. 3 * g + 1 \in Nat \ {0} /\ 3 * g + 2 \in Nat \ {0} /\ 3 * g + 3 \in Nat \ {0}
    OBVIOUS
  <1>4. Group(bytes, g) = Glue(ByteAt(bytes, 3 * g + 1), ByteAt(bytes, 3 * g + 2),
                               ByteAt(bytes, 3 * g + 3))
    BY SMT DEF Group, ByteAt, Glue
  <1> QED BY <1>2, <1>3, <1>4

\* What is encoded: a character of the alphabet, or padding, where the six bits
\* are 0; only the last two places are padded.
LEMMA EncodedIs ==
    ASSUME NEW bytes \in Seq(Octet)
    PROVE  LET n == Len(bytes)
               m == (n + 2) \div 3
               e == Base64Encode(bytes)
           IN \A g \in 0 .. m - 1, j \in 0 .. 3 :
                 /\ 3 * g + j <= n =>
                       /\ Base64Value(e[4 * g + j + 1]) = Sextet(Group(bytes, g), j)
                       /\ Base64Value(e[4 * g + j + 1]) < 64
                       /\ e[4 * g + j + 1] # Equals
                 /\ 3 * g + j > n =>
                       /\ e[4 * g + j + 1] = Equals
                       /\ g = m - 1 /\ (j = 2 \/ j = 3)
                       /\ Sextet(Group(bytes, g), j) = 0
  <1> DEFINE n == Len(bytes)
             m == (n + 2) \div 3
             e == Base64Encode(bytes)
  <1>1. /\ m \in Nat /\ n <= 3 * m /\ 3 * m < n + 3 /\ Len(e) = 4 * m /\ e \in Seq(Nat)
        /\ \A g \in 0 .. m - 1 : Word24(Group(bytes, g))
        /\ \A g \in 0 .. m - 1, j \in 0 .. 3 :
              e[4 * g + j + 1] = IF 3 * g + j > n THEN Equals
                                 ELSE Base64Char(Sextet(Group(bytes, g), j))
    BY EncodedAt
  <1>2. n \in Nat
    OBVIOUS
  <1> SUFFICES ASSUME NEW g \in 0 .. m - 1, NEW j \in 0 .. 3
               PROVE  /\ 3 * g + j <= n =>
                           /\ Base64Value(e[4 * g + j + 1]) = Sextet(Group(bytes, g), j)
                           /\ Base64Value(e[4 * g + j + 1]) < 64
                           /\ e[4 * g + j + 1] # Equals
                      /\ 3 * g + j > n =>
                           /\ e[4 * g + j + 1] = Equals
                           /\ g = m - 1 /\ (j = 2 \/ j = 3)
                           /\ Sextet(Group(bytes, g), j) = 0
    OBVIOUS
  <1> DEFINE x == Sextet(Group(bytes, g), j)
             y == e[4 * g + j + 1]
  <1> HIDE DEF m, e
  <1>3. x \in 0 .. 63
    BY <1>1, SextetRange
  <1>4. y = IF 3 * g + j > n THEN Equals ELSE Base64Char(x)
    BY <1>1
  <1>5. ASSUME 3 * g + j > n
        PROVE  g = m - 1 /\ (j = 2 \/ j = 3)
    <2>1. m \in Nat /\ 3 * m < n + 3
      BY <1>1
    <2> HIDE DEF n
    <2>2. g \in Int /\ 0 <= g /\ g <= m - 1 /\ j \in Int /\ 0 <= j /\ j <= 3 /\ n \in Int
      BY <1>2, <2>1
    <2>3. g = m - 1
      BY ONLY <1>5, <2>1, <2>2
    <2>4. j = 2 \/ j = 3
      BY ONLY <1>5, <2>1, <2>2
    <2> QED BY <2>3, <2>4
  <1>6. ASSUME 3 * g + j > n
        PROVE  x = 0
    <2>1. g \in Nat /\ (j = 2 \/ j = 3)
      BY <1>1, <1>5, <1>6
    <2> DEFINE a == ByteAt(bytes, 3 * g + 1)
               b == ByteAt(bytes, 3 * g + 2)
               c == ByteAt(bytes, 3 * g + 3)
    <2>2. /\ a \in Octet /\ b \in Octet /\ c \in Octet
          /\ Group(bytes, g) = Glue(a, b, c)
      BY <2>1, GroupFacts
    <2>3. c = 0
      BY <1>2, <1>6, <2>1 DEF ByteAt
    <2>4. j = 2 => b = 0
      BY <1>2, <1>6, <2>1 DEF ByteAt
    <2> HIDE DEF a, b, c
    <2>5. /\ c = 0 => \A k \in 3 .. 3 : Sextet(Group(bytes, g), k) = 0
          /\ b = 0 /\ c = 0 => \A k \in 2 .. 2 : Sextet(Group(bytes, g), k) = 0
      BY <2>2, GroupBits
    <2> QED BY <2>1, <2>3, <2>4, <2>5
  <1> HIDE DEF x, y
  <1>7. ~(3 * g + j > n) => Base64Value(y) = x /\ y # Equals
    BY <1>3, <1>4, CharFacts
  <1>8. 3 * g + j <= n <=> ~(3 * g + j > n)
    BY <1>1, <1>2, SMTT(40)
  <1>9. 3 * g + j > n => y = Equals
    BY <1>4
  <1> HIDE DEF n
  <1>10. x < 64
    BY <1>3
  <1>11. 3 * g + j <= n => Base64Value(y) = x /\ Base64Value(y) < 64 /\ y # Equals
    BY <1>7, <1>8, <1>10
  <1>12. 3 * g + j > n => y = Equals /\ g = m - 1 /\ (j = 2 \/ j = 3) /\ x = 0
    BY <1>5, <1>6, <1>9
  <1> QED BY <1>11, <1>12 DEF x, y

\* base64_decode() takes back what base64_encode() made.
LEMMA Base64RoundTrip ==
    ASSUME NEW bytes \in Seq(Octet)
    PROVE  /\ Base64Good(Base64Encode(bytes))
           /\ Base64Decode(Base64Encode(bytes)) = bytes
  <1> DEFINE n == Len(bytes)
             m == (n + 2) \div 3
             e == Base64Encode(bytes)
  <1>1. m \in Nat /\ n <= 3 * m /\ 3 * m < n + 3 /\ Len(e) = 4 * m /\ e \in Seq(Nat)
    BY EncodedAt
  <1>2. n \in Nat
    OBVIOUS
  <1>3. \A g \in 0 .. m - 1, j \in 0 .. 3 :
          /\ 3 * g + j <= n =>
                /\ Base64Value(e[4 * g + j + 1]) = Sextet(Group(bytes, g), j)
                /\ Base64Value(e[4 * g + j + 1]) < 64
                /\ e[4 * g + j + 1] # Equals
          /\ 3 * g + j > n =>
                /\ e[4 * g + j + 1] = Equals
                /\ g = m - 1 /\ (j = 2 \/ j = 3)
                /\ Sextet(Group(bytes, g), j) = 0
    BY EncodedIs
  <1>4. \A g \in 0 .. m - 1 : Word24(Group(bytes, g))
    BY EncodedAt
  <1> HIDE DEF m, e, n
  <1>5. Base64Good(e)
    <2>1. Len(e) % 4 = 0
      BY <1>1, DivOf
    <2> SUFFICES ASSUME NEW i \in 1 .. Len(e)
                 PROVE  \/ Base64Value(e[i]) < 64
                        \/ /\ e[i] = Equals
                           /\ i = Len(e) \/ (i = Len(e) - 1 /\ e[i + 1] = Equals)
      BY <2>1 DEF Base64Good
    <2> DEFINE g == (i - 1) \div 4
               j == (i - 1) % 4
    <2>2. i - 1 \in Nat
      BY <1>1
    <2>3. g \in Nat /\ j \in 0 .. 3 /\ i - 1 = 4 * g + j
      BY <2>2, DivFacts
    <2> HIDE DEF g, j
    <2>4. g \in 0 .. m - 1 /\ i = 4 * g + j + 1
      BY <1>1, <2>3
    <2>5. CASE 3 * g + j <= n
      BY <1>3, <2>3, <2>4, <2>5
    <2>6. CASE 3 * g + j > n /\ j = 3
      <3>1. e[i] = Equals /\ g = m - 1
        BY <1>3, <2>3, <2>4, <2>6
      <3>2. i = Len(e)
        BY <1>1, <2>4, <2>6, <3>1
      <3> QED BY <3>1, <3>2
    <2>7. CASE 3 * g + j > n /\ j = 2
      <3>1. e[i] = Equals /\ g = m - 1
        BY <1>3, <2>3, <2>4, <2>7
      <3>2. i = Len(e) - 1 /\ i + 1 = 4 * g + 3 + 1
        BY <1>1, <2>4, <2>7, <3>1
      <3>3. 3 * g + 3 > n
        BY <1>2, <2>3, <2>7
      <3>4. e[4 * g + 3 + 1] = Equals
        BY <1>3, <2>4, <3>3
      <3> QED BY <3>1, <3>2, <3>4
    <2>8. 3 * g + j <= n \/ 3 * g + j > n
      BY <1>2, <2>3
    <2> QED BY <1>3, <2>3, <2>4, <2>5, <2>6, <2>7, <2>8
  <1>6. 3 * (Len(e) \div 4) - Pads(e) = n
    <2>1. Len(e) \div 4 = m
      BY <1>1, DivOf
    <2>2. Pads(e) = 3 * m - n
      <3>1. CASE m = 0
        BY <1>1, <1>2, <3>1 DEF Pads
      <3>2. CASE m # 0
        <4> DEFINE g == m - 1
        <4>1. /\ g \in 0 .. m - 1 /\ 4 * g + 3 + 1 = Len(e) /\ 4 * g + 2 + 1 = Len(e) - 1
              /\ e # << >>
          BY <1>1, <3>2
        <4>2. /\ 3 * g + 3 <= n => e[Len(e)] # Equals
              /\ 3 * g + 3 > n => e[Len(e)] = Equals
          BY <1>3, <4>1
        <4>3. /\ 3 * g + 2 <= n => e[Len(e) - 1] # Equals
              /\ 3 * g + 2 > n => e[Len(e) - 1] = Equals
          BY <1>3, <4>1
        <4> QED BY <1>1, <1>2, <4>1, <4>2, <4>3 DEF Pads
      <3> QED BY <3>1, <3>2
    <2> QED BY <1>1, <1>2, <2>1, <2>2
  <1>7. \A g \in 0 .. m - 1 : Quad(e, g) = Group(bytes, g)
    <2> TAKE g \in 0 .. m - 1
    <2> DEFINE val(i) == IF e[i] = Equals THEN 0 ELSE Base64Value(e[i])
               w == Group(bytes, g)
               v == [j \in 0 .. 3 |-> Sextet(w, j)]
    <2>0. Word24(w)
      BY <1>4
    <2> HIDE DEF w
    <2>1. ASSUME NEW j \in 0 .. 3 PROVE Sextet(w, j) \in Nat
      <3>1. Sextet(w, j) \in 0 .. 63
        BY <2>0, SextetRange
      <3> QED BY <3>1, SmallNat
    <2>2. v \in [0 .. 3 -> Nat] /\ \A j \in 0 .. 3 : v[j] = Sextet(w, j)
      BY <2>1
    <2> HIDE DEF v
    <2>3. Unite(v) = w
      BY <2>0, <2>2, SextetBits
    <2>4. \A j \in 0 .. 3 : val(4 * g + j + 1) = v[j]
      <3> TAKE j \in 0 .. 3
      <3>1. 3 * g + j <= n \/ 3 * g + j > n
        BY <1>1, <1>2
      <3> QED BY <1>3, <2>2, <3>1 DEF w
    <2>5. Quad(e, g) = val(4 * g + 1) * 262144 + val(4 * g + 2) * 4096 + val(4 * g + 3) * 64 + val(4 * g + 4)
      BY SMT DEF Quad
    <2> HIDE DEF val
    <2>6. /\ 4 * g + 0 + 1 = 4 * g + 1 /\ 4 * g + 1 + 1 = 4 * g + 2
          /\ 4 * g + 2 + 1 = 4 * g + 3 /\ 4 * g + 3 + 1 = 4 * g + 4
      BY <1>1
    <2>7. val(4 * g + 1) = v[0] /\ val(4 * g + 2) = v[1] /\ val(4 * g + 3) = v[2] /\ val(4 * g + 4) = v[3]
      BY <2>4, <2>6
    <2>8. Quad(e, g) = Unite(v)
      BY <2>5, <2>7, SMT DEF Unite
    <2> QED BY <2>3, <2>8 DEF w
  <1>8. ASSUME NEW i \in 1 .. n
        PROVE  QuadByte(Quad(e, (i - 1) \div 3), (i - 1) % 3) = bytes[i]
    <2> DEFINE g == (i - 1) \div 3
               j == (i - 1) % 3
    <2>1. i - 1 \in Nat
      BY <1>2
    <2>2. g \in Nat /\ j \in 0 .. 2 /\ i - 1 = 3 * g + j
      BY <2>1, DivFacts
    <2> HIDE DEF g, j
    <2>3. g \in 0 .. m - 1 /\ i = 3 * g + j + 1
      BY <1>1, <1>2, <2>2
    <2> DEFINE a == ByteAt(bytes, 3 * g + 1)
               b == ByteAt(bytes, 3 * g + 2)
               c == ByteAt(bytes, 3 * g + 3)
    <2>4. /\ a \in Octet /\ b \in Octet /\ c \in Octet
          /\ Group(bytes, g) = Glue(a, b, c)
      <3>1. g \in Nat
        BY <2>2
      <3> QED BY ONLY <3>1, bytes \in Seq(Octet), GroupFacts
    <2>5. /\ j = 0 => bytes[i] = a
          /\ j = 1 => bytes[i] = b
          /\ j = 2 => bytes[i] = c
      BY <1>2, <2>2, <2>3 DEF ByteAt, n
    <2> HIDE DEF a, b, c
    <2>6. QuadByte(Group(bytes, g), j) = IF j = 0 THEN a ELSE IF j = 1 THEN b ELSE c
      BY <2>2, <2>4, GroupBits
    <2>7. Quad(e, g) = Group(bytes, g)
      BY <1>7, <2>3
    <2>8. j = 0 \/ j = 1 \/ j = 2
      BY <2>2
    <2> QED BY <2>5, <2>6, <2>7, <2>8 DEF g, j
  <1>9. Base64Decode(e) = [i \in 1 .. n |-> bytes[i]]
    BY <1>6, <1>8 DEF Base64Decode
  <1>10. [i \in 1 .. n |-> bytes[i]] = bytes
    BY DEF n
  <1> QED BY <1>5, <1>9, <1>10 DEF e

-----------------------------------------------------------------------------
(***************************************************************************)
(* Decimal numbers.                                                        *)
(***************************************************************************)
Digit == 48 .. 57
Word31(n) == n \in Nat /\ n <= 2147483647

\* The powers of ten, and what a number loses with its last digit.
LEMMA PowerFacts ==
    /\ \A m \in 1 .. 10 : Power10[m] \in Nat \ {0}
    /\ \A m \in 1 .. 9 : Power10[m + 1] = 10 * Power10[m]
    /\ \A m \in 1 .. 1 : Power10[m] = 1
  <1>1. \A m \in 1 .. 10 : m = 1 \/ m = 2 \/ m = 3 \/ m = 4 \/ m = 5 \/ m = 6 \/ m = 7 \/ m = 8
                           \/ m = 9 \/ m = 10
    OBVIOUS
  <1>2. \A m \in 1 .. 10 : Power10[m] \in Nat \ {0}
    BY <1>1, SMT DEF Power10
  <1>3. \A m \in 1 .. 9 : m = 1 \/ m = 2 \/ m = 3 \/ m = 4 \/ m = 5 \/ m = 6 \/ m = 7 \/ m = 8
                           \/ m = 9
    OBVIOUS
  <1>4. \A m \in 1 .. 9 : Power10[m + 1] = 10 * Power10[m]
    BY <1>3, SMT DEF Power10
  <1>5. \A m \in 1 .. 1 : Power10[m] = 1
    BY SMT DEF Power10
  <1> QED BY <1>2, <1>4, <1>5

\* Dividing by one more ten takes off the last digit.
LEMMA DivTen ==
    ASSUME NEW n \in Nat, NEW p \in Nat \ {0}
    PROVE  /\ n \div p \in Nat /\ n \div (10 * p) \in Nat
           /\ n \div p = 10 * (n \div (10 * p)) + ((n \div p) % 10)
           /\ (n \div p) % 10 \in 0 .. 9
           /\ n < 10 * p => (n \div p) % 10 = n \div p
  <1> DEFINE q == n \div p
             s == n \div (10 * p)
  <1>1. q \in Nat /\ p * q <= n /\ n < p * q + p
    OBVIOUS
  <1>2. s \in Nat /\ (10 * p) * s <= n /\ n < (10 * p) * s + 10 * p
    <2>1. 10 * p \in Nat \ {0}
      OBVIOUS
    <2> QED BY <2>1
  <1> HIDE DEF q, s
  <1> DEFINE t == q \div 10
             u == q % 10
  <1>3. t \in Nat /\ u \in 0 .. 9 /\ q = 10 * t + u
    BY <1>1
  <1> HIDE DEF t, u
  <1>4. t = s
    <2> DEFINE a == p * t
               b == p * s
               c == p * q
               d == p * u
    <2>1. a \in Nat /\ b \in Nat /\ c \in Nat /\ d \in Nat
      BY <1>1, <1>2, <1>3
    <2>2. (10 * p) * s = 10 * b /\ c = 10 * a + d
      BY <1>1, <1>2, <1>3
    <2>3. d <= 9 * p
      BY <1>3
    <2>4. t < s => a + p <= b
      <3> SUFFICES ASSUME t < s PROVE a + p <= b
        OBVIOUS
      <3>1. PICK k \in Nat : s = t + 1 + k
        BY <1>2, <1>3
      <3>2. b = a + p + p * k /\ p * k \in Nat
        BY <1>3, <3>1
      <3> QED BY <2>1, <3>2
    <2>5. s < t => b + p <= a
      <3> SUFFICES ASSUME s < t PROVE b + p <= a
        OBVIOUS
      <3>1. PICK k \in Nat : t = s + 1 + k
        BY <1>2, <1>3
      <3>2. a = b + p + p * k /\ p * k \in Nat
        BY <1>2, <3>1
      <3> QED BY <2>1, <3>2
    <2> HIDE DEF a, b, c, d
    <2>6. c <= n /\ n < c + p /\ 10 * b <= n /\ n < 10 * b + 10 * p
      BY <1>1, <1>2, <2>2 DEF c
    <2> QED BY <1>2, <1>3, <2>1, <2>2, <2>3, <2>4, <2>5, <2>6
  <1>5. n < 10 * p => t = 0
    <2> SUFFICES ASSUME n < 10 * p, t # 0 PROVE FALSE
      OBVIOUS
    <2>1. PICK k \in Nat : s = 1 + k
      BY <1>2, <1>3, <1>4
    <2>2. (10 * p) * s = 10 * p + 10 * (p * k) /\ p * k \in Nat
      BY <2>1
    <2> QED BY <1>2, <2>2
  <1>6. u = q % 10
    BY DEF u
  <1> QED BY <1>1, <1>2, <1>3, <1>4, <1>5, <1>6 DEF q, s

\* The number of digits.
LEMMA DigitsFacts ==
    ASSUME NEW n, Word31(n)
    PROVE  LET k == Digits(n)
           IN /\ n \in Nat /\ k \in 1 .. 10
              /\ k = 1 \/ Power10[k] <= n
              /\ n < 10 * Power10[k]
  <1> DEFINE Is(k) == (k = 1 \/ Power10[k] <= n) /\ (k < 10 => n < Power10[k + 1])
  <1>1. n \in Nat
    BY DEF Word31
  <1>2. \E k \in 1 .. 10 : Is(k)
    <2> SUFFICES ASSUME \A k \in 1 .. 10 : ~Is(k) PROVE FALSE
      OBVIOUS
    <2>1. \A k \in 1 .. 9 : k \in 1 .. 10 /\ k + 1 \in 1 .. 10 /\ k < 10 /\ k + 1 # 1
      OBVIOUS
    <2>2. \A k \in 1 .. 10 : Power10[k] \in Nat
      BY PowerFacts
    <2> DEFINE Below(k) == n < Power10[k + 1]
               T == {k \in Nat : k \in 1 .. 9 => ~Below(k)}
    <2>3. ~Below(1)
      <3>1. Is(1) <=> n < Power10[1 + 1]
        OBVIOUS
      <3>2. 1 \in 1 .. 10
        OBVIOUS
      <3> QED BY <3>1, <3>2
    <2>4. \A k \in 1 .. 8 : ~Below(k) => ~Below(k + 1)
      <3> TAKE k \in 1 .. 8
      <3> HAVE ~Below(k)
      <3>1. k + 1 \in 1 .. 10 /\ k + 1 # 1 /\ k + 1 < 10 /\ ~(n < Power10[k + 1]) /\ Power10[k + 1] \in Nat
        BY <2>2
      <3>2. Power10[k + 1] <= n
        BY <1>1, <3>1
      <3>3. ~Is(k + 1)
        BY <3>1
      <3> QED BY <3>1, <3>2, <3>3
    <2> HIDE DEF Below
    <2>5. ~Below(2)
      BY <2>3, <2>4
    <2>6. ~Below(3)
      BY <2>4, <2>5
    <2>7. ~Below(4)
      BY <2>4, <2>6
    <2>8. ~Below(5)
      BY <2>4, <2>7
    <2>9. ~Below(6)
      BY <2>4, <2>8
    <2>10. ~Below(7)
      BY <2>4, <2>9
    <2>11. ~Below(8)
      BY <2>4, <2>10
    <2>12. ~Below(9)
      BY <2>4, <2>11
    <2>13. \A k \in 9 .. 9 : k + 1 = 10 /\ ~(n < Power10[k + 1])
      BY <2>12 DEF Below
    <2>14. \A k \in 10 .. 10 : k \in 1 .. 10 /\ ~(n < Power10[k]) /\ ~(k < 10)
      BY <2>13
    <2>15. \A k \in 10 .. 10 : Power10[k] <= n
      BY <1>1, <2>2, <2>14
    <2> QED BY <2>14, <2>15
  <1> DEFINE k == Digits(n)
  <1>3. k \in 1 .. 10 /\ Is(k)
    <2>1. k = CHOOSE x \in 1 .. 10 : Is(x)
      BY DEF Digits
    <2> QED BY <1>2, <2>1
  <1> HIDE DEF k
  <1>4. n < 10 * Power10[k]
    <2>1. CASE k < 10
      <3>1. k \in 1 .. 9
        BY <1>3, <2>1
      <3>2. Power10[k + 1] = 10 * Power10[k]
        BY <3>1, PowerFacts
      <3> QED BY <1>3, <2>1, <3>2
    <2>2. CASE k = 10
      <3>1. \A j \in 10 .. 10 : 10 * Power10[j] > n
        BY SMT DEF Power10, Word31
      <3> QED BY <1>1, <1>3, <2>2, <3>1
    <2>3. k < 10 \/ k = 10
      BY <1>3
    <2> QED BY <2>1, <2>2, <2>3
  <1> QED BY <1>1, <1>3, <1>4 DEF k

\* What parse_uint() has computed after each digit.
Parsed(h, chars) ==
    /\ h \in [0 .. Len(chars) -> Nat]
    /\ h[0] = 0
    /\ \A i \in 1 .. Len(chars) : h[i] = h[i - 1] * 10 + (chars[i] - 48)

\* The recursion of parse_uint() is what its definition says.
LEMMA ParseUintSteps ==
    ASSUME NEW chars \in Seq(Digit)
    PROVE  \E h : Parsed(h, chars) /\ ParseUint(chars) = h[Len(chars)]
  <1> DEFINE n == Len(chars)
             f == [i \in Nat |-> [d \in Nat |-> IF i \in 1 .. n THEN d * 10 + (chars[i] - 48) ELSE d]]
  <1>1. n \in Nat /\ \A i \in 1 .. n : chars[i] - 48 \in Nat
    BY DEF Digit
  <1>2. \A i \in 1 .. n, d \in Nat : d * 10 + (chars[i] - 48) \in Nat
    BY <1>1
  <1> HIDE DEF n
  <1>3. f \in [Nat -> [Nat -> Nat]]
    BY <1>2
  <1> HIDE DEF f
  <1>4. PICK g \in [0 .. n -> Nat] : g[0] = 0 /\ \A i \in 1 .. n : g[i] = f[i][g[i - 1]]
    <2>1. \E g : Steps(g, Nat, 0, f, n)
      BY <1>1, <1>3, Recursion
    <2> QED BY <2>1 DEF Steps
  <1>5. ASSUME NEW i \in 1 .. n PROVE i - 1 \in 0 .. n /\ g[i] = g[i - 1] * 10 + (chars[i] - 48)
    <2>1. i - 1 \in 0 .. n /\ i \in Nat
      BY <1>1
    <2>2. g[i - 1] \in Nat
      BY <1>4, <2>1
    <2>3. f[i][g[i - 1]] = g[i - 1] * 10 + (chars[i] - 48)
      BY <2>1, <2>2 DEF f
    <2> QED BY <1>4, <2>1, <2>3
  <1> DEFINE Is(v) == v = [i \in 0 .. n |-> IF i = 0 THEN 0 ELSE v[i - 1] * 10 + (chars[i] - 48)]
             h == CHOOSE v : Is(v)
  <1>6. Is(g)
    <2>1. \A i \in 0 .. n : i = 0 \/ i \in 1 .. n
      BY <1>1
    <2>2. \A i \in 0 .. n : g[i] = IF i = 0 THEN 0 ELSE g[i - 1] * 10 + (chars[i] - 48)
      BY <1>4, <1>5, <2>1
    <2> QED BY <2>2
  <1>7. Is(h)
    BY <1>6
  <1>8. ParseUint(chars) = h[n]
    BY DEF ParseUint, n
  <1> HIDE DEF h
  <1>9. h[0] = 0 /\ \A i \in 1 .. n : h[i] = h[i - 1] * 10 + (chars[i] - 48)
    <2>1. 0 \in 0 .. n /\ \A i \in 1 .. n : i \in 0 .. n /\ i # 0
      BY <1>1
    <2> QED BY <1>7, <2>1
  <1> DEFINE T == {i \in Nat : i <= n => h[i] \in Nat}
  <1>10. 0 \in T
    BY <1>9
  <1>11. ASSUME NEW i \in T PROVE i + 1 \in T
    <2> SUFFICES ASSUME i + 1 <= n PROVE h[i + 1] \in Nat
      OBVIOUS
    <2>1. i \in Nat /\ i <= n /\ i + 1 \in 1 .. n /\ (i + 1) - 1 = i
      BY <1>1
    <2>2. h[i + 1] = h[i] * 10 + (chars[i + 1] - 48)
      BY <1>9, <2>1
    <2> QED BY <1>2, <2>1, <2>2
  <1> HIDE DEF T
  <1>12. T = Nat
    <2>1. T \in SUBSET Nat
      BY DEF T
    <2> QED BY <1>10, <1>11, <2>1, SetInduction
  <1>13. \A i \in 0 .. n : h[i] \in Nat
    <2> TAKE i \in 0 .. n
    <2>1. i \in Nat /\ i <= n
      BY <1>1
    <2>2. i \in T
      BY <1>12, <2>1
    <2> QED BY <2>1, <2>2 DEF T
  <1>14. DOMAIN h = 0 .. n /\ h = [i \in DOMAIN h |-> h[i]]
    BY <1>7
  <1>15. h \in [0 .. n -> Nat]
    BY <1>13, <1>14
  <1> QED BY <1>8, <1>9, <1>15 DEF Parsed, n

\* parse_uint() takes back what std::to_string() made.
LEMMA DecimalRoundTrip ==
    ASSUME NEW n, Word31(n)
    PROVE  /\ Decimal(n) \in Seq(Digit) /\ Len(Decimal(n)) = Digits(n)
           /\ IsUint(Decimal(n)) /\ ParseUint(Decimal(n)) = n
  <1> DEFINE k == Digits(n)
             c == Decimal(n)
             d(i) == (n \div Power10[k + 1 - i]) % 10
  <1>1. n \in Nat /\ k \in 1 .. 10 /\ n < 10 * Power10[k]
    BY DigitsFacts
  <1> HIDE DEF k
  <1>2. ASSUME NEW i \in 1 .. k
        PROVE  k + 1 - i \in 1 .. 10 /\ Power10[k + 1 - i] \in Nat \ {0}
    <2>1. k + 1 - i \in 1 .. 10
      BY <1>1
    <2> QED BY <2>1, PowerFacts
  <1>3. ASSUME NEW i \in 1 .. k PROVE d(i) \in 0 .. 9 /\ 48 + d(i) \in Digit /\ (48 + d(i)) - 48 = d(i)
    <2>1. d(i) \in 0 .. 9
      BY <1>1, <1>2, DivTen
    <2> HIDE DEF d
    <2> QED BY <2>1 DEF Digit
  <1>4. c = [i \in 1 .. k |-> 48 + d(i)]
    BY DEF Decimal, k
  <1> HIDE DEF c, d
  <1>5. c \in Seq(Digit) /\ Len(c) = k /\ k \in Nat
    <2>1. c \in [1 .. k -> Digit] /\ k \in Nat
      BY <1>1, <1>3, <1>4
    <2> QED BY <2>1
  <1>6. PICK h : Parsed(h, c) /\ ParseUint(c) = h[Len(c)]
    BY <1>5, ParseUintSteps
  <1>7. h[0] = 0 /\ \A i \in 1 .. k : h[i] = h[i - 1] * 10 + d(i)
    <2>1. \A i \in 1 .. k : c[i] - 48 = d(i)
      BY <1>3, <1>4
    <2> QED BY <1>5, <1>6, <2>1 DEF Parsed
  <1> DEFINE T == {i \in Nat : i + 1 <= k => h[i + 1] = n \div Power10[k - i]}
  <1>8. 0 \in T
    <2>1. h[1] = d(1) /\ k + 1 - 1 = k /\ k - 0 = k
      <3>1. 1 \in 1 .. k /\ d(1) \in 0 .. 9
        BY <1>1, <1>3
      <3>2. h[1] = h[0] * 10 + d(1)
        BY <1>7, <3>1
      <3> QED BY <1>1, <1>7, <3>1, <3>2
    <2>2. Power10[k] \in Nat \ {0}
      BY <1>1, PowerFacts
    <2>3. (n \div Power10[k]) % 10 = n \div Power10[k]
      BY <1>1, <2>2, DivTen
    <2> QED BY <2>1, <2>3 DEF d
  <1>9. ASSUME NEW i \in T PROVE i + 1 \in T
    <2> SUFFICES ASSUME (i + 1) + 1 <= k PROVE h[(i + 1) + 1] = n \div Power10[k - (i + 1)]
      OBVIOUS
    <2> DEFINE m == k - (i + 1)
               p == Power10[m]
    <2>1. /\ i \in Nat /\ i + 1 <= k /\ (i + 1) + 1 \in 1 .. k /\ ((i + 1) + 1) - 1 = i + 1
          /\ m \in 1 .. 9 /\ m + 1 = k - i /\ k + 1 - ((i + 1) + 1) = m /\ m \in 1 .. 10
      BY <1>1
    <2> HIDE DEF m
    <2>2. h[i + 1] = n \div Power10[m + 1]
      BY <2>1
    <2>3. p \in Nat \ {0} /\ Power10[m + 1] = 10 * p
      BY <2>1, PowerFacts
    <2>4. h[(i + 1) + 1] = h[i + 1] * 10 + ((n \div p) % 10)
      BY <1>7, <2>1 DEF d
    <2> HIDE DEF p
    <2>5. n \div p = 10 * (n \div (10 * p)) + ((n \div p) % 10) /\ n \div (10 * p) \in Nat
      BY <1>1, <2>3, DivTen
    <2>6. h[(i + 1) + 1] = n \div p
      BY <2>2, <2>3, <2>4, <2>5
    <2> QED BY <2>6 DEF p, m
  <1> HIDE DEF T
  <1>10. T = Nat
    <2>1. T \in SUBSET Nat
      BY DEF T
    <2> QED BY <1>8, <1>9, <2>1, SetInduction
  <1>11. h[k] = n
    <2>1. k - 1 \in Nat /\ (k - 1) + 1 = k /\ k - (k - 1) = 1
      BY <1>1
    <2>2. k - 1 \in T
      BY <1>10, <2>1
    <2>3. (k - 1) + 1 <= k
      BY <1>1
    <2>4. h[(k - 1) + 1] = n \div Power10[k - (k - 1)]
      BY <2>2, <2>3 DEF T
    <2>5. Power10[1] = 1
      <3>1. 1 \in 1 .. 1
        OBVIOUS
      <3> QED BY <3>1, PowerFacts
    <2> QED BY <1>1, <2>1, <2>4, <2>5
  <1>12. ParseUint(c) = n
    BY <1>5, <1>6, <1>11
  <1>13. ParseUint(c) \div 65536 < 65536
    BY <1>12, SMT DEF Word31
  <1>14. \A i \in 1 .. Len(c) : c[i] \in 48 .. 57
    BY <1>5 DEF Digit
  <1>15. IsUint(c)
    BY <1>1, <1>5, <1>13, <1>14 DEF IsUint
  <1> QED BY <1>5, <1>12, <1>15 DEF c, k

-----------------------------------------------------------------------------
(***************************************************************************)
(* The body of a chunk.                                                    *)
(***************************************************************************)
SemiByte == <<Semicolon>>
ChunkText(x, y, z) == x \o SemiByte \o y \o SemiByte \o z

\* The bytes t of such a text.
TextParts(t, x, y, z) ==
    /\ t \in Seq(Nat) /\ Len(x) \in Nat /\ Len(y) \in Nat /\ Len(z) \in Nat
    /\ Len(t) = Len(x) + Len(y) + 2 + Len(z)
    /\ \A k \in 1 .. Len(x) : t[k] = x[k]
    /\ t[Len(x) + 1] = Semicolon
    /\ \A k \in 1 .. Len(y) : t[Len(x) + 1 + k] = y[k]
    /\ t[Len(x) + Len(y) + 2] = Semicolon
    /\ \A k \in 1 .. Len(z) : t[Len(x) + Len(y) + 2 + k] = z[k]

\* A chunk's body, byte by byte.
LEMMA ChunkTextAt ==
    ASSUME NEW x \in Seq(Nat), NEW y \in Seq(Nat), NEW z \in Seq(Nat)
    PROVE  TextParts(ChunkText(x, y, z), x, y, z)
  <1> DEFINE i == Len(x)
             j == Len(y)
             l == Len(z)
             a == x \o SemiByte
             b == a \o y
             c == b \o SemiByte
             t == c \o z
  <1>1. SemiByte \in Seq(Nat) /\ Len(SemiByte) = 1 /\ SemiByte[1] = Semicolon /\ 1 \in 1 .. 1
    BY DEF SemiByte, Semicolon
  <1>2. /\ a \in Seq(Nat) /\ i \in Nat /\ Len(a) = i + 1 /\ \A k \in 1 .. i : a[k] = x[k]
        /\ a[i + 1] = Semicolon
    <2>1. SemiByte \in Seq(Nat)
      BY <1>1
    <2>2. /\ a \in Seq(Nat) /\ i \in Nat /\ Len(a) = i + Len(SemiByte) /\ \A k \in 1 .. i : a[k] = x[k]
          /\ \A k \in 1 .. Len(SemiByte) : a[i + k] = SemiByte[k]
      BY ONLY <2>1, x \in Seq(Nat), ConcatFacts
    <2> QED BY <1>1, <2>2
  <1> HIDE DEF a
  <1>3. /\ b \in Seq(Nat) /\ j \in Nat /\ Len(b) = Len(a) + j /\ \A k \in 1 .. Len(a) : b[k] = a[k]
        /\ \A k \in 1 .. j : b[Len(a) + k] = y[k]
    <2>1. a \in Seq(Nat)
      BY <1>2
    <2> QED BY ONLY <2>1, y \in Seq(Nat), ConcatFacts
  <1> HIDE DEF b
  <1>4. /\ c \in Seq(Nat) /\ Len(c) = Len(b) + 1 /\ \A k \in 1 .. Len(b) : c[k] = b[k]
        /\ c[Len(b) + 1] = Semicolon
    <2>1. b \in Seq(Nat)
      BY <1>3
    <2>2. /\ c \in Seq(Nat) /\ Len(c) = Len(b) + Len(SemiByte) /\ \A k \in 1 .. Len(b) : c[k] = b[k]
          /\ \A k \in 1 .. Len(SemiByte) : c[Len(b) + k] = SemiByte[k]
      <3>1. SemiByte \in Seq(Nat)
        BY <1>1
      <3> QED BY ONLY <2>1, <3>1, ConcatFacts, SMTT(40)
    <2> QED BY <1>1, <2>2
  <1> HIDE DEF c
  <1>5. /\ t \in Seq(Nat) /\ l \in Nat /\ Len(t) = Len(c) + l /\ \A k \in 1 .. Len(c) : t[k] = c[k]
        /\ \A k \in 1 .. l : t[Len(c) + k] = z[k]
    <2>1. c \in Seq(Nat)
      BY <1>4
    <2> QED BY ONLY <2>1, z \in Seq(Nat), ConcatFacts
  <1> HIDE DEF t, i, j, l
  <1>6. /\ Len(t) = i + j + 2 + l
        /\ \A k \in 1 .. l : t[i + j + 2 + k] = z[k]
    <2>1. Len(c) = i + j + 2
      BY <1>2, <1>3, <1>4
    <2> QED BY <1>5, <2>1
  <1>7. /\ \A k \in 1 .. i : k \in 1 .. Len(a) /\ k \in 1 .. Len(b) /\ k \in 1 .. Len(c)
        /\ i + 1 \in 1 .. Len(a) /\ i + 1 \in 1 .. Len(b) /\ i + 1 \in 1 .. Len(c)
        /\ \A k \in 1 .. j : i + 1 + k \in 1 .. Len(b) /\ i + 1 + k \in 1 .. Len(c) /\ i + 1 + k = Len(a) + k
        /\ i + j + 2 \in 1 .. Len(c) /\ i + j + 2 = Len(b) + 1
    BY <1>2, <1>3, <1>4
  <1>8. \A k \in 1 .. i : t[k] = x[k]
    BY <1>2, <1>3, <1>4, <1>5, <1>7
  <1>9. t[i + 1] = Semicolon
    BY <1>2, <1>3, <1>4, <1>5, <1>7
  <1>10. \A k \in 1 .. j : t[i + 1 + k] = y[k]
    BY <1>3, <1>4, <1>5, <1>7, ZenonT(40)
  <1>11. t[i + j + 2] = Semicolon
    BY <1>4, <1>5, <1>7
  <1>12. t = ChunkText(x, y, z)
    BY DEF ChunkText, t, c, b, a
  <1>13. TextParts(t, x, y, z)
    BY <1>2, <1>3, <1>5, <1>6, <1>8, <1>9, <1>10, <1>11 DEF i, j, l, TextParts
  <1> QED BY <1>12, <1>13

\* Digits are bytes of a body, and none is the semicolon.
LEMMA DigitFacts ==
    /\ \A s : s \in Seq(Digit) => s \in Seq(Nat) /\ Len(s) \in Nat /\ \A k \in 1 .. Len(s) : s[k] # Semicolon
    /\ \A b \in Digit : Base64Value(b) < 64 /\ b \in Nat /\ b # Semicolon
  <1>1. \A b \in Digit : b \in Nat /\ b # Semicolon
    BY DEF Digit, Semicolon
  <1>2. \A b \in Digit : Base64Value(b) < 64
    BY DEF Digit, Base64Value
  <1>3. ASSUME NEW s, s \in Seq(Digit)
        PROVE  s \in Seq(Nat) /\ Len(s) \in Nat /\ \A k \in 1 .. Len(s) : s[k] # Semicolon
    <2>1. \A k \in 1 .. Len(s) : s[k] \in Digit
      BY <1>3
    <2> QED BY <1>1, <1>3, <2>1
  <1> QED BY <1>1, <1>2, <1>3

\* parse_and_complete() finds the three fields.
LEMMA ParseChunkText ==
    ASSUME NEW rd, NEW m, Word31(m), NEW n, Word31(n), NEW z \in Seq(Nat)
    PROVE  ParseAndComplete(rd, ChunkText(Decimal(m), Decimal(n), z)) = CompleteChunk(rd, m, n, z)
  <1> DEFINE x == Decimal(m)
             y == Decimal(n)
             t == ChunkText(x, y, z)
             i == Len(x)
             j == Len(y)
             l == Len(z)
  <1>1. x \in Seq(Digit) /\ IsUint(x) /\ ParseUint(x) = m
    BY DecimalRoundTrip
  <1>2. y \in Seq(Digit) /\ IsUint(y) /\ ParseUint(y) = n
    BY DecimalRoundTrip
  <1> HIDE DEF x, y
  <1>3. /\ x \in Seq(Nat) /\ \A k \in 1 .. i : x[k] # Semicolon
        /\ y \in Seq(Nat) /\ \A k \in 1 .. j : y[k] # Semicolon
    BY <1>1, <1>2, DigitFacts
  <1>4. /\ t \in Seq(Nat) /\ i \in Nat /\ j \in Nat /\ l \in Nat
        /\ Len(t) = i + j + 2 + l
        /\ \A k \in 1 .. i : t[k] = x[k]
        /\ t[i + 1] = Semicolon
        /\ \A k \in 1 .. j : t[i + 1 + k] = y[k]
        /\ t[i + j + 2] = Semicolon
        /\ \A k \in 1 .. l : t[i + j + 2 + k] = z[k]
    <2>1. TextParts(t, x, y, z)
      BY <1>3, ChunkTextAt
    <2> HIDE DEF t
    <2> QED BY <2>1 DEF TextParts
  <1> HIDE DEF t, i, j, l
  <1>5. FindSemicolon(t, 1) = i + 1
    <2> DEFINE semis == {k \in 1 .. Len(t) : t[k] = Semicolon}
    <2>1. i + 1 \in semis
      BY <1>4
    <2>2. \A k \in semis : i + 1 <= k
      <3> TAKE k \in semis
      <3>0. k \in 1 .. Len(t) /\ t[k] = Semicolon /\ Len(t) \in Nat
        BY <1>4
      <3>1. k \in Nat /\ k >= 1 /\ ~(k \in 1 .. i)
        <4>1. k \in 1 .. i => t[k] = x[k] /\ x[k] # Semicolon
          BY <1>3, <1>4
        <4> QED BY <3>0, <4>1
      <3> QED BY <1>4, <3>1
    <2>3. \A k \in semis : (\A o \in semis : k <= o) => k = i + 1
      <3> TAKE k \in semis
      <3>1. k \in Nat
        BY <1>4
      <3> HIDE DEF semis
      <3> QED BY <1>4, <2>1, <2>2, <3>1
    <2>4. FindSemicolon(t, 1) = IF semis = {} THEN 0 ELSE CHOOSE k \in semis : \A o \in semis : k <= o
      BY DEF FindSemicolon
    <2> HIDE DEF semis
    <2> QED BY <2>1, <2>2, <2>3, <2>4
  <1>6. FindSemicolon(t, (i + 1) + 1) = i + j + 2
    <2> DEFINE semis == {k \in (i + 1) + 1 .. Len(t) : t[k] = Semicolon}
    <2>1. i + j + 2 \in semis
      BY <1>4
    <2>2. \A k \in semis : i + j + 2 <= k
      <3> TAKE k \in semis
      <3>1. k \in Nat /\ k >= i + 2 /\ t[k] = Semicolon
        BY <1>4
      <3>2. ASSUME k < i + j + 2 PROVE FALSE
        <4>1. k - (i + 1) \in 1 .. j /\ i + 1 + (k - (i + 1)) = k
          <5>1. i \in Nat /\ j \in Nat
            BY <1>4
          <5> QED BY <3>1, <3>2, <5>1
        <4>2. t[i + 1 + (k - (i + 1))] = y[k - (i + 1)] /\ y[k - (i + 1)] # Semicolon
          <5>1. /\ \A o \in 1 .. j : t[i + 1 + o] = y[o]
                /\ \A o \in 1 .. j : y[o] # Semicolon
            BY <1>3, <1>4
          <5> QED BY ONLY <4>1, <5>1
        <4> QED BY <3>1, <4>1, <4>2
      <3> QED BY <1>4, <3>1, <3>2
    <2>3. \A k \in semis : (\A o \in semis : k <= o) => k = i + j + 2
      <3> TAKE k \in semis
      <3>1. k \in Nat
        BY <1>4
      <3> HIDE DEF semis
      <3> QED BY <1>4, <2>1, <2>2, <3>1
    <2>4. FindSemicolon(t, (i + 1) + 1) = IF semis = {} THEN 0 ELSE CHOOSE k \in semis : \A o \in semis : k <= o
      BY DEF FindSemicolon
    <2> HIDE DEF semis
    <2> QED BY <2>1, <2>2, <2>3, <2>4
  <1> DEFINE first == i + 1
             second == i + j + 2
             tx == SubSeq(t, 1, first - 1)
             ty == SubSeq(t, first + 1, second - 1)
             tz == SubSeq(t, second + 1, Len(t))
  <1>7. tx = x
    <2>1. first - 1 = i /\ 1 \in Nat \ {0} /\ i <= Len(t)
      BY <1>4
    <2>2. /\ tx \in Seq(Nat) /\ Len(tx) = (IF 1 <= i THEN i - 1 + 1 ELSE 0)
          /\ \A k \in 1 .. i - 1 + 1 : tx[k] = t[1 + k - 1]
      BY <1>4, <2>1, SubSeqFacts
    <2>3. Len(tx) = i /\ \A k \in 1 .. i : tx[k] = t[k]
      BY <1>4, <2>2
    <2> HIDE DEF tx
    <2> QED BY <1>3, <1>4, <2>2, <2>3, SameSeq, SMTT(40) DEF i
  <1>8. ty = y
    <2>1. first + 1 = i + 2 /\ second - 1 = i + j + 1 /\ i + 2 \in Nat \ {0} /\ i + j + 1 <= Len(t) /\ i + j + 1 \in Nat
      BY <1>4
    <2>2. /\ ty \in Seq(Nat) /\ Len(ty) = (IF i + 2 <= i + j + 1 THEN (i + j + 1) - (i + 2) + 1 ELSE 0)
          /\ \A k \in 1 .. (i + j + 1) - (i + 2) + 1 : ty[k] = t[(i + 2) + k - 1]
      BY <1>4, <2>1, SubSeqFacts
    <2>3. Len(ty) = j /\ \A k \in 1 .. j : ty[k] = t[i + 1 + k]
      <3>1. (i + j + 1) - (i + 2) + 1 = j /\ (j > 0 => i + 2 <= i + j + 1) /\ (j = 0 => ~(i + 2 <= i + j + 1))
        BY <1>4
      <3>2. Len(ty) = j
        BY <1>4, <2>2, <3>1
      <3>3. ASSUME NEW k \in 1 .. j PROVE ty[k] = t[i + 1 + k]
        <4>1. (i + 2) + k - 1 = i + 1 + k
          BY <1>4
        <4>2. ty[k] = t[(i + 2) + k - 1]
          BY <2>2, <3>1
        <4> QED BY <4>1, <4>2
      <3> QED BY <3>2, <3>3
    <2> HIDE DEF ty
    <2>4. Len(ty) = Len(y) /\ (\A k \in 1 .. Len(ty) : ty[k] = y[k]) /\ ty \in Seq(Nat) /\ y \in Seq(Nat)
      BY <1>3, <1>4, <2>2, <2>3 DEF j
    <2> QED BY ONLY <2>4, SameSeq
  <1>9. tz = z
    <2>1. second + 1 = i + j + 3 /\ i + j + 3 \in Nat \ {0} /\ Len(t) \in Nat
      BY <1>4
    <2>2. /\ tz \in Seq(Nat) /\ Len(tz) = (IF i + j + 3 <= Len(t) THEN Len(t) - (i + j + 3) + 1 ELSE 0)
          /\ \A k \in 1 .. Len(t) - (i + j + 3) + 1 : tz[k] = t[(i + j + 3) + k - 1]
      BY <1>4, <2>1, SubSeqFacts
    <2>3. Len(tz) = l /\ \A k \in 1 .. l : tz[k] = t[i + j + 2 + k]
      <3>1. Len(t) - (i + j + 3) + 1 = l /\ \A k \in 1 .. l : (i + j + 3) + k - 1 = i + j + 2 + k
        BY <1>4
      <3>2. l \in Nat /\ (i + j + 3 <= Len(t) <=> l > 0)
        BY <1>4
      <3>3. Len(tz) = l
        BY <2>2, <3>1, <3>2
      <3> QED BY <2>2, <3>1, <3>3
    <2> HIDE DEF tz
    <2> QED BY <1>4, <2>2, <2>3, SameSeq DEF l
  <1>10. first # 0 /\ second # 0
    BY <1>4
  <1>11. ParseAndComplete(rd, t) =
           IF first # 0 /\ second # 0 /\ IsUint(tx) /\ IsUint(ty)
           THEN CompleteChunk(rd, ParseUint(tx), ParseUint(ty), tz) ELSE rd
    BY <1>5, <1>6 DEF ParseAndComplete
  <1> HIDE DEF tx, ty, tz, first, second
  <1> QED BY <1>1, <1>2, <1>7, <1>8, <1>9, <1>10, <1>11 DEF t, x, y

-----------------------------------------------------------------------------
(***************************************************************************)
(* The reader.                                                             *)
(***************************************************************************)
\* A scanner's state: the timer runs while bytes of the prefix are held, and
\* none are held inside a sequence, after an ESC or in a CSI sequence.
Shaped(s) ==
    /\ s.timer <=> s.match > 0
    /\ s.inSeq \/ s.esc \/ s.csi => s.match = 0
    /\ s.inSeq => ~s.esc /\ ~s.csi
    /\ s.esc => ~s.csi
Scanners(r) ==
    {s \in [inSeq : BOOLEAN, match : 0 .. Len(ScanPrefix(r)) - 1, capture : Seq(Nat), esc : BOOLEAN,
            csi : BOOLEAN, pending : Seq(Nat), timer : BOOLEAN] : Shaped(s)}
Assemblies == [active : BOOLEAN, total : Nat, expected : Nat, buf : Seq(Nat)]
Readers(r) == [s : Scanners(r), a : Assemblies, q : Seq(Seq(Nat))]

\* The prefixes.
LEMMA PrefixFacts ==
    ASSUME NEW r
    PROVE  LET p == ScanPrefix(r)
               n == Len(p)
           IN /\ p \in Seq(Nat) /\ n \in Nat /\ n >= 5
              /\ \A k \in 1 .. n : p[k] \in Nat
              /\ p[1] # OpenBracket /\ p[1] \in Nat
              /\ \A k \in 2 .. n : p[k] # p[1] /\ p[k] # ESC
              /\ OscFormat(r) => p = OscPrefix /\ n = 5 /\ p[1] = ESC
              /\ ~OscFormat(r) => p = MarkerPrefix /\ n = 6 /\ p[1] # ESC
  <1>1. ASSUME OscFormat(r) PROVE ScanPrefix(r) = OscPrefix
    BY <1>1 DEF ScanPrefix
  <1>2. ASSUME ~OscFormat(r) PROVE ScanPrefix(r) = MarkerPrefix
    BY <1>2 DEF ScanPrefix
  <1>3. /\ OscPrefix \in Seq(Nat) /\ Len(OscPrefix) = 5 /\ OscPrefix[1] = 27
        /\ \A k \in 2 .. 5 : OscPrefix[k] \in {93, 57, 59}
    BY DEF OscPrefix, ESC, Semicolon
  <1>4. /\ MarkerPrefix \in Seq(Nat) /\ Len(MarkerPrefix) = 6 /\ MarkerPrefix[1] = 66
        /\ \A k \in 2 .. 6 : MarkerPrefix[k] \in {73, 83, 79, 78, 60}
    BY DEF MarkerPrefix
  <1> DEFINE p == ScanPrefix(r)
             n == Len(p)
  <1>5. CASE OscFormat(r)
    <2>1. p \in Seq(Nat) /\ n = 5 /\ p[1] = 27 /\ \A k \in 2 .. 5 : p[k] \in {93, 57, 59}
      BY <1>1, <1>3, <1>5
    <2> HIDE DEF p
    <2>2. \A k \in 2 .. n : p[k] # 27
      BY <2>1
    <2>3. \A k \in 1 .. n : p[k] \in Nat
      BY <2>1
    <2>4. p = OscPrefix
      BY <1>1, <1>5 DEF p
    <2> QED BY <1>5, <2>1, <2>2, <2>3, <2>4 DEF OpenBracket, ESC, p
  <1>6. CASE ~OscFormat(r)
    <2>1. p \in Seq(Nat) /\ n = 6 /\ p[1] = 66 /\ \A k \in 2 .. 6 : p[k] \in {73, 83, 79, 78, 60}
      BY <1>2, <1>4, <1>6
    <2> HIDE DEF p
    <2>2. \A k \in 2 .. n : p[k] # 66 /\ p[k] # 27
      BY <2>1
    <2>3. \A k \in 1 .. n : p[k] \in Nat
      BY <2>1
    <2>4. p = MarkerPrefix
      BY <1>2, <1>6 DEF p
    <2> QED BY <1>6, <2>1, <2>2, <2>3, <2>4 DEF OpenBracket, ESC, p
  <1> QED BY <1>5, <1>6

\* The start of the prefix that a scanner holds.
Held(r, s) == SubSeq(ScanPrefix(r), 1, s.match)

\* What a scanner holds of the prefix is bytes, match of them.
LEMMA HeldType ==
    ASSUME NEW r, NEW s \in Scanners(r)
    PROVE  /\ Held(r, s) \in Seq(Nat) /\ Len(Held(r, s)) = s.match
           /\ \A k \in 1 .. s.match : Held(r, s)[k] = ScanPrefix(r)[k]
           /\ s.match \in Nat /\ s.match < Len(ScanPrefix(r))
           /\ s.match = 0 => Held(r, s) = << >>
  <1> DEFINE p == ScanPrefix(r)
             m == s.match
  <1>1. p \in Seq(Nat) /\ Len(p) \in Nat
    BY PrefixFacts
  <1>2. m \in Nat /\ m < Len(p)
    BY <1>1 DEF Scanners
  <1> HIDE DEF p, m
  <1> QED BY <1>1, <1>2 DEF Held, p, m

\* What base64_decode() makes are bytes.
LEMMA DecodeType ==
    ASSUME NEW chars \in Seq(Nat), Base64Good(chars)
    PROVE  Base64Decode(chars) \in Seq(Nat)
  <1> DEFINE n == Len(chars)
             m == n \div 4
             k == 3 * m - Pads(chars)
             val(i) == IF chars[i] = Equals THEN 0 ELSE Base64Value(chars[i])
  <1>1. n \in Nat /\ m \in Nat /\ n = 4 * m
    <2>1. n \in Nat /\ n % 4 = 0
      BY DEF Base64Good
    <2> HIDE DEF n
    <2> QED BY <2>1, DivFacts
  <1>2. Pads(chars) \in 0 .. 2 /\ (n = 0 => Pads(chars) = 0)
    BY DEF Pads
  <1>3. k \in Nat
    BY <1>1, <1>2
  <1>4. \A i \in 1 .. n : val(i) \in Nat
    <2> TAKE i \in 1 .. n
    <2>1. chars[i] \in Nat
      OBVIOUS
    <2> QED BY <2>1, ValueType
  <1> HIDE DEF val, m, n
  <1>5. \A g \in 0 .. m - 1 : Quad(chars, g) \in Nat
    <2> TAKE g \in 0 .. m - 1
    <2>1. 4 * g + 1 \in 1 .. n /\ 4 * g + 2 \in 1 .. n /\ 4 * g + 3 \in 1 .. n /\ 4 * g + 4 \in 1 .. n
      BY <1>1
    <2>2. val(4 * g + 1) \in Nat /\ val(4 * g + 2) \in Nat /\ val(4 * g + 3) \in Nat /\ val(4 * g + 4) \in Nat
      BY <1>4, <2>1
    <2>3. Quad(chars, g) = val(4 * g + 1) * 262144 + val(4 * g + 2) * 4096 + val(4 * g + 3) * 64 + val(4 * g + 4)
      BY SMT DEF Quad, val
    <2> DEFINE a == val(4 * g + 1)
               b == val(4 * g + 2)
               c == val(4 * g + 3)
               d == val(4 * g + 4)
    <2>4. a \in Nat /\ b \in Nat /\ c \in Nat /\ d \in Nat
      BY <2>2
    <2>5. Quad(chars, g) = a * 262144 + b * 4096 + c * 64 + d
      BY <2>3, SMT
    <2> HIDE DEF a, b, c, d
    <2> QED BY ONLY <2>4, <2>5, SMT
  <1>6. \A i \in 1 .. k : QuadByte(Quad(chars, (i - 1) \div 3), (i - 1) % 3) \in Nat
    <2> TAKE i \in 1 .. k
    <2> DEFINE g == (i - 1) \div 3
               j == (i - 1) % 3
    <2>1. i - 1 \in Nat /\ i - 1 < 3 * m
      BY <1>1, <1>2, <1>3
    <2>2. g \in Nat /\ j \in 0 .. 2 /\ i - 1 = 3 * g + j
      BY <2>1, DivFacts
    <2> HIDE DEF g, j
    <2>3. g \in 0 .. m - 1
      BY <1>1, <2>1, <2>2
    <2>4. Quad(chars, g) \in Nat
      BY <1>5, <2>3
    <2>5. j = 0 \/ j = 1 \/ j = 2
      BY <2>2
    <2>6. QuadByte(Quad(chars, g), j) \in Nat
      BY <2>4, <2>5, SMT DEF QuadByte
    <2> QED BY <2>6 DEF g, j
  <1>7. Base64Decode(chars) = [i \in 1 .. k |-> QuadByte(Quad(chars, (i - 1) \div 3), (i - 1) % 3)]
    BY DEF Base64Decode, m, n
  <1> HIDE DEF k
  <1>8. Base64Decode(chars) \in [1 .. k -> Nat]
    BY <1>6, <1>7
  <1> QED BY <1>3, <1>8

\* parse_uint() makes numbers.
LEMMA ParseUintType ==
    ASSUME NEW chars \in Seq(Nat), IsUint(chars)
    PROVE  ParseUint(chars) \in Nat
  <1>1. chars \in Seq(Digit)
    <2>1. \A i \in 1 .. Len(chars) : chars[i] \in Digit
      BY DEF IsUint, Digit
    <2>2. chars \in [1 .. Len(chars) -> Digit] /\ Len(chars) \in Nat
      BY <2>1
    <2> QED BY <2>2
  <1>2. PICK h : Parsed(h, chars) /\ ParseUint(chars) = h[Len(chars)]
    BY <1>1, ParseUintSteps
  <1> QED BY <1>2 DEF Parsed

\* The fields of a body that parse_and_complete() looks at.
LEMMA FieldTypes ==
    ASSUME NEW body \in Seq(Nat)
    PROVE  LET first == FindSemicolon(body, 1)
               second == FindSemicolon(body, first + 1)
           IN /\ SubSeq(body, 1, first - 1) \in Seq(Nat)
              /\ SubSeq(body, first + 1, second - 1) \in Seq(Nat)
              /\ SubSeq(body, second + 1, Len(body)) \in Seq(Nat)
  <1> DEFINE first == FindSemicolon(body, 1)
             second == FindSemicolon(body, first + 1)
             x == SubSeq(body, 1, first - 1)
             y == SubSeq(body, first + 1, second - 1)
             z == SubSeq(body, second + 1, Len(body))
  <1>1. ASSUME NEW from \in Nat \ {0}
        PROVE  FindSemicolon(body, from) \in 0 .. Len(body)
    <2> DEFINE semis == {k \in from .. Len(body) : body[k] = Semicolon}
    <2>1. \A k \in semis : k \in 0 .. Len(body)
      OBVIOUS
    <2>2. 0 \in 0 .. Len(body)
      OBVIOUS
    <2>3. FindSemicolon(body, from) = IF semis = {} THEN 0 ELSE CHOOSE k \in semis : \A o \in semis : k <= o
      BY DEF FindSemicolon
    <2> DEFINE least == CHOOSE k \in semis : \A o \in semis : k <= o
    <2>4. CASE \E k \in semis : \A o \in semis : k <= o
      <3>1. least \in semis
        BY <2>4
      <3> QED BY <2>1, <2>2, <2>3, <3>1
    <2>5. CASE semis = {}
      BY <2>2, <2>3, <2>5
    <2>6. semis # {} => \E k \in semis : \A o \in semis : k <= o
      <3>1. semis \in SUBSET Nat
        OBVIOUS
      <3> QED BY <3>1, LeastNat
    <2> QED BY <2>4, <2>5, <2>6
  <1>2. first \in 0 .. Len(body)
    BY <1>1
  <1>3. second \in 0 .. Len(body)
    <2>1. first + 1 \in Nat \ {0}
      BY <1>2
    <2> QED BY <1>1, <2>1
  <1> HIDE DEF first, second
  <1>4. x \in Seq(Nat) /\ y \in Seq(Nat) /\ z \in Seq(Nat)
    <2>1. \A i \in Nat \ {0}, j \in Int : j <= Len(body) => SubSeq(body, i, j) \in Seq(Nat)
      OBVIOUS
    <2>2. first - 1 \in Int /\ first - 1 <= Len(body) /\ first + 1 \in Nat \ {0} /\ second - 1 \in Int
          /\ second - 1 <= Len(body) /\ second + 1 \in Nat \ {0} /\ Len(body) \in Int
      BY <1>2, <1>3
    <2> QED BY <2>1, <2>2
  <1> QED BY <1>4 DEF first, second

\* complete_marker() and parse_and_complete() leave the scanner alone.
LEMMA CompleteType ==
    ASSUME NEW r, NEW rd \in Readers(r), NEW body \in Seq(Nat)
    PROVE  /\ CompleteMarker(rd, body) \in Readers(r) /\ CompleteMarker(rd, body).s = rd.s
           /\ ParseAndComplete(rd, body) \in Readers(r) /\ ParseAndComplete(rd, body).s = rd.s
  <1>1. rd.s \in Scanners(r) /\ rd.a \in Assemblies /\ rd.q \in Seq(Seq(Nat))
    BY DEF Readers
  <1>2. \A f \in Seq(Nat) : [rd EXCEPT !.q = Append(@, f)] \in Readers(r)
    <2> TAKE f \in Seq(Nat)
    <2>1. Append(rd.q, f) \in Seq(Seq(Nat))
      BY <1>1
    <2> QED BY <2>1 DEF Readers
  <1>3. \A f : [rd EXCEPT !.q = Append(@, f)].s = rd.s
    BY DEF Readers
  <1>4. CompleteMarker(rd, body) \in Readers(r) /\ CompleteMarker(rd, body).s = rd.s
    BY <1>2, <1>3, DecodeType DEF CompleteMarker
  <1>5. ASSUME NEW seq \in Nat, NEW total \in Nat, NEW z \in Seq(Nat)
        PROVE  CompleteChunk(rd, seq, total, z) \in Readers(r) /\ CompleteChunk(rd, seq, total, z).s = rd.s
    <2> DEFINE a == IF seq = 0 THEN [NoReassembly EXCEPT !.active = TRUE, !.total = total] ELSE rd.a
               next == [a EXCEPT !.buf = @ \o Base64Decode(z), !.expected = @ + 1]
    <2>1. NoReassembly \in Assemblies
      BY DEF NoReassembly, Assemblies
    <2>2. a \in Assemblies
      BY <1>1, <2>1 DEF Assemblies
    <2> HIDE DEF a
    <2>3. ASSUME Base64Good(z) PROVE next \in Assemblies /\ next.buf \in Seq(Nat)
      <3>1. Base64Decode(z) \in Seq(Nat) /\ a.buf \in Seq(Nat) /\ a.expected \in Nat
        BY <2>2, <2>3, DecodeType DEF Assemblies
      <3>2. a.buf \o Base64Decode(z) \in Seq(Nat) /\ a.expected + 1 \in Nat
        BY <3>1
      <3> QED BY <2>2, <3>2 DEF Assemblies
    <2> HIDE DEF next
    <2>4. \A b \in Assemblies, f \in Seq(Nat) :
             /\ [rd EXCEPT !.a = b] \in Readers(r) /\ [rd EXCEPT !.a = b].s = rd.s
             /\ [rd EXCEPT !.a = b, !.q = Append(@, f)] \in Readers(r)
             /\ [rd EXCEPT !.a = b, !.q = Append(@, f)].s = rd.s
      <3> TAKE b \in Assemblies, f \in Seq(Nat)
      <3>1. Append(rd.q, f) \in Seq(Seq(Nat))
        BY <1>1
      <3> QED BY <3>1 DEF Readers
    <2>5. CompleteChunk(rd, seq, total, z) =
            IF ~Base64Good(z) \/ total = 0 THEN rd
            ELSE IF ~a.active \/ seq # a.expected \/ total # a.total
            THEN [rd EXCEPT !.a = NoReassembly]
            ELSE IF next.expected = next.total
            THEN [rd EXCEPT !.a = NoReassembly, !.q = Append(@, next.buf)]
            ELSE [rd EXCEPT !.a = next]
      BY DEF CompleteChunk, a, next
    <2>6. << >> \in Seq(Nat)
      OBVIOUS
    <2>7. CASE ~Base64Good(z) \/ total = 0
      BY <2>5, <2>7
    <2>8. CASE ~(~Base64Good(z) \/ total = 0)
      <3>1. next \in Assemblies /\ next.buf \in Seq(Nat)
        BY <2>3, <2>8
      <3>2. CASE ~a.active \/ seq # a.expected \/ total # a.total
        BY <2>1, <2>4, <2>5, <2>6, <2>8, <3>2
      <3>3. CASE ~(~a.active \/ seq # a.expected \/ total # a.total) /\ next.expected = next.total
        <4> DEFINE fin == [rd EXCEPT !.a = NoReassembly, !.q = Append(@, next.buf)]
        <4>1. CompleteChunk(rd, seq, total, z) = fin
          BY <2>5, <2>8, <3>3
        <4>2. fin \in Readers(r) /\ fin.s = rd.s
          BY <2>1, <2>4, <3>1
        <4> HIDE DEF fin
        <4> QED BY <4>1, <4>2
      <3>4. CASE ~(~a.active \/ seq # a.expected \/ total # a.total) /\ next.expected # next.total
        BY <2>4, <2>5, <2>6, <2>8, <3>1, <3>4
      <3> QED BY <3>2, <3>3, <3>4
    <2> QED BY <2>7, <2>8
  <1>6. ParseAndComplete(rd, body) \in Readers(r) /\ ParseAndComplete(rd, body).s = rd.s
    <2> DEFINE first == FindSemicolon(body, 1)
               second == FindSemicolon(body, first + 1)
               x == SubSeq(body, 1, first - 1)
               y == SubSeq(body, first + 1, second - 1)
               z == SubSeq(body, second + 1, Len(body))
    <2>4. x \in Seq(Nat) /\ y \in Seq(Nat) /\ z \in Seq(Nat)
      BY FieldTypes
    <2>5. ParseAndComplete(rd, body) =
            IF first # 0 /\ second # 0 /\ IsUint(x) /\ IsUint(y)
            THEN CompleteChunk(rd, ParseUint(x), ParseUint(y), z) ELSE rd
      BY DEF ParseAndComplete
    <2> HIDE DEF first, second
    <2> HIDE DEF x, y, z
    <2>6. CASE IsUint(x) /\ IsUint(y)
      <3>1. ParseUint(x) \in Nat /\ ParseUint(y) \in Nat
        BY <2>4, <2>6, ParseUintType
      <3> QED BY <1>5, <2>4, <2>5, <3>1
    <2>7. CASE ~(IsUint(x) /\ IsUint(y))
      BY <2>5, <2>7
    <2> QED BY <2>6, <2>7
  <1> QED BY <1>4, <1>6

\* feed_byte() outside a sequence.
LEMMA FeedOutsideType ==
    ASSUME NEW r, NEW s \in Scanners(r), ~s.inSeq, NEW b \in Nat
    PROVE  FeedOutside(r, s, b) \in Scanners(r)
  <1> DEFINE p == ScanPrefix(r)
             t == [s EXCEPT !.esc = FALSE]
             held == s.pending \o SubSeq(p, 1, s.match)
             D == [inSeq : BOOLEAN, match : 0 .. Len(p) - 1, capture : Seq(Nat), esc : BOOLEAN,
                   csi : BOOLEAN, pending : Seq(Nat), timer : BOOLEAN]
  <1>1. p \in Seq(Nat) /\ Len(p) \in Nat /\ Len(p) >= 5
    BY PrefixFacts
  <1>2. s \in D /\ Shaped(s)
    BY DEF Scanners
  <1>3. /\ s.match \in Nat /\ s.match < Len(p) /\ s.pending \in Seq(Nat) /\ held \in Seq(Nat)
        /\ Append(held, b) \in Seq(Nat) /\ Append(s.pending, b) \in Seq(Nat) /\ << >> \in Seq(Nat)
    <2>1. SubSeq(p, 1, s.match) \in Seq(Nat) /\ s.match \in Nat /\ s.match < Len(p)
      BY HeldType DEF Held
    <2>2. s.pending \in Seq(Nat)
      BY <1>2
    <2> QED BY <2>1, <2>2
  <1> HIDE DEF p, held
  <1>4. CASE s.csi
    <2>1. FeedOutside(r, s, b) = [s EXCEPT !.pending = Append(@, b), !.csi = ~(b \in 64 .. 126)]
      BY <1>4 DEF FeedOutside, FeedInCsi
    <2> DEFINE c == ~(b \in 64 .. 126)
    <2> HIDE DEF c
    <2>2. [s EXCEPT !.pending = Append(@, b), !.csi = c] \in D
      BY <1>2, <1>3 DEF c
    <2>3. Shaped([s EXCEPT !.pending = Append(@, b), !.csi = c])
      BY <1>2, <1>4 DEF Shaped
    <2> QED BY <2>1, <2>2, <2>3 DEF Scanners, c, p
  <1>5. CASE ~s.csi /\ s.esc /\ b = OpenBracket
    <2> DEFINE u == [s EXCEPT !.esc = FALSE, !.csi = TRUE, !.pending = Append(@, b)]
    <2>1. FeedOutside(r, s, b) = u
      BY <1>5 DEF FeedOutside
    <2>2. u \in D
      BY <1>2, <1>3
    <2>3. Shaped(u)
      BY <1>2, <1>5 DEF Shaped
    <2> QED BY <2>1, <2>2, <2>3 DEF Scanners, p
  <1>6. CASE ~s.csi /\ ~(s.esc /\ b = OpenBracket)
    <2>1. FeedOutside(r, s, b) = FeedPrefix(r, t, b)
      BY <1>6 DEF FeedOutside
    <2> DEFINE m == s.match
               u1 == [t EXCEPT !.inSeq = TRUE, !.capture = << >>, !.match = 0, !.timer = FALSE]
               u2 == [t EXCEPT !.match = m + 1, !.timer = TRUE]
               u3 == [t EXCEPT !.esc = TRUE, !.match = 0, !.timer = FALSE, !.pending = Append(held, b)]
               u4 == [t EXCEPT !.match = 1, !.timer = TRUE, !.pending = held]
               u5 == [t EXCEPT !.match = 0, !.timer = FALSE, !.pending = Append(held, b)]
    <2>2. t \in D /\ t.match = m /\ t.pending = s.pending /\ t.csi = FALSE /\ t.esc = FALSE /\ t.inSeq = FALSE
      BY <1>2, <1>6
    <2> HIDE DEF t
    <2>3. FeedPrefix(r, t, b) = IF b = p[m + 1] THEN IF m + 1 = Len(p) THEN u1 ELSE u2
                                ELSE IF b = ESC THEN u3 ELSE IF b = p[1] THEN u4 ELSE u5
      BY <2>2 DEF FeedPrefix, p, held
    <2> DEFINE M == 0 .. Len(p) - 1
    <2>a. /\ 0 \in M /\ 1 \in M /\ (m + 1 # Len(p) => m + 1 \in M)
          /\ ~(0 > 0) /\ 1 > 0 /\ m + 1 > 0
      BY <1>1, <1>3
    <2>b. t \in [inSeq : BOOLEAN, match : M, capture : Seq(Nat), esc : BOOLEAN,
                  csi : BOOLEAN, pending : Seq(Nat), timer : BOOLEAN]
      BY <2>2
    <2> HIDE DEF M
    <2>4. u1 \in D /\ Shaped(u1)
      <3>1. u1 \in D
        BY <1>3, <2>a, <2>b DEF M
      <3>2. u1.inSeq = TRUE /\ u1.match = 0 /\ u1.timer = FALSE /\ u1.esc = FALSE /\ u1.csi = FALSE
        BY <2>2, <2>b
      <3> HIDE DEF u1
      <3> QED BY <2>a, <3>1, <3>2 DEF Shaped
    <2>5. m + 1 # Len(p) => u2 \in D /\ Shaped(u2)
      <3>1. m + 1 # Len(p) => u2 \in D
        BY <1>3, <2>a, <2>b DEF M
      <3>2. u2.inSeq = FALSE /\ u2.match = m + 1 /\ u2.timer = TRUE /\ u2.esc = FALSE /\ u2.csi = FALSE
        BY <2>2, <2>b
      <3> HIDE DEF u2
      <3> QED BY <2>a, <3>1, <3>2 DEF Shaped
    <2>6. u3 \in D /\ Shaped(u3)
      <3>1. u3 \in D
        BY <1>3, <2>a, <2>b DEF M
      <3>2. u3.inSeq = FALSE /\ u3.match = 0 /\ u3.timer = FALSE /\ u3.esc = TRUE /\ u3.csi = FALSE
        BY <2>2, <2>b
      <3> HIDE DEF u3
      <3> QED BY <2>a, <3>1, <3>2 DEF Shaped
    <2>7. u4 \in D /\ Shaped(u4)
      <3>1. u4 \in D
        BY <1>3, <2>a, <2>b DEF M
      <3>2. u4.inSeq = FALSE /\ u4.match = 1 /\ u4.timer = TRUE /\ u4.esc = FALSE /\ u4.csi = FALSE
        BY <2>2, <2>b
      <3> HIDE DEF u4
      <3> QED BY <2>a, <3>1, <3>2 DEF Shaped
    <2>8. u5 \in D /\ Shaped(u5)
      <3>1. u5 \in D
        BY <1>3, <2>a, <2>b DEF M
      <3>2. u5.inSeq = FALSE /\ u5.match = 0 /\ u5.timer = FALSE /\ u5.esc = FALSE /\ u5.csi = FALSE
        BY <2>2, <2>b
      <3> HIDE DEF u5
      <3> QED BY <2>a, <3>1, <3>2 DEF Shaped
    <2> HIDE DEF u1, u2, u3, u4, u5, m, D
    <2>9. FeedPrefix(r, t, b) \in D /\ Shaped(FeedPrefix(r, t, b))
      BY <2>3, <2>4, <2>5, <2>6, <2>7, <2>8
    <2> QED BY <2>1, <2>9 DEF Scanners, D, p
  <1> QED BY <1>4, <1>5, <1>6

\* feed_byte().
LEMMA FeedByteType ==
    ASSUME NEW r, NEW rd \in Readers(r), NEW b \in Nat
    PROVE  FeedTermByte(r, rd, b) \in Readers(r)
  <1> DEFINE s == rd.s
  <1>1. s \in Scanners(r) /\ s.capture \in Seq(Nat)
    BY DEF Readers, Scanners
  <1>2. \A t \in Scanners(r) : [rd EXCEPT !.s = t] \in Readers(r)
    BY DEF Readers
  <1>3. \A c \in Seq(Nat) : /\ [s EXCEPT !.capture = c] \in Scanners(r)
                            /\ [s EXCEPT !.capture = c, !.inSeq = FALSE] \in Scanners(r)
    BY <1>1 DEF Scanners, Shaped
  <1>4. CASE ~s.inSeq
    <2>1. FeedTermByte(r, rd, b) = [rd EXCEPT !.s = FeedOutside(r, s, b)]
      BY <1>4 DEF FeedTermByte
    <2> QED BY <1>1, <1>2, <1>4, <2>1, FeedOutsideType
  <1>5. CASE s.inSeq /\ b = ScanTerminator(r)
    <2>1. FeedTermByte(r, rd, b) = CompleteSequence(r, rd)
      BY <1>5 DEF FeedTermByte
    <2>2. PICK d \in Readers(r) : d.s = s /\ d = IF OscFormat(r) THEN ParseAndComplete(rd, s.capture)
                                                 ELSE CompleteMarker(rd, s.capture)
      BY <1>1, CompleteType
    <2>3. CompleteSequence(r, rd) = [d EXCEPT !.s = [@ EXCEPT !.capture = << >>, !.inSeq = FALSE, !.match = 0]]
      BY <2>2 DEF CompleteSequence
    <2>4. [s EXCEPT !.capture = << >>, !.inSeq = FALSE, !.match = 0] \in Scanners(r)
      <3>1. [s EXCEPT !.capture = << >>, !.inSeq = FALSE, !.match = 0] = [s EXCEPT !.capture = << >>, !.inSeq = FALSE]
        BY <1>1, <1>5 DEF Scanners, Shaped
      <3>2. << >> \in Seq(Nat)
        OBVIOUS
      <3> QED BY <1>3, <3>1, <3>2
    <2> QED BY <2>1, <2>2, <2>3, <2>4, ZenonT(40) DEF Readers
  <1>6. CASE s.inSeq /\ b # ScanTerminator(r)
    <2>1. FeedTermByte(r, rd, b) = [rd EXCEPT !.s = FeedInSequence(r, s, b)]
      BY <1>6 DEF FeedTermByte
    <2>2. << >> \in Seq(Nat) /\ Append(s.capture, b) \in Seq(Nat)
      BY <1>1
    <2>3. FeedInSequence(r, s, b) \in Scanners(r)
      <3>1. FeedInSequence(r, s, b) = IF OscFormat(r) /\ Len(s.capture) >= MaxCapture
                                      THEN [s EXCEPT !.capture = << >>, !.inSeq = FALSE]
                                      ELSE [s EXCEPT !.capture = Append(s.capture, b)]
        BY DEF FeedInSequence
      <3> QED BY <1>3, <2>2, <3>1
    <2> QED BY <1>2, <2>1, <2>3
  <1> QED BY <1>4, <1>5, <1>6

-----------------------------------------------------------------------------
(***************************************************************************)
(* Feeding bytes one after another.                                        *)
(***************************************************************************)
\* The readers that the bytes lead to.
FedSteps(h, r, rd, bytes) ==
    /\ h \in [0 .. Len(bytes) -> Readers(r)]
    /\ h[0] = rd
    /\ \A i \in 1 .. Len(bytes) : h[i] = FeedTermByte(r, h[i - 1], bytes[i])

\* The recursion of on_read() over its bytes is what its definition says.
LEMMA FeedTermSteps ==
    ASSUME NEW r, NEW rd \in Readers(r), NEW bytes \in Seq(Nat)
    PROVE  \E h : FedSteps(h, r, rd, bytes) /\ FeedTerm(r, rd, bytes) = h[Len(bytes)]
  <1> DEFINE n == Len(bytes)
             D == Readers(r)
             f == [i \in Nat |-> [d \in D |-> IF i \in 1 .. n THEN FeedTermByte(r, d, bytes[i]) ELSE d]]
  <1>1. n \in Nat /\ \A i \in 1 .. n : bytes[i] \in Nat
    OBVIOUS
  <1>2. \A i \in 1 .. n, d \in D : FeedTermByte(r, d, bytes[i]) \in D
    BY <1>1, FeedByteType
  <1> HIDE DEF n, D
  <1>3. f \in [Nat -> [D -> D]]
    BY <1>2
  <1> HIDE DEF f
  <1>4. PICK g \in [0 .. n -> D] : g[0] = rd /\ \A i \in 1 .. n : g[i] = f[i][g[i - 1]]
    <2>1. rd \in D
      BY DEF D
    <2>2. \E g : Steps(g, D, rd, f, n)
      BY <1>1, <1>3, <2>1, Recursion
    <2> QED BY <2>2 DEF Steps
  <1>5. ASSUME NEW i \in 1 .. n PROVE i - 1 \in 0 .. n /\ g[i] = FeedTermByte(r, g[i - 1], bytes[i])
    <2>1. i - 1 \in 0 .. n /\ i \in Nat
      BY <1>1
    <2>2. g[i - 1] \in D
      BY <1>4, <2>1
    <2>3. f[i][g[i - 1]] = FeedTermByte(r, g[i - 1], bytes[i])
      BY <2>1, <2>2 DEF f
    <2> QED BY <1>4, <2>1, <2>3
  <1> DEFINE Is(v) == v = [i \in 0 .. n |-> IF i = 0 THEN rd ELSE FeedTermByte(r, v[i - 1], bytes[i])]
             h == CHOOSE v : Is(v)
  <1>6. Is(g)
    <2>1. \A i \in 0 .. n : i = 0 \/ i \in 1 .. n
      BY <1>1
    <2>2. \A i \in 0 .. n : g[i] = IF i = 0 THEN rd ELSE FeedTermByte(r, g[i - 1], bytes[i])
      BY <1>4, <1>5, <2>1
    <2> QED BY <2>2
  <1>7. Is(h)
    BY <1>6
  <1>8. FeedTerm(r, rd, bytes) = h[n]
    BY DEF FeedTerm, n
  <1> HIDE DEF h
  <1>9. h[0] = rd /\ \A i \in 1 .. n : h[i] = FeedTermByte(r, h[i - 1], bytes[i])
    <2>1. 0 \in 0 .. n /\ \A i \in 1 .. n : i \in 0 .. n /\ i # 0
      BY <1>1
    <2> QED BY <1>7, <2>1
  <1> DEFINE T == {i \in Nat : i <= n => h[i] \in D}
  <1>10. 0 \in T
    BY <1>9 DEF D
  <1>11. ASSUME NEW i \in T PROVE i + 1 \in T
    <2> SUFFICES ASSUME i + 1 <= n PROVE h[i + 1] \in D
      OBVIOUS
    <2>1. i \in Nat /\ i <= n /\ i + 1 \in 1 .. n /\ (i + 1) - 1 = i
      BY <1>1
    <2>2. h[i + 1] = FeedTermByte(r, h[i], bytes[i + 1])
      BY <1>9, <2>1
    <2> QED BY <1>2, <2>1, <2>2
  <1> HIDE DEF T
  <1>12. T = Nat
    <2>1. T \in SUBSET Nat
      BY DEF T
    <2> QED BY <1>10, <1>11, <2>1, SetInduction
  <1>13. \A i \in 0 .. n : h[i] \in D
    <2> TAKE i \in 0 .. n
    <2>1. i \in Nat /\ i <= n
      BY <1>1
    <2>2. i \in T
      BY <1>12, <2>1
    <2> QED BY <2>1, <2>2 DEF T
  <1>14. DOMAIN h = 0 .. n /\ h = [i \in DOMAIN h |-> h[i]]
    BY <1>7
  <1>15. h \in [0 .. n -> D]
    BY <1>13, <1>14
  <1> QED BY <1>8, <1>9, <1>15 DEF FedSteps, n, D

\* Feeding bytes to a reader gives a reader.
LEMMA FeedTermType ==
    ASSUME NEW r, NEW rd \in Readers(r), NEW bytes \in Seq(Nat)
    PROVE  FeedTerm(r, rd, bytes) \in Readers(r)
  <1>1. PICK h : FedSteps(h, r, rd, bytes) /\ FeedTerm(r, rd, bytes) = h[Len(bytes)]
    BY FeedTermSteps
  <1>2. Len(bytes) \in 0 .. Len(bytes)
    OBVIOUS
  <1> QED BY <1>1, <1>2 DEF FedSteps

\* The empty sequence, and one more byte.
LEMMA FeedTermNone ==
    ASSUME NEW r, NEW rd \in Readers(r)
    PROVE  FeedTerm(r, rd, << >>) = rd
  <1>1. << >> \in Seq(Nat) /\ Len(<< >>) = 0
    OBVIOUS
  <1>2. PICK h : FedSteps(h, r, rd, << >>) /\ FeedTerm(r, rd, << >>) = h[Len(<< >>)]
    BY <1>1, FeedTermSteps
  <1> QED BY <1>1, <1>2 DEF FedSteps

\* One more byte is fed to the reader the others left.
LEMMA FeedTermAppend ==
    ASSUME NEW r, NEW rd \in Readers(r), NEW bytes \in Seq(Nat), NEW b \in Nat
    PROVE  /\ FeedTerm(r, rd, bytes) \in Readers(r)
           /\ FeedTerm(r, rd, Append(bytes, b)) = FeedTermByte(r, FeedTerm(r, rd, bytes), b)
  <1> DEFINE n == Len(bytes)
             more == Append(bytes, b)
  <1>1. /\ n \in Nat /\ more \in Seq(Nat) /\ Len(more) = n + 1 /\ more[n + 1] = b
        /\ \A i \in 1 .. n : more[i] = bytes[i]
    OBVIOUS
  <1> HIDE DEF n, more
  <1>2. PICK g : FedSteps(g, r, rd, bytes) /\ FeedTerm(r, rd, bytes) = g[n]
    BY FeedTermSteps DEF n
  <1>3. PICK h : FedSteps(h, r, rd, more) /\ FeedTerm(r, rd, more) = h[n + 1]
    BY <1>1, FeedTermSteps
  <1>4. g[0] = rd /\ \A i \in 1 .. n : g[i] = FeedTermByte(r, g[i - 1], bytes[i])
    BY <1>2 DEF FedSteps, n
  <1>5. h[0] = rd /\ \A i \in 1 .. n + 1 : h[i] = FeedTermByte(r, h[i - 1], more[i])
    BY <1>1, <1>3 DEF FedSteps
  <1> DEFINE T == {i \in Nat : i <= n => h[i] = g[i]}
  <1>6. 0 \in T
    BY <1>4, <1>5
  <1>7. ASSUME NEW i \in T PROVE i + 1 \in T
    <2> SUFFICES ASSUME i + 1 <= n PROVE h[i + 1] = g[i + 1]
      OBVIOUS
    <2>1. i \in Nat /\ i <= n /\ i + 1 \in 1 .. n /\ i + 1 \in 1 .. n + 1 /\ (i + 1) - 1 = i
      BY <1>1
    <2>2. h[i + 1] = FeedTermByte(r, h[i], more[i + 1])
      BY <1>5, <2>1
    <2>3. g[i + 1] = FeedTermByte(r, g[i], bytes[i + 1])
      BY <1>4, <2>1
    <2> QED BY <1>1, <2>1, <2>2, <2>3
  <1> HIDE DEF T
  <1>8. T = Nat
    <2>1. T \in SUBSET Nat
      BY DEF T
    <2> QED BY <1>6, <1>7, <2>1, SetInduction
  <1>9. h[n] = g[n]
    <2>1. n \in T /\ n <= n
      BY <1>1, <1>8
    <2> QED BY <2>1 DEF T
  <1>10. h[n + 1] = FeedTermByte(r, h[n], b)
    <2>1. n + 1 \in 1 .. n + 1 /\ (n + 1) - 1 = n
      BY <1>1
    <2> QED BY <1>1, <1>5, <2>1
  <1>11. g[n] \in Readers(r)
    <2>1. n \in 0 .. n
      BY <1>1
    <2> QED BY <1>2, <2>1 DEF FedSteps, n
  <1> QED BY <1>2, <1>3, <1>9, <1>10, <1>11 DEF more

\* A sequence is what precedes its last element, and that.
LEMMA SplitLast ==
    ASSUME NEW S, NEW t \in Seq(S), NEW n \in Nat, n + 1 <= Len(t)
    PROVE  /\ SubSeq(t, 1, n) \in Seq(S) /\ Len(SubSeq(t, 1, n)) = n /\ t[n + 1] \in S
           /\ SubSeq(t, 1, n + 1) = Append(SubSeq(t, 1, n), t[n + 1])
  OBVIOUS

\* The first element alone.
LEMMA FirstOf ==
    ASSUME NEW S, NEW t \in Seq(S), Len(t) >= 1
    PROVE  SubSeq(t, 1, 1) = <<t[1]>>
  <1>1. /\ SubSeq(t, 1, 0 + 1) = Append(SubSeq(t, 1, 0), t[0 + 1])
    BY SplitLast
  <1>2. 0 + 1 = 1 /\ SubSeq(t, 1, 0) = << >>
    OBVIOUS
  <1>3. \A x : Append(<< >>, x) = <<x>>
    OBVIOUS
  <1> QED BY <1>1, <1>2, <1>3

\* The whole of a sequence, and none of it.
LEMMA WholeSeq ==
    ASSUME NEW S, NEW t \in Seq(S)
    PROVE  SubSeq(t, 1, Len(t)) = t /\ SubSeq(t, 1, 0) = << >>
  OBVIOUS

\* The bytes up to the n-th.
Fed(r, rd, t, n) == FeedTerm(r, rd, SubSeq(t, 1, n))

\* A reader after each of its bytes.
LEMMA FedFacts ==
    ASSUME NEW r, NEW rd \in Readers(r), NEW t \in Seq(Nat)
    PROVE  /\ Fed(r, rd, t, 0) = rd
           /\ Fed(r, rd, t, Len(t)) = FeedTerm(r, rd, t)
           /\ \A n \in 0 .. Len(t) : Fed(r, rd, t, n) \in Readers(r)
           /\ \A n \in Nat : n + 1 <= Len(t) =>
                 /\ t[n + 1] \in Nat
                 /\ Fed(r, rd, t, n) \in Readers(r)
                 /\ Fed(r, rd, t, n + 1) = FeedTermByte(r, Fed(r, rd, t, n), t[n + 1])
  <1>1. Fed(r, rd, t, 0) = rd
    BY WholeSeq, FeedTermNone DEF Fed
  <1>2. Fed(r, rd, t, Len(t)) = FeedTerm(r, rd, t)
    BY WholeSeq DEF Fed
  <1>3. ASSUME NEW n \in Nat, n + 1 <= Len(t)
        PROVE  /\ t[n + 1] \in Nat
               /\ Fed(r, rd, t, n) \in Readers(r)
               /\ Fed(r, rd, t, n + 1) = FeedTermByte(r, Fed(r, rd, t, n), t[n + 1])
    <2>1. /\ SubSeq(t, 1, n) \in Seq(Nat) /\ t[n + 1] \in Nat
          /\ SubSeq(t, 1, n + 1) = Append(SubSeq(t, 1, n), t[n + 1])
      BY <1>3, SplitLast
    <2> DEFINE u == SubSeq(t, 1, n)
               b == t[n + 1]
    <2>2. u \in Seq(Nat) /\ b \in Nat /\ SubSeq(t, 1, n + 1) = Append(u, b)
      BY <2>1
    <2> HIDE DEF u, b
    <2>3. /\ FeedTerm(r, rd, u) \in Readers(r)
          /\ FeedTerm(r, rd, Append(u, b)) = FeedTermByte(r, FeedTerm(r, rd, u), b)
      BY ONLY <2>2, rd \in Readers(r), FeedTermAppend
    <2> QED BY <2>1, <2>2, <2>3 DEF Fed, u, b
  <1>4. \A n \in 0 .. Len(t) : Fed(r, rd, t, n) \in Readers(r)
    <2> TAKE n \in 0 .. Len(t)
    <2>1. SubSeq(t, 1, n) \in Seq(Nat)
      OBVIOUS
    <2> QED BY <2>1, FeedTermType DEF Fed
  <1> QED BY <1>1, <1>2, <1>3, <1>4

\* One sequence after another.
LEMMA FeedTermConcat ==
    ASSUME NEW r, NEW rd \in Readers(r), NEW x \in Seq(Nat), NEW y \in Seq(Nat)
    PROVE  /\ FeedTerm(r, rd, x) \in Readers(r)
           /\ FeedTerm(r, rd, x \o y) = FeedTerm(r, FeedTerm(r, rd, x), y)
  <1> DEFINE m == Len(x)
             n == Len(y)
             z == x \o y
             mid == FeedTerm(r, rd, x)
  <1>1. /\ z \in Seq(Nat) /\ m \in Nat /\ n \in Nat /\ Len(z) = m + n
        /\ \A k \in 1 .. n : z[m + k] = y[k]
    BY ConcatFacts
  <1>2. SubSeq(z, 1, m) = x
    OBVIOUS
  <1>4. mid \in Readers(r)
    BY FeedTermType
  <1> HIDE DEF mid, z, m, n
  <1>5. /\ \A i \in Nat : i + 1 <= m + n => Fed(r, rd, z, i + 1) = FeedTermByte(r, Fed(r, rd, z, i), z[i + 1])
        /\ Fed(r, rd, z, m + n) = FeedTerm(r, rd, z)
    <2>1. z \in Seq(Nat) /\ Len(z) = m + n
      BY <1>1
    <2>2. /\ \A i \in Nat : i + 1 <= Len(z) => Fed(r, rd, z, i + 1) = FeedTermByte(r, Fed(r, rd, z, i), z[i + 1])
          /\ Fed(r, rd, z, Len(z)) = FeedTerm(r, rd, z)
      BY <2>1, FedFacts
    <2> QED BY <2>1, <2>2
  <1>6. /\ \A i \in Nat : i + 1 <= n => Fed(r, mid, y, i + 1) = FeedTermByte(r, Fed(r, mid, y, i), y[i + 1])
        /\ Fed(r, mid, y, n) = FeedTerm(r, mid, y)
        /\ Fed(r, mid, y, 0) = mid
    BY <1>4, FedFacts DEF n
  <1> DEFINE T == {i \in Nat : i <= n => Fed(r, rd, z, m + i) = Fed(r, mid, y, i)}
  <1>7. 0 \in T
    <2>1. m + 0 = m
      BY <1>1
    <2> QED BY <1>2, <1>6, <2>1 DEF Fed, mid
  <1>8. ASSUME NEW i \in T PROVE i + 1 \in T
    <2> SUFFICES ASSUME i + 1 <= n PROVE Fed(r, rd, z, m + (i + 1)) = Fed(r, mid, y, i + 1)
      OBVIOUS
    <2>1. /\ i \in Nat /\ i <= n /\ m + i \in Nat /\ (m + i) + 1 = m + (i + 1) /\ (m + i) + 1 <= m + n
          /\ i + 1 \in 1 .. n
      BY <1>1
    <2>2. Fed(r, rd, z, m + (i + 1)) = FeedTermByte(r, Fed(r, rd, z, m + i), z[m + (i + 1)])
      BY <1>5, <2>1
    <2>3. z[m + (i + 1)] = y[i + 1]
      BY <1>1, <2>1
    <2> QED BY <1>6, <2>1, <2>2, <2>3
  <1> HIDE DEF T
  <1>9. T = Nat
    <2>1. T \in SUBSET Nat
      BY DEF T
    <2> QED BY <1>7, <1>8, <2>1, SetInduction
  <1>10. Fed(r, rd, z, m + n) = Fed(r, mid, y, n)
    <2>1. n \in T /\ n <= n
      BY <1>1, <1>9
    <2> QED BY <2>1 DEF T
  <1>11. FeedTerm(r, rd, z) = FeedTerm(r, mid, y)
    BY <1>5, <1>6, <1>10
  <1> QED BY <1>4, <1>11 DEF mid, z

-----------------------------------------------------------------------------
(***************************************************************************)
(* What a reader has already handed over does not matter to it.            *)
(***************************************************************************)
Later(s, p) == [s EXCEPT !.pending = p \o @]
Shift(rd, p, k) == [s |-> Later(rd.s, p), a |-> rd.a, q |-> k \o rd.q]

\* Appending goes on behind a concatenation.
LEMMA AppendLater ==
    ASSUME NEW S, NEW x \in Seq(S), NEW y \in Seq(S), NEW b \in S
    PROVE  x \o Append(y, b) = Append(x \o y, b) /\ x \o y \in Seq(S) /\ Append(y, b) \in Seq(S)
  OBVIOUS

\* A scanner with more bytes pending differs in nothing else.
LEMMA LaterType ==
    ASSUME NEW r, NEW s \in Scanners(r), NEW p \in Seq(Nat)
    PROVE  /\ Later(s, p) \in Scanners(r)
           /\ Later(s, p).pending = p \o s.pending
           /\ Later(s, p).inSeq = s.inSeq /\ Later(s, p).match = s.match
           /\ Later(s, p).capture = s.capture /\ Later(s, p).esc = s.esc
           /\ Later(s, p).csi = s.csi /\ Later(s, p).timer = s.timer
  <1>1. s.pending \in Seq(Nat)
    BY DEF Scanners
  <1>2. p \o s.pending \in Seq(Nat)
    BY <1>1
  <1> QED BY <1>2 DEF Later, Scanners, Shaped

\* A reader with more in front is a reader.
LEMMA ShiftType ==
    ASSUME NEW r, NEW rd \in Readers(r), NEW p \in Seq(Nat), NEW k \in Seq(Seq(Nat))
    PROVE  /\ Shift(rd, p, k) \in Readers(r)
           /\ Shift(rd, p, k).s = Later(rd.s, p) /\ Shift(rd, p, k).a = rd.a
           /\ Shift(rd, p, k).q = k \o rd.q
  <1>1. rd.s \in Scanners(r) /\ rd.a \in Assemblies /\ rd.q \in Seq(Seq(Nat))
    BY DEF Readers
  <1>2. Later(rd.s, p) \in Scanners(r)
    BY <1>1, LaterType
  <1>3. k \o rd.q \in Seq(Seq(Nat))
    BY <1>1
  <1> QED BY <1>1, <1>2, <1>3 DEF Shift, Readers

\* feed_byte() outside a sequence does not look at what is pending.
LEMMA LaterOutside ==
    ASSUME NEW r, NEW s \in Scanners(r), NEW p \in Seq(Nat), NEW b \in Nat
    PROVE  FeedOutside(r, Later(s, p), b) = Later(FeedOutside(r, s, b), p)
  <1> DEFINE pre == ScanPrefix(r)
             x == s.pending
             h == SubSeq(pre, 1, s.match)
             D == [inSeq : BOOLEAN, match : 0 .. Len(pre) - 1, capture : Seq(Nat), esc : BOOLEAN,
                   csi : BOOLEAN, pending : Seq(Nat), timer : BOOLEAN]
             l == Later(s, p)
  <1>1. x \in Seq(Nat) /\ h \in Seq(Nat) /\ s \in D
    BY HeldType DEF Held, Scanners
  <1>2. /\ p \o Append(x, b) = Append(p \o x, b)
        /\ (p \o x) \o h = p \o (x \o h)
        /\ p \o Append(x \o h, b) = Append(p \o (x \o h), b)
    <2>1. x \o h \in Seq(Nat) /\ x \in Seq(Nat) /\ h \in Seq(Nat)
      BY <1>1
    <2> HIDE DEF x, h
    <2>2. p \o (x \o h) = (p \o x) \o h
      BY ONLY <2>1, p \in Seq(Nat), ConcatAssoc, SMTT(40)
    <2>3. p \o Append(x, b) = Append(p \o x, b)
      BY ONLY <2>1, p \in Seq(Nat), b \in Nat, AppendLater
    <2> DEFINE xh == x \o h
    <2>4. xh \in Seq(Nat)
      BY <2>1
    <2> HIDE DEF xh
    <2>5. p \o Append(xh, b) = Append(p \o xh, b)
      BY ONLY <2>4, p \in Seq(Nat), b \in Nat, AppendLater
    <2> QED BY <2>2, <2>3, <2>5 DEF xh
  <1>3. l = [s EXCEPT !.pending = p \o x]
    BY DEF Later
  <1> DEFINE px == p \o x
             xb == Append(x, b)
             pxb == Append(p \o x, b)
             xh == x \o h
             pxh == (p \o x) \o h
             xhb == Append(x \o h, b)
             pxhb == Append((p \o x) \o h, b)
  <1>4. pxb = p \o xb /\ pxh = p \o xh /\ pxhb = p \o xhb
    BY <1>2
  <1> HIDE DEF l, px, xb, pxb, xh, pxh, xhb, pxhb, pre
  <1>5. l \in D /\ l.pending = px /\ l.csi = s.csi /\ l.esc = s.esc /\ l.match = s.match
    <2>1. l \in D
      BY LaterType DEF l, Scanners, pre
    <2> QED BY <2>1, LaterType DEF l, px
  <1>6. \A t \in D : Later(t, p) = [t EXCEPT !.pending = p \o t.pending]
    BY DEF Later
  <1>7. CASE s.csi
    <2> DEFINE c == ~(b \in 64 .. 126)
    <2> HIDE DEF c
    <2>1. FeedOutside(r, s, b) = [s EXCEPT !.pending = xb, !.csi = c]
      BY <1>7 DEF FeedOutside, FeedInCsi, xb, c
    <2>2. FeedOutside(r, l, b) = [l EXCEPT !.pending = pxb, !.csi = c]
      BY <1>5, <1>7 DEF FeedOutside, FeedInCsi, pxb, px, c
    <2>3. [l EXCEPT !.pending = pxb, !.csi = c] = [s EXCEPT !.pending = pxb, !.csi = c]
      BY <1>1, <1>3
    <2>4. Later([s EXCEPT !.pending = xb, !.csi = c], p) = [s EXCEPT !.pending = p \o xb, !.csi = c]
      BY <1>1 DEF Later
    <2> QED BY <1>4, <2>1, <2>2, <2>3, <2>4 DEF l
  <1>8. CASE ~s.csi /\ s.esc /\ b = OpenBracket
    <2>1. FeedOutside(r, s, b) = [s EXCEPT !.esc = FALSE, !.csi = TRUE, !.pending = xb]
      BY <1>8 DEF FeedOutside, xb
    <2>2. FeedOutside(r, l, b) = [l EXCEPT !.esc = FALSE, !.csi = TRUE, !.pending = pxb]
      BY <1>5, <1>8 DEF FeedOutside, pxb, px
    <2>3. [l EXCEPT !.esc = FALSE, !.csi = TRUE, !.pending = pxb] = [s EXCEPT !.esc = FALSE, !.csi = TRUE, !.pending = pxb]
      BY <1>1, <1>3
    <2>4. Later([s EXCEPT !.esc = FALSE, !.csi = TRUE, !.pending = xb], p) = [s EXCEPT !.esc = FALSE, !.csi = TRUE, !.pending = p \o xb]
      BY <1>1 DEF Later
    <2> QED BY <1>4, <2>1, <2>2, <2>3, <2>4 DEF l
  <1>9. CASE ~s.csi /\ ~(s.esc /\ b = OpenBracket)
    <2> DEFINE m == s.match
               t == [s EXCEPT !.esc = FALSE]
               tl == [l EXCEPT !.esc = FALSE]
               u1(v) == [v EXCEPT !.inSeq = TRUE, !.capture = << >>, !.match = 0, !.timer = FALSE]
               u2(v) == [v EXCEPT !.match = m + 1, !.timer = TRUE]
               u3(v, y) == [v EXCEPT !.esc = TRUE, !.match = 0, !.timer = FALSE, !.pending = y]
               u4(v, y) == [v EXCEPT !.match = 1, !.timer = TRUE, !.pending = y]
               u5(v, y) == [v EXCEPT !.match = 0, !.timer = FALSE, !.pending = y]
    <2>1. FeedOutside(r, s, b) = FeedPrefix(r, t, b) /\ FeedOutside(r, l, b) = FeedPrefix(r, tl, b)
      BY <1>5, <1>9 DEF FeedOutside
    <2>2. t.match = m /\ tl.match = m /\ t.pending = x /\ tl.pending = px
      BY <1>1, <1>5
    <2>3. tl = [t EXCEPT !.pending = px]
      BY <1>1, <1>3 DEF px
    <2>0. DOMAIN t = DOMAIN s /\ "pending" \in DOMAIN t /\ "match" \in DOMAIN t /\ "timer" \in DOMAIN t
          /\ "inSeq" \in DOMAIN t /\ "capture" \in DOMAIN t /\ "esc" \in DOMAIN t /\ t.pending = x
      BY <1>1
    <2> HIDE DEF t, tl
    <2>4. FeedPrefix(r, t, b) = IF b = pre[m + 1] THEN IF m + 1 = Len(pre) THEN u1(t) ELSE u2(t)
                                ELSE IF b = ESC THEN u3(t, xhb) ELSE IF b = pre[1] THEN u4(t, xh) ELSE u5(t, xhb)
      BY <2>2 DEF FeedPrefix, pre, xh, xhb
    <2>5. FeedPrefix(r, tl, b) = IF b = pre[m + 1] THEN IF m + 1 = Len(pre) THEN u1(tl) ELSE u2(tl)
                                ELSE IF b = ESC THEN u3(tl, pxhb) ELSE IF b = pre[1] THEN u4(tl, pxh) ELSE u5(tl, pxhb)
      BY <2>2 DEF FeedPrefix, pre, pxh, pxhb, px
    <2>6. u1(tl) = Later(u1(t), p)
      BY <2>0, <2>3 DEF Later, px
    <2>7. u2(tl) = Later(u2(t), p)
      BY <2>0, <2>3 DEF Later, px
    <2>8. u3(tl, pxhb) = Later(u3(t, xhb), p)
      BY <1>4, <2>0, <2>3 DEF Later
    <2>9. u4(tl, pxh) = Later(u4(t, xh), p)
      BY <1>4, <2>0, <2>3 DEF Later
    <2>10. u5(tl, pxhb) = Later(u5(t, xhb), p)
      BY <1>4, <2>0, <2>3 DEF Later
    <2> HIDE DEF u1, u2, u3, u4, u5
    <2>11. FeedPrefix(r, tl, b) = Later(FeedPrefix(r, t, b), p)
      BY <2>4, <2>5, <2>6, <2>7, <2>8, <2>9, <2>10
    <2> QED BY <2>1, <2>11 DEF l
  <1> QED BY <1>7, <1>8, <1>9

\* A reader, field by field.
Rd(s, a, q) == [s |-> s, a |-> a, q |-> q]

\* The fields of a reader.
LEMMA RdFields == \A x, y, z : Rd(x, y, z).s = x /\ Rd(x, y, z).a = y /\ Rd(x, y, z).q = z
  BY DEF Rd

\* A reader whose scanner is replaced.
LEMMA RdScan == \A x, y, z, u : [Rd(x, y, z) EXCEPT !.s = u] = Rd(u, y, z)
  BY DEF Rd

\* A reader whose reassembly is replaced.
LEMMA RdAssem == \A x, y, z, u : [Rd(x, y, z) EXCEPT !.a = u] = Rd(x, u, z)
  BY DEF Rd

\* A reader whose queue is replaced.
LEMMA RdQueue == \A x, y, z, u : [Rd(x, y, z) EXCEPT !.q = u] = Rd(x, y, u)
  BY DEF Rd

PutA(rd, x) == [rd EXCEPT !.a = x]
PutQ(rd, f) == [rd EXCEPT !.q = Append(@, f)]
PutAQ(rd, x, f) == [rd EXCEPT !.a = x, !.q = Append(@, f)]

\* The three ways a completed sequence changes a reader.
LEMMA RdPut ==
    \A x, y, z, u, f : /\ PutA(Rd(x, y, z), u) = Rd(x, u, z)
                       /\ PutQ(Rd(x, y, z), f) = Rd(x, y, Append(z, f))
                       /\ PutAQ(Rd(x, y, z), u, f) = Rd(x, u, Append(z, f))
  <1> TAKE x, y, z, u, f
  <1>1. PutA(Rd(x, y, z), u) = Rd(x, u, z)
    BY RdAssem DEF PutA
  <1>2. PutQ(Rd(x, y, z), f) = Rd(x, y, Append(z, f))
    <2> DEFINE w == Rd(x, y, z)
    <2>1. PutQ(w, f) = [w EXCEPT !.q = Append(w.q, f)]
      BY DEF PutQ
    <2>2. w.q = z
      BY RdFields
    <2>3. \A v : [w EXCEPT !.q = v] = Rd(x, y, v)
      BY RdQueue
    <2> HIDE DEF w
    <2> QED BY <2>1, <2>2, <2>3 DEF w
  <1>3. PutAQ(Rd(x, y, z), u, f) = Rd(x, u, Append(z, f))
    <2> DEFINE w == Rd(x, y, z)
               w2 == [w EXCEPT !.a = u]
    <2>1. w2 = Rd(x, u, z)
      BY RdAssem
    <2>2. PutAQ(w, u, f) = [w2 EXCEPT !.q = Append(w.q, f)]
      BY DEF PutAQ, Rd
    <2>3. w.q = z
      BY RdFields
    <2> HIDE DEF w, w2
    <2>4. \A v : [w2 EXCEPT !.q = v] = Rd(x, u, v)
      BY <2>1, RdQueue
    <2> QED BY <2>2, <2>3, <2>4 DEF w
  <1> QED BY <1>1, <1>2, <1>3

\* A reader is its fields.
LEMMA RdOf ==
    ASSUME NEW r, NEW rd \in Readers(r)
    PROVE  /\ rd = Rd(rd.s, rd.a, rd.q)
           /\ rd.s \in Scanners(r) /\ rd.a \in Assemblies /\ rd.q \in Seq(Seq(Nat))
  BY DEF Rd, Readers

\* Readers after a sequence was completed, in both worlds.
LEMMA ShiftPut ==
    ASSUME NEW r, NEW rd \in Readers(r), NEW p \in Seq(Nat), NEW k \in Seq(Seq(Nat)),
           NEW x, NEW f \in Seq(Nat)
    PROVE  /\ PutQ(Shift(rd, p, k), f) = Shift(PutQ(rd, f), p, k)
           /\ PutA(Shift(rd, p, k), x) = Shift(PutA(rd, x), p, k)
           /\ PutAQ(Shift(rd, p, k), x, f)
                = Shift(PutAQ(rd, x, f), p, k)
  <1>1. PICK s \in Scanners(r), a \in Assemblies, q \in Seq(Seq(Nat)) : rd = Rd(s, a, q)
    BY RdOf
  <1>2. rd.s = s /\ rd.a = a /\ rd.q = q
    BY <1>1, RdFields
  <1> DEFINE qf == Append(q, f)
             w == Shift(rd, p, k)
             ls == Later(s, p)
             kq == k \o q
  <1>3. k \o qf = Append(kq, f)
    BY AppendLater
  <1>4. w = Rd(ls, a, kq)
    BY <1>2 DEF Shift, Rd
  <1> HIDE DEF qf, w, ls, kq
  <1>5. w.q = kq
    BY <1>4, RdFields
  <1>6. ASSUME NEW b, NEW t PROVE Shift(Rd(s, b, t), p, k) = Rd(ls, b, k \o t)
    BY DEF Shift, Rd, ls
  <1>7. PutQ(w, f) = Shift(PutQ(rd, f), p, k)
    <2>3. PutQ(w, f) = Rd(ls, a, Append(kq, f))
      BY <1>4, RdPut
    <2>4. PutQ(rd, f) = Rd(s, a, qf)
      BY <1>1, RdPut DEF qf
    <2>5. Shift(Rd(s, a, qf), p, k) = Rd(ls, a, Append(kq, f))
      BY <1>3, <1>6
    <2> QED BY <2>3, <2>4, <2>5
  <1>8. PutA(w, x) = Shift(PutA(rd, x), p, k)
    <2>1. PutA(w, x) = Rd(ls, x, kq)
      BY <1>4, RdPut
    <2>2. PutA(rd, x) = Rd(s, x, q)
      BY <1>1, RdPut
    <2> QED BY <1>6, <2>1, <2>2 DEF kq
  <1>9. PutAQ(w, x, f) = Shift(PutAQ(rd, x, f), p, k)
    <2>3. PutAQ(w, x, f) = Rd(ls, x, Append(kq, f))
      BY <1>4, RdPut
    <2>4. PutAQ(rd, x, f) = Rd(s, x, qf)
      BY <1>1, RdPut DEF qf
    <2>5. Shift(Rd(s, x, qf), p, k) = Rd(ls, x, Append(kq, f))
      BY <1>3, <1>6
    <2> QED BY <2>3, <2>4, <2>5
  <1> QED BY <1>7, <1>8, <1>9 DEF w

\* Completing a sequence does not look at what is in front.
LEMMA ShiftComplete ==
    ASSUME NEW r, NEW rd \in Readers(r), NEW p \in Seq(Nat), NEW k \in Seq(Seq(Nat)),
           NEW body \in Seq(Nat)
    PROVE  /\ CompleteMarker(Shift(rd, p, k), body) = Shift(CompleteMarker(rd, body), p, k)
           /\ ParseAndComplete(Shift(rd, p, k), body) = Shift(ParseAndComplete(rd, body), p, k)
  <1>1. Shift(rd, p, k).a = rd.a
    BY DEF Shift
  <1>2. ASSUME NEW x, NEW f \in Seq(Nat)
        PROVE  /\ PutQ(Shift(rd, p, k), f) = Shift(PutQ(rd, f), p, k)
               /\ PutA(Shift(rd, p, k), x) = Shift(PutA(rd, x), p, k)
               /\ PutAQ(Shift(rd, p, k), x, f)
                    = Shift(PutAQ(rd, x, f), p, k)
    BY ShiftPut
  <1>3. CompleteMarker(Shift(rd, p, k), body) = Shift(CompleteMarker(rd, body), p, k)
    <2>1. CASE Base64Good(body)
      <3>1. Base64Decode(body) \in Seq(Nat)
        BY <2>1, DecodeType
      <3>2. PutQ(Shift(rd, p, k), Base64Decode(body))
              = Shift(PutQ(rd, Base64Decode(body)), p, k)
        BY <1>2, <3>1
      <3> QED BY <2>1, <3>2 DEF CompleteMarker, PutQ
    <2>2. CASE ~Base64Good(body)
      BY <2>2 DEF CompleteMarker
    <2> QED BY <2>1, <2>2
  <1>4. ASSUME NEW seq \in Nat, NEW total \in Nat, NEW z \in Seq(Nat)
        PROVE  CompleteChunk(Shift(rd, p, k), seq, total, z) = Shift(CompleteChunk(rd, seq, total, z), p, k)
    <2> DEFINE a == IF seq = 0 THEN [NoReassembly EXCEPT !.active = TRUE, !.total = total] ELSE rd.a
               next == [a EXCEPT !.buf = @ \o Base64Decode(z), !.expected = @ + 1]
               Is(v) == CompleteChunk(v, seq, total, z) =
                          IF ~Base64Good(z) \/ total = 0 THEN v
                          ELSE IF ~a.active \/ seq # a.expected \/ total # a.total
                          THEN PutA(v, NoReassembly)
                          ELSE IF next.expected = next.total
                          THEN PutAQ(v, NoReassembly, next.buf)
                          ELSE PutA(v, next)
    <2>1. Is(rd)
      BY DEF CompleteChunk, PutA, PutAQ
    <2>2. Is(Shift(rd, p, k))
      BY <1>1 DEF CompleteChunk, PutA, PutAQ
    <2>3. Base64Good(z) => next.buf \in Seq(Nat)
      <3> SUFFICES ASSUME Base64Good(z) PROVE next.buf \in Seq(Nat)
        OBVIOUS
      <3>1. Base64Decode(z) \in Seq(Nat)
        BY DecodeType
      <3>2. a \in Assemblies
        <4>1. rd.a \in Assemblies
          BY RdOf
        <4>2. NoReassembly \in Assemblies
          BY DEF NoReassembly, Assemblies
        <4> QED BY <4>1, <4>2 DEF Assemblies
      <3> HIDE DEF a
      <3>3. next.buf = a.buf \o Base64Decode(z) /\ a.buf \in Seq(Nat)
        BY <3>2 DEF Assemblies
      <3> HIDE DEF next
      <3> QED BY <3>1, <3>3
    <2> HIDE DEF a, next
    <2>4. << >> \in Seq(Nat)
      OBVIOUS
    <2>5. CASE ~Base64Good(z) \/ total = 0
      BY <2>1, <2>2, <2>5
    <2>6. CASE Base64Good(z) /\ total # 0 /\ (~a.active \/ seq # a.expected \/ total # a.total)
      BY <1>2, <2>1, <2>2, <2>4, <2>6
    <2>7. CASE Base64Good(z) /\ total # 0 /\ ~(~a.active \/ seq # a.expected \/ total # a.total)
               /\ next.expected = next.total
      <3>1. CompleteChunk(Shift(rd, p, k), seq, total, z) = PutAQ(Shift(rd, p, k), NoReassembly, next.buf)
        BY <2>2, <2>7
      <3>2. CompleteChunk(rd, seq, total, z) = PutAQ(rd, NoReassembly, next.buf)
        BY <2>1, <2>7
      <3>3. PutAQ(Shift(rd, p, k), NoReassembly, next.buf)
              = Shift(PutAQ(rd, NoReassembly, next.buf), p, k)
        BY <1>2, <2>3, <2>7
      <3> QED BY <3>1, <3>2, <3>3
    <2>8. CASE Base64Good(z) /\ total # 0 /\ ~(~a.active \/ seq # a.expected \/ total # a.total)
               /\ next.expected # next.total
      BY <1>2, <2>1, <2>2, <2>4, <2>8
    <2> QED BY <2>5, <2>6, <2>7, <2>8
  <1>5. ParseAndComplete(Shift(rd, p, k), body) = Shift(ParseAndComplete(rd, body), p, k)
    <2> DEFINE first == FindSemicolon(body, 1)
               second == FindSemicolon(body, first + 1)
               x == SubSeq(body, 1, first - 1)
               y == SubSeq(body, first + 1, second - 1)
               z == SubSeq(body, second + 1, Len(body))
    <2>1. x \in Seq(Nat) /\ y \in Seq(Nat) /\ z \in Seq(Nat)
      BY FieldTypes
    <2> DEFINE Is(v) == ParseAndComplete(v, body) =
                          IF first # 0 /\ second # 0 /\ IsUint(x) /\ IsUint(y)
                          THEN CompleteChunk(v, ParseUint(x), ParseUint(y), z) ELSE v
    <2>2. Is(rd) /\ Is(Shift(rd, p, k))
      BY DEF ParseAndComplete
    <2> HIDE DEF first, second, x, y, z
    <2>3. CASE first # 0 /\ second # 0 /\ IsUint(x) /\ IsUint(y)
      <3>1. ParseUint(x) \in Nat /\ ParseUint(y) \in Nat
        BY <2>1, <2>3, ParseUintType
      <3> QED BY <1>4, <2>1, <2>2, <2>3, <3>1
    <2>4. CASE ~(first # 0 /\ second # 0 /\ IsUint(x) /\ IsUint(y))
      BY <2>2, <2>4
    <2> QED BY <2>3, <2>4
  <1> QED BY <1>3, <1>5

\* Nor does any byte that is fed.
LEMMA ShiftByte ==
    ASSUME NEW r, NEW rd \in Readers(r), NEW p \in Seq(Nat), NEW k \in Seq(Seq(Nat)), NEW b \in Nat
    PROVE  FeedTermByte(r, Shift(rd, p, k), b) = Shift(FeedTermByte(r, rd, b), p, k)
  <1> DEFINE w == Shift(rd, p, k)
             s == rd.s
             l == Later(rd.s, p)
  <1>1. s \in Scanners(r) /\ s.capture \in Seq(Nat)
    BY DEF Readers, Scanners
  <1>a. rd = Rd(rd.s, rd.a, rd.q)
    BY RdOf
  <1>2. w = Rd(l, rd.a, k \o rd.q) /\ w.s = l /\ w \in Readers(r)
    BY ShiftType DEF Shift, Rd
  <1>3. l.inSeq = s.inSeq /\ l.capture = s.capture /\ l \in Scanners(r)
    BY <1>1, LaterType
  <1>4. \A t, u : u = Later(t, p) => [w EXCEPT !.s = u] = Shift([rd EXCEPT !.s = t], p, k)
    <2> TAKE t, u
    <2> HAVE u = Later(t, p)
    <2>1. [w EXCEPT !.s = u] = Rd(u, rd.a, k \o rd.q)
      BY <1>2, RdScan
    <2>2. [rd EXCEPT !.s = t] = Rd(t, rd.a, rd.q)
      BY <1>a, RdScan
    <2>3. Shift(Rd(t, rd.a, rd.q), p, k) = Rd(Later(t, p), rd.a, k \o rd.q)
      BY RdFields DEF Shift, Rd
    <2> QED BY <2>1, <2>2, <2>3
  <1>5. \A c : /\ Later([s EXCEPT !.capture = c], p) = [l EXCEPT !.capture = c]
               /\ Later([s EXCEPT !.capture = c, !.inSeq = FALSE], p) = [l EXCEPT !.capture = c, !.inSeq = FALSE]
               /\ Later([s EXCEPT !.capture = c, !.inSeq = FALSE, !.match = 0], p)
                    = [l EXCEPT !.capture = c, !.inSeq = FALSE, !.match = 0]
    BY <1>1 DEF Later, Scanners
  <1> HIDE DEF w, l
  <1>6. CASE ~s.inSeq
    <2>1. FeedTermByte(r, rd, b) = [rd EXCEPT !.s = FeedOutside(r, s, b)]
      BY <1>6 DEF FeedTermByte
    <2>2. FeedTermByte(r, w, b) = [w EXCEPT !.s = FeedOutside(r, l, b)]
      BY <1>2, <1>3, <1>6 DEF FeedTermByte
    <2>3. FeedOutside(r, l, b) = Later(FeedOutside(r, s, b), p)
      BY <1>1, LaterOutside DEF l
    <2> QED BY <1>4, <2>1, <2>2, <2>3 DEF w
  <1>7. CASE s.inSeq /\ b = ScanTerminator(r)
    <2> DEFINE Done(v) == IF OscFormat(r) THEN ParseAndComplete(v, s.capture) ELSE CompleteMarker(v, s.capture)
               d == Done(rd)
               e == Done(w)
               Clear(t) == [t EXCEPT !.capture = << >>, !.inSeq = FALSE, !.match = 0]
    <2>1. d \in Readers(r) /\ d.s = s
      BY <1>1, CompleteType
    <2>2. e = Shift(d, p, k)
      BY <1>1, ShiftComplete DEF w
    <2>3. FeedTermByte(r, rd, b) = [d EXCEPT !.s = Clear(@)]
      BY <1>7 DEF FeedTermByte, CompleteSequence
    <2>4. FeedTermByte(r, w, b) = [e EXCEPT !.s = Clear(@)]
      BY <1>2, <1>3, <1>7 DEF FeedTermByte, CompleteSequence
    <2> HIDE DEF d, e
    <2>5. Later(Clear(s), p) = Clear(l)
      BY <1>5
    <2>6. d = Rd(s, d.a, d.q)
      BY <2>1, RdOf
    <2>7. [d EXCEPT !.s = Clear(@)] = Rd(Clear(s), d.a, d.q)
      <3>1. [d EXCEPT !.s = Clear(d.s)] = Rd(Clear(d.s), d.a, d.q)
        BY <2>6, RdScan
      <3> QED BY <2>1, <3>1
    <2>8. e = Rd(l, d.a, k \o d.q) /\ e.s = l
      BY <2>1, <2>2 DEF Shift, l, Rd
    <2>9. [e EXCEPT !.s = Clear(@)] = Rd(Clear(l), d.a, k \o d.q)
      <3>1. [e EXCEPT !.s = Clear(e.s)] = Rd(Clear(e.s), d.a, k \o d.q)
        BY <2>8, RdScan
      <3> QED BY <2>8, <3>1
    <2>10. Shift(Rd(Clear(s), d.a, d.q), p, k) = Rd(Later(Clear(s), p), d.a, k \o d.q)
      BY RdFields DEF Shift, Rd
    <2> QED BY <2>3, <2>4, <2>5, <2>7, <2>9, <2>10 DEF w
  <1>8. CASE s.inSeq /\ b # ScanTerminator(r)
    <2>1. FeedTermByte(r, rd, b) = [rd EXCEPT !.s = FeedInSequence(r, s, b)]
      BY <1>8 DEF FeedTermByte
    <2>2. FeedTermByte(r, w, b) = [w EXCEPT !.s = FeedInSequence(r, l, b)]
      BY <1>2, <1>3, <1>8, SMTT(40) DEF FeedTermByte
    <2>3. FeedInSequence(r, l, b) = Later(FeedInSequence(r, s, b), p)
      <3>1. FeedInSequence(r, s, b) = IF OscFormat(r) /\ Len(s.capture) >= MaxCapture
                                      THEN [s EXCEPT !.capture = << >>, !.inSeq = FALSE]
                                      ELSE [s EXCEPT !.capture = Append(s.capture, b)]
        BY DEF FeedInSequence
      <3>2. FeedInSequence(r, l, b) = IF OscFormat(r) /\ Len(s.capture) >= MaxCapture
                                      THEN [l EXCEPT !.capture = << >>, !.inSeq = FALSE]
                                      ELSE [l EXCEPT !.capture = Append(s.capture, b)]
        BY <1>3 DEF FeedInSequence
      <3> QED BY <1>5, <3>1, <3>2
    <2> QED BY <1>4, <2>1, <2>2, <2>3 DEF w
  <1> QED BY <1>6, <1>7, <1>8

\* Over any number of bytes.
LEMMA ShiftFeed ==
    ASSUME NEW r, NEW rd \in Readers(r), NEW p \in Seq(Nat), NEW k \in Seq(Seq(Nat)),
           NEW bytes \in Seq(Nat)
    PROVE  FeedTerm(r, Shift(rd, p, k), bytes) = Shift(FeedTerm(r, rd, bytes), p, k)
  <1> DEFINE n == Len(bytes)
             w == Shift(rd, p, k)
  <1>1. w \in Readers(r) /\ n \in Nat
    BY ShiftType
  <1> HIDE DEF w, n
  <1>2. /\ Fed(r, rd, bytes, 0) = rd /\ Fed(r, rd, bytes, n) = FeedTerm(r, rd, bytes)
        /\ \A i \in Nat : i + 1 <= n =>
              /\ bytes[i + 1] \in Nat /\ Fed(r, rd, bytes, i) \in Readers(r)
              /\ Fed(r, rd, bytes, i + 1) = FeedTermByte(r, Fed(r, rd, bytes, i), bytes[i + 1])
    BY FedFacts DEF n
  <1>3. /\ Fed(r, w, bytes, 0) = w /\ Fed(r, w, bytes, n) = FeedTerm(r, w, bytes)
        /\ \A i \in Nat : i + 1 <= n =>
              Fed(r, w, bytes, i + 1) = FeedTermByte(r, Fed(r, w, bytes, i), bytes[i + 1])
    BY <1>1, FedFacts DEF n
  <1> DEFINE T == {i \in Nat : i <= n => Fed(r, w, bytes, i) = Shift(Fed(r, rd, bytes, i), p, k)}
  <1>4. 0 \in T
    BY <1>2, <1>3 DEF w
  <1>5. ASSUME NEW i \in T PROVE i + 1 \in T
    <2> SUFFICES ASSUME i + 1 <= n PROVE Fed(r, w, bytes, i + 1) = Shift(Fed(r, rd, bytes, i + 1), p, k)
      OBVIOUS
    <2>1. i \in Nat /\ i <= n
      BY <1>1
    <2> DEFINE x == Fed(r, rd, bytes, i)
               b == bytes[i + 1]
    <2>2. x \in Readers(r) /\ b \in Nat /\ Fed(r, rd, bytes, i + 1) = FeedTermByte(r, x, b)
      BY <1>2, <2>1
    <2>3. Fed(r, w, bytes, i + 1) = FeedTermByte(r, Shift(x, p, k), b)
      BY <1>3, <2>1
    <2> HIDE DEF x, b
    <2> QED BY <2>2, <2>3, ShiftByte
  <1> HIDE DEF T
  <1>6. T = Nat
    <2>1. T \in SUBSET Nat
      BY DEF T
    <2> QED BY <1>4, <1>5, <2>1, SetInduction
  <1>7. n \in T /\ n <= n
    BY <1>1, <1>6
  <1> QED BY <1>2, <1>3, <1>7 DEF T, w

-----------------------------------------------------------------------------
(***************************************************************************)
(* Terminal bytes.                                                         *)
(***************************************************************************)
\* The bytes that are not part of a frame, so far.
Flow(r, s) == s.pending \o Held(r, s)

\* What has flowed by is bytes.
LEMMA FlowType ==
    ASSUME NEW r, NEW s \in Scanners(r)
    PROVE  Flow(r, s) \in Seq(Nat) /\ s.pending \in Seq(Nat) /\ (s.match = 0 => Flow(r, s) = s.pending)
  <1>1. s.pending \in Seq(Nat) /\ Held(r, s) \in Seq(Nat) /\ (s.match = 0 => Held(r, s) = << >>)
    BY HeldType DEF Scanners
  <1> QED BY <1>1 DEF Flow

\* One byte outside a sequence: it completes the prefix, or it flows by.
FlowsBy(r, s, b, t) ==
    /\ ~t.inSeq
    /\ Flow(r, t) = Append(Flow(r, s), b)
    /\ \/ t.match = 0
       \/ t.match = s.match + 1 /\ b = ScanPrefix(r)[s.match + 1]
       \/ t.match = 1 /\ b = ScanPrefix(r)[1]
    /\ t.csi => b = OpenBracket \/ (s.csi /\ ~(b \in 64 .. 126))
Enters(r, s, b, t) ==
    /\ ~s.csi /\ b = ScanPrefix(r)[s.match + 1] /\ s.match + 1 = Len(ScanPrefix(r))
    /\ t.inSeq /\ t.capture = << >> /\ t.pending = s.pending

\* Every byte outside a sequence completes the prefix or flows by.
LEMMA OutsideStep ==
    ASSUME NEW r, NEW s \in Scanners(r), ~s.inSeq, NEW b \in Nat
    PROVE  LET t == FeedOutside(r, s, b)
           IN /\ t \in Scanners(r)
              /\ FlowsBy(r, s, b, t) \/ Enters(r, s, b, t)
  <1> DEFINE p == ScanPrefix(r)
             t == FeedOutside(r, s, b)
             m == s.match
             x == s.pending
             h == SubSeq(p, 1, m)
             D == [inSeq : BOOLEAN, match : 0 .. Len(p) - 1, capture : Seq(Nat), esc : BOOLEAN,
                   csi : BOOLEAN, pending : Seq(Nat), timer : BOOLEAN]
  <1>1. t \in Scanners(r) /\ t \in D
    BY FeedOutsideType DEF Scanners
  <1>2. s \in D /\ Shaped(s)
    BY DEF Scanners
  <1>3. /\ h \in Seq(Nat) /\ Len(h) = m /\ m \in Nat /\ m < Len(p) /\ h = Held(r, s)
        /\ m = 0 => h = << >>
    BY HeldType DEF Held
  <1>4. p \in Seq(Nat) /\ Len(p) \in Nat /\ Len(p) >= 5
    BY PrefixFacts
  <1>5. x \in Seq(Nat)
    BY <1>2
  <1>6. Flow(r, s) = x \o h /\ x \o h \in Seq(Nat)
    <2>1. Flow(r, s) = x \o h
      BY <1>3 DEF Flow
    <2>2. h \in Seq(Nat)
      BY <1>3
    <2> HIDE DEF x, h
    <2>3. x \o h \in Seq(Nat)
      BY <1>5, <2>2
    <2> QED BY <2>1, <2>3
  <1>7. \A u : u.match = 0 => Held(r, u) = << >>
    BY <1>4 DEF Held
  <1>8. \A u : u.match = 0 /\ u.pending \in Seq(Nat) => Flow(r, u) = u.pending
    BY <1>7 DEF Flow
  <1> HIDE DEF t, x, h, p, D
  <1>9. CASE s.csi
    <2>1. t = [s EXCEPT !.pending = Append(x, b), !.csi = ~(b \in 64 .. 126)]
      BY <1>9 DEF FeedOutside, FeedInCsi, t, x
    <2>2. t.pending = Append(x, b) /\ t.match = m /\ t.inSeq = s.inSeq /\ (t.csi => ~(b \in 64 .. 126))
      BY <1>2, <2>1 DEF D
    <2>3. m = 0 /\ x \o h = x
      BY <1>2, <1>3, <1>5, <1>9 DEF Shaped
    <2>4. Append(x, b) \in Seq(Nat)
      BY <1>5
    <2>5. Flow(r, t) = Append(x \o h, b)
      BY <1>8, <2>2, <2>3, <2>4
    <2> QED BY <1>1, <1>6, <1>9, <2>2, <2>3, <2>5 DEF FlowsBy, t
  <1>10. CASE ~s.csi /\ s.esc /\ b = OpenBracket
    <2>1. t = [s EXCEPT !.esc = FALSE, !.csi = TRUE, !.pending = Append(x, b)]
      BY <1>10 DEF FeedOutside, t, x
    <2>2. t.pending = Append(x, b) /\ t.match = m /\ t.inSeq = s.inSeq
      BY <1>2, <2>1 DEF D
    <2>3. m = 0 /\ x \o h = x
      BY <1>2, <1>3, <1>5, <1>10 DEF Shaped
    <2>4. Append(x, b) \in Seq(Nat)
      BY <1>5
    <2>5. Flow(r, t) = Append(x \o h, b)
      BY <1>8, <2>2, <2>3, <2>4
    <2> QED BY <1>1, <1>6, <1>10, <2>2, <2>3, <2>5 DEF FlowsBy, t
  <1>11. CASE ~s.csi /\ ~(s.esc /\ b = OpenBracket)
    <2> DEFINE v == [s EXCEPT !.esc = FALSE]
               y == Append(x \o h, b)
               u1 == [v EXCEPT !.inSeq = TRUE, !.capture = << >>, !.match = 0, !.timer = FALSE]
               u2 == [v EXCEPT !.match = m + 1, !.timer = TRUE]
               u3 == [v EXCEPT !.esc = TRUE, !.match = 0, !.timer = FALSE, !.pending = y]
               u4 == [v EXCEPT !.match = 1, !.timer = TRUE, !.pending = x \o h]
               u5 == [v EXCEPT !.match = 0, !.timer = FALSE, !.pending = y]
    <2>1. t = FeedPrefix(r, v, b)
      BY <1>11 DEF FeedOutside, t
    <2>2. v \in D /\ v.match = m /\ v.pending = x /\ v.csi = FALSE /\ v.esc = FALSE /\ v.inSeq = FALSE
      BY <1>2, <1>11 DEF x, D
    <2> HIDE DEF v, m
    <2>3. t = IF b = p[m + 1] THEN IF m + 1 = Len(p) THEN u1 ELSE u2
              ELSE IF b = ESC THEN u3 ELSE IF b = p[1] THEN u4 ELSE u5
      BY <2>1, <2>2 DEF FeedPrefix, p, x, h
    <2>4. y \in Seq(Nat)
      BY <1>6
    <2>5. CASE b = p[m + 1] /\ m + 1 = Len(p)
      <3>1. t.inSeq = TRUE /\ t.capture = << >> /\ t.pending = x
        BY <2>2, <2>3, <2>5 DEF D
      <3> QED BY <1>1, <1>11, <2>5, <3>1 DEF Enters, t, m, p, x
    <2>6. CASE b = p[m + 1] /\ m + 1 # Len(p)
      <3>1. t.inSeq = FALSE /\ t.csi = FALSE /\ t.match = m + 1 /\ t.pending = x
        BY <2>2, <2>3, <2>6 DEF D
      <3>2. Held(r, t) = Append(h, b)
        BY <1>3, <1>4, <2>6, <3>1 DEF Held, h, p
      <3>3. x \o Append(h, b) = Append(x \o h, b)
        BY <1>3, <1>5, AppendLater
      <3>4. Flow(r, t) = Append(Flow(r, s), b)
        BY <1>6, <3>1, <3>2, <3>3 DEF Flow
      <3> QED BY <1>1, <2>6, <3>1, <3>4 DEF FlowsBy, t, m, p
    <2>7. CASE b # p[m + 1] /\ b # ESC /\ b = p[1]
      <3>1. t.inSeq = FALSE /\ t.csi = FALSE /\ t.match = 1 /\ t.pending = x \o h
        BY <2>2, <2>3, <2>7 DEF D
      <3>2. Held(r, t) = <<b>>
        <4>1. Held(r, t) = SubSeq(p, 1, 1)
          BY <3>1 DEF Held, p
        <4>2. SubSeq(p, 1, 1) = <<p[1]>>
          <5>1. p \in Seq(Nat) /\ Len(p) >= 1
            BY <1>4
          <5> QED BY ONLY <5>1, FirstOf
        <4> QED BY <2>7, <4>1, <4>2
      <3>3. (x \o h) \o <<b>> = Append(x \o h, b)
        BY <1>6
      <3>4. Flow(r, t) = Append(Flow(r, s), b)
        BY <1>6, <3>1, <3>2, <3>3 DEF Flow
      <3> QED BY <1>1, <2>7, <3>1, <3>4 DEF FlowsBy, t, p
    <2>8. CASE b # p[m + 1] /\ (b = ESC \/ b # p[1])
      <3>1. t.inSeq = FALSE /\ t.csi = FALSE /\ t.match = 0 /\ t.pending = y
        BY <2>2, <2>3, <2>8 DEF D
      <3>2. Flow(r, t) = Append(Flow(r, s), b)
        BY <1>6, <1>8, <2>4, <3>1
      <3> QED BY <1>1, <3>1, <3>2 DEF FlowsBy, t
    <2> QED BY <2>5, <2>6, <2>7, <2>8
  <1> QED BY <1>9, <1>10, <1>11

\* Between frames.
Rest(r, s) == ~s.inSeq /\ ~s.csi /\ (OscFormat(r) => s.match = 0)

\* What is written between frames flows by.
LEMMA NoiseFlows ==
    ASSUME NEW r, NEW rd \in Readers(r), Rest(r, rd.s), NEW bytes, TerminalBytes(r, bytes)
    PROVE  LET out == FeedTerm(r, rd, bytes)
           IN /\ bytes \in Seq(Nat) /\ out \in Readers(r) /\ Rest(r, out.s)
              /\ out.a = rd.a /\ out.q = rd.q
              /\ Flow(r, out.s) = Flow(r, rd.s) \o bytes
  <1> DEFINE p == ScanPrefix(r)
             P == Len(p)
             n == Len(bytes)
             m == rd.s.match
             start == SubSeq(p, 1, m)
             full == start \o bytes
             F(k) == Fed(r, rd, bytes, k)
             s(k) == Fed(r, rd, bytes, k).s
             fl == Flow(r, rd.s)
  <1>1. bytes \in Seq(Nat) /\ n \in Nat
    <2>1. bytes \in Seq(Octet)
      BY DEF TerminalBytes, Octet
    <2>2. \A k \in 1 .. n : bytes[k] \in Nat
      <3> TAKE k \in 1 .. n
      <3>1. bytes[k] \in Octet
        BY <2>1
      <3>2. \A z \in Octet : z \in Nat
        BY DEF Octet
      <3> QED BY <3>1, <3>2
    <2>3. bytes \in [1 .. n -> Nat] /\ n \in Nat
      BY <2>1, <2>2
    <2> QED BY <2>3
  <1>2. /\ rd.s \in Scanners(r) /\ start \in Seq(Nat) /\ Len(start) = m /\ m \in Nat /\ m < P
        /\ \A k \in 1 .. m : start[k] = p[k]
    BY RdOf, HeldType DEF Held
  <1>3. P \in Nat /\ P >= 5
    BY PrefixFacts
  <1>4. /\ full \in Seq(Nat) /\ Len(full) = m + n
        /\ \A k \in 1 .. m : full[k] = p[k]
        /\ \A k \in 1 .. n : full[m + k] = bytes[k]
    <2>1. start \in Seq(Nat)
      BY <1>2
    <2> HIDE DEF start
    <2>2. /\ full \in Seq(Nat) /\ Len(full) = Len(start) + Len(bytes)
          /\ \A k \in 1 .. Len(start) : full[k] = start[k]
          /\ \A k \in 1 .. Len(bytes) : full[Len(start) + k] = bytes[k]
      BY ONLY <1>1, <2>1, ConcatFacts
    <2> QED BY <1>2, <2>2
  <1>5. ~Occurs(p, full)
    <2>1. m \in 0 .. P - 1
      BY <1>2, <1>3
    <2> QED BY <2>1 DEF TerminalBytes
  <1>6. \A i \in 1 .. n : bytes[i] = OpenBracket => \E j \in i + 1 .. n : bytes[j] \in 64 .. 126
    BY DEF TerminalBytes
  <1>7. OscFormat(r) => \A j \in 1 .. P - 1 : j <= n => \E k \in 1 .. j : bytes[n - j + k] # p[k]
    BY DEF TerminalBytes
  <1>8. /\ F(0) = rd /\ F(n) = FeedTerm(r, rd, bytes)
        /\ \A k \in 0 .. n : F(k) \in Readers(r)
        /\ \A k \in Nat : k + 1 <= n =>
              /\ bytes[k + 1] \in Nat /\ F(k) \in Readers(r)
              /\ F(k + 1) = FeedTermByte(r, F(k), bytes[k + 1])
    BY <1>1, FedFacts
  <1>9. fl \in Seq(Nat)
    BY <1>2, FlowType
  <1>10. \A k \in Nat : k + 1 <= n =>
            /\ SubSeq(bytes, 1, k) \in Seq(Nat) /\ bytes[k + 1] \in Nat
            /\ SubSeq(bytes, 1, k + 1) = Append(SubSeq(bytes, 1, k), bytes[k + 1])
    BY <1>1, SplitLast
  <1> DEFINE Open(k) == s(k).csi => \E i \in 1 .. k : bytes[i] = OpenBracket /\
                                       \A j \in i + 1 .. k : ~(bytes[j] \in 64 .. 126)
             Match(k) == /\ s(k).match <= m + k
                         /\ \A j \in 1 .. s(k).match : full[m + k - s(k).match + j] = p[j]
             Good(k) == /\ F(k).a = rd.a /\ F(k).q = rd.q /\ ~s(k).inSeq
                        /\ Flow(r, s(k)) = fl \o SubSeq(bytes, 1, k)
             T == {k \in Nat : k <= n => Good(k) /\ Match(k) /\ Open(k)}
  <1> HIDE DEF p, P, n, m, start, full, F, fl
  <1>11. 0 \in T
    <2>1. Good(0)
      <3>1. SubSeq(bytes, 1, 0) = << >> /\ fl \o << >> = fl
        BY <1>1, <1>9
      <3>2. s(0) = rd.s
        BY <1>8 DEF F
      <3> QED BY <1>8, <3>1, <3>2 DEF Rest, fl, F
    <2>2. Match(0)
      <3>1. s(0).match = m
        BY <1>8 DEF F, m
      <3>2. \A j \in 1 .. m : m + 0 - m + j = j /\ full[j] = p[j]
        BY <1>2, <1>4
      <3> QED BY <1>2, <3>1, <3>2
    <2>3. Open(0)
      BY <1>8 DEF Rest, F
    <2> QED BY <2>1, <2>2, <2>3
  <1>12. ASSUME NEW k \in T PROVE k + 1 \in T
    <2> HIDE DEF Good, Match, Open
    <2> SUFFICES ASSUME k + 1 <= n PROVE Good(k + 1) /\ Match(k + 1) /\ Open(k + 1)
      OBVIOUS
    <2> USE DEF Good, Match, Open
    <2> DEFINE b == bytes[k + 1]
               x == s(k)
               t == FeedOutside(r, x, b)
    <2>1. k \in Nat /\ k <= n /\ k + 1 \in 1 .. n
      BY <1>1
    <2>2. Good(k) /\ Match(k) /\ Open(k)
      BY <2>1
    <2>3. b \in Nat /\ F(k) \in Readers(r) /\ F(k + 1) = FeedTermByte(r, F(k), b)
      BY <1>8, <2>1
    <2>4. x \in Scanners(r) /\ ~x.inSeq /\ x = F(k).s
      BY <2>2, <2>3, RdOf DEF F
    <2>5. F(k + 1) = [F(k) EXCEPT !.s = t]
      BY <2>3, <2>4 DEF FeedTermByte
    <2>6. F(k + 1).s = t /\ F(k + 1).a = F(k).a /\ F(k + 1).q = F(k).q
      BY <2>3, <2>5 DEF Readers
    <2>7. s(k + 1) = t
      BY <2>6 DEF F
    <2>8. t \in Scanners(r) /\ (FlowsBy(r, x, b, t) \/ Enters(r, x, b, t))
      BY <2>3, <2>4, OutsideStep
    <2>9. x.match \in Nat /\ x.match < P /\ t.match \in Nat
      BY <2>4, <2>8, HeldType DEF p, P
    <2>10. full[m + (k + 1)] = b
      BY <1>4, <2>1
    <2>11. x.match <= m + k /\ \A j \in 1 .. x.match : full[m + k - x.match + j] = p[j]
      BY <2>2
    <2>12. Open(k)
      BY <2>2
    <2> HIDE DEF t, x, b, s
    <2>13. ~Enters(r, x, b, t)
      <3> SUFFICES ASSUME Enters(r, x, b, t) PROVE FALSE
        OBVIOUS
      <3>1. b = p[x.match + 1] /\ x.match + 1 = P
        BY DEF Enters, p, P
      <3> DEFINE i == m + (k + 1) - P
      <3>2. i \in 0 .. Len(full) - P
        <4>1. m \in Nat /\ P \in Nat /\ n \in Nat /\ Len(full) = m + n /\ x.match <= m + k
          BY <1>1, <1>2, <1>3, <1>4, <2>11
        <4> QED BY <2>1, <2>9, <3>1, <4>1
      <3>3. ASSUME NEW j \in 1 .. P PROVE full[i + j] = p[j]
        <4>1. CASE j = P
          <5>1. i + j = m + (k + 1)
            BY <1>2, <1>3, <2>1, <4>1
          <5> QED BY <2>10, <3>1, <4>1, <5>1
        <4>2. CASE j # P
          <5>1. j \in 1 .. x.match /\ i + j = m + k - x.match + j
            <6>1. m \in Nat /\ P \in Nat
              BY <1>2, <1>3
            <6>2. j \in Nat /\ 1 <= j /\ j <= P
              BY <6>1
            <6>3. \A y \in Nat : y + 1 = P => j \in 1 .. y /\ m + (k + 1) - P + j = m + k - y + j
              BY <2>1, <4>2, <6>1, <6>2
            <6> QED BY <2>9, <3>1, <6>3
          <5> QED BY <2>11, <5>1
        <4> QED BY <4>1, <4>2
      <3>4. Occurs(p, full)
        BY <3>2, <3>3 DEF Occurs, P
      <3> QED BY <1>5, <3>4
    <2>14. FlowsBy(r, x, b, t)
      BY <2>8, <2>13
    <2>15. Good(k + 1)
      <3>1. Flow(r, t) = Append(Flow(r, x), b) /\ ~t.inSeq
        BY <2>14 DEF FlowsBy
      <3>2. Flow(r, x) = fl \o SubSeq(bytes, 1, k)
        BY <2>2 DEF x
      <3> DEFINE u == SubSeq(bytes, 1, k)
      <3>3. u \in Seq(Nat) /\ b \in Nat /\ SubSeq(bytes, 1, k + 1) = Append(u, b)
        BY <1>10, <2>1 DEF b
      <3> HIDE DEF u
      <3>4. fl \o Append(u, b) = Append(fl \o u, b)
        <4>1. u \in Seq(Nat) /\ b \in Nat
          BY <3>3
        <4> QED BY ONLY <1>9, <4>1, AppendLater
      <3>5. Flow(r, t) = fl \o SubSeq(bytes, 1, k + 1)
        BY <3>1, <3>2, <3>3, <3>4 DEF u
      <3> QED BY <2>2, <2>6, <2>7, <3>1, <3>5
    <2>16. Match(k + 1)
      <3> SUFFICES t.match <= m + (k + 1) /\ \A j \in 1 .. t.match : full[m + (k + 1) - t.match + j] = p[j]
        BY <2>7
      <3>1. CASE t.match = 0
        BY <1>2, <2>1, <3>1
      <3>2. CASE t.match = x.match + 1 /\ b = p[x.match + 1]
        <4>1. t.match <= m + (k + 1)
          BY <1>2, <2>1, <2>9, <2>11, <3>2
        <4>2. ASSUME NEW j \in 1 .. t.match PROVE full[m + (k + 1) - t.match + j] = p[j]
          <5>1. CASE j = t.match
            <6>1. m + (k + 1) - t.match + j = m + (k + 1)
              BY <1>2, <2>1, <2>9, <5>1
            <6> QED BY <2>10, <3>2, <5>1, <6>1
          <5>2. CASE j # t.match
            <6>1. j \in 1 .. x.match /\ m + (k + 1) - t.match + j = m + k - x.match + j
              <7>1. m \in Nat
                BY <1>2
              <7>2. j \in Nat /\ 1 <= j /\ j <= t.match
                BY <2>9
              <7>3. \A y, z \in Nat : z = y + 1 /\ j <= z /\ j # z => j \in 1 .. y /\ m + (k + 1) - z + j = m + k - y + j
                BY <2>1, <7>1, <7>2
              <7> QED BY <2>9, <3>2, <5>2, <7>2, <7>3
            <6> QED BY <2>11, <6>1
          <5> QED BY <5>1, <5>2
        <4> QED BY <4>1, <4>2
      <3>3. CASE t.match = 1 /\ b = p[1]
        <4>1. t.match <= m + (k + 1)
          BY <1>2, <2>1, <3>3
        <4>2. ASSUME NEW j \in 1 .. t.match PROVE full[m + (k + 1) - t.match + j] = p[j]
          <5>1. j = 1 /\ m + (k + 1) - t.match + j = m + (k + 1)
            BY <1>2, <2>1, <3>3
          <5> QED BY <2>10, <3>3, <5>1
        <4> QED BY <4>1, <4>2
      <3> QED BY <2>14, <3>1, <3>2, <3>3 DEF FlowsBy, p
    <2>17. Open(k + 1)
      <3> SUFFICES ASSUME t.csi
                   PROVE  \E i \in 1 .. k + 1 : bytes[i] = OpenBracket /\
                            \A j \in i + 1 .. k + 1 : ~(bytes[j] \in 64 .. 126)
        BY <2>7
      <3>1. CASE b = OpenBracket
        <4>1. k + 1 \in 1 .. k + 1 /\ \A j \in (k + 1) + 1 .. k + 1 : FALSE
          BY <2>1
        <4> QED BY <3>1, <4>1 DEF b
      <3>2. CASE x.csi /\ ~(b \in 64 .. 126)
        <4>1. PICK i \in 1 .. k : bytes[i] = OpenBracket /\ \A j \in i + 1 .. k : ~(bytes[j] \in 64 .. 126)
          BY <2>12, <3>2 DEF x
        <4>2. i \in 1 .. k + 1 /\ \A j \in i + 1 .. k + 1 : j \in i + 1 .. k \/ j = k + 1
          BY <2>1
        <4> QED BY <3>2, <4>1, <4>2 DEF b
      <3> QED BY <2>14, <3>1, <3>2 DEF FlowsBy
    <2> QED BY <2>15, <2>16, <2>17
  <1> HIDE DEF T
  <1>13. T = Nat
    <2>1. T \in SUBSET Nat
      BY DEF T
    <2> QED BY <1>11, <1>12, <2>1, SetInduction
  <1>14. Good(n) /\ Match(n) /\ Open(n)
    <2>1. n \in T /\ n <= n
      BY <1>1, <1>13
    <2> QED BY <2>1 DEF T
  <1>15. SubSeq(bytes, 1, n) = bytes
    BY <1>1 DEF n
  <1>16. ~s(n).csi
    <2> SUFFICES ASSUME s(n).csi PROVE FALSE
      OBVIOUS
    <2>1. PICK i \in 1 .. n : bytes[i] = OpenBracket /\ \A j \in i + 1 .. n : ~(bytes[j] \in 64 .. 126)
      BY <1>14
    <2> QED BY <1>6, <2>1
  <1>17. F(n) \in Readers(r) /\ s(n) = F(n).s /\ s(n) \in Scanners(r)
    <2>1. n \in 0 .. n
      BY <1>1
    <2>2. F(n) \in Readers(r)
      BY <1>8, <2>1
    <2> QED BY <2>2, RdOf DEF F
  <1>18. ASSUME OscFormat(r) PROVE s(n).match = 0
    <2> SUFFICES ASSUME s(n).match # 0 PROVE FALSE
      OBVIOUS
    <2> DEFINE j == s(n).match
    <2>1. m = 0
      BY <1>18 DEF Rest, m
    <2>2. j \in Nat /\ j < P
      BY <1>17, HeldType DEF p, P
    <2>3. j <= m + n /\ \A k \in 1 .. j : full[m + n - j + k] = p[k]
      BY <1>14
    <2> HIDE DEF s
    <2>4. j \in 1 .. P - 1 /\ j <= n
      BY <1>1, <1>3, <2>1, <2>2, <2>3
    <2>5. PICK k \in 1 .. j : bytes[n - j + k] # p[k]
      BY <1>7, <1>18, <2>4
    <2>6. n - j + k \in 1 .. n /\ m + n - j + k = m + (n - j + k)
      BY <1>1, <2>1, <2>4
    <2>7. full[m + n - j + k] = bytes[n - j + k]
      BY <1>4, <2>6
    <2> QED BY <2>3, <2>5, <2>7
  <1>19. Rest(r, s(n))
    BY <1>14, <1>16, <1>18 DEF Rest
  <1>20. F(n) = FeedTerm(r, rd, bytes)
    BY <1>8
  <1> QED BY <1>1, <1>14, <1>15, <1>17, <1>19, <1>20 DEF fl, F

-----------------------------------------------------------------------------
(***************************************************************************)
(* A sequence.                                                             *)
(***************************************************************************)
\* The next byte of the prefix.
LEMMA MatchStep ==
    ASSUME NEW r, NEW s \in Scanners(r), ~s.inSeq, ~s.csi, ~s.esc \/ s.match = 0
    PROVE  LET p == ScanPrefix(r)
               t == FeedOutside(r, s, p[s.match + 1])
           IN /\ s.match + 1 = Len(p) => t.inSeq /\ t.capture = << >> /\ t.pending = s.pending
              /\ s.match + 1 # Len(p) =>
                    /\ ~t.inSeq /\ ~t.csi /\ t.match = s.match + 1 /\ t.pending = s.pending
  <1> DEFINE p == ScanPrefix(r)
             m == s.match
             b == p[m + 1]
             v == [s EXCEPT !.esc = FALSE]
             t == FeedOutside(r, s, b)
             D == [inSeq : BOOLEAN, match : 0 .. Len(p) - 1, capture : Seq(Nat), esc : BOOLEAN,
                   csi : BOOLEAN, pending : Seq(Nat), timer : BOOLEAN]
  <1>1. s \in D /\ s.esc \in BOOLEAN
    BY DEF Scanners
  <1>2. ~(s.esc /\ b = OpenBracket)
    BY PrefixFacts
  <1>3. t = FeedPrefix(r, v, b)
    BY <1>2 DEF FeedOutside
  <1>4. v \in D /\ v.match = m /\ v.pending = s.pending /\ v.csi = FALSE /\ v.inSeq = FALSE
    BY <1>1
  <1> HIDE DEF v, t
  <1>5. t = IF m + 1 = Len(p) THEN [v EXCEPT !.inSeq = TRUE, !.capture = << >>, !.match = 0, !.timer = FALSE]
            ELSE [v EXCEPT !.match = m + 1, !.timer = TRUE]
    BY <1>3, <1>4 DEF FeedPrefix
  <1> HIDE DEF m, p
  <1>6. m + 1 = Len(p) => t.inSeq /\ t.capture = << >> /\ t.pending = s.pending
    BY <1>4, <1>5
  <1>7. m + 1 # Len(p) => ~t.inSeq /\ ~t.csi /\ t.match = m + 1 /\ t.pending = s.pending
    BY <1>4, <1>5
  <1> QED BY <1>6, <1>7 DEF m, p, t

\* The first byte of the prefix, between frames.
LEMMA FirstStep ==
    ASSUME NEW r, NEW s \in Scanners(r), Rest(r, s)
    PROVE  LET t == FeedOutside(r, s, ScanPrefix(r)[1])
           IN ~t.inSeq /\ ~t.csi /\ t.match = 1 /\ t.pending = Flow(r, s)
  <1> DEFINE p == ScanPrefix(r)
             m == s.match
             b == p[1]
             v == [s EXCEPT !.esc = FALSE]
             t == FeedOutside(r, s, b)
             D == [inSeq : BOOLEAN, match : 0 .. Len(p) - 1, capture : Seq(Nat), esc : BOOLEAN,
                   csi : BOOLEAN, pending : Seq(Nat), timer : BOOLEAN]
  <1>1. s \in D
    BY DEF Scanners
  <1>2. m \in Nat /\ m < Len(p) /\ Len(p) >= 5 /\ Len(p) \in Nat
    BY HeldType, PrefixFacts
  <1>3. CASE m = 0
    <2>1. m + 1 = 1 /\ m + 1 # Len(p)
      <3>1. \A i, j \in Nat : i = 0 /\ j >= 5 => i + 1 = 1 /\ i + 1 # j
        OBVIOUS
      <3> QED BY <1>2, <1>3, <3>1
    <2>2. ~s.inSeq /\ ~s.csi
      BY DEF Rest
    <2>3. ~t.inSeq /\ ~t.csi /\ t.match = m + 1 /\ t.pending = s.pending
      BY <1>3, <2>1, <2>2, MatchStep, ZenonT(40)
    <2>4. Flow(r, s) = s.pending
      BY <1>3, FlowType
    <2> QED BY <2>1, <2>3, <2>4
  <1>4. CASE m # 0
    <2>1. ~OscFormat(r) /\ ~s.inSeq /\ ~s.csi
      BY <1>4 DEF Rest
    <2>2. b # ESC /\ b # OpenBracket /\ \A k \in 2 .. Len(p) : p[k] # b
      BY <2>1, PrefixFacts
    <2>3. b # p[m + 1]
      <3>1. m + 1 \in 2 .. Len(p)
        BY <1>2, <1>4
      <3> QED BY <2>2, <3>1
    <2>4. t = FeedPrefix(r, v, b)
      BY <2>1, <2>2 DEF FeedOutside
    <2>5. v \in D /\ v.match = m /\ v.pending = s.pending /\ v.csi = FALSE /\ v.inSeq = FALSE
      BY <1>1, <2>1
    <2> HIDE DEF v, t
    <2>6. t = [v EXCEPT !.match = 1, !.timer = TRUE, !.pending = s.pending \o SubSeq(p, 1, m)]
      BY <2>2, <2>3, <2>4, <2>5 DEF FeedPrefix
    <2>7. Flow(r, s) = s.pending \o SubSeq(p, 1, m)
      BY DEF Flow, Held
    <2>8. t.inSeq = FALSE /\ t.csi = FALSE /\ t.match = 1 /\ t.pending = s.pending \o SubSeq(p, 1, m)
      BY <2>5, <2>6
    <2> QED BY <2>7, <2>8 DEF t
  <1> QED BY <1>3, <1>4

\* A reader that feed_byte() does not complete a sequence in.
LEMMA OutsideByte ==
    ASSUME NEW r, NEW rd \in Readers(r), ~rd.s.inSeq, NEW b \in Nat
    PROVE  LET out == FeedTermByte(r, rd, b)
           IN out.s = FeedOutside(r, rd.s, b) /\ out.a = rd.a /\ out.q = rd.q /\ out \in Readers(r)
  <1>1. FeedTermByte(r, rd, b) = [rd EXCEPT !.s = FeedOutside(r, rd.s, b)]
    BY DEF FeedTermByte
  <1> QED BY <1>1, FeedByteType DEF Readers

\* The whole prefix, between frames.
LEMMA PrefixEnters ==
    ASSUME NEW r, NEW rd \in Readers(r), Rest(r, rd.s)
    PROVE  LET out == FeedTerm(r, rd, ScanPrefix(r))
           IN /\ out \in Readers(r) /\ out.s.inSeq /\ out.s.capture = << >>
              /\ out.s.pending = Flow(r, rd.s) /\ out.a = rd.a /\ out.q = rd.q
  <1> DEFINE p == ScanPrefix(r)
             P == Len(p)
             F(k) == Fed(r, rd, p, k)
             s(k) == Fed(r, rd, p, k).s
             fl == Flow(r, rd.s)
  <1>1. p \in Seq(Nat) /\ P \in Nat /\ P >= 5
    BY PrefixFacts
  <1>2. /\ F(0) = rd /\ F(P) = FeedTerm(r, rd, p)
        /\ \A k \in 0 .. P : F(k) \in Readers(r)
        /\ \A k \in Nat : k + 1 <= P =>
              /\ p[k + 1] \in Nat /\ F(k) \in Readers(r)
              /\ F(k + 1) = FeedTermByte(r, F(k), p[k + 1])
    BY <1>1, FedFacts
  <1>3. rd.s \in Scanners(r) /\ ~rd.s.inSeq
    BY RdOf DEF Rest
  <1> DEFINE Same(k) == F(k).a = rd.a /\ F(k).q = rd.q /\ s(k).pending = fl
             T == {k \in Nat : k + 1 < P => Same(k + 1) /\ ~s(k + 1).inSeq /\ ~s(k + 1).csi /\ s(k + 1).match = k + 1}
  <1> HIDE DEF P, F, fl
  <1>4. 0 \in T
    <2>1. 0 + 1 = 1 /\ 0 + 1 <= P
      BY <1>1
    <2>2. F(1) = FeedTermByte(r, rd, p[1]) /\ p[1] \in Nat
      BY <1>2, <2>1
    <2>3. F(1).s = FeedOutside(r, rd.s, p[1]) /\ F(1).a = rd.a /\ F(1).q = rd.q
      BY <1>3, <2>2, OutsideByte
    <2>4. ~F(1).s.inSeq /\ ~F(1).s.csi /\ F(1).s.match = 1 /\ F(1).s.pending = fl
      BY <1>3, <2>3, FirstStep DEF fl
    <2> QED BY <2>1, <2>3, <2>4 DEF F
  <1>5. ASSUME NEW k \in T PROVE k + 1 \in T
    <2> SUFFICES ASSUME (k + 1) + 1 < P
                 PROVE  /\ Same((k + 1) + 1) /\ ~s((k + 1) + 1).inSeq /\ ~s((k + 1) + 1).csi
                        /\ s((k + 1) + 1).match = (k + 1) + 1
      OBVIOUS
    <2>1. k \in Nat /\ k + 1 < P /\ (k + 1) + 1 <= P /\ k + 1 \in Nat /\ k + 1 # 0
      BY <1>1
    <2>2. Same(k + 1) /\ ~s(k + 1).inSeq /\ ~s(k + 1).csi /\ s(k + 1).match = k + 1
      BY <2>1
    <2> DEFINE g == F(k + 1)
               b == p[(k + 1) + 1]
               f == F((k + 1) + 1)
    <2>3. g \in Readers(r) /\ b \in Nat /\ f = FeedTermByte(r, g, b)
      BY <1>2, <2>1
    <2>4. g.s.inSeq = FALSE /\ g.s.csi = FALSE /\ g.s.match = k + 1 /\ g.s.pending = fl /\ g.a = rd.a /\ g.q = rd.q
      <3>1. g.s.inSeq \in BOOLEAN /\ g.s.csi \in BOOLEAN
        BY <2>3 DEF Readers, Scanners
      <3> QED BY <2>2, <3>1 DEF F
    <2> HIDE DEF g, f
    <2>5. g.s \in Scanners(r) /\ Shaped(g.s)
      BY <2>3, RdOf DEF Scanners
    <2>6. ~g.s.esc
      BY <2>1, <2>4, <2>5 DEF Shaped
    <2>7. f.s = FeedOutside(r, g.s, b) /\ f.a = g.a /\ f.q = g.q
      BY <2>3, <2>4, OutsideByte
    <2>8. ~f.s.inSeq /\ ~f.s.csi /\ f.s.match = (k + 1) + 1 /\ f.s.pending = fl
      <3>1. g.s.match + 1 # Len(p) /\ b = p[g.s.match + 1]
        BY <1>1, <2>1, <2>4 DEF P
      <3> QED BY <2>4, <2>5, <2>6, <2>7, <3>1, MatchStep
    <2> QED BY <2>4, <2>7, <2>8 DEF f, F
  <1> HIDE DEF T
  <1>6. T = Nat
    <2>1. T \in SUBSET Nat
      BY DEF T
    <2> QED BY <1>4, <1>5, <2>1, SetInduction
  <1> DEFINE g == F(P - 1)
             f == F(P)
  <1>7. g.a = rd.a /\ g.q = rd.q /\ g.s.pending = fl /\ ~g.s.inSeq /\ ~g.s.csi /\ g.s.match = P - 1
    <2>1. P - 2 \in T /\ (P - 2) + 1 < P /\ (P - 2) + 1 = P - 1
      BY <1>1, <1>6
    <2> QED BY <2>1 DEF T, F
  <1>8. g \in Readers(r) /\ p[P] \in Nat /\ f = FeedTermByte(r, g, p[P])
    <2>1. P - 1 \in Nat /\ (P - 1) + 1 <= P /\ (P - 1) + 1 = P
      BY <1>1
    <2> QED BY <1>2, <2>1
  <1> HIDE DEF g, f
  <1>9. g.s \in Scanners(r) /\ Shaped(g.s)
    BY <1>8, RdOf DEF Scanners
  <1>10. ~g.s.esc /\ g.s.match + 1 = P
    BY <1>1, <1>7, <1>9 DEF Shaped
  <1>11. f.s = FeedOutside(r, g.s, p[P]) /\ f.a = g.a /\ f.q = g.q /\ f \in Readers(r)
    BY <1>7, <1>8, OutsideByte
  <1>12. f.s.inSeq /\ f.s.capture = << >> /\ f.s.pending = g.s.pending
    BY <1>7, <1>9, <1>10, <1>11, MatchStep DEF P
  <1> QED BY <1>2, <1>7, <1>11, <1>12 DEF f, fl

\* A byte inside a sequence that there is room for.
LEMMA CaptureByte ==
    ASSUME NEW r, NEW rd \in Readers(r), rd.s.inSeq, NEW b \in Nat, b # ScanTerminator(r),
           OscFormat(r) => Len(rd.s.capture) < MaxCapture
    PROVE  LET out == FeedTermByte(r, rd, b)
           IN /\ out \in Readers(r) /\ out.s.inSeq /\ out.s.capture = Append(rd.s.capture, b)
              /\ out.s.pending = rd.s.pending /\ out.a = rd.a /\ out.q = rd.q
  <1> DEFINE s == rd.s
             t == [s EXCEPT !.capture = Append(s.capture, b)]
  <1>1. MaxCapture \in Nat /\ s.capture \in Seq(Nat) /\ Len(s.capture) \in Nat /\ s \in Scanners(r)
    BY TermWireAssumption DEF Readers, Scanners
  <1>2. ~(OscFormat(r) /\ Len(s.capture) >= MaxCapture)
    BY <1>1
  <1>3. FeedInSequence(r, s, b) = t
    BY <1>2 DEF FeedInSequence
  <1>4. FeedTermByte(r, rd, b) = [rd EXCEPT !.s = t]
    BY <1>3 DEF FeedTermByte
  <1>5. t.inSeq = s.inSeq /\ t.capture = Append(s.capture, b) /\ t.pending = s.pending
    BY <1>1 DEF Scanners
  <1> HIDE DEF t
  <1>6. [rd EXCEPT !.s = t].s = t /\ [rd EXCEPT !.s = t].a = rd.a /\ [rd EXCEPT !.s = t].q = rd.q
    BY DEF Readers
  <1>7. FeedTermByte(r, rd, b) \in Readers(r)
    BY FeedByteType
  <1> QED BY <1>4, <1>5, <1>6, <1>7

\* A body is captured.
FitBody(r, body) ==
    /\ body \in Seq(Nat)
    /\ \A i \in 1 .. Len(body) : body[i] # ScanTerminator(r)
    /\ OscFormat(r) => Len(body) <= MaxCapture

\* Inside a sequence the reader captures a body that fits, byte by byte.
LEMMA BodyCaptured ==
    ASSUME NEW r, NEW rd \in Readers(r), rd.s.inSeq, rd.s.capture = << >>, NEW body, FitBody(r, body)
    PROVE  LET out == FeedTerm(r, rd, body)
           IN /\ out \in Readers(r) /\ out.s.inSeq /\ out.s.capture = body
              /\ out.s.pending = rd.s.pending /\ out.a = rd.a /\ out.q = rd.q
  <1> DEFINE n == Len(body)
             F(k) == Fed(r, rd, body, k)
  <1>1. body \in Seq(Nat) /\ n \in Nat /\ MaxCapture \in Nat
    BY TermWireAssumption DEF FitBody
  <1>2. /\ F(0) = rd /\ F(n) = FeedTerm(r, rd, body)
        /\ \A k \in Nat : k + 1 <= n =>
              /\ body[k + 1] \in Nat /\ F(k) \in Readers(r)
              /\ F(k + 1) = FeedTermByte(r, F(k), body[k + 1])
    BY <1>1, FedFacts
  <1>3. \A k \in Nat : k + 1 <= n =>
            /\ SubSeq(body, 1, k) \in Seq(Nat) /\ Len(SubSeq(body, 1, k)) = k
            /\ SubSeq(body, 1, k + 1) = Append(SubSeq(body, 1, k), body[k + 1])
    BY <1>1, SplitLast
  <1> DEFINE Is(k) == /\ F(k) \in Readers(r) /\ F(k).s.inSeq /\ F(k).s.capture = SubSeq(body, 1, k)
                      /\ F(k).s.pending = rd.s.pending /\ F(k).a = rd.a /\ F(k).q = rd.q
             T == {k \in Nat : k <= n => Is(k)}
  <1>4. SubSeq(body, 1, 0) = << >> /\ SubSeq(body, 1, n) = body
    BY <1>1
  <1> HIDE DEF F, n
  <1>5. 0 \in T
    BY <1>2, <1>4
  <1>6. ASSUME NEW k \in T PROVE k + 1 \in T
    <2> SUFFICES ASSUME k + 1 <= n PROVE Is(k + 1)
      OBVIOUS
    <2>1. k \in Nat /\ k <= n /\ k + 1 \in 1 .. n
      BY <1>1
    <2>2. Is(k)
      BY <2>1
    <2> DEFINE g == F(k)
               b == body[k + 1]
    <2>3. g \in Readers(r) /\ b \in Nat /\ F(k + 1) = FeedTermByte(r, g, b)
      BY <1>2, <2>1
    <2>4. b # ScanTerminator(r) /\ (OscFormat(r) => Len(g.s.capture) < MaxCapture)
      <3>1. Len(g.s.capture) = k
        BY <1>3, <2>1, <2>2
      <3>2. OscFormat(r) => n <= MaxCapture
        BY DEF FitBody, n
      <3>3. b # ScanTerminator(r)
        BY <2>1 DEF FitBody, n
      <3> QED BY <1>1, <2>1, <3>1, <3>2, <3>3
    <2>5. /\ F(k + 1) \in Readers(r) /\ F(k + 1).s.inSeq /\ F(k + 1).s.capture = Append(g.s.capture, b)
          /\ F(k + 1).s.pending = g.s.pending /\ F(k + 1).a = g.a /\ F(k + 1).q = g.q
      <3>1. g.s.inSeq
        BY <2>2
      <3> HIDE DEF g, b
      <3> QED BY <2>3, <2>4, <3>1, CaptureByte
    <2> QED BY <1>3, <2>1, <2>2, <2>5
  <1> HIDE DEF T
  <1>7. T = Nat
    <2>1. T \in SUBSET Nat
      BY DEF T
    <2> QED BY <1>5, <1>6, <2>1, SetInduction
  <1>8. Is(n)
    <2>1. n \in T /\ n <= n
      BY <1>1, <1>7
    <2> QED BY <2>1 DEF T
  <1> QED BY <1>2, <1>4, <1>8

\* What the reader makes of a complete sequence.
Done(r, rd, body) == IF OscFormat(r) THEN ParseAndComplete(rd, body) ELSE CompleteMarker(rd, body)
Made(r, rd, body, out) ==
    \E c \in Readers(r) : /\ c.a = rd.a /\ c.q = rd.q
                          /\ out.a = Done(r, c, body).a /\ out.q = Done(r, c, body).q

\* The terminator.
LEMMA TerminatorByte ==
    ASSUME NEW r, NEW rd \in Readers(r), rd.s.inSeq
    PROVE  LET out == FeedTermByte(r, rd, ScanTerminator(r))
               d == Done(r, rd, rd.s.capture)
           IN /\ out \in Readers(r) /\ Rest(r, out.s) /\ out.s.match = 0
              /\ out.s.pending = rd.s.pending /\ out.a = d.a /\ out.q = d.q
  <1> DEFINE s == rd.s
             d == Done(r, rd, s.capture)
             t == [s EXCEPT !.capture = << >>, !.inSeq = FALSE, !.match = 0]
             out == FeedTermByte(r, rd, ScanTerminator(r))
  <1>1. s \in Scanners(r) /\ s.capture \in Seq(Nat)
    BY DEF Readers, Scanners
  <1>2. d \in Readers(r) /\ d.s = s
    BY <1>1, CompleteType DEF Done
  <1>3. out = [d EXCEPT !.s = [@ EXCEPT !.capture = << >>, !.inSeq = FALSE, !.match = 0]]
    BY DEF FeedTermByte, CompleteSequence, Done
  <1> HIDE DEF d, out
  <1>4. out.s = t /\ out.a = d.a /\ out.q = d.q
    BY <1>2, <1>3 DEF Readers
  <1>5. t.inSeq = FALSE /\ t.match = 0 /\ t.pending = s.pending /\ t.csi = s.csi
    BY <1>1 DEF Scanners
  <1>6. ~s.csi
    BY <1>1 DEF Scanners, Shaped
  <1>7. ScanTerminator(r) \in Nat
    BY DEF ScanTerminator, OscTerminator, MarkerSuffix
  <1>8. out \in Readers(r)
    BY <1>7, FeedByteType DEF out
  <1> HIDE DEF t
  <1> QED BY <1>4, <1>5, <1>6, <1>8 DEF Rest, out, d

\* A whole sequence, between frames.
LEMMA SequenceRead ==
    ASSUME NEW r, NEW rd \in Readers(r), Rest(r, rd.s), NEW body, FitBody(r, body)
    PROVE  LET wire == ScanPrefix(r) \o body \o <<ScanTerminator(r)>>
               out == FeedTerm(r, rd, wire)
           IN /\ wire \in Seq(Nat) /\ out \in Readers(r) /\ Rest(r, out.s)
              /\ Flow(r, out.s) = Flow(r, rd.s) /\ Made(r, rd, body, out)
  <1> DEFINE p == ScanPrefix(r)
             z == ScanTerminator(r)
             pb == p \o body
             g == FeedTerm(r, rd, p)
             f == FeedTerm(r, g, body)
             out == FeedTermByte(r, f, z)
  <1>1. p \in Seq(Nat) /\ body \in Seq(Nat) /\ z \in Nat
    BY PrefixFacts DEF FitBody, ScanTerminator, OscTerminator, MarkerSuffix
  <1>2. pb \in Seq(Nat) /\ pb \o <<z>> = Append(pb, z) /\ Append(pb, z) \in Seq(Nat)
    <2>1. pb \in Seq(Nat)
      BY <1>1
    <2> HIDE DEF pb
    <2> QED BY <1>1, <2>1
  <1>3. /\ g \in Readers(r) /\ g.s.inSeq /\ g.s.capture = << >>
        /\ g.s.pending = Flow(r, rd.s) /\ g.a = rd.a /\ g.q = rd.q
    BY PrefixEnters
  <1>4. FeedTerm(r, rd, pb) = f
    BY <1>1, FeedTermConcat
  <1> HIDE DEF g, pb
  <1>5. FeedTerm(r, rd, Append(pb, z)) = out
    <2>1. rd \in Readers(r) /\ pb \in Seq(Nat) /\ z \in Nat
      BY <1>1, <1>2
    <2> HIDE DEF z, f
    <2>2. FeedTerm(r, rd, Append(pb, z)) = FeedTermByte(r, FeedTerm(r, rd, pb), z)
      BY ONLY <2>1, FeedTermAppend
    <2> QED BY <1>4, <2>2
  <1>6. /\ f \in Readers(r) /\ f.s.inSeq /\ f.s.capture = body
        /\ f.s.pending = g.s.pending /\ f.a = g.a /\ f.q = g.q
    BY <1>3, BodyCaptured
  <1> HIDE DEF f
  <1>7. /\ out \in Readers(r) /\ Rest(r, out.s) /\ out.s.match = 0
        /\ out.s.pending = f.s.pending /\ out.a = Done(r, f, body).a /\ out.q = Done(r, f, body).q
    BY <1>6, TerminatorByte
  <1> HIDE DEF out
  <1>8. Flow(r, out.s) = out.s.pending
    BY <1>7, RdOf, FlowType
  <1>9. Made(r, rd, body, out)
    BY <1>3, <1>6, <1>7 DEF Made
  <1> QED BY <1>2, <1>3, <1>5, <1>6, <1>7, <1>8, <1>9 DEF pb

-----------------------------------------------------------------------------
(***************************************************************************)
(* A frame on the wire.                                                    *)
(***************************************************************************)
\* An encoded body: its length, and its bytes are neither terminator.
LEMMA EncodedBody ==
    ASSUME NEW bytes \in Seq(Octet)
    PROVE  LET e == Base64Encode(bytes)
           IN /\ e \in Seq(Nat) /\ Len(e) = 4 * ((Len(bytes) + 2) \div 3)
              /\ \A i \in 1 .. Len(e) : e[i] # OscTerminator /\ e[i] # MarkerSuffix
  <1> DEFINE e == Base64Encode(bytes)
  <1>1. e \in Seq(Nat) /\ Len(e) = 4 * ((Len(bytes) + 2) \div 3)
    BY EncodedAt
  <1>2. Base64Good(e)
    BY Base64RoundTrip
  <1> HIDE DEF e
  <1>3. \A i \in 1 .. Len(e) : Base64Value(e[i]) < 64 \/ e[i] = Equals
    BY <1>2 DEF Base64Good
  <1>4. ~(Base64Value(OscTerminator) < 64) /\ ~(Base64Value(MarkerSuffix) < 64)
    BY DEF Base64Value, OscTerminator, MarkerSuffix
  <1>5. OscTerminator # Equals /\ MarkerSuffix # Equals
    BY DEF OscTerminator, MarkerSuffix, Equals
  <1>6. \A i \in 1 .. Len(e) : e[i] # OscTerminator /\ e[i] # MarkerSuffix
    BY <1>3, <1>4, <1>5
  <1> QED BY <1>1, <1>6 DEF e

\* The frame comes out of the reader, and nothing else does.
Delivers(r, rd, wire, frame) ==
    LET out == FeedTerm(r, rd, wire)
    IN /\ wire \in Seq(Nat) /\ out \in Readers(r) /\ Rest(r, out.s)
       /\ Flow(r, out.s) = Flow(r, rd.s)
       /\ out.a = NoReassembly /\ out.q = Append(rd.q, frame)

\* Server to client: one marker.
LEMMA MarkerDelivers ==
    ASSUME NEW r, ~OscFormat(r), NEW rd \in Readers(r), Rest(r, rd.s), rd.a = NoReassembly,
           NEW frame \in Seq(Octet)
    PROVE  Delivers(r, rd, MarkerFrame(frame), frame)
  <1> DEFINE body == Base64Encode(frame)
             wire == MarkerFrame(frame)
             out == FeedTerm(r, rd, wire)
  <1>1. FitBody(r, body)
    BY EncodedBody DEF FitBody, ScanTerminator
  <1>2. Base64Good(body) /\ Base64Decode(body) = frame
    BY Base64RoundTrip
  <1>3. wire = ScanPrefix(r) \o body \o <<ScanTerminator(r)>>
    BY DEF MarkerFrame, ScanPrefix, ScanTerminator
  <1> HIDE DEF body, wire
  <1>4. /\ wire \in Seq(Nat) /\ out \in Readers(r) /\ Rest(r, out.s)
        /\ Flow(r, out.s) = Flow(r, rd.s) /\ Made(r, rd, body, out)
    BY <1>1, <1>3, SequenceRead
  <1> HIDE DEF out
  <1>5. PICK c \in Readers(r) : /\ c.a = rd.a /\ c.q = rd.q
                                /\ out.a = Done(r, c, body).a /\ out.q = Done(r, c, body).q
    BY <1>4 DEF Made
  <1>6. Done(r, c, body) = [c EXCEPT !.q = Append(@, frame)]
    BY <1>2 DEF Done, CompleteMarker
  <1>7. out.a = rd.a /\ out.q = Append(rd.q, frame)
    BY <1>5, <1>6 DEF Readers
  <1> QED BY <1>4, <1>7 DEF Delivers, out, wire

\* The chunks of a frame of n bytes: they follow each other, and none is longer
\* than kChunkRawBytes.
LEMMA ChunkFacts ==
    ASSUME NEW n \in Nat
    PROVE  /\ ChunkCount(n) \in Nat \ {0}
           /\ ChunkEnd(n, 0) = 0 /\ ChunkEnd(n, ChunkCount(n)) = n
           /\ \A i \in Nat \ {0} : i <= ChunkCount(n) =>
                 /\ ChunkEnd(n, i - 1) \in Nat /\ ChunkEnd(n, i) \in Nat
                 /\ ChunkEnd(n, i - 1) <= ChunkEnd(n, i) /\ ChunkEnd(n, i) <= n
                 /\ ChunkEnd(n, i) <= ChunkEnd(n, i - 1) + ChunkRawBytes
  <1> DEFINE c == ChunkRawBytes
             t == ChunkCount(n)
  <1>1. c \in Nat \ {0}
    BY TermWireAssumption
  <1> HIDE DEF c
  <1>2. t \in Nat \ {0} /\ n <= t * c
    <2>1. CASE n = 0
      BY <1>1, <2>1 DEF ChunkCount, c
    <2>2. CASE n # 0
      <3> DEFINE k == n + c - 1
      <3>1. t = k \div c /\ k \in Nat /\ c <= k
        BY <1>1, <2>2 DEF ChunkCount, c
      <3> HIDE DEF k
      <3>2. k \div c \in Nat /\ c * (k \div c) <= k /\ k < c * (k \div c) + c
        BY <1>1, <3>1
      <3>3. t # 0
        BY <1>1, <3>1, <3>2
      <3>4. n <= t * c
        BY <1>1, <3>1, <3>2 DEF k
      <3> QED BY <3>1, <3>2, <3>3, <3>4
    <2> QED BY <2>1, <2>2
  <1> HIDE DEF t
  <1>3. \A i : ChunkEnd(n, i) = IF i * c < n THEN i * c ELSE n
    BY DEF ChunkEnd, c
  <1>4. ChunkEnd(n, 0) = 0
    BY <1>1, <1>3
  <1>5. ChunkEnd(n, t) = n
    BY <1>1, <1>2, <1>3
  <1>6. ASSUME NEW i \in Nat \ {0}
        PROVE  /\ ChunkEnd(n, i - 1) \in Nat /\ ChunkEnd(n, i) \in Nat
               /\ ChunkEnd(n, i - 1) <= ChunkEnd(n, i) /\ ChunkEnd(n, i) <= n
               /\ ChunkEnd(n, i) <= ChunkEnd(n, i - 1) + c
    <2>1. i * c \in Nat /\ (i - 1) * c \in Nat /\ i * c = (i - 1) * c + c
      BY <1>1
    <2> QED BY <1>1, <1>3, <2>1
  <1> QED BY <1>2, <1>4, <1>5, <1>6 DEF c, t

\* A smaller number does not have more digits.
LEMMA DigitsMonotone ==
    ASSUME NEW m, Word31(m), NEW n, Word31(n), m <= n
    PROVE  Digits(m) \in 1 .. 10 /\ Digits(n) \in 1 .. 10 /\ Digits(m) <= Digits(n)
  <1> DEFINE k == Digits(m)
             l == Digits(n)
  <1>1. m \in Nat /\ k \in 1 .. 10 /\ (k = 1 \/ Power10[k] <= m)
    BY DigitsFacts
  <1>2. n \in Nat /\ l \in 1 .. 10 /\ n < 10 * Power10[l]
    BY DigitsFacts
  <1> HIDE DEF k, l
  <1> SUFFICES ASSUME l < k PROVE FALSE
    BY <1>1, <1>2 DEF k, l
  <1> DEFINE T == {j \in Nat : l + j + 1 <= 10 => 10 * Power10[l] <= Power10[l + j + 1]}
  <1>3. Power10[l] \in Nat /\ Power10[l] # 0
    BY <1>2, PowerFacts
  <1>4. 0 \in T
    <2>1. ASSUME l + 1 <= 10 PROVE 10 * Power10[l] <= Power10[l + 1]
      <3>1. l \in 1 .. 9 /\ l + 1 \in 1 .. 10
        BY <1>2, <2>1
      <3>2. Power10[l + 1] = 10 * Power10[l]
        BY <3>1, PowerFacts
      <3> QED BY <1>3, <3>2
    <2>2. l + 0 + 1 = l + 1
      BY <1>2
    <2> QED BY <2>1, <2>2
  <1>5. ASSUME NEW j \in T PROVE j + 1 \in T
    <2> SUFFICES ASSUME l + (j + 1) + 1 <= 10 PROVE 10 * Power10[l] <= Power10[l + (j + 1) + 1]
      OBVIOUS
    <2> DEFINE e == l + j + 1
    <2>1. e \in 1 .. 9 /\ e \in 1 .. 10 /\ l + (j + 1) + 1 = e + 1 /\ e <= 10
      BY <1>2
    <2>2. 10 * Power10[l] <= Power10[e]
      BY <2>1
    <2> HIDE DEF e
    <2>3. Power10[e + 1] = 10 * Power10[e] /\ Power10[e] \in Nat
      BY <2>1, PowerFacts
    <2>4. 10 * Power10[l] <= Power10[e + 1]
      BY <1>3, <2>2, <2>3
    <2> QED BY <2>1, <2>4
  <1> HIDE DEF T
  <1>6. T = Nat
    <2>1. T \in SUBSET Nat
      BY DEF T
    <2> QED BY <1>4, <1>5, <2>1, SetInduction
  <1>7. k - l - 1 \in T /\ l + (k - l - 1) + 1 = k /\ k <= 10
    BY <1>1, <1>2, <1>6
  <1>8. 10 * Power10[l] <= Power10[k]
    BY <1>7 DEF T
  <1>9. Power10[k] <= m
    BY <1>1, <1>2
  <1>10. Power10[k] \in Nat
    BY <1>1, PowerFacts
  <1> QED BY <1>1, <1>2, <1>3, <1>8, <1>9, <1>10

\* Frames that send_frame() can number and the reader can capture.
Sendable(frame) ==
    /\ frame \in Seq(Octet)
    /\ Word31(ChunkCount(Len(frame)))
    /\ 2 * Digits(ChunkCount(Len(frame))) + 2 + 4 * (ChunkRawBytes \div 3) <= MaxCapture

Piece(frame, i) == SubSeq(frame, ChunkEnd(Len(frame), i - 1) + 1, ChunkEnd(Len(frame), i))

\* The i-th chunk's bytes, and what they add to the ones before.
LEMMA PieceFacts ==
    ASSUME NEW frame \in Seq(Octet), NEW i \in Nat \ {0}, i <= ChunkCount(Len(frame))
    PROVE  /\ Piece(frame, i) \in Seq(Octet) /\ Len(Piece(frame, i)) \in Nat
           /\ Len(Piece(frame, i)) <= ChunkRawBytes
           /\ SubSeq(frame, 1, ChunkEnd(Len(frame), i - 1)) \o Piece(frame, i)
                = SubSeq(frame, 1, ChunkEnd(Len(frame), i))
           /\ SubSeq(frame, 1, ChunkEnd(Len(frame), i)) \in Seq(Octet)
  <1> DEFINE n == Len(frame)
             d == ChunkEnd(n, i - 1)
             e == ChunkEnd(n, i)
             x == SubSeq(frame, 1, d)
             y == Piece(frame, i)
             z == SubSeq(frame, 1, e)
             w == x \o y
  <1>1. n \in Nat
    OBVIOUS
  <1>2. d \in Nat /\ e \in Nat /\ d <= e /\ e <= n /\ e <= d + ChunkRawBytes
    BY <1>1, ChunkFacts
  <1>3. y = SubSeq(frame, d + 1, e)
    BY DEF Piece
  <1> HIDE DEF d, e
  <1>4. ChunkRawBytes \in Nat
    BY TermWireAssumption
  <1>5. /\ x \in Seq(Octet) /\ Len(x) = d
        /\ \A k \in 1 .. d : x[k] = frame[k]
    BY <1>2
  <1>6. /\ z \in Seq(Octet) /\ Len(z) = e
        /\ \A k \in 1 .. e : z[k] = frame[k]
    BY <1>2
  <1>7. /\ y \in Seq(Octet) /\ Len(y) = e - d
        /\ \A k \in 1 .. e - d : y[k] = frame[d + k]
    BY <1>2, <1>3
  <1> HIDE DEF x, y, z, n
  <1>8. /\ w \in Seq(Octet) /\ Len(w) = d + (e - d)
        /\ \A k \in 1 .. Len(x) : w[k] = x[k]
        /\ \A k \in 1 .. Len(y) : w[Len(x) + k] = y[k]
    <2>1. x \in Seq(Octet) /\ y \in Seq(Octet)
      BY <1>5, <1>7
    <2>2. /\ w \in Seq(Octet) /\ Len(w) = Len(x) + Len(y)
          /\ \A k \in 1 .. Len(x) : w[k] = x[k]
          /\ \A k \in 1 .. Len(y) : w[Len(x) + k] = y[k]
      BY ONLY <2>1, ConcatFacts
    <2> HIDE DEF w
    <2> QED BY <1>5, <1>7, <2>2
  <1> HIDE DEF w
  <1>9. Len(w) = Len(z) /\ Len(w) = e
    BY <1>2, <1>6, <1>8
  <1>10. ASSUME NEW k \in 1 .. e PROVE w[k] = z[k]
    <2>1. CASE k \in 1 .. d
      BY <1>2, <1>5, <1>6, <1>8, <2>1
    <2>2. CASE ~(k \in 1 .. d)
      <3>1. k - d \in 1 .. e - d /\ d + (k - d) = k
        BY <1>2, <2>2
      <3>2. w[d + (k - d)] = y[k - d]
        BY <1>5, <1>7, <1>8, <3>1
      <3>3. y[k - d] = frame[d + (k - d)]
        BY <1>7, <3>1
      <3> QED BY <1>6, <3>1, <3>2, <3>3
    <2> QED BY <2>1, <2>2
  <1>11. w = z
    BY <1>6, <1>8, <1>9, <1>10, SameSeq
  <1>12. Len(y) \in Nat /\ Len(y) <= ChunkRawBytes
    BY <1>2, <1>4, <1>7
  <1> QED BY <1>6, <1>7, <1>11, <1>12 DEF w, x, y, z, d, e, n

\* The i-th chunk's text fits into a sequence, and is read as it was written.
LEMMA ChunkBodyFacts ==
    ASSUME NEW r, OscFormat(r), NEW frame, Sendable(frame),
           NEW i \in Nat \ {0}, i <= ChunkCount(Len(frame))
    PROVE  /\ FitBody(r, ChunkBody(frame, i))
           /\ \A rd : ParseAndComplete(rd, ChunkBody(frame, i))
                        = CompleteChunk(rd, i - 1, ChunkCount(Len(frame)), Base64Encode(Piece(frame, i)))
  <1> DEFINE n == Len(frame)
             t == ChunkCount(n)
             x == Decimal(i - 1)
             y == Decimal(t)
             p == Piece(frame, i)
             z == Base64Encode(p)
             b == ChunkBody(frame, i)
  <1>1. b = ChunkText(x, y, z)
    BY DEF ChunkBody, ChunkText, SemiByte, Piece
  <1>2. frame \in Seq(Octet) /\ Word31(t) /\ t \in Nat /\ i <= t
    BY DEF Sendable, Word31
  <1>3. Word31(i - 1) /\ i - 1 <= t
    BY <1>2 DEF Word31
  <1>4. p \in Seq(Octet) /\ Len(p) \in Nat /\ Len(p) <= ChunkRawBytes
    BY <1>2, PieceFacts
  <1>5. 2 * Digits(t) + 2 + 4 * (ChunkRawBytes \div 3) <= MaxCapture
    BY DEF Sendable
  <1> HIDE DEF t, p, b
  <1>6. x \in Seq(Digit) /\ Len(x) = Digits(i - 1)
    BY <1>3, DecimalRoundTrip
  <1>7. y \in Seq(Digit) /\ Len(y) = Digits(t)
    BY <1>2, DecimalRoundTrip
  <1>8. z \in Seq(Nat) /\ Len(z) = 4 * ((Len(p) + 2) \div 3) /\ \A k \in 1 .. Len(z) : z[k] # OscTerminator
    BY <1>4, EncodedBody
  <1>9. Digits(i - 1) \in 1 .. 10 /\ Digits(t) \in 1 .. 10 /\ Digits(i - 1) <= Digits(t)
    BY <1>2, <1>3, DigitsMonotone
  <1>10. \A rd : ParseAndComplete(rd, b) = CompleteChunk(rd, i - 1, t, z)
    BY <1>1, <1>2, <1>3, <1>8, ParseChunkText
  <1> HIDE DEF x, y, z
  <1>11. x \in Seq(Nat) /\ y \in Seq(Nat)
    BY <1>6, <1>7, DigitFacts
  <1> DEFINE j == Len(x)
             l == Len(y)
             m == Len(z)
  <1>12. /\ b \in Seq(Nat) /\ j \in Nat /\ l \in Nat /\ m \in Nat
         /\ Len(b) = j + l + 2 + m
         /\ \A k \in 1 .. j : b[k] = x[k]
         /\ b[j + 1] = Semicolon
         /\ \A k \in 1 .. l : b[j + 1 + k] = y[k]
         /\ b[j + l + 2] = Semicolon
         /\ \A k \in 1 .. m : b[j + l + 2 + k] = z[k]
    <2>1. x \in Seq(Nat) /\ y \in Seq(Nat) /\ z \in Seq(Nat)
      BY <1>8, <1>11
    <2>2. TextParts(b, x, y, z)
      BY <1>1, <2>1, ChunkTextAt
    <2> QED BY <2>2 DEF TextParts
  <1>13. Len(b) <= MaxCapture
    <2>1. \A a, c \in Nat : a <= c /\ c % 3 = 0 => (a + 2) \div 3 <= c \div 3
      OBVIOUS
    <2>2. (Len(p) + 2) \div 3 <= ChunkRawBytes \div 3
      BY <1>4, <2>1, TermWireAssumption
    <2>3. (Len(p) + 2) \div 3 \in Nat /\ ChunkRawBytes \div 3 \in Nat /\ MaxCapture \in Nat
      BY <1>4, TermWireAssumption
    <2>4. j = Digits(i - 1) /\ l = Digits(t) /\ m = 4 * ((Len(p) + 2) \div 3)
      BY <1>6, <1>7, <1>8
    <2>5. \A u, v \in Nat, g \in Int : u <= v => 4 * u + g <= 4 * v + g
      OBVIOUS
    <2>6. m <= 4 * (ChunkRawBytes \div 3)
      BY <2>2, <2>3, <2>4
    <2>7. \A u, v, e, f, g \in Nat : u <= v /\ e <= f /\ 2 * v + 2 + f <= g => u + v + 2 + e <= g
      OBVIOUS
    <2>8. 4 * (ChunkRawBytes \div 3) \in Nat /\ Digits(i - 1) \in Nat /\ Digits(t) \in Nat
      BY <1>9, <2>3, SMTT(40)
    <2> HIDE DEF j, l, m
    <2>9. j \in Nat /\ l \in Nat /\ m \in Nat /\ j <= l
      BY <1>9, <1>12, <2>4
    <2>10. 2 * l + 2 + 4 * (ChunkRawBytes \div 3) <= MaxCapture
      BY <1>5, <2>4
    <2>11. j + l + 2 + m <= MaxCapture
      BY ONLY <2>3, <2>6, <2>7, <2>8, <2>9, <2>10
    <2> QED BY <1>12, <2>11
  <1>14. \A k \in 1 .. Len(b) : b[k] # OscTerminator
    <2> TAKE k \in 1 .. Len(b)
    <2>1. \A e \in Digit : e # OscTerminator
      BY DEF Digit, OscTerminator
    <2>2. Semicolon # OscTerminator
      BY DEF Semicolon, OscTerminator
    <2>3. (\A e \in 1 .. j : x[e] \in Digit) /\ (\A e \in 1 .. l : y[e] \in Digit)
      BY <1>6, <1>7
    <2> HIDE DEF j, l, m
    <2>4. \/ k \in 1 .. j \/ k = j + 1 \/ k - j - 1 \in 1 .. l \/ k = j + l + 2
          \/ k - j - l - 2 \in 1 .. m
      BY <1>12
    <2>5. j + 1 + (k - j - 1) = k /\ j + l + 2 + (k - j - l - 2) = k
      BY <1>12
    <2>6. CASE k \in 1 .. j
      BY <1>12, <2>1, <2>3, <2>6
    <2>7. CASE k = j + 1
      BY <1>12, <2>2, <2>7
    <2>8. CASE k - j - 1 \in 1 .. l
      BY <1>12, <2>1, <2>3, <2>5, <2>8
    <2>9. CASE k = j + l + 2
      BY <1>12, <2>2, <2>9
    <2>10. CASE k - j - l - 2 \in 1 .. m
      <3>1. z[k - j - l - 2] # OscTerminator
        BY <1>8, <2>10 DEF m
      <3> QED BY <1>12, <2>5, <2>10, <3>1
    <2> QED BY <2>4, <2>6, <2>7, <2>8, <2>9, <2>10
  <1>15. FitBody(r, b)
    BY <1>12, <1>13, <1>14 DEF FitBody, ScanTerminator
  <1> QED BY <1>10, <1>15 DEF b, t, z, p

\* The i-th chunk on the wire, and the bytes of the first ones.
Sequence(frame, i) == OscPrefix \o ChunkBody(frame, i) \o <<OscTerminator>>
OscSteps(h, frame) ==
    /\ h \in [0 .. ChunkCount(Len(frame)) -> Seq(Nat)]
    /\ h[0] = << >>
    /\ \A i \in 1 .. ChunkCount(Len(frame)) : h[i] = h[i - 1] \o Sequence(frame, i)

\* A chunk on the wire is bytes.
LEMMA SequenceType ==
    ASSUME NEW r, OscFormat(r), NEW frame, Sendable(frame),
           NEW i \in Nat \ {0}, i <= ChunkCount(Len(frame))
    PROVE  /\ Sequence(frame, i) = ScanPrefix(r) \o ChunkBody(frame, i) \o <<ScanTerminator(r)>>
           /\ Sequence(frame, i) \in Seq(Nat)
  <1> DEFINE b == ChunkBody(frame, i)
             p == ScanPrefix(r)
             z == ScanTerminator(r)
             pb == p \o b
  <1>1. Sequence(frame, i) = pb \o <<z>>
    BY DEF Sequence, ScanPrefix, ScanTerminator
  <1>2. b \in Seq(Nat)
    BY ChunkBodyFacts DEF FitBody
  <1>3. p \in Seq(Nat) /\ z \in Nat
    BY PrefixFacts DEF ScanTerminator, OscTerminator, MarkerSuffix
  <1> HIDE DEF b, p, z
  <1>4. pb \in Seq(Nat)
    BY <1>2, <1>3
  <1> HIDE DEF pb
  <1>5. pb \o <<z>> \in Seq(Nat)
    BY <1>3, <1>4
  <1> QED BY <1>1, <1>5 DEF pb, p, z, b

\* The chunks of a frame follow each other on the wire.
LEMMA OscFrameSteps ==
    ASSUME NEW r, OscFormat(r), NEW frame, Sendable(frame)
    PROVE  \E h : OscSteps(h, frame) /\ OscFrame(frame) = h[ChunkCount(Len(frame))]
  <1> DEFINE n == ChunkCount(Len(frame))
             D == Seq(Nat)
             q(i) == Sequence(frame, i)
             f == [i \in Nat |-> [d \in D |-> IF i \in 1 .. n THEN d \o q(i) ELSE d]]
  <1>1. n \in Nat
    BY DEF Sendable, Word31
  <1>2. \A i \in 1 .. n : q(i) \in D
    <2> TAKE i \in 1 .. n
    <2>1. i \in Nat \ {0} /\ i <= n
      BY <1>1
    <2> QED BY <2>1, SequenceType
  <1>3. \A i \in 1 .. n, d \in D : d \o q(i) \in D
    BY <1>2
  <1>4. << >> \in D
    OBVIOUS
  <1> HIDE DEF n, D, q
  <1>5. f \in [Nat -> [D -> D]]
    BY <1>3
  <1> HIDE DEF f
  <1>6. PICK g \in [0 .. n -> D] : g[0] = << >> /\ \A i \in 1 .. n : g[i] = f[i][g[i - 1]]
    <2>1. \E g : Steps(g, D, << >>, f, n)
      BY <1>1, <1>4, <1>5, Recursion
    <2> QED BY <2>1 DEF Steps
  <1>7. ASSUME NEW i \in 1 .. n PROVE i - 1 \in 0 .. n /\ g[i] = g[i - 1] \o q(i)
    <2>1. i - 1 \in 0 .. n /\ i \in Nat
      BY <1>1
    <2>2. g[i - 1] \in D
      BY <1>6, <2>1
    <2>3. f[i][g[i - 1]] = g[i - 1] \o q(i)
      BY <2>1, <2>2 DEF f
    <2> QED BY <1>6, <2>1, <2>3
  <1> DEFINE Is(v) == v = [i \in 0 .. n |-> IF i = 0 THEN << >> ELSE v[i - 1] \o q(i)]
             h == CHOOSE v : Is(v)
  <1>8. Is(g)
    <2>1. \A i \in 0 .. n : i = 0 \/ i \in 1 .. n
      BY <1>1
    <2>2. \A i \in 0 .. n : g[i] = IF i = 0 THEN << >> ELSE g[i - 1] \o q(i)
      BY <1>6, <1>7, <2>1, SMTT(40)
    <2> QED BY <2>2
  <1>9. Is(h)
    BY <1>8
  <1>10. OscFrame(frame) = h[n]
    BY DEF OscFrame, n, q, Sequence
  <1> HIDE DEF h
  <1>11. h[0] = << >> /\ \A i \in 1 .. n : h[i] = h[i - 1] \o q(i)
    <2>1. 0 \in 0 .. n /\ \A i \in 1 .. n : i \in 0 .. n /\ i # 0
      BY <1>1
    <2> QED BY <1>9, <2>1
  <1> DEFINE T == {i \in Nat : i <= n => h[i] \in D}
  <1>12. 0 \in T
    BY <1>4, <1>11
  <1>13. ASSUME NEW i \in T PROVE i + 1 \in T
    <2> SUFFICES ASSUME i + 1 <= n PROVE h[i + 1] \in D
      OBVIOUS
    <2>1. i \in Nat /\ i <= n /\ i + 1 \in 1 .. n /\ (i + 1) - 1 = i
      BY <1>1
    <2>2. h[i + 1] = h[i] \o q(i + 1)
      BY <1>11, <2>1
    <2> QED BY <1>3, <2>1, <2>2
  <1> HIDE DEF T
  <1>14. T = Nat
    <2>1. T \in SUBSET Nat
      BY DEF T
    <2> QED BY <1>12, <1>13, <2>1, SetInduction
  <1>15. \A i \in 0 .. n : h[i] \in D
    <2> TAKE i \in 0 .. n
    <2>1. i \in Nat /\ i <= n
      BY <1>1
    <2>2. i \in T
      BY <1>14, <2>1
    <2> QED BY <2>1, <2>2 DEF T
  <1>16. DOMAIN h = 0 .. n /\ h = [i \in DOMAIN h |-> h[i]]
    BY <1>9
  <1>17. h \in [0 .. n -> D]
    BY <1>15, <1>16
  <1> QED BY <1>10, <1>11, <1>17 DEF OscSteps, n, D, q

\* The reassembly after the i-th chunk of a frame, and the queue.
Progress(frame, i) ==
    IF i = 0 \/ i = ChunkCount(Len(frame)) THEN NoReassembly
    ELSE [active |-> TRUE, total |-> ChunkCount(Len(frame)), expected |-> i,
          buf |-> SubSeq(frame, 1, ChunkEnd(Len(frame), i))]
Queued(q, frame, i) == IF i = ChunkCount(Len(frame)) THEN Append(q, frame) ELSE q

\* complete_chunk() on the next chunk.
LEMMA ChunkProgress ==
    ASSUME NEW r, OscFormat(r), NEW frame, Sendable(frame), NEW c \in Readers(r), NEW q,
           NEW i \in Nat, i + 1 <= ChunkCount(Len(frame)),
           c.a = Progress(frame, i), c.q = Queued(q, frame, i)
    PROVE  LET d == CompleteChunk(c, i, ChunkCount(Len(frame)), Base64Encode(Piece(frame, i + 1)))
           IN d.a = Progress(frame, i + 1) /\ d.q = Queued(q, frame, i + 1)
  <1> DEFINE n == Len(frame)
             t == ChunkCount(n)
             p == Piece(frame, i + 1)
             z == Base64Encode(p)
             x == SubSeq(frame, 1, ChunkEnd(n, i))
             y == SubSeq(frame, 1, ChunkEnd(n, i + 1))
             a == [active |-> TRUE, total |-> t, expected |-> i, buf |-> x]
             e == [active |-> TRUE, total |-> t, expected |-> i + 1, buf |-> y]
             d == CompleteChunk(c, i, t, z)
             a0 == IF i = 0 THEN [NoReassembly EXCEPT !.active = TRUE, !.total = t] ELSE c.a
             next == [a0 EXCEPT !.buf = @ \o Base64Decode(z), !.expected = @ + 1]
  <1>1. frame \in Seq(Octet) /\ n \in Nat /\ t \in Nat /\ i < t /\ i # t
    BY DEF Sendable, Word31
  <1>2. (i + 1) - 1 = i /\ i + 1 \in Nat \ {0}
    OBVIOUS
  <1>3. p \in Seq(Octet) /\ x \o p = y
    BY <1>1, <1>2, PieceFacts
  <1>4. Base64Good(z) /\ Base64Decode(z) = p
    BY <1>3, Base64RoundTrip
  <1>5. ChunkEnd(n, 0) = 0 /\ ChunkEnd(n, t) = n
    BY <1>1, ChunkFacts
  <1>6. SubSeq(frame, 1, 0) = << >> /\ SubSeq(frame, 1, n) = frame
    BY <1>1, WholeSeq
  <1>7. a0 = a
    <2>1. CASE i = 0
      <3>1. x = << >>
        BY <1>5, <1>6, <2>1
      <3> HIDE DEF x
      <3> QED BY <2>1, <3>1 DEF NoReassembly
    <2>2. CASE i # 0
      BY <1>1, <2>2 DEF Progress
    <2> QED BY <2>1, <2>2
  <1>8. next = e
    <2>1. next = [a EXCEPT !.buf = @ \o p, !.expected = @ + 1]
      BY <1>4, <1>7
    <2> HIDE DEF next, x, y, p, t
    <2> QED BY <1>3, <2>1
  <1>9. d = IF i + 1 = t THEN [c EXCEPT !.a = NoReassembly, !.q = Append(@, y)] ELSE [c EXCEPT !.a = e]
    <2>1. d = IF ~Base64Good(z) \/ t = 0 THEN c
              ELSE IF ~a0.active \/ i # a0.expected \/ t # a0.total
              THEN [c EXCEPT !.a = NoReassembly]
              ELSE IF next.expected = next.total
              THEN [c EXCEPT !.a = NoReassembly, !.q = Append(@, next.buf)]
              ELSE [c EXCEPT !.a = next]
      BY DEF CompleteChunk
    <2>2. a0.active /\ a0.expected = i /\ a0.total = t
      <3> HIDE DEF a0, t, x
      <3> QED BY <1>7
    <2>3. next.expected = i + 1 /\ next.total = t /\ next.buf = y
      BY <1>8
    <2> HIDE DEF d, a0, next, t, z, y
    <2> QED BY <1>1, <1>4, <1>8, <2>1, <2>2, <2>3
  <1> HIDE DEF d
  <1>10. CASE i + 1 = t
    <2>1. y = frame
      BY <1>5, <1>6, <1>10
    <2>2. d = [c EXCEPT !.a = NoReassembly, !.q = Append(@, frame)]
      BY <1>9, <1>10, <2>1
    <2>3. d.a = NoReassembly /\ d.q = Append(c.q, frame)
      BY <2>2 DEF Readers
    <2>4. c.q = q /\ Progress(frame, i + 1) = NoReassembly /\ Queued(q, frame, i + 1) = Append(q, frame)
      BY <1>1, <1>10 DEF Progress, Queued
    <2> QED BY <2>3, <2>4 DEF d
  <1>11. CASE i + 1 # t
    <2>1. d = [c EXCEPT !.a = e]
      BY <1>9, <1>11
    <2> HIDE DEF e
    <2>2. d.a = e /\ d.q = c.q
      BY <2>1 DEF Readers
    <2>3. c.q = q /\ Progress(frame, i + 1) = e /\ Queued(q, frame, i + 1) = q
      BY <1>1, <1>2, <1>11 DEF Progress, Queued, e
    <2> QED BY <2>2, <2>3 DEF d
  <1> QED BY <1>10, <1>11

\* Client to server: one sequence for each chunk.
LEMMA OscDelivers ==
    ASSUME NEW r, OscFormat(r), NEW rd \in Readers(r), Rest(r, rd.s), rd.a = NoReassembly,
           NEW frame, Sendable(frame)
    PROVE  Delivers(r, rd, OscFrame(frame), frame)
  <1> DEFINE t == ChunkCount(Len(frame))
  <1>1. PICK h : OscSteps(h, frame) /\ OscFrame(frame) = h[t]
    BY OscFrameSteps
  <1>2. t \in Nat /\ t # 0
    <2>1. Len(frame) \in Nat
      BY DEF Sendable
    <2> QED BY <2>1, ChunkFacts
  <1>3. /\ h[0] = << >> /\ \A i \in 0 .. t : h[i] \in Seq(Nat)
        /\ \A i \in 1 .. t : h[i] = h[i - 1] \o Sequence(frame, i)
    BY <1>1 DEF OscSteps
  <1> DEFINE F(i) == FeedTerm(r, rd, h[i])
             Is(i) == /\ F(i) \in Readers(r) /\ Rest(r, F(i).s) /\ Flow(r, F(i).s) = Flow(r, rd.s)
                      /\ F(i).a = Progress(frame, i) /\ F(i).q = Queued(rd.q, frame, i)
             T == {i \in Nat : i <= t => Is(i)}
  <1>4. 0 \in T
    <2>1. F(0) = rd
      BY <1>3, FeedTermNone
    <2>2. Progress(frame, 0) = NoReassembly /\ Queued(rd.q, frame, 0) = rd.q
      BY <1>2 DEF Progress, Queued
    <2> HIDE DEF F
    <2> QED BY <2>1, <2>2
  <1>5. ASSUME NEW i \in T PROVE i + 1 \in T
    <2> SUFFICES ASSUME i + 1 <= t PROVE Is(i + 1)
      OBVIOUS
    <2>1. /\ i \in Nat /\ i <= t /\ i \in 0 .. t /\ i + 1 \in 1 .. t /\ (i + 1) - 1 = i
          /\ i + 1 \in Nat \ {0}
      BY <1>2
    <2>2. Is(i)
      BY <2>1
    <2> DEFINE g == F(i)
               body == ChunkBody(frame, i + 1)
               w == Sequence(frame, i + 1)
               out == FeedTerm(r, g, w)
    <2>3. h[i + 1] = h[i] \o w /\ h[i] \in Seq(Nat)
      BY <1>3, <2>1
    <2>4. w = ScanPrefix(r) \o body \o <<ScanTerminator(r)>> /\ w \in Seq(Nat)
      BY <2>1, SequenceType
    <2>5. FitBody(r, body)
      BY <2>1, ChunkBodyFacts
    <2>6. \A c : ParseAndComplete(c, body) = CompleteChunk(c, i, t, Base64Encode(Piece(frame, i + 1)))
      BY <2>1, ChunkBodyFacts
    <2> HIDE DEF w, body
    <2>7. F(i + 1) = out
      <3>1. rd \in Readers(r) /\ h[i] \in Seq(Nat) /\ w \in Seq(Nat)
        BY <2>3, <2>4
      <3>2. FeedTerm(r, rd, h[i] \o w) = FeedTerm(r, FeedTerm(r, rd, h[i]), w)
        BY ONLY <3>1, FeedTermConcat
      <3> QED BY <2>3, <3>2
    <2> HIDE DEF F
    <2>8. g \in Readers(r) /\ Rest(r, g.s)
      BY <2>2
    <2> HIDE DEF g
    <2>9. /\ out \in Readers(r) /\ Rest(r, out.s)
          /\ Flow(r, out.s) = Flow(r, g.s) /\ Made(r, g, body, out)
      BY <2>4, <2>5, <2>8, SequenceRead
    <2> HIDE DEF out
    <2>10. PICK c \in Readers(r) : /\ c.a = g.a /\ c.q = g.q
                                   /\ out.a = Done(r, c, body).a /\ out.q = Done(r, c, body).q
      BY <2>9 DEF Made
    <2>11. Done(r, c, body) = CompleteChunk(c, i, t, Base64Encode(Piece(frame, i + 1)))
      BY <2>6 DEF Done
    <2>12. c.a = Progress(frame, i) /\ c.q = Queued(rd.q, frame, i)
      BY <2>2, <2>10 DEF g
    <2>13. out.a = Progress(frame, i + 1) /\ out.q = Queued(rd.q, frame, i + 1)
      BY <2>1, <2>10, <2>11, <2>12, ChunkProgress
    <2> QED BY <2>2, <2>7, <2>9, <2>13 DEF g
  <1> HIDE DEF T
  <1>6. T = Nat
    <2>1. T \in SUBSET Nat
      BY DEF T
    <2> QED BY <1>4, <1>5, <2>1, SetInduction
  <1>7. Is(t)
    <2>1. t \in T /\ t <= t
      BY <1>2, <1>6
    <2> QED BY <2>1 DEF T
  <1>8. Progress(frame, t) = NoReassembly /\ Queued(rd.q, frame, t) = Append(rd.q, frame)
    BY DEF Progress, Queued
  <1>9. OscFrame(frame) \in Seq(Nat) /\ F(t) = FeedTerm(r, rd, OscFrame(frame))
    BY <1>1, <1>2, <1>3
  <1> HIDE DEF F, t
  <1> QED BY <1>7, <1>8, <1>9 DEF Delivers

\* A frame of either format.
LEMMA WireDelivers ==
    ASSUME NEW r, NEW rd \in Readers(r), Rest(r, rd.s), rd.a = NoReassembly,
           NEW frame, Sendable(frame)
    PROVE  Delivers(r, rd, Wire(r, frame), frame)
  <1>1. CASE OscFormat(r)
    BY <1>1, OscDelivers DEF Wire
  <1>2. CASE ~OscFormat(r)
    BY <1>2, MarkerDelivers DEF Wire, Sendable
  <1> QED BY <1>1, <1>2

\* The frames that are sent.
LEMMA SentSendable ==
    ASSUME NEW n \in TermLengths, NEW m \in Nat
    PROVE  /\ Sendable([i \in 1 .. n |-> (16 * (m + 1) + i) % 256])
           /\ [i \in 1 .. n |-> (16 * (m + 1) + i) % 256] \in Seq(Nat)
  <1> DEFINE f == [i \in 1 .. n |-> (16 * (m + 1) + i) % 256]
  <1>1. n \in Nat
    BY TermWireAssumption
  <1>2. \A i \in 1 .. n : (16 * (m + 1) + i) % 256 \in Octet /\ (16 * (m + 1) + i) % 256 \in Nat
    BY <1>1 DEF Octet
  <1>3. f \in Seq(Octet) /\ f \in Seq(Nat) /\ Len(f) = n
    BY <1>1, <1>2
  <1>4. /\ ChunkCount(n) <= 2147483647
        /\ 2 * Digits(ChunkCount(n)) + 2 + 4 * (ChunkRawBytes \div 3) <= MaxCapture
    BY TermFramesAssumption
  <1>5. ChunkCount(n) \in Nat
    BY <1>1, ChunkFacts
  <1> HIDE DEF f
  <1>6. Sendable(f)
    BY <1>3, <1>4, <1>5 DEF Sendable, Word31
  <1> QED BY <1>3, <1>6 DEF f

-----------------------------------------------------------------------------
(***************************************************************************)
(* The terminal's wire, a step at a time.                                  *)
(***************************************************************************)
Reader == [s |-> scan, a |-> assem, q |-> frameq]

\* Every variable keeps the shape of the members it stands for.
TermWireTypeOK ==
    /\ role \in {"client", "server"}
    /\ line \in Seq(Nat)
    /\ scan \in Scanners(role) /\ scan.pending = << >>
    /\ assem \in Assemblies
    /\ frameq \in Seq(Seq(Nat)) /\ posted \in Seq(Seq(Nat)) /\ taken \in Seq(Seq(Nat))
    /\ through \in Seq(Nat) /\ raw \in Seq(Nat)
    /\ pieces \in Nat /\ faults \in Nat

\* The reader once it is fed what is left in the pty, with what it gave away
\* already back in front.
ReadAll == FeedTerm(role, Shift(Reader, through, taken), line)

\* It then holds every frame, every terminal byte, and is between frames.
LosslessInv ==
    faults = 0 =>
        /\ ReadAll.q = posted /\ ReadAll.a = NoReassembly
        /\ Rest(role, ReadAll.s) /\ Flow(role, ReadAll.s) = raw

\* A scanner whose pending bytes were flushed, and one that gave up a prefix.
LEMMA FlushedType ==
    ASSUME NEW r, NEW s \in Scanners(r)
    PROVE  /\ [s EXCEPT !.pending = << >>] \in Scanners(r)
           /\ [s EXCEPT !.pending = << >>].pending = << >>
           /\ [s EXCEPT !.timer = FALSE, !.match = 0] \in Scanners(r)
           /\ [s EXCEPT !.timer = FALSE, !.match = 0].pending = s.pending
           /\ [s EXCEPT !.timer = FALSE, !.match = 0].match = 0
           /\ [s EXCEPT !.timer = FALSE, !.match = 0].inSeq = s.inSeq
           /\ [s EXCEPT !.timer = FALSE, !.match = 0].csi = s.csi
  <1>1. << >> \in Seq(Nat) /\ 0 \in 0 .. Len(ScanPrefix(r)) - 1
    BY PrefixFacts
  <1> DEFINE t == [s EXCEPT !.pending = << >>]
             u == [s EXCEPT !.timer = FALSE, !.match = 0]
  <1>2. t \in Scanners(r) /\ t.pending = << >>
    BY <1>1 DEF Scanners, Shaped
  <1>3. /\ u.pending = s.pending /\ u.match = 0 /\ u.inSeq = s.inSeq /\ u.csi = s.csi
        /\ u.timer = FALSE /\ u.esc = s.esc
    BY DEF Scanners
  <1>4. u \in [inSeq : BOOLEAN, match : 0 .. Len(ScanPrefix(r)) - 1, capture : Seq(Nat), esc : BOOLEAN,
                csi : BOOLEAN, pending : Seq(Nat), timer : BOOLEAN]
    BY <1>1 DEF Scanners
  <1>5. Shaped(s)
    BY DEF Scanners
  <1> HIDE DEF u
  <1>6. Shaped(u)
    BY <1>3, <1>5 DEF Shaped
  <1>7. u \in Scanners(r)
    BY <1>4, <1>6 DEF Scanners
  <1> QED BY <1>2, <1>3, <1>7 DEF u

\* The reader of a state.
LEMMA ReaderType ==
    ASSUME TermWireTypeOK
    PROVE  /\ Reader \in Readers(role) /\ Reader.s = scan /\ Reader.a = assem /\ Reader.q = frameq
           /\ Shift(Reader, through, taken) \in Readers(role)
           /\ Shift(Reader, through, taken).s = Later(scan, through)
           /\ Shift(Reader, through, taken).a = assem
           /\ Shift(Reader, through, taken).q = taken \o frameq
           /\ ReadAll \in Readers(role)
  <1>1. Reader \in Readers(role) /\ Reader.s = scan /\ Reader.a = assem /\ Reader.q = frameq
    BY DEF TermWireTypeOK, Reader, Readers
  <1>2. through \in Seq(Nat) /\ taken \in Seq(Seq(Nat)) /\ line \in Seq(Nat)
    BY DEF TermWireTypeOK
  <1>3. /\ Shift(Reader, through, taken) \in Readers(role)
        /\ Shift(Reader, through, taken).s = Later(Reader.s, through)
        /\ Shift(Reader, through, taken).a = Reader.a
        /\ Shift(Reader, through, taken).q = taken \o Reader.q
    BY <1>1, <1>2, ShiftType
  <1>4. ReadAll \in Readers(role)
    BY <1>2, <1>3, FeedTermType DEF ReadAll
  <1> QED BY <1>1, <1>3, <1>4

\* What reading n bytes leaves.
LEMMA ReadType ==
    ASSUME TermWireTypeOK, NEW n \in 1 .. Len(line), ReadLine(n)
    PROVE  LET rd == FeedTerm(role, Reader, SubSeq(line, 1, n))
           IN /\ rd \in Readers(role) /\ SubSeq(line, 1, n) \in Seq(Nat)
              /\ SubSeq(line, n + 1, Len(line)) \in Seq(Nat)
              /\ SubSeq(line, 1, n) \o SubSeq(line, n + 1, Len(line)) = line
              /\ scan' = [rd.s EXCEPT !.pending = << >>] /\ assem' = rd.a /\ frameq' = rd.q
              /\ through' = through \o rd.s.pending
              /\ line' = SubSeq(line, n + 1, Len(line))
              /\ UNCHANGED <<role, posted, taken, raw, pieces, faults>>
  <1> DEFINE x == SubSeq(line, 1, n)
             y == SubSeq(line, n + 1, Len(line))
             rd == FeedTerm(role, Reader, x)
  <1>1. line \in Seq(Nat)
    BY DEF TermWireTypeOK
  <1>2. x \in Seq(Nat) /\ y \in Seq(Nat) /\ x \o y = line
    BY <1>1
  <1>3. Reader \in Readers(role)
    BY ReaderType
  <1>4. rd \in Readers(role)
    BY <1>2, <1>3, FeedTermType
  <1>5. /\ scan' = [rd.s EXCEPT !.pending = << >>] /\ assem' = rd.a /\ frameq' = rd.q
        /\ through' = through \o rd.s.pending
        /\ line' = SubSeq(line, n + 1, Len(line))
        /\ UNCHANGED <<role, posted, taken, raw, pieces, faults>>
    BY DEF ReadLine, Reader
  <1> QED BY <1>2, <1>4, <1>5

\* One step keeps the types.
LEMMA TermWireTypeStep ==
    ASSUME TermWireTypeOK, [TermWireNext]_termWireVars
    PROVE  TermWireTypeOK'
  <1> USE DEF TermWireTypeOK
  <1>1. CASE SendFrame
    <2>1. Len(posted) \in Nat
      OBVIOUS
    <2>2. PICK n \in TermLengths :
            LET frame == [i \in 1 .. n |-> (16 * (Len(posted) + 1) + i) % 256]
            IN posted' = Append(posted, frame) /\ line' = line \o Wire(role, frame)
      BY <1>1 DEF SendFrame
    <2> DEFINE f == [i \in 1 .. n |-> (16 * (Len(posted) + 1) + i) % 256]
               s0 == IdleScan
               rd == [s |-> s0, a |-> NoReassembly, q |-> << >>]
    <2>3. Sendable(f) /\ f \in Seq(Nat)
      BY <2>1, SentSendable
    <2>4. rd \in Readers(role) /\ Rest(role, rd.s) /\ rd.a = NoReassembly
      <3>1. s0 \in Scanners(role) /\ Rest(role, s0)
        <4>1. 0 \in 0 .. Len(ScanPrefix(role)) - 1 /\ << >> \in Seq(Nat)
          BY PrefixFacts
        <4> QED BY <4>1 DEF IdleScan, Scanners, Shaped, Rest
      <3>2. NoReassembly \in Assemblies
        BY DEF NoReassembly, Assemblies
      <3> HIDE DEF s0
      <3> QED BY <3>1, <3>2 DEF Readers
    <2> HIDE DEF f, rd
    <2>5. Wire(role, f) \in Seq(Nat)
      <3>1. Delivers(role, rd, Wire(role, f), f)
        BY <2>3, <2>4, WireDelivers
      <3> QED BY <3>1 DEF Delivers
    <2>6. posted' = Append(posted, f) /\ line' = line \o Wire(role, f)
      BY <2>2 DEF f
    <2>7. posted' \in Seq(Seq(Nat)) /\ line' \in Seq(Nat)
      BY <2>3, <2>5, <2>6
    <2>8. UNCHANGED <<role, scan, assem, frameq, through, taken, raw, pieces, faults>>
      BY <1>1 DEF SendFrame
    <2> QED BY <2>7, <2>8
  <1>2. CASE SendRaw
    <2>1. PICK bytes \in Noise(role) : line' = line \o bytes /\ raw' = raw \o bytes
      BY <1>2 DEF SendRaw
    <2>2. bytes \in Seq(Nat)
      <3>1. TerminalBytes(role, bytes)
        BY <2>1, TermNoiseAssumption
      <3>2. bytes \in Seq(Octet)
        BY <3>1 DEF TerminalBytes, Octet
      <3>3. \A z \in Octet : z \in Nat
        BY DEF Octet
      <3>4. \A k \in 1 .. Len(bytes) : bytes[k] \in Nat
        BY <3>2, <3>3
      <3>5. bytes \in [1 .. Len(bytes) -> Nat] /\ Len(bytes) \in Nat
        BY <3>2, <3>4
      <3> QED BY ONLY <3>5
    <2>3. line' \in Seq(Nat) /\ raw' \in Seq(Nat)
      BY <2>1, <2>2
    <2>4. pieces' \in Nat /\ UNCHANGED <<role, scan, assem, frameq, through, posted, taken, faults>>
      BY <1>2 DEF SendRaw
    <2> QED BY <2>3, <2>4
  <1>3. CASE Tear
    <2>1. line' \in Seq(Nat)
      BY <1>3, SMTT(40) DEF Tear
    <2>2. faults' \in Nat /\ UNCHANGED <<role, scan, assem, frameq, through, posted, taken, raw, pieces>>
      BY <1>3 DEF Tear
    <2> QED BY <2>1, <2>2
  <1>4. ASSUME NEW n \in 1 .. Len(line), ReadLine(n) PROVE TermWireTypeOK'
    <2> DEFINE rd == FeedTerm(role, Reader, SubSeq(line, 1, n))
    <2>1. /\ rd \in Readers(role)
          /\ SubSeq(line, n + 1, Len(line)) \in Seq(Nat)
          /\ scan' = [rd.s EXCEPT !.pending = << >>] /\ assem' = rd.a /\ frameq' = rd.q
          /\ through' = through \o rd.s.pending
          /\ line' = SubSeq(line, n + 1, Len(line))
          /\ UNCHANGED <<role, posted, taken, raw, pieces, faults>>
      BY <1>4, ReadType
    <2> HIDE DEF rd
    <2>2. rd.s \in Scanners(role) /\ rd.a \in Assemblies /\ rd.q \in Seq(Seq(Nat))
      BY <2>1 DEF Readers
    <2>3. rd.s.pending \in Seq(Nat)
      BY <2>2, FlowType
    <2>4. scan' \in Scanners(role) /\ scan'.pending = << >>
      BY <2>1, <2>2, FlushedType
    <2>5. through' \in Seq(Nat) /\ line' \in Seq(Nat)
      BY <2>1, <2>3
    <2> QED BY <2>1, <2>2, <2>4, <2>5
  <1>5. CASE OnIdleTimeout
    <2>1. scan' \in Scanners(role) /\ scan'.pending = << >>
      BY <1>5, FlushedType DEF OnIdleTimeout
    <2>2. Held(role, scan) \in Seq(Nat) /\ through' = through \o Held(role, scan)
      BY <1>5, HeldType DEF OnIdleTimeout, Held
    <2>3. through' \in Seq(Nat)
      BY <2>2
    <2>4. faults' \in Nat /\ UNCHANGED <<role, line, assem, frameq, posted, taken, raw, pieces>>
      BY <1>5 DEF OnIdleTimeout
    <2> QED BY <2>1, <2>3, <2>4
  <1>6. CASE DequeueTermFrame
    <2>1. taken' \in Seq(Seq(Nat)) /\ frameq' \in Seq(Seq(Nat))
      BY <1>6 DEF DequeueTermFrame
    <2>2. UNCHANGED <<role, line, scan, assem, through, posted, raw, pieces, faults>>
      BY <1>6 DEF DequeueTermFrame
    <2> QED BY <2>1, <2>2
  <1>7. CASE UNCHANGED termWireVars
    BY <1>7 DEF termWireVars
  <1> QED BY <1>1, <1>2, <1>3, <1>4, <1>5, <1>6, <1>7 DEF TermWireNext

\* What the steps of the receiving side leave the same.
LEMMA ReadKeeps ==
    ASSUME TermWireTypeOK, NEW n \in 1 .. Len(line), ReadLine(n)
    PROVE  ReadAll' = ReadAll
  <1> DEFINE x == SubSeq(line, 1, n)
             y == SubSeq(line, n + 1, Len(line))
             rd == FeedTerm(role, Reader, x)
             w == Shift(Reader, through, taken)
             s1 == [rd.s EXCEPT !.pending = << >>]
             r1 == Rd(s1, rd.a, rd.q)
             p1 == through \o rd.s.pending
  <1>1. /\ rd \in Readers(role) /\ x \in Seq(Nat) /\ y \in Seq(Nat) /\ x \o y = line
        /\ scan' = s1 /\ assem' = rd.a /\ frameq' = rd.q
        /\ through' = p1 /\ line' = y /\ role' = role /\ taken' = taken
    BY ReadType
  <1>2. /\ Reader \in Readers(role) /\ w \in Readers(role)
        /\ through \in Seq(Nat) /\ taken \in Seq(Seq(Nat))
    BY ReaderType DEF TermWireTypeOK
  <1>3. FeedTerm(role, w, x) = Shift(rd, through, taken)
    BY <1>1, <1>2, ShiftFeed, ZenonT(40)
  <1>4. Reader' = r1
    BY <1>1 DEF Reader, Rd
  <1> HIDE DEF x, y, w, rd
  <1>5. rd.s \in Scanners(role) /\ rd.s.pending \in Seq(Nat)
    BY <1>1, RdOf, FlowType
  <1>6. Shift(r1, p1, taken) = Shift(rd, through, taken)
    <2>1. r1.s = s1 /\ r1.a = rd.a /\ r1.q = rd.q
      BY RdFields
    <2>2. Later(s1, p1) = Later(rd.s, through)
      <3>1. p1 \in Seq(Nat)
        BY <1>2, <1>5
      <3>2. p1 \o << >> = p1
        BY <3>1
      <3> HIDE DEF p1
      <3>3. Later(s1, p1) = [rd.s EXCEPT !.pending = p1]
        <4>1. s1.pending = << >>
          BY <1>5 DEF Scanners
        <4>2. Later(s1, p1) = [s1 EXCEPT !.pending = p1]
          BY <3>2, <4>1 DEF Later
        <4> QED BY <1>5, <4>2 DEF Scanners
      <3>4. Later(rd.s, through) = [rd.s EXCEPT !.pending = p1]
        BY DEF Later, p1
      <3> QED BY <3>3, <3>4
    <2> HIDE DEF r1, s1, p1
    <2> QED BY <2>1, <2>2 DEF Shift
  <1>7. ReadAll' = FeedTerm(role, Shift(r1, p1, taken), y)
    BY <1>1, <1>4 DEF ReadAll
  <1>8. FeedTerm(role, w, x \o y) = FeedTerm(role, FeedTerm(role, w, x), y)
    <2>1. w \in Readers(role) /\ x \in Seq(Nat) /\ y \in Seq(Nat)
      BY <1>1, <1>2
    <2> QED BY ONLY <2>1, FeedTermConcat
  <1> QED BY <1>1, <1>3, <1>6, <1>7, <1>8 DEF ReadAll, w

\* A frame that was taken is still counted.
LEMMA DequeueKeeps ==
    ASSUME TermWireTypeOK, DequeueTermFrame
    PROVE  ReadAll' = ReadAll
  <1>1. taken' \o frameq' = taken \o frameq
    <2>1. \A S : \A t, q \in Seq(S) : q # << >> => Append(t, Head(q)) \o Tail(q) = t \o q
      OBVIOUS
    <2>2. /\ taken \in Seq(Seq(Nat)) /\ frameq \in Seq(Seq(Nat)) /\ frameq # << >>
          /\ taken' = Append(taken, Head(frameq)) /\ frameq' = Tail(frameq)
      BY DEF TermWireTypeOK, DequeueTermFrame
    <2> QED BY <2>1, <2>2
  <1>2. UNCHANGED <<role, line, scan, assem, through>>
    BY DEF DequeueTermFrame
  <1>3. Shift(Reader, through, taken)' = Shift(Reader, through, taken)
    BY <1>1, <1>2 DEF Shift, Reader
  <1> QED BY <1>2, <1>3 DEF ReadAll

\* The invariant says what a reader is.
Lossless(r, rd) == rd.q = posted /\ rd.a = NoReassembly /\ Rest(r, rd.s) /\ Flow(r, rd.s) = raw

\* The prefix that on_idle_timeout() gives up goes through.
LEMMA TimeoutKeeps ==
    ASSUME TermWireTypeOK, Lossless(role, ReadAll), OnIdleTimeout, line = << >>
    PROVE  Lossless(role, ReadAll)'
  <1> DEFINE w == Shift(Reader, through, taken)
             h == Held(role, scan)
             p1 == through \o h
             u == [scan EXCEPT !.timer = FALSE, !.match = 0]
             r1 == Rd(u, assem, frameq)
             w1 == Shift(r1, p1, taken)
  <1>1. /\ through \in Seq(Nat) /\ taken \in Seq(Seq(Nat)) /\ frameq \in Seq(Seq(Nat))
        /\ scan \in Scanners(role) /\ scan.pending = << >> /\ assem \in Assemblies
    BY DEF TermWireTypeOK
  <1>2. w \in Readers(role) /\ w.s = Later(scan, through) /\ w.a = assem /\ w.q = taken \o frameq
    BY ReaderType
  <1>3. ReadAll = w
    BY <1>2, FeedTermNone DEF ReadAll
  <1>4. /\ scan' = u /\ through' = p1
        /\ UNCHANGED <<role, line, assem, frameq, posted, taken, raw>>
    BY DEF OnIdleTimeout, Held
  <1>5. h \in Seq(Nat)
    BY <1>1, HeldType
  <1> HIDE DEF w, h
  <1>6. p1 \in Seq(Nat)
    BY <1>1, <1>5
  <1>7. u \in Scanners(role) /\ u.pending = << >> /\ u.match = 0 /\ u.inSeq = scan.inSeq /\ u.csi = scan.csi
    BY <1>1, FlushedType
  <1> HIDE DEF u, p1
  <1>8. r1 \in Readers(role) /\ r1.s = u /\ r1.a = assem /\ r1.q = frameq
    BY <1>1, <1>7 DEF Rd, Readers
  <1>9. Reader' = r1
    BY <1>4 DEF Reader, Rd
  <1> HIDE DEF r1
  <1>10. w1 \in Readers(role) /\ w1.s = Later(u, p1) /\ w1.a = assem /\ w1.q = taken \o frameq
    BY <1>1, <1>6, <1>8, ShiftType
  <1>11. ReadAll' = w1
    <2>1. ReadAll' = FeedTerm(role, w1, << >>)
      BY <1>4, <1>9 DEF ReadAll
    <2> HIDE DEF w1
    <2> QED BY <1>10, <2>1, FeedTermNone
  <1> HIDE DEF w1
  <1>12. /\ Later(scan, through) \in Scanners(role)
         /\ Later(scan, through).pending = through \o << >>
         /\ Later(scan, through).match = scan.match
         /\ Later(scan, through).inSeq = scan.inSeq /\ Later(scan, through).csi = scan.csi
    <2>1. Later(scan, through).pending = through \o scan.pending
      BY <1>1, LaterType
    <2> QED BY <1>1, <2>1, LaterType
  <1>13. /\ Later(u, p1) \in Scanners(role)
         /\ Later(u, p1).pending = p1 \o << >> /\ Later(u, p1).match = 0
         /\ Later(u, p1).inSeq = scan.inSeq /\ Later(u, p1).csi = scan.csi
    <2>1. Later(u, p1).pending = p1 \o u.pending /\ Later(u, p1).match = u.match
      BY <1>6, <1>7, LaterType
    <2>2. Later(u, p1).inSeq = u.inSeq /\ Later(u, p1).csi = u.csi /\ Later(u, p1) \in Scanners(role)
      BY <1>6, <1>7, LaterType
    <2> QED BY <1>7, <2>1, <2>2
  <1>14. Flow(role, w.s) = p1
    <2>1. through \o << >> = through
      BY <1>1
    <2> QED BY <1>2, <1>12, <2>1 DEF Flow, Held, p1, h
  <1>15. Flow(role, w1.s) = p1
    <2>1. p1 \o << >> = p1
      BY <1>6
    <2> QED BY <1>10, <1>13, <2>1, FlowType
  <1>16. Rest(role, w1.s)
    BY <1>2, <1>3, <1>10, <1>12, <1>13 DEF Lossless, Rest
  <1>17. w1.q = posted /\ w1.a = NoReassembly /\ Flow(role, w1.s) = raw
    BY <1>2, <1>3, <1>10, <1>14, <1>15 DEF Lossless
  <1> QED BY <1>4, <1>11, <1>16, <1>17 DEF Lossless

\* What is sent is read.
LEMMA SendKeeps ==
    ASSUME TermWireTypeOK, Lossless(role, ReadAll), SendFrame \/ SendRaw
    PROVE  Lossless(role, ReadAll)'
  <1> DEFINE w == Shift(Reader, through, taken)
  <1>1. w \in Readers(role) /\ line \in Seq(Nat) /\ ReadAll \in Readers(role)
    BY ReaderType DEF TermWireTypeOK
  <1>2. UNCHANGED <<role, scan, assem, frameq, through, taken>>
    BY DEF SendFrame, SendRaw
  <1>3. w' = w
    BY <1>2 DEF Shift, Reader
  <1> HIDE DEF w
  <1>4. ASSUME NEW x \in Seq(Nat), line' = line \o x
        PROVE  ReadAll' = FeedTerm(role, ReadAll, x)
    <2>1. FeedTerm(role, w, line \o x) = FeedTerm(role, FeedTerm(role, w, line), x)
      BY <1>1, FeedTermConcat
    <2> QED BY <1>2, <1>3, <1>4, <2>1 DEF ReadAll, w
  <1>5. CASE SendFrame
    <2>1. PICK n \in TermLengths :
            LET frame == [i \in 1 .. n |-> (16 * (Len(posted) + 1) + i) % 256]
            IN posted' = Append(posted, frame) /\ line' = line \o Wire(role, frame)
      BY <1>5 DEF SendFrame
    <2> DEFINE f == [i \in 1 .. n |-> (16 * (Len(posted) + 1) + i) % 256]
    <2>2. Len(posted) \in Nat
      BY DEF TermWireTypeOK
    <2>3. Sendable(f)
      BY <2>2, SentSendable
    <2>4. posted' = Append(posted, f) /\ line' = line \o Wire(role, f)
      BY <2>1
    <2> HIDE DEF f
    <2>5. Delivers(role, ReadAll, Wire(role, f), f)
      BY <1>1, <2>3, WireDelivers DEF Lossless
    <2>6. ReadAll' = FeedTerm(role, ReadAll, Wire(role, f))
      BY <1>4, <2>4, <2>5 DEF Delivers
    <2>7. raw' = raw
      BY <1>5 DEF SendFrame
    <2> QED BY <1>2, <2>4, <2>5, <2>6, <2>7 DEF Lossless, Delivers
  <1>6. CASE SendRaw
    <2>1. PICK bytes \in Noise(role) : line' = line \o bytes /\ raw' = raw \o bytes
      BY <1>6 DEF SendRaw
    <2>2. TerminalBytes(role, bytes)
      <3>1. role \in {"client", "server"}
        BY DEF TermWireTypeOK
      <3> QED BY <2>1, <3>1, TermNoiseAssumption
    <2> DEFINE out == FeedTerm(role, ReadAll, bytes)
    <2>3. /\ bytes \in Seq(Nat) /\ Rest(role, out.s)
          /\ out.a = ReadAll.a /\ out.q = ReadAll.q
          /\ Flow(role, out.s) = Flow(role, ReadAll.s) \o bytes
      BY <1>1, <2>2, NoiseFlows DEF Lossless
    <2>4. ReadAll' = out
      BY <1>4, <2>1, <2>3
    <2>5. posted' = posted
      BY <1>6 DEF SendRaw
    <2> HIDE DEF out
    <2> QED BY <1>2, <2>1, <2>3, <2>4, <2>5 DEF Lossless
  <1> QED BY <1>5, <1>6

\* A sequence starts with the part that another one goes on from.
LEMMA PrefixOf ==
    ASSUME NEW S, NEW x \in Seq(S), NEW y \in Seq(S)
    PROVE  IsPrefix(x, x \o y)
  <1>1. /\ x \o y \in Seq(S) /\ Len(x) \in Nat /\ Len(x \o y) = Len(x) + Len(y) /\ Len(y) \in Nat
        /\ \A k \in 1 .. Len(x) : (x \o y)[k] = x[k]
    BY ConcatFacts
  <1> DEFINE z == x \o y
             n == Len(x)
  <1> HIDE DEF z
  <1>2. SubSeq(x, 1, n) = x
    BY WholeSeq
  <1>3. SubSeq(z, 1, n) = x
    <2>1. z \in Seq(S) /\ n \in Nat /\ n <= Len(z) /\ \A k \in 1 .. n : z[k] = x[k]
      BY <1>1 DEF z
    <2> DEFINE u == SubSeq(z, 1, n)
    <2>2. u \in Seq(S) /\ Len(u) = n /\ \A k \in 1 .. n : u[k] = z[k]
      BY <2>1
    <2> HIDE DEF u
    <2>3. u = x
      BY <2>1, <2>2, SameSeq
    <2> QED BY <2>3 DEF u
  <1>4. n <= Len(z)
    BY <1>1 DEF z
  <1> QED BY <1>2, <1>3, <1>4 DEF IsPrefix, z

\* What the invariant says of the histories.
LEMMA LosslessFollows ==
    ASSUME TermWireTypeOK, Lossless(role, ReadAll)
    PROVE  /\ line = << >> => taken \o frameq = posted
           /\ IsPrefix(through, raw)
           /\ line = << >> /\ ~scan.timer => through = raw
  <1> DEFINE w == Shift(Reader, through, taken)
             g == FeedTerm(role, Reader, line)
             y == Flow(role, g.s)
  <1>1. /\ through \in Seq(Nat) /\ taken \in Seq(Seq(Nat)) /\ line \in Seq(Nat)
        /\ scan \in Scanners(role) /\ scan.pending = << >>
    BY DEF TermWireTypeOK
  <1>2. /\ w \in Readers(role) /\ w.s = Later(scan, through) /\ w.q = taken \o frameq
        /\ Reader \in Readers(role)
    BY ReaderType
  <1>3. line = << >> => ReadAll = w
    BY <1>2, FeedTermNone DEF ReadAll
  <1>4. ReadAll = Shift(g, through, taken)
    BY <1>1, <1>2, ShiftFeed DEF ReadAll
  <1>5. g \in Readers(role)
    BY <1>1, <1>2, FeedTermType
  <1> HIDE DEF w, g
  <1>6. IsPrefix(through, raw)
    <2>1. g.s \in Scanners(role) /\ g.s.pending \in Seq(Nat) /\ Held(role, g.s) \in Seq(Nat)
      BY <1>5, RdOf, FlowType, HeldType
    <2>2. ReadAll.s = Later(g.s, through)
      BY <1>1, <1>4, <1>5, ShiftType
    <2>3. Later(g.s, through).pending = through \o g.s.pending /\ Later(g.s, through).match = g.s.match
      BY <1>1, <2>1, LaterType
    <2> DEFINE p == g.s.pending
               h == Held(role, g.s)
    <2>4. raw = (through \o p) \o h
      BY <2>2, <2>3 DEF Lossless, Flow, Held
    <2>5. p \in Seq(Nat) /\ h \in Seq(Nat)
      BY <2>1
    <2> HIDE DEF p, h
    <2>6. raw = through \o (p \o h)
      BY <1>1, <2>4, <2>5, ConcatAssoc, SMTT(40)
    <2>7. p \o h \in Seq(Nat)
      BY <2>5
    <2> QED BY <1>1, <2>6, <2>7, PrefixOf
  <1>7. ASSUME line = << >>, ~scan.timer PROVE through = raw
    <2>1. scan.match = 0
      BY <1>1, <1>7 DEF Scanners, Shaped
    <2>2. /\ Later(scan, through) \in Scanners(role) /\ Later(scan, through).match = scan.match
          /\ Later(scan, through).pending = through \o scan.pending
      BY <1>1, LaterType
    <2>3. Flow(role, Later(scan, through)) = Later(scan, through).pending
      BY <2>1, <2>2, FlowType
    <2>4. through \o << >> = through
      BY <1>1
    <2> QED BY <1>1, <1>2, <1>3, <1>7, <2>2, <2>3, <2>4 DEF Lossless
  <1>8. ASSUME line = << >> PROVE taken \o frameq = posted
    BY <1>2, <1>3, <1>8 DEF Lossless
  <1> QED BY <1>6, <1>7, <1>8

\* A client that is killed and a read that comes late are faults.
LEMMA FaultSteps ==
    ASSUME TermWireTypeOK, [TermWireNext]_termWireVars, faults' = 0
    PROVE  /\ faults = 0
           /\ \/ SendFrame \/ SendRaw \/ DequeueTermFrame
              \/ \E n \in 1 .. Len(line) : ReadLine(n)
              \/ OnIdleTimeout /\ line = << >>
              \/ UNCHANGED termWireVars
  <1>1. faults \in Nat
    BY DEF TermWireTypeOK
  <1>2. ~Tear
    BY <1>1 DEF Tear
  <1>3. OnIdleTimeout => line = << >> /\ faults = 0
    BY <1>1 DEF OnIdleTimeout
  <1>4. \A n \in 1 .. Len(line) : ReadLine(n) => faults = 0
    BY DEF ReadLine
  <1>5. SendFrame \/ SendRaw \/ DequeueTermFrame \/ UNCHANGED termWireVars => faults = 0
    BY DEF SendFrame, SendRaw, DequeueTermFrame, termWireVars
  <1> QED BY <1>2, <1>3, <1>4, <1>5 DEF TermWireNext

\* One step keeps the invariant.
LEMMA LosslessStep ==
    ASSUME TermWireTypeOK, LosslessInv, [TermWireNext]_termWireVars
    PROVE  LosslessInv'
  <1> SUFFICES ASSUME faults' = 0 PROVE Lossless(role, ReadAll)'
    BY DEF LosslessInv, Lossless
  <1>1. /\ faults = 0
        /\ \/ SendFrame \/ SendRaw \/ DequeueTermFrame
           \/ \E n \in 1 .. Len(line) : ReadLine(n)
           \/ OnIdleTimeout /\ line = << >>
           \/ UNCHANGED termWireVars
    BY FaultSteps
  <1>2. Lossless(role, ReadAll)
    BY <1>1 DEF LosslessInv, Lossless
  <1>3. CASE SendFrame \/ SendRaw
    BY <1>2, <1>3, SendKeeps
  <1>4. CASE DequeueTermFrame
    <2>1. ReadAll' = ReadAll
      BY <1>4, DequeueKeeps
    <2>2. UNCHANGED <<role, posted, raw>>
      BY <1>4 DEF DequeueTermFrame
    <2> QED BY <1>2, <2>1, <2>2 DEF Lossless
  <1>5. ASSUME NEW n \in 1 .. Len(line), ReadLine(n) PROVE Lossless(role, ReadAll)'
    <2>1. ReadAll' = ReadAll
      BY <1>5, ReadKeeps
    <2>2. UNCHANGED <<role, posted, raw>>
      BY <1>5 DEF ReadLine
    <2> QED BY <1>2, <2>1, <2>2 DEF Lossless
  <1>6. CASE OnIdleTimeout /\ line = << >>
    BY <1>2, <1>6, TimeoutKeeps
  <1>7. CASE UNCHANGED termWireVars
    <2>1. ReadAll' = ReadAll /\ UNCHANGED <<role, posted, raw>>
      BY <1>7 DEF termWireVars, ReadAll, Reader, Shift
    <2> QED BY <1>2, <2>1 DEF Lossless
  <1> QED BY <1>1, <1>3, <1>4, <1>5, <1>6, <1>7

\* Initially the reader is idle and nothing was sent.
LEMMA TermWireStart ==
    ASSUME TermWireInit
    PROVE  TermWireTypeOK /\ LosslessInv
  <1>1. role \in {"client", "server"} /\ << >> \in Seq(Nat) /\ << >> \in Seq(Seq(Nat))
    BY DEF TermWireInit
  <1>2. scan \in Scanners(role) /\ scan.pending = << >> /\ scan.match = 0 /\ ~scan.inSeq /\ ~scan.csi
    <2>1. 0 \in 0 .. Len(ScanPrefix(role)) - 1
      BY PrefixFacts
    <2> QED BY <1>1, <2>1 DEF TermWireInit, IdleScan, Scanners, Shaped
  <1>3. NoReassembly \in Assemblies
    BY <1>1 DEF NoReassembly, Assemblies
  <1>4. TermWireTypeOK
    BY <1>1, <1>2, <1>3 DEF TermWireInit, TermWireTypeOK
  <1> DEFINE w == Shift(Reader, through, taken)
  <1>5. w \in Readers(role) /\ w.s = Later(scan, through) /\ w.a = assem /\ w.q = taken \o frameq
    BY <1>4, ReaderType
  <1> HIDE DEF w
  <1>6. ReadAll = w
    BY <1>5, FeedTermNone DEF TermWireInit, ReadAll, w
  <1>7. /\ Later(scan, through) \in Scanners(role) /\ Later(scan, through).match = scan.match
        /\ Later(scan, through).pending = through \o scan.pending
        /\ Later(scan, through).inSeq = scan.inSeq /\ Later(scan, through).csi = scan.csi
    BY <1>1, <1>2, LaterType DEF TermWireInit
  <1>8. Flow(role, w.s) = Later(scan, through).pending
    BY <1>2, <1>5, <1>7, FlowType
  <1>9. << >> \o << >> = << >>
    OBVIOUS
  <1>10. Rest(role, w.s)
    BY <1>2, <1>5, <1>7 DEF Rest
  <1>11. w.q = posted /\ w.a = NoReassembly /\ Flow(role, w.s) = raw
    BY <1>2, <1>5, <1>7, <1>8, <1>9 DEF TermWireInit
  <1> QED BY <1>4, <1>6, <1>10, <1>11 DEF LosslessInv

\* Types of the terminal's wire.
THEOREM TermWireTypeCorrect == TermWireSpec => []TermWireTypeOK
  <1>1. TermWireInit => TermWireTypeOK
    BY TermWireStart
  <1>2. TermWireTypeOK /\ [TermWireNext]_termWireVars => TermWireTypeOK'
    BY TermWireTypeStep
  <1> QED BY <1>1, <1>2, PTL DEF TermWireSpec

\* No frame and no terminal byte is lost.
THEOREM TermLosslessHolds == TermWireSpec => []TermLossless
  <1>1. TermWireInit => TermWireTypeOK /\ LosslessInv
    BY TermWireStart
  <1>2. /\ TermWireTypeOK /\ LosslessInv /\ [TermWireNext]_termWireVars
        => TermWireTypeOK' /\ LosslessInv'
    BY TermWireTypeStep, LosslessStep
  <1>3. TermWireTypeOK /\ LosslessInv => TermLossless
    BY LosslessFollows DEF LosslessInv, Lossless, TermLossless
  <1> QED BY <1>1, <1>2, <1>3, PTL DEF TermWireSpec

-----------------------------------------------------------------------------
(***************************************************************************)
(* The terminal's wire with clients that are killed and reads that come    *)
(* late.  All the bytes that reached the pty are a tape; the reader is at  *)
(* some place on it.                                                       *)
(***************************************************************************)
\* The first m bytes of p are the last ones of the tape G up to its h-th.
Ends(G, h, p, m) == m <= h /\ \A k \in 1 .. m : G[h - m + k] = p[k]

\* A scanner that has read h bytes of G holds the last of them: the start of a
\* prefix, or what follows one.
Follows(r, s, G, h) ==
    LET c == s.capture
        p == ScanPrefix(r)
    IN /\ Ends(G, h, p, s.match)
       /\ s.inSeq => /\ Ends(G, h, c, Len(c))
                     /\ Ends(G, h - Len(c), p, Len(p))

\* The next byte.
LEMMA EndsNext ==
    ASSUME NEW G \in Seq(Nat), NEW h \in Nat, h + 1 <= Len(G), NEW p \in Seq(Nat), NEW m \in Nat,
           m + 1 <= Len(p), Ends(G, h, p, m), G[h + 1] = p[m + 1]
    PROVE  Ends(G, h + 1, p, m + 1)
  <1>1. m + 1 <= h + 1 /\ (h + 1) - (m + 1) = h - m /\ h - m + (m + 1) = h + 1
    BY DEF Ends
  <1>2. \A k \in 1 .. m : G[h - m + k] = p[k]
    BY DEF Ends
  <1>3. \A k \in 1 .. m + 1 : k \in 1 .. m \/ k = m + 1
    OBVIOUS
  <1>4. \A k \in 1 .. m + 1 : G[h - m + k] = p[k]
    BY <1>1, <1>2, <1>3
  <1> QED BY <1>1, <1>4 DEF Ends

\* None of the prefix.
LEMMA EndsNone ==
    \A G, p : \A h \in Nat : Ends(G, h, p, 0)
  BY DEF Ends

\* A byte captured.
LEMMA EndsCaptured ==
    ASSUME NEW G \in Seq(Nat), NEW h \in Nat, h + 1 <= Len(G), NEW c \in Seq(Nat),
           Ends(G, h, c, Len(c))
    PROVE  LET d == Append(c, G[h + 1])
           IN d \in Seq(Nat) /\ Len(d) = Len(c) + 1 /\ Ends(G, h + 1, d, Len(d))
  <1> DEFINE b == G[h + 1]
             d == Append(c, b)
             m == Len(c)
  <1>1. b \in Nat
    OBVIOUS
  <1>2. d \in Seq(Nat) /\ Len(d) = m + 1 /\ d[m + 1] = b /\ m \in Nat /\ \A k \in 1 .. m : d[k] = c[k]
    BY <1>1
  <1> HIDE DEF d, m
  <1>3. Ends(G, h, d, m)
    BY <1>2 DEF Ends, m
  <1>4. Ends(G, h + 1, d, m + 1)
    <2>1. G[h + 1] = d[m + 1] /\ m + 1 <= Len(d)
      BY <1>2
    <2> QED BY <1>2, <1>3, <2>1, EndsNext
  <1> QED BY <1>2, <1>4 DEF d, m

\* A reader that follows a tape follows it over the next byte, and only a
\* terminator inside a sequence can add to the queue.
LEMMA FollowsByte ==
    ASSUME NEW r, NEW rd \in Readers(r), NEW G \in Seq(Nat), NEW h \in Nat, h + 1 <= Len(G),
           Follows(r, rd.s, G, h)
    PROVE  LET out == FeedTermByte(r, rd, G[h + 1])
           IN /\ out \in Readers(r) /\ Follows(r, out.s, G, h + 1)
              /\ \/ out.q = rd.q
                 \/ /\ rd.s.inSeq /\ G[h + 1] = ScanTerminator(r)
                    /\ out.q = Done(r, rd, rd.s.capture).q
  <1> DEFINE s == rd.s
             b == G[h + 1]
             p == ScanPrefix(r)
             out == FeedTermByte(r, rd, b)
             t == out.s
  <1>1. b \in Nat /\ h + 1 \in Nat
    OBVIOUS
  <1>2. s \in Scanners(r) /\ s.match \in Nat /\ s.match < Len(p) /\ s.capture \in Seq(Nat) /\ Len(s.capture) \in Nat
    <2>1. s \in Scanners(r)
      BY RdOf
    <2>2. s.capture \in Seq(Nat)
      BY <2>1 DEF Scanners
    <2> QED BY <2>1, <2>2, HeldType
  <1>3. p \in Seq(Nat) /\ Len(p) \in Nat /\ Len(p) >= 5
    BY PrefixFacts
  <1>4. out \in Readers(r)
    BY <1>1, FeedByteType
  <1>5. t \in Scanners(r) /\ t.match \in Nat
    BY <1>4, RdOf, HeldType
  <1>6. Ends(G, h, p, s.match)
    BY DEF Follows
  <1> HIDE DEF b, p
  <1>10. b = p[s.match + 1] => Ends(G, h + 1, p, s.match + 1)
    <2>1. s.match + 1 <= Len(p)
      BY <1>2, <1>3
    <2> QED BY <1>2, <1>3, <1>6, <2>1, EndsNext DEF b
  <1>7. CASE ~s.inSeq
    <2>1. out = [rd EXCEPT !.s = FeedOutside(r, s, b)]
      BY <1>7 DEF FeedTermByte
    <2>2. t = FeedOutside(r, s, b) /\ out.q = rd.q
      BY <2>1 DEF Readers
    <2>3. FlowsBy(r, s, b, t) \/ Enters(r, s, b, t)
      BY <1>1, <1>2, <1>7, <2>2, OutsideStep
    <2> HIDE DEF out, t
    <2>4. CASE FlowsBy(r, s, b, t)
      <3>1. /\ ~t.inSeq
            /\ \/ t.match = 0
               \/ t.match = s.match + 1 /\ b = p[s.match + 1]
               \/ t.match = 1 /\ b = p[1]
        BY <2>4 DEF FlowsBy, p
      <3>2. ASSUME t.match = 0 PROVE Follows(r, t, G, h + 1)
        BY <1>1, <3>1, <3>2, EndsNone DEF Follows
      <3>3. ASSUME t.match = s.match + 1 /\ b = p[s.match + 1] PROVE Follows(r, t, G, h + 1)
        <4>1. Ends(G, h + 1, p, s.match + 1)
          BY <1>10, <3>3
        <4> QED BY <3>1, <3>3, <4>1 DEF Follows, p
      <3>4. ASSUME t.match = 1 /\ b = p[1] PROVE Follows(r, t, G, h + 1)
        <4>1. Ends(G, h, p, 0) /\ 0 + 1 = 1 /\ 0 + 1 <= Len(p)
          BY <1>3, EndsNone
        <4>2. Ends(G, h + 1, p, 0 + 1)
          <5>1. G[h + 1] = p[0 + 1]
            BY <3>4, <4>1 DEF b
          <5> QED BY <1>3, <4>1, <5>1, EndsNext
        <4> QED BY <3>1, <3>4, <4>1, <4>2 DEF Follows, p
      <3>5. Follows(r, t, G, h + 1)
        BY <3>1, <3>2, <3>3, <3>4
      <3> QED BY <1>4, <2>2, <3>5 DEF t, out, b
    <2>5. CASE Enters(r, s, b, t)
      <3>1. b = p[s.match + 1] /\ s.match + 1 = Len(p) /\ t.inSeq /\ t.capture = << >>
        BY <2>5 DEF Enters, p
      <3>2. t.match = 0
        BY <1>5, <3>1 DEF Scanners, Shaped
      <3>3. Ends(G, h + 1, p, Len(p))
        BY <1>10, <3>1
      <3>4. Len(t.capture) = 0 /\ (h + 1) - 0 = h + 1
        BY <1>1, <3>1
      <3>5. Follows(r, t, G, h + 1)
        BY <1>1, <3>2, <3>3, <3>4, EndsNone DEF Follows, p
      <3> QED BY <1>4, <2>2, <3>5 DEF t, out, b
    <2> QED BY <2>3, <2>4, <2>5
  <1>8. CASE s.inSeq /\ b = ScanTerminator(r)
    <2>1. Rest(r, t) /\ t.match = 0 /\ out.q = Done(r, rd, s.capture).q
      BY <1>8, TerminatorByte
    <2> HIDE DEF out, t
    <2>2. Follows(r, t, G, h + 1)
      BY <1>1, <2>1, EndsNone DEF Rest, Follows
    <2> QED BY <1>4, <1>8, <2>1, <2>2 DEF t, out, b
  <1>9. CASE s.inSeq /\ b # ScanTerminator(r)
    <2>1. out = [rd EXCEPT !.s = FeedInSequence(r, s, b)]
      BY <1>9 DEF FeedTermByte
    <2>2. t = FeedInSequence(r, s, b) /\ out.q = rd.q
      BY <2>1 DEF Readers
    <2> HIDE DEF out, t
    <2>3. \/ ~t.inSeq /\ t.match = 0
          \/ t.inSeq /\ t.match = 0 /\ t.capture = Append(s.capture, b)
      <3>1. s.match = 0
        BY <1>2, <1>9 DEF Scanners, Shaped
      <3>2. \A c : [s EXCEPT !.capture = c, !.inSeq = FALSE].match = s.match /\ ~[s EXCEPT !.capture = c, !.inSeq = FALSE].inSeq
        BY <1>2 DEF Scanners
      <3>3. \A c : /\ [s EXCEPT !.capture = c].match = s.match /\ [s EXCEPT !.capture = c].inSeq = s.inSeq
                   /\ [s EXCEPT !.capture = c].capture = c
        BY <1>2 DEF Scanners
      <3> QED BY <1>9, <2>2, <3>1, <3>2, <3>3 DEF FeedInSequence
    <2>4. CASE ~t.inSeq /\ t.match = 0
      <3>1. Follows(r, t, G, h + 1)
        BY <1>1, <2>4, EndsNone DEF Follows
      <3> QED BY <1>4, <2>2, <3>1 DEF t, out, b
    <2>5. CASE t.inSeq /\ t.match = 0 /\ t.capture = Append(s.capture, b)
      <3> DEFINE c == s.capture
                 d == Append(c, b)
      <3>1. Ends(G, h, c, Len(c)) /\ Ends(G, h - Len(c), p, Len(p))
        BY <1>9 DEF Follows, p
      <3>2. d \in Seq(Nat) /\ Len(d) = Len(c) + 1 /\ Ends(G, h + 1, d, Len(d))
        BY <1>2, <3>1, EndsCaptured DEF b
      <3>3. (h + 1) - Len(d) = h - Len(c)
        BY <1>2, <3>2
      <3> HIDE DEF d, c
      <3>4. Follows(r, t, G, h + 1)
        BY <1>1, <2>5, <3>1, <3>2, <3>3, EndsNone DEF Follows, p, c, d
      <3> QED BY <1>4, <2>2, <3>4 DEF t, out, b
    <2> QED BY <2>3, <2>4, <2>5
  <1> QED BY <1>7, <1>8, <1>9

\* What is between the prefix and the terminator of a frame of one sequence.
UnitBody(r, frame) == IF OscFormat(r) THEN ChunkBody(frame, 1) ELSE Base64Encode(frame)
InBody(r, body) == \A i \in 1 .. Len(body) : BodyByte(r, body[i])

\* A prefix and a terminator are told apart from a body.
LEMMA BodyBytes ==
    ASSUME NEW r
    PROVE  /\ ~BodyByte(r, ScanTerminator(r)) /\ ScanTerminator(r) \in Nat
           /\ \A k \in 1 .. Len(ScanPrefix(r)) : ScanPrefix(r)[k] # ScanTerminator(r)
           /\ \E k \in 1 .. Len(ScanPrefix(r)) : ~BodyByte(r, ScanPrefix(r)[k])
  <1>1. CASE OscFormat(r)
    <2>1. ScanTerminator(r) = 7 /\ ScanPrefix(r) = <<27, 93, 57, 57, 59>>
      BY <1>1 DEF ScanTerminator, ScanPrefix, OscTerminator, OscPrefix, ESC, Semicolon
    <2>2. ~BodyByte(r, 7) /\ ~BodyByte(r, 27)
      BY DEF BodyByte, Base64Value, Equals, Semicolon
    <2> DEFINE p == <<27, 93, 57, 57, 59>>
    <2>3. Len(p) = 5 /\ p[1] = 27 /\ \A k \in 1 .. 5 : p[k] # 7
      OBVIOUS
    <2> HIDE DEF p
    <2>4. 1 \in 1 .. 5
      OBVIOUS
    <2> QED BY <2>1, <2>2, <2>3, <2>4 DEF p
  <1>2. CASE ~OscFormat(r)
    <2>1. ScanTerminator(r) = 62 /\ ScanPrefix(r) = <<66, 73, 83, 79, 78, 60>>
      BY <1>2 DEF ScanTerminator, ScanPrefix, MarkerSuffix, MarkerPrefix
    <2>2. ~BodyByte(r, 62) /\ ~BodyByte(r, 60)
      BY <1>2 DEF BodyByte, Base64Value, Equals
    <2> DEFINE p == <<66, 73, 83, 79, 78, 60>>
    <2>3. Len(p) = 6 /\ p[6] = 60 /\ \A k \in 1 .. 6 : p[k] # 62
      OBVIOUS
    <2> HIDE DEF p
    <2>4. 6 \in 1 .. 6
      OBVIOUS
    <2> QED BY <2>1, <2>2, <2>3, <2>4 DEF p
  <1> QED BY <1>1, <1>2

\* A body that base64_decode() takes has body bytes.
LEMMA GoodInBody ==
    ASSUME NEW r, NEW chars, Base64Good(chars)
    PROVE  InBody(r, chars)
  <1>1. \A i \in 1 .. Len(chars) : Base64Value(chars[i]) < 64 \/ chars[i] = Equals
    BY DEF Base64Good
  <1> QED BY <1>1 DEF InBody, BodyByte

\* Digits are body bytes.
LEMMA DigitInBody ==
    ASSUME NEW r, NEW b \in 48 .. 57
    PROVE  BodyByte(r, b)
  <1>1. Base64Value(b) = b + 4
    BY DEF Base64Value
  <1>2. b + 4 < 64
    OBVIOUS
  <1> QED BY <1>1, <1>2 DEF BodyByte

\* body.find(';', from).
LEMMA SemicolonFound ==
    ASSUME NEW body \in Seq(Nat), NEW from \in Nat \ {0}, FindSemicolon(body, from) # 0
    PROVE  LET i == FindSemicolon(body, from)
           IN i \in from .. Len(body) /\ body[i] = Semicolon
  <1> DEFINE semis == {k \in from .. Len(body) : body[k] = Semicolon}
             least == CHOOSE k \in semis : \A o \in semis : k <= o
  <1>1. FindSemicolon(body, from) = IF semis = {} THEN 0 ELSE least
    BY DEF FindSemicolon
  <1>2. semis # {}
    BY <1>1
  <1>3. semis \in SUBSET Nat
    OBVIOUS
  <1>4. \E k \in semis : \A o \in semis : k <= o
    BY <1>2, <1>3, LeastNat
  <1>5. least \in semis
    BY <1>4
  <1> HIDE DEF least
  <1> QED BY <1>1, <1>2, <1>5

\* What parse_uint() takes are digits.
LEMMA UintDigits ==
    \A c : IsUint(c) => \A i \in 1 .. Len(c) : c[i] \in 48 .. 57
  <1> SUFFICES ASSUME NEW c, IsUint(c) PROVE \A i \in 1 .. Len(c) : c[i] \in 48 .. 57
    OBVIOUS
  <1> QED BY SMT DEF IsUint

\* A sequence with a byte that no frame has makes no frame.
LEMMA Tainted ==
    ASSUME NEW r, NEW rd \in Readers(r), NEW body \in Seq(Nat), ~InBody(r, body)
    PROVE  Done(r, rd, body).q = rd.q
  <1>1. PICK i \in 1 .. Len(body) : ~BodyByte(r, body[i])
    BY DEF InBody
  <1>2. CASE ~OscFormat(r)
    <2>1. ~Base64Good(body)
      BY GoodInBody
    <2> QED BY <1>2, <2>1 DEF Done, CompleteMarker
  <1>3. CASE OscFormat(r)
    <2> DEFINE first == FindSemicolon(body, 1)
               second == FindSemicolon(body, first + 1)
               seq == SubSeq(body, 1, first - 1)
               total == SubSeq(body, first + 1, second - 1)
               rest == SubSeq(body, second + 1, Len(body))
    <2>1. Done(r, rd, body) = ParseAndComplete(rd, body)
      BY <1>3 DEF Done
    <2>2. ParseAndComplete(rd, body) = IF first # 0 /\ second # 0 /\ IsUint(seq) /\ IsUint(total)
                                       THEN CompleteChunk(rd, ParseUint(seq), ParseUint(total), rest)
                                       ELSE rd
      BY DEF ParseAndComplete
    <2> SUFFICES ASSUME first # 0, second # 0, IsUint(seq), IsUint(total), Base64Good(rest) PROVE FALSE
      <3>1. ~Base64Good(rest) => CompleteChunk(rd, ParseUint(seq), ParseUint(total), rest) = rd
        BY DEF CompleteChunk
      <3> QED BY <2>1, <2>2, <3>1
    <2>3. first \in 1 .. Len(body) /\ body[first] = Semicolon
      BY SemicolonFound
    <2>4. second \in first + 1 .. Len(body) /\ body[second] = Semicolon
      BY <2>3, SemicolonFound, SMTT(40)
    <2> HIDE DEF first, second
    <2>5. body[i] # Semicolon
      BY <1>1, <1>3 DEF BodyByte
    <2>6. i # first /\ i # second
      BY <2>3, <2>4, <2>5
    <2>7. CASE i < first
      <3>1. i \in 1 .. Len(seq) /\ seq[i] = body[i]
        BY <2>3, <2>7
      <3>2. seq[i] \in 48 .. 57
        BY <3>1, UintDigits
      <3> QED BY <1>1, <3>1, <3>2, DigitInBody
    <2>8. CASE first < i /\ i < second
      <3>1. i - first \in 1 .. Len(total) /\ total[i - first] = body[i]
        BY <2>3, <2>4, <2>8
      <3>2. total[i - first] \in 48 .. 57
        BY <3>1, UintDigits
      <3> QED BY <1>1, <3>1, <3>2, DigitInBody
    <2>9. CASE second < i
      <3>1. i - second \in 1 .. Len(rest) /\ rest[i - second] = body[i]
        BY <2>3, <2>4, <2>9
      <3>2. InBody(r, rest)
        BY GoodInBody
      <3> QED BY <1>1, <3>1, <3>2 DEF InBody
    <2>10. i < first \/ (first < i /\ i < second) \/ second < i
      BY <2>3, <2>4, <2>6
    <2> QED BY <2>7, <2>8, <2>9, <2>10
  <1> QED BY <1>2, <1>3

\* A chunk's text has body bytes.
LEMMA TextInBody ==
    ASSUME NEW r, OscFormat(r), NEW x \in Seq(Digit), NEW y \in Seq(Digit), NEW z, InBody(r, z),
           NEW t, TextParts(t, x, y, z)
    PROVE  InBody(r, t)
  <1> DEFINE j == Len(x)
             l == Len(y)
             m == Len(z)
  <1>1. /\ j \in Nat /\ l \in Nat /\ m \in Nat
        /\ Len(t) = j + l + 2 + m
        /\ \A k \in 1 .. j : t[k] = x[k]
        /\ t[j + 1] = Semicolon
        /\ \A k \in 1 .. l : t[j + 1 + k] = y[k]
        /\ t[j + l + 2] = Semicolon
        /\ \A k \in 1 .. m : t[j + l + 2 + k] = z[k]
    BY DEF TextParts
  <1>2. /\ \A e \in 1 .. j : BodyByte(r, x[e])
        /\ \A e \in 1 .. l : BodyByte(r, y[e])
        /\ \A e \in 1 .. m : BodyByte(r, z[e])
        /\ BodyByte(r, Semicolon)
    <2>1. \A b \in Digit : BodyByte(r, b)
      BY DigitInBody DEF Digit
    <2>2. (\A e \in 1 .. j : x[e] \in Digit) /\ (\A e \in 1 .. l : y[e] \in Digit)
      OBVIOUS
    <2>3. BodyByte(r, Semicolon)
      BY DEF BodyByte
    <2> QED BY <2>1, <2>2, <2>3 DEF InBody
  <1> SUFFICES ASSUME NEW k \in 1 .. Len(t) PROVE BodyByte(r, t[k])
    BY DEF InBody
  <1> HIDE DEF j, l, m
  <1>4. \/ k \in 1 .. j \/ k = j + 1 \/ k - j - 1 \in 1 .. l \/ k = j + l + 2
        \/ k - j - l - 2 \in 1 .. m
    BY <1>1
  <1>5. j + 1 + (k - j - 1) = k /\ j + l + 2 + (k - j - l - 2) = k
    BY <1>1
  <1>6. CASE k \in 1 .. j
    BY <1>1, <1>2, <1>6
  <1>7. CASE k = j + 1 \/ k = j + l + 2
    BY <1>1, <1>2, <1>7
  <1>8. CASE k - j - 1 \in 1 .. l
    BY <1>1, <1>2, <1>5, <1>8
  <1>9. CASE k - j - l - 2 \in 1 .. m
    BY <1>1, <1>2, <1>5, <1>9
  <1> QED BY <1>4, <1>6, <1>7, <1>8, <1>9

\* complete_chunk() on the only chunk of a frame, whatever was in assembly.
LEMMA OnlyChunk ==
    ASSUME NEW r, NEW rd \in Readers(r), NEW z, Base64Good(z)
    PROVE  CompleteChunk(rd, 0, 1, z).q = Append(rd.q, << >> \o Base64Decode(z))
  <1> DEFINE a == [NoReassembly EXCEPT !.active = TRUE, !.total = 1]
             next == [a EXCEPT !.buf = @ \o Base64Decode(z), !.expected = @ + 1]
  <1>1. /\ NoReassembly \in [active : BOOLEAN, total : Nat, expected : Nat, buf : Seq(Nat)]
        /\ NoReassembly.buf = << >> /\ NoReassembly.expected = 0
    BY DEF NoReassembly
  <1>2. /\ a \in [active : BOOLEAN, total : Nat, expected : Nat, buf : Seq(Nat)]
        /\ a.active /\ a.expected = 0 /\ a.total = 1 /\ a.buf = << >>
    BY <1>1
  <1>3. CompleteChunk(rd, 0, 1, z) = IF ~Base64Good(z) \/ 1 = 0 THEN rd
           ELSE IF ~a.active \/ 0 # a.expected \/ 1 # a.total
           THEN [rd EXCEPT !.a = NoReassembly]
           ELSE IF next.expected = next.total
           THEN [rd EXCEPT !.a = NoReassembly, !.q = Append(@, next.buf)]
           ELSE [rd EXCEPT !.a = next]
    BY DEF CompleteChunk
  <1>5. next.expected = 1 /\ next.total = 1 /\ next.buf = << >> \o Base64Decode(z)
    <2> HIDE DEF a
    <2>1. 0 + 1 = 1
      OBVIOUS
    <2> QED BY <1>2, <2>1
  <1> HIDE DEF a, next
  <1>6. CompleteChunk(rd, 0, 1, z) = [rd EXCEPT !.a = NoReassembly, !.q = Append(@, next.buf)]
    BY <1>2, <1>3, <1>5
  <1>7. CompleteChunk(rd, 0, 1, z).q = Append(rd.q, next.buf)
    BY <1>6 DEF Readers
  <1> QED BY <1>5, <1>7

\* A frame of one sequence.
LEMMA UnitFacts ==
    ASSUME NEW r, NEW frame, Sendable(frame), Mendable(r, frame)
    PROVE  LET u == UnitBody(r, frame)
           IN /\ u \in Seq(Nat) /\ InBody(r, u)
              /\ Wire(r, frame) = ScanPrefix(r) \o u \o <<ScanTerminator(r)>>
              /\ \A rd \in Readers(r) : Done(r, rd, u).q = Append(rd.q, frame)
  <1>1. frame \in Seq(Octet)
    BY DEF Sendable
  <1>2. CASE ~OscFormat(r)
    <2> DEFINE u == Base64Encode(frame)
    <2>1. UnitBody(r, frame) = u
      BY <1>2 DEF UnitBody
    <2>2. u \in Seq(Nat)
      BY <1>1, EncodedBody
    <2>3. Base64Good(u) /\ Base64Decode(u) = frame
      BY <1>1, Base64RoundTrip
    <2>4. Wire(r, frame) = ScanPrefix(r) \o u \o <<ScanTerminator(r)>>
      BY <1>2 DEF Wire, MarkerFrame, ScanPrefix, ScanTerminator
    <2> HIDE DEF u
    <2>5. ASSUME NEW rd \in Readers(r) PROVE Done(r, rd, u).q = Append(rd.q, frame)
      <3>1. Done(r, rd, u) = [rd EXCEPT !.q = Append(@, frame)]
        BY <1>2, <2>3 DEF Done, CompleteMarker
      <3> QED BY <3>1 DEF Readers
    <2>6. InBody(r, u)
      BY <2>3, GoodInBody
    <2> QED BY <2>1, <2>2, <2>4, <2>5, <2>6
  <1>3. CASE OscFormat(r)
    <2> DEFINE t == ChunkCount(Len(frame))
               u == ChunkBody(frame, 1)
               g == Piece(frame, 1)
               z == Base64Encode(g)
               x == Decimal(0)
               y == Decimal(t)
    <2>1. UnitBody(r, frame) = u
      BY <1>3 DEF UnitBody
    <2>2. t = 1
      BY <1>3 DEF Mendable
    <2>3. /\ FitBody(r, u)
          /\ \A rd : ParseAndComplete(rd, u) = CompleteChunk(rd, 1 - 1, t, z)
      BY <1>3, <2>2, ChunkBodyFacts
    <2>4. g \in Seq(Octet) /\ g = frame
      <3>1. Len(frame) \in Nat
        BY <1>1
      <3>2. ChunkEnd(Len(frame), 0) = 0 /\ ChunkEnd(Len(frame), 1) = Len(frame)
        BY <2>2, <3>1, ChunkFacts
      <3>3. 1 - 1 = 0 /\ 0 + 1 = 1
        OBVIOUS
      <3>4. g = SubSeq(frame, 1, Len(frame))
        BY <3>2, <3>3 DEF Piece
      <3>5. g = frame
        BY <1>1, <3>4, WholeSeq
      <3> QED BY <1>1, <3>5
    <2>5. Base64Good(z) /\ Base64Decode(z) = frame /\ z \in Seq(Nat)
      BY <2>4, Base64RoundTrip, EncodedBody
    <2>6. x \in Seq(Digit) /\ y \in Seq(Digit)
      <3>1. Word31(0) /\ Word31(1)
        BY SMT DEF Word31
      <3> QED BY <2>2, <3>1, DecimalRoundTrip
    <2>7. u = ChunkText(x, y, z)
      <3>1. 1 - 1 = 0
        OBVIOUS
      <3> QED BY <3>1 DEF ChunkBody, ChunkText, SemiByte, Piece
    <2> HIDE DEF x, y, z, u, g
    <2>8. InBody(r, u)
      <3>1. x \in Seq(Nat) /\ y \in Seq(Nat)
        BY <2>6, DigitFacts
      <3>2. TextParts(u, x, y, z)
        BY <2>5, <2>7, <3>1, ChunkTextAt
      <3>3. InBody(r, z)
        BY <2>5, GoodInBody
      <3> QED BY <1>3, <2>6, <3>2, <3>3, TextInBody
    <2>9. u \in Seq(Nat)
      BY <2>3 DEF FitBody
    <2>10. ASSUME NEW rd \in Readers(r) PROVE Done(r, rd, u).q = Append(rd.q, frame)
      <3>1. 1 - 1 = 0
        OBVIOUS
      <3>2. Done(r, rd, u) = CompleteChunk(rd, 0, 1, z)
        BY <1>3, <2>2, <2>3, <3>1 DEF Done
      <3>3. << >> \o frame = frame
        BY <1>1
      <3> QED BY <2>5, <3>2, <3>3, OnlyChunk
    <2>11. Wire(r, frame) = ScanPrefix(r) \o u \o <<ScanTerminator(r)>>
      <3>1. PICK h : OscSteps(h, frame) /\ OscFrame(frame) = h[t]
        BY <1>3, OscFrameSteps
      <3>2. h[1] = h[1 - 1] \o Sequence(frame, 1) /\ h[0] = << >>
        BY <2>2, <3>1 DEF OscSteps
      <3>3. /\ Sequence(frame, 1) = ScanPrefix(r) \o u \o <<ScanTerminator(r)>>
            /\ Sequence(frame, 1) \in Seq(Nat)
        BY <1>3, <2>2, SequenceType DEF u
      <3>4. 1 - 1 = 0 /\ << >> \o Sequence(frame, 1) = Sequence(frame, 1)
        BY <3>3
      <3>5. Wire(r, frame) = h[1]
        BY <1>3, <2>2, <3>1 DEF Wire
      <3> QED BY <3>2, <3>3, <3>4, <3>5
    <2> QED BY <2>1, <2>8, <2>9, <2>10, <2>11
  <1> QED BY <1>2, <1>3

\* Two sequences that end at the same place: the longer body would have a prefix
\* in it.
LEMMA ShorterBody ==
    ASSUME NEW r, NEW G, NEW e \in Nat, NEW c \in Seq(Nat), NEW u \in Seq(Nat),
           InBody(r, u), Len(c) < Len(u),
           Ends(G, e - Len(c), ScanPrefix(r), Len(ScanPrefix(r))),
           Ends(G, e, u, Len(u)), Ends(G, e - Len(u), ScanPrefix(r), Len(ScanPrefix(r)))
    PROVE  FALSE
  <1> DEFINE p == ScanPrefix(r)
             n == Len(p)
             x == Len(c)
             y == Len(u)
             d == y - x
  <1>1. n \in Nat /\ n >= 5 /\ x \in Nat /\ y \in Nat /\ x < y
    BY PrefixFacts
  <1>2. /\ y <= e /\ n <= e - y /\ n <= e - x
        /\ \A k \in 1 .. n : G[(e - x) - n + k] = p[k]
        /\ \A k \in 1 .. n : G[(e - y) - n + k] = p[k]
        /\ \A k \in 1 .. y : G[e - y + k] = u[k]
    BY DEF Ends
  <1>3. \A k \in 2 .. n : p[k] # p[1]
    BY PrefixFacts
  <1>4. PICK K \in 1 .. n : ~BodyByte(r, p[K])
    BY BodyBytes
  <1>5. \A k \in 1 .. y : BodyByte(r, u[k])
    BY DEF InBody
  <1> HIDE DEF p, n, x, y
  <1>6. CASE d < n
    <2>1. 1 + d \in 2 .. n /\ 1 + d \in 1 .. n /\ 1 \in 1 .. n /\ (e - x) - n + 1 = (e - y) - n + (1 + d)
      BY <1>1, <1>6
    <2>2. p[1] = p[1 + d]
      BY <1>2, <2>1
    <2> QED BY <1>3, <2>1, <2>2
  <1>7. CASE d >= n
    <2>1. (d - n) + K \in 1 .. y /\ (e - x) - n + K = e - y + ((d - n) + K)
      BY <1>1, <1>7
    <2>2. u[(d - n) + K] = p[K]
      BY <1>2, <2>1
    <2> QED BY <1>4, <1>5, <2>1, <2>2
  <1> QED BY <1>1, <1>6, <1>7

\* Two sequences that end at the same place are the same.
LEMMA SameBody ==
    ASSUME NEW r, NEW G, NEW e \in Nat, NEW c \in Seq(Nat), NEW u \in Seq(Nat),
           InBody(r, c), InBody(r, u),
           Ends(G, e, c, Len(c)), Ends(G, e - Len(c), ScanPrefix(r), Len(ScanPrefix(r))),
           Ends(G, e, u, Len(u)), Ends(G, e - Len(u), ScanPrefix(r), Len(ScanPrefix(r)))
    PROVE  c = u
  <1>1. Len(c) \in Nat /\ Len(u) \in Nat
    OBVIOUS
  <1>2. ~(Len(c) < Len(u))
    BY ShorterBody
  <1>3. ~(Len(u) < Len(c))
    BY ShorterBody
  <1>4. Len(c) = Len(u)
    BY <1>1, <1>2, <1>3
  <1>5. \A k \in 1 .. Len(c) : c[k] = u[k]
    BY <1>4 DEF Ends
  <1> QED BY <1>4, <1>5, SameSeq

\* A terminator is that of the frame, or belongs to some other sequence of the
\* terminal: a byte that no frame has is in front of it and no prefix between.
Framed(r, G, i, frame) ==
    LET u == UnitBody(r, frame)
        p == ScanPrefix(r)
    IN /\ Sendable(frame) /\ Mendable(r, frame)
       /\ Ends(G, i - 1, u, Len(u)) /\ Ends(G, i - 1 - Len(u), p, Len(p))
Guarded(r, G, i) ==
    LET p == ScanPrefix(r)
    IN \E j \in 1 .. i - 1 :
          /\ ~BodyByte(r, G[j])
          /\ \A k \in 2 .. Len(p) : G[j] # p[k]
          /\ \A e \in j + Len(p) - 1 .. i - 1 : ~Ends(G, e, p, Len(p))

\* What a reader captured up to a terminator that no frame wrote.
LEMMA GuardedTaints ==
    ASSUME NEW r, NEW G, NEW i \in Nat \ {0}, Guarded(r, G, i), NEW c \in Seq(Nat),
           Ends(G, i - 1, c, Len(c)), Ends(G, i - 1 - Len(c), ScanPrefix(r), Len(ScanPrefix(r)))
    PROVE  ~InBody(r, c)
  <1> DEFINE p == ScanPrefix(r)
             n == Len(p)
             x == Len(c)
             e == i - 1 - x
  <1>1. PICK j \in 1 .. i - 1 :
          /\ ~BodyByte(r, G[j])
          /\ \A k \in 2 .. n : G[j] # p[k]
          /\ \A f \in j + n - 1 .. i - 1 : ~Ends(G, f, p, n)
    BY DEF Guarded
  <1>2. n \in Nat /\ n >= 5 /\ x \in Nat
    BY PrefixFacts
  <1>3. /\ x <= i - 1 /\ n <= e
        /\ \A k \in 1 .. x : G[i - 1 - x + k] = c[k]
        /\ \A k \in 1 .. n : G[e - n + k] = p[k]
        /\ Ends(G, e, p, n)
    BY DEF Ends
  <1> HIDE DEF p, n, x
  <1>4. CASE j > e
    <2>1. j - e \in 1 .. x /\ i - 1 - x + (j - e) = j
      BY <1>2, <1>3, <1>4
    <2>2. c[j - e] = G[j]
      BY <1>3, <2>1
    <2> QED BY <1>1, <2>1, <2>2 DEF InBody, x
  <1>5. CASE j <= e /\ j > e - n + 1
    <2>1. j - (e - n) \in 2 .. n /\ j - (e - n) \in 1 .. n /\ e - n + (j - (e - n)) = j
      BY <1>2, <1>3, <1>5
    <2>2. G[j] = p[j - (e - n)]
      BY <1>3, <2>1
    <2> QED BY <1>1, <2>1, <2>2
  <1>6. CASE j <= e - n + 1
    <2>1. e \in j + n - 1 .. i - 1
      BY <1>2, <1>3, <1>6
    <2> HIDE DEF e
    <2> QED BY <1>1, <1>3, <2>1
  <1>7. e \in Int /\ j \in Int
    BY <1>2
  <1> QED BY <1>2, <1>4, <1>5, <1>6, <1>7

\* Where the terminators of a tape are from: marks has the number of the frame,
\* 0 for a terminal's own.
Tape(r, ps, G, marks) ==
    /\ G \in Seq(Nat) /\ marks \in Seq(Nat) /\ Len(marks) = Len(G)
    /\ \A i \in 1 .. Len(G) : marks[i] <= Len(ps)
    /\ \A i \in 1 .. Len(G) : G[i] = ScanTerminator(r) =>
          IF marks[i] = 0 THEN Guarded(r, G, i) ELSE Framed(r, G, i, ps[marks[i]])
    /\ \A i, j \in 1 .. Len(G) : i < j /\ marks[i] # 0 /\ marks[j] # 0 => marks[i] < marks[j]

\* The frames ts are some of ps, in their order.
Traces(ts, ps, idx) ==
    /\ idx \in Seq(Nat) /\ Len(idx) = Len(ts)
    /\ \A k \in 1 .. Len(ts) : idx[k] \in 1 .. Len(ps) /\ ps[idx[k]] = ts[k]
    /\ \A j, k \in 1 .. Len(ts) : j < k => idx[j] < idx[k]

\* Frames that come after the h-th byte are later ones.
Ahead(marks, h, idx) ==
    \A k \in 1 .. Len(idx) : \A i \in h + 1 .. Len(marks) : marks[i] # 0 => idx[k] < marks[i]

\* A reader that has read h bytes of a tape.
Place(r, ps, G, marks, ts, rd, h) ==
    /\ rd \in Readers(r) /\ Follows(r, rd.s, G, h)
    /\ \E idx : Traces(ts \o rd.q, ps, idx) /\ Ahead(marks, h, idx)

\* One more frame.
LEMMA TracesAppend ==
    ASSUME NEW S, NEW ps \in Seq(S), NEW ts \in Seq(S), NEW idx, Traces(ts, ps, idx),
           NEW m \in 1 .. Len(ps), \A k \in 1 .. Len(idx) : idx[k] < m
    PROVE  Traces(Append(ts, ps[m]), ps, Append(idx, m))
  <1> DEFINE n == Len(ts)
             t == Append(ts, ps[m])
             i == Append(idx, m)
  <1>1. /\ n \in Nat /\ idx \in Seq(Nat) /\ Len(idx) = n
        /\ \A k \in 1 .. n : idx[k] \in 1 .. Len(ps) /\ ps[idx[k]] = ts[k]
        /\ \A j, k \in 1 .. n : j < k => idx[j] < idx[k]
    BY DEF Traces
  <1>2. Len(t) = n + 1 /\ t[n + 1] = ps[m] /\ \A k \in 1 .. n : t[k] = ts[k]
    OBVIOUS
  <1>3. i \in Seq(Nat) /\ Len(i) = n + 1 /\ i[n + 1] = m /\ \A k \in 1 .. n : i[k] = idx[k]
    BY <1>1, SMTT(40)
  <1>4. \A k \in 1 .. n : idx[k] < m
    BY <1>1
  <1> HIDE DEF n, t, i
  <1>5. \A k \in 1 .. n + 1 : k \in 1 .. n \/ k = n + 1
    BY <1>1
  <1>6. \A k \in 1 .. n + 1 : i[k] \in 1 .. Len(ps) /\ ps[i[k]] = t[k]
    BY <1>1, <1>2, <1>3, <1>5
  <1>7. ASSUME NEW j \in 1 .. n + 1, NEW k \in 1 .. n + 1, j < k PROVE i[j] < i[k]
    <2>1. j \in 1 .. n
      BY <1>1, <1>7
    <2>2. CASE k \in 1 .. n
      BY <1>1, <1>3, <1>7, <2>1, <2>2
    <2>3. CASE k = n + 1
      BY <1>3, <1>4, <2>1, <2>3
    <2> QED BY <1>5, <2>2, <2>3
  <1> QED BY <1>2, <1>3, <1>6, <1>7 DEF Traces, t, i

\* One byte.
LEMMA PlaceByte ==
    ASSUME NEW r, NEW ps \in Seq(Seq(Nat)), NEW G, NEW marks, Tape(r, ps, G, marks),
           NEW ts \in Seq(Seq(Nat)), NEW rd, NEW h \in Nat, h + 1 <= Len(G),
           Place(r, ps, G, marks, ts, rd, h)
    PROVE  Place(r, ps, G, marks, ts, FeedTermByte(r, rd, G[h + 1]), h + 1)
  <1> DEFINE b == G[h + 1]
             out == FeedTermByte(r, rd, b)
             c == rd.s.capture
             m == marks[h + 1]
             p == ScanPrefix(r)
  <1>1. /\ G \in Seq(Nat) /\ marks \in Seq(Nat) /\ Len(marks) = Len(G) /\ Len(G) \in Nat
        /\ \A i \in 1 .. Len(G) : marks[i] <= Len(ps)
        /\ \A i \in 1 .. Len(G) : G[i] = ScanTerminator(r) =>
              IF marks[i] = 0 THEN Guarded(r, G, i) ELSE Framed(r, G, i, ps[marks[i]])
        /\ \A i, j \in 1 .. Len(G) : i < j /\ marks[i] # 0 /\ marks[j] # 0 => marks[i] < marks[j]
    BY DEF Tape
  <1>2. rd \in Readers(r) /\ Follows(r, rd.s, G, h)
    BY DEF Place
  <1>3. PICK idx : Traces(ts \o rd.q, ps, idx) /\ Ahead(marks, h, idx)
    BY DEF Place
  <1>4. /\ out \in Readers(r) /\ Follows(r, out.s, G, h + 1)
        /\ \/ out.q = rd.q
           \/ rd.s.inSeq /\ b = ScanTerminator(r) /\ out.q = Done(r, rd, c).q
    BY <1>1, <1>2, FollowsByte
  <1>5. h + 1 \in 1 .. Len(G) /\ h + 1 \in h + 1 .. Len(G) /\ m \in Nat /\ rd.q \in Seq(Seq(Nat)) /\ c \in Seq(Nat)
    <2>1. rd.q \in Seq(Seq(Nat)) /\ rd.s \in Scanners(r)
      BY <1>2, RdOf
    <2>2. c \in Seq(Nat)
      BY <2>1 DEF Scanners
    <2>3. h + 1 \in 1 .. Len(G) /\ h + 1 \in h + 1 .. Len(G)
      BY <1>1
    <2> QED BY <1>1, <2>1, <2>2, <2>3
  <1>6. Ahead(marks, h + 1, idx)
    <2>1. \A i \in (h + 1) + 1 .. Len(marks) : i \in h + 1 .. Len(marks)
      OBVIOUS
    <2> QED BY <1>3, <2>1 DEF Ahead
  <1> HIDE DEF out, b, m
  <1>7. CASE out.q = rd.q
    BY <1>3, <1>4, <1>6, <1>7 DEF Place, out, b
  <1>8. CASE rd.s.inSeq /\ b = ScanTerminator(r) /\ out.q = Done(r, rd, c).q
    <2>1. Ends(G, h, c, Len(c)) /\ Ends(G, h - Len(c), p, Len(p))
      BY <1>2, <1>8 DEF Follows
    <2>2. (h + 1) - 1 = h
      OBVIOUS
    <2>3. CASE ~InBody(r, c)
      <3>1. out.q = rd.q
        BY <1>2, <1>5, <1>8, <2>3, Tainted
      <3> QED BY <1>7, <3>1
    <2>4. CASE InBody(r, c)
      <3>1. m # 0
        <4> SUFFICES ASSUME m = 0 PROVE FALSE
          OBVIOUS
        <4>1. Guarded(r, G, h + 1)
          BY <1>1, <1>5, <1>8 DEF b, m
        <4>2. ~InBody(r, c)
          <5>1. h + 1 \in Nat \ {0}
            OBVIOUS
          <5>2. Ends(G, (h + 1) - 1, c, Len(c)) /\ Ends(G, (h + 1) - 1 - Len(c), p, Len(p))
            BY <2>1, <2>2
          <5> QED BY ONLY <1>5, <4>1, <5>1, <5>2, GuardedTaints DEF p
        <4> QED BY <2>4, <4>2
      <3> DEFINE f == ps[m]
                 u == UnitBody(r, f)
      <3>2. Framed(r, G, h + 1, f)
        BY <1>1, <1>5, <1>8, <3>1 DEF b, m
      <3>3. /\ Sendable(f) /\ Mendable(r, f)
            /\ Ends(G, h, u, Len(u)) /\ Ends(G, h - Len(u), p, Len(p))
        BY <2>2, <3>2 DEF Framed
      <3>4. u \in Seq(Nat) /\ InBody(r, u) /\ Done(r, rd, u).q = Append(rd.q, f)
        BY <1>2, <3>3, UnitFacts
      <3> HIDE DEF u
      <3>5. c = u
        BY <1>5, <2>1, <2>4, <3>3, <3>4, SameBody
      <3>6. out.q = Append(rd.q, f)
        BY <1>8, <3>4, <3>5
      <3>7. m \in 1 .. Len(ps)
        <4>1. m <= Len(ps)
          BY <1>1, <1>5 DEF m
        <4> QED BY <1>5, <3>1, <4>1
      <3>8. \A k \in 1 .. Len(idx) : idx[k] < m
        BY <1>1, <1>3, <1>5, <3>1 DEF Ahead, m
      <3>9. ts \o rd.q \in Seq(Seq(Nat)) /\ f \in Seq(Nat) /\ ts \o Append(rd.q, f) = Append(ts \o rd.q, f)
        <4>1. f \in Seq(Nat)
          BY <3>7
        <4>2. \A S : \A x, y \in Seq(S) : \A v \in S : x \o y \in Seq(S) /\ x \o Append(y, v) = Append(x \o y, v)
          OBVIOUS
        <4> DEFINE D == Seq(Nat)
        <4>3. ts \in Seq(D) /\ rd.q \in Seq(D) /\ f \in D
          BY <1>5, <4>1
        <4> HIDE DEF f, D
        <4>4. ts \o rd.q \in Seq(D) /\ ts \o Append(rd.q, f) = Append(ts \o rd.q, f)
          BY <4>2, <4>3, SMTT(40)
        <4> QED BY <4>1, <4>4 DEF D
      <3>10. Traces(Append(ts \o rd.q, f), ps, Append(idx, m))
        BY <1>3, <3>7, <3>8, <3>9, TracesAppend
      <3>11. Ahead(marks, h + 1, Append(idx, m))
        <4> DEFINE n == Len(idx)
                   ix == Append(idx, m)
        <4>1. idx \in Seq(Nat) /\ n \in Nat
          BY <1>3 DEF Traces
        <4>2. Len(ix) = n + 1 /\ ix[n + 1] = m /\ \A k \in 1 .. n : ix[k] = idx[k]
          BY <1>5, <4>1
        <4> HIDE DEF ix
        <4> SUFFICES ASSUME NEW k \in 1 .. Len(ix), NEW i \in (h + 1) + 1 .. Len(marks), marks[i] # 0
                     PROVE  ix[k] < marks[i]
          BY DEF Ahead, ix
        <4>3. CASE k \in 1 .. n
          BY <1>6, <4>2, <4>3 DEF Ahead
        <4>4. CASE ~(k \in 1 .. n)
          <5>1. k = n + 1
            BY <4>1, <4>2, <4>4
          <5>2. i \in 1 .. Len(G) /\ h + 1 < i
            BY <1>1
          <5>3. m < marks[i]
            BY <1>1, <1>5, <3>1, <5>2 DEF m
          <5> QED BY <4>2, <5>1, <5>3
        <4> QED BY <4>3, <4>4
      <3> HIDE DEF f
      <3>12. Traces(ts \o out.q, ps, Append(idx, m))
        BY <3>6, <3>9, <3>10
      <3> QED BY <1>4, <3>11, <3>12 DEF Place, out, b
    <2> QED BY <2>3, <2>4
  <1> QED BY <1>4, <1>7, <1>8

\* A read.
LEMMA PlaceFeed ==
    ASSUME NEW r, NEW ps \in Seq(Seq(Nat)), NEW G, NEW marks, Tape(r, ps, G, marks),
           NEW ts \in Seq(Seq(Nat)), NEW rd, NEW h \in Nat, Place(r, ps, G, marks, ts, rd, h),
           NEW x \in Seq(Nat), h + Len(x) <= Len(G), \A k \in 1 .. Len(x) : x[k] = G[h + k]
    PROVE  Place(r, ps, G, marks, ts, FeedTerm(r, rd, x), h + Len(x))
  <1> DEFINE n == Len(x)
             F(k) == Fed(r, rd, x, k)
             Is(k) == Place(r, ps, G, marks, ts, F(k), h + k)
             T == {k \in Nat : k <= n => Is(k)}
  <1>1. n \in Nat /\ rd \in Readers(r) /\ Len(G) \in Nat
    BY DEF Place, Tape
  <1>2. /\ F(0) = rd /\ F(n) = FeedTerm(r, rd, x)
        /\ \A k \in Nat : k + 1 <= n => F(k + 1) = FeedTermByte(r, F(k), x[k + 1])
    BY <1>1, FedFacts
  <1> HIDE DEF F, n
  <1>3. 0 \in T
    <2>1. h + 0 = h
      OBVIOUS
    <2> QED BY <1>2, <2>1
  <1>4. ASSUME NEW k \in T PROVE k + 1 \in T
    <2> HIDE DEF Is
    <2> SUFFICES ASSUME k + 1 <= n PROVE Is(k + 1)
      OBVIOUS
    <2>1. k \in Nat /\ k <= n /\ k + 1 \in 1 .. n /\ h + k \in Nat /\ (h + k) + 1 = h + (k + 1) /\ (h + k) + 1 <= Len(G)
      BY <1>1 DEF n
    <2>2. Place(r, ps, G, marks, ts, F(k), h + k)
      BY <2>1 DEF Is
    <2>3. Place(r, ps, G, marks, ts, FeedTermByte(r, F(k), G[(h + k) + 1]), (h + k) + 1)
      <3> DEFINE e == h + k
                 g == F(k)
      <3>1. e \in Nat /\ e + 1 <= Len(G) /\ Place(r, ps, G, marks, ts, g, e)
        BY <2>1, <2>2
      <3> HIDE DEF e, g
      <3>2. Place(r, ps, G, marks, ts, FeedTermByte(r, g, G[e + 1]), e + 1)
        BY <3>1, PlaceByte
      <3> QED BY <3>2 DEF e, g
    <2>4. x[k + 1] = G[h + (k + 1)]
      BY <2>1 DEF n
    <2> QED BY <1>2, <2>1, <2>3, <2>4 DEF Is
  <1> HIDE DEF T
  <1>5. T = Nat
    <2>1. T \in SUBSET Nat
      BY DEF T
    <2> QED BY <1>3, <1>4, <2>1, SetInduction
  <1>6. Is(n)
    <2>1. n \in T /\ n <= n
      BY <1>1, <1>5
    <2> HIDE DEF Is
    <2> QED BY <2>1 DEF T
  <1> QED BY <1>2, <1>6 DEF n

\* Two tapes with the same first n bytes.
Agree(G, H, n) == \A k \in 1 .. n : G[k] = H[k]

\* What is said of those bytes holds of both.
LEMMA AgreeFacts ==
    ASSUME NEW r, NEW G, NEW H, NEW n \in Nat, Agree(G, H, n)
    PROVE  /\ \A e \in Int : \A p : \A m \in Nat : e <= n => (Ends(G, e, p, m) <=> Ends(H, e, p, m))
           /\ \A i \in 1 .. n : \A f : Framed(r, G, i, f) => Framed(r, H, i, f)
           /\ \A i \in 1 .. n : Guarded(r, G, i) => Guarded(r, H, i)
           /\ \A h \in 0 .. n : \A s \in Scanners(r) : Follows(r, s, G, h) => Follows(r, s, H, h)
  <1> DEFINE p == ScanPrefix(r)
             x == Len(p)
  <1>1. x \in Nat /\ x >= 5
    BY PrefixFacts
  <1>2. ASSUME NEW e \in Int, NEW q, NEW m \in Nat, e <= n
        PROVE  Ends(G, e, q, m) <=> Ends(H, e, q, m)
    <2>1. m <= e => \A k \in 1 .. m : e - m + k \in 1 .. n
      BY <1>2
    <2>2. m <= e => \A k \in 1 .. m : G[e - m + k] = H[e - m + k]
      BY <2>1 DEF Agree
    <2> QED BY <2>2 DEF Ends
  <1> HIDE DEF p, x
  <1>3. ASSUME NEW i \in 1 .. n, NEW f, Framed(r, G, i, f) PROVE Framed(r, H, i, f)
    <2> DEFINE u == UnitBody(r, f)
               y == Len(u)
    <2>1. /\ Sendable(f) /\ Mendable(r, f)
          /\ Ends(G, i - 1, u, y) /\ Ends(G, i - 1 - y, p, x)
      BY <1>3 DEF Framed, p, x
    <2>2. y \in Nat
      <3>1. u \in Seq(Nat)
        BY <2>1, UnitFacts
      <3> QED BY <3>1
    <2> HIDE DEF y
    <2>3. i - 1 \in Int /\ i - 1 <= n /\ i - 1 - y \in Int /\ i - 1 - y <= n
      BY <2>2
    <2>4. Ends(H, i - 1, u, y) /\ Ends(H, i - 1 - y, p, x)
      BY <1>1, <1>2, <2>1, <2>2, <2>3
    <2> QED BY <2>1, <2>4 DEF Framed, p, x, y
  <1>4. ASSUME NEW i \in 1 .. n, Guarded(r, G, i) PROVE Guarded(r, H, i)
    <2>1. PICK j \in 1 .. i - 1 :
            /\ ~BodyByte(r, G[j])
            /\ \A k \in 2 .. x : G[j] # p[k]
            /\ \A e \in j + x - 1 .. i - 1 : ~Ends(G, e, p, x)
      BY <1>4 DEF Guarded, p, x
    <2>2. j \in 1 .. n /\ \A e \in j + x - 1 .. i - 1 : e \in Int /\ e <= n
      BY <1>1
    <2>3. G[j] = H[j]
      BY <2>2 DEF Agree
    <2>4. \A e \in j + x - 1 .. i - 1 : ~Ends(H, e, p, x)
      BY <1>1, <1>2, <2>1, <2>2
    <2> QED BY <2>1, <2>3, <2>4 DEF Guarded, p, x
  <1>5. ASSUME NEW h \in 0 .. n, NEW s \in Scanners(r), Follows(r, s, G, h) PROVE Follows(r, s, H, h)
    <2> DEFINE c == s.capture
               y == Len(c)
    <2>1. s.match \in Nat
      BY HeldType
    <2>2. y \in Nat
      <3>1. c \in Seq(Nat)
        BY DEF Scanners
      <3> QED BY <3>1
    <2>3. /\ Ends(G, h, p, s.match)
          /\ s.inSeq => Ends(G, h, c, y) /\ Ends(G, h - y, p, x)
      BY <1>5 DEF Follows, p, x
    <2> HIDE DEF y
    <2>4. h \in Int /\ h <= n /\ h - y \in Int /\ h - y <= n
      BY <2>2
    <2>5. /\ Ends(H, h, p, s.match)
          /\ s.inSeq => Ends(H, h, c, y) /\ Ends(H, h - y, p, x)
      BY <1>1, <1>2, <2>1, <2>2, <2>3, <2>4
    <2> QED BY <2>5 DEF Follows, p, x, y
  <1> QED BY <1>2, <1>3, <1>4, <1>5

\* What is cut off a tape.
LEMMA TapeShorter ==
    ASSUME NEW r, NEW ps \in Seq(Seq(Nat)), NEW G, NEW marks, Tape(r, ps, G, marks),
           NEW n \in Nat, n <= Len(G), NEW ts, NEW rd, NEW h \in 0 .. n, Place(r, ps, G, marks, ts, rd, h)
    PROVE  /\ Tape(r, ps, SubSeq(G, 1, n), SubSeq(marks, 1, n))
           /\ Place(r, ps, SubSeq(G, 1, n), SubSeq(marks, 1, n), ts, rd, h)
  <1> DEFINE H == SubSeq(G, 1, n)
             ms == SubSeq(marks, 1, n)
  <1>1. /\ G \in Seq(Nat) /\ marks \in Seq(Nat) /\ Len(marks) = Len(G) /\ Len(G) \in Nat
        /\ \A i \in 1 .. Len(G) : marks[i] <= Len(ps)
        /\ \A i \in 1 .. Len(G) : G[i] = ScanTerminator(r) =>
              IF marks[i] = 0 THEN Guarded(r, G, i) ELSE Framed(r, G, i, ps[marks[i]])
        /\ \A i, j \in 1 .. Len(G) : i < j /\ marks[i] # 0 /\ marks[j] # 0 => marks[i] < marks[j]
    BY DEF Tape
  <1>2. H \in Seq(Nat) /\ Len(H) = n /\ \A k \in 1 .. n : H[k] = G[k]
    BY <1>1
  <1>3. ms \in Seq(Nat) /\ Len(ms) = n /\ \A k \in 1 .. n : ms[k] = marks[k]
    BY <1>1
  <1> HIDE DEF H, ms
  <1>4. Agree(G, H, n)
    BY <1>2 DEF Agree
  <1>5. \A k \in 1 .. n : k \in 1 .. Len(G)
    BY <1>1
  <1>6. Tape(r, ps, H, ms)
    <2>1. \A i \in 1 .. n : ms[i] <= Len(ps)
      BY <1>1, <1>3, <1>5
    <2>2. ASSUME NEW i \in 1 .. n, H[i] = ScanTerminator(r)
          PROVE  IF ms[i] = 0 THEN Guarded(r, H, i) ELSE Framed(r, H, i, ps[ms[i]])
      <3>1. IF ms[i] = 0 THEN Guarded(r, G, i) ELSE Framed(r, G, i, ps[ms[i]])
        BY <1>1, <1>2, <1>3, <1>5, <2>2
      <3>2. Guarded(r, G, i) => Guarded(r, H, i)
        BY <1>4, AgreeFacts
      <3>3. Framed(r, G, i, ps[ms[i]]) => Framed(r, H, i, ps[ms[i]])
        BY <1>4, AgreeFacts
      <3> QED BY <3>1, <3>2, <3>3
    <2>3. \A i, j \in 1 .. n : i < j /\ ms[i] # 0 /\ ms[j] # 0 => ms[i] < ms[j]
      BY <1>1, <1>3, <1>5
    <2> QED BY <1>2, <1>3, <2>1, <2>2, <2>3 DEF Tape
  <1>7. Place(r, ps, H, ms, ts, rd, h)
    <2>1. rd \in Readers(r) /\ Follows(r, rd.s, G, h) /\ rd.s \in Scanners(r)
      BY RdOf DEF Place
    <2>2. Follows(r, rd.s, H, h)
      BY <1>4, <2>1, AgreeFacts
    <2>3. PICK idx : Traces(ts \o rd.q, ps, idx) /\ Ahead(marks, h, idx)
      BY DEF Place
    <2>4. Ahead(ms, h, idx)
      <3>1. \A i \in h + 1 .. n : i \in h + 1 .. Len(marks) /\ i \in 1 .. n
        BY <1>1
      <3> QED BY <1>3, <2>3, <3>1 DEF Ahead
    <2> QED BY <2>1, <2>2, <2>3, <2>4 DEF Place
  <1> QED BY <1>6, <1>7 DEF H, ms

\* What is written behind a tape: its terminators are from later frames, or
\* from none.
Written(r, ps, qs, G, W, ws) ==
    LET H == G \o W
    IN /\ W \in Seq(Nat) /\ ws \in Seq(Nat) /\ Len(ws) = Len(W)
       /\ qs \in Seq(Seq(Nat)) /\ Len(ps) <= Len(qs) /\ \A k \in 1 .. Len(ps) : qs[k] = ps[k]
       /\ \A i \in 1 .. Len(W) : ws[i] <= Len(qs) /\ (ws[i] # 0 => Len(ps) < ws[i])
       /\ \A i, j \in 1 .. Len(W) : i < j /\ ws[i] # 0 /\ ws[j] # 0 => ws[i] < ws[j]
       /\ \A i \in 1 .. Len(W) : W[i] = ScanTerminator(r) =>
             IF ws[i] = 0 THEN Guarded(r, H, Len(G) + i) ELSE Framed(r, H, Len(G) + i, qs[ws[i]])

\* A tape that is written on, and its reader.
LEMMA TapeLonger ==
    ASSUME NEW r, NEW ps \in Seq(Seq(Nat)), NEW G, NEW marks, Tape(r, ps, G, marks),
           NEW ts, NEW rd, NEW h \in 0 .. Len(G), Place(r, ps, G, marks, ts, rd, h),
           NEW qs, NEW W, NEW ws, Written(r, ps, qs, G, W, ws)
    PROVE  /\ Tape(r, qs, G \o W, marks \o ws)
           /\ Place(r, qs, G \o W, marks \o ws, ts, rd, h)
  <1> DEFINE H == G \o W
             ms == marks \o ws
             n == Len(G)
             l == Len(W)
             x == Len(ps)
             y == Len(qs)
  <1>1. /\ G \in Seq(Nat) /\ marks \in Seq(Nat) /\ Len(marks) = n /\ n \in Nat
        /\ \A i \in 1 .. n : marks[i] \in Nat /\ marks[i] <= x
        /\ \A i \in 1 .. n : G[i] = ScanTerminator(r) =>
              IF marks[i] = 0 THEN Guarded(r, G, i) ELSE Framed(r, G, i, ps[marks[i]])
        /\ \A i, j \in 1 .. n : i < j /\ marks[i] # 0 /\ marks[j] # 0 => marks[i] < marks[j]
    BY DEF Tape
  <1>2. /\ W \in Seq(Nat) /\ ws \in Seq(Nat) /\ Len(ws) = l /\ l \in Nat
        /\ qs \in Seq(Seq(Nat)) /\ x <= y /\ x \in Nat /\ y \in Nat /\ \A k \in 1 .. x : qs[k] = ps[k]
        /\ \A i \in 1 .. l : ws[i] \in Nat /\ ws[i] <= y /\ (ws[i] # 0 => x < ws[i])
        /\ \A i, j \in 1 .. l : i < j /\ ws[i] # 0 /\ ws[j] # 0 => ws[i] < ws[j]
        /\ \A i \in 1 .. l : W[i] = ScanTerminator(r) =>
              IF ws[i] = 0 THEN Guarded(r, H, n + i) ELSE Framed(r, H, n + i, qs[ws[i]])
    BY SMTT(40) DEF Written
  <1>3. /\ H \in Seq(Nat) /\ Len(H) = n + l /\ \A k \in 1 .. n : H[k] = G[k]
        /\ \A k \in 1 .. l : H[n + k] = W[k]
    <2>1. G \in Seq(Nat) /\ W \in Seq(Nat)
      BY <1>1, <1>2
    <2> QED BY ONLY <2>1, ConcatFacts
  <1>4. /\ ms \in Seq(Nat) /\ Len(ms) = n + l /\ \A k \in 1 .. n : ms[k] = marks[k]
        /\ \A k \in 1 .. l : ms[n + k] = ws[k]
    <2>1. marks \in Seq(Nat) /\ ws \in Seq(Nat)
      BY <1>1, <1>2
    <2>2. /\ ms \in Seq(Nat) /\ Len(ms) = Len(marks) + Len(ws) /\ \A k \in 1 .. Len(marks) : ms[k] = marks[k]
          /\ \A k \in 1 .. Len(ws) : ms[Len(marks) + k] = ws[k]
      BY ONLY <2>1, ConcatFacts
    <2> QED BY <1>1, <1>2, <2>2
  <1> HIDE DEF H, ms, n, l, x, y
  <1>5. Agree(G, H, n)
    BY <1>3 DEF Agree
  <1>6. \A i \in 1 .. n + l : i \in 1 .. n \/ (i - n \in 1 .. l /\ n + (i - n) = i)
    BY <1>1, <1>2
  <1>7. ASSUME NEW i \in 1 .. n + l PROVE ms[i] <= y
    <2>1. CASE i \in 1 .. n
      <3>1. ms[i] = marks[i] /\ marks[i] \in Nat /\ marks[i] <= x
        BY <1>1, <1>4, <2>1
      <3> QED BY <1>2, <3>1
    <2>2. CASE i - n \in 1 .. l /\ n + (i - n) = i
      <3>1. ms[n + (i - n)] = ws[i - n] /\ ws[i - n] <= y
        BY <1>2, <1>4, <2>2
      <3> QED BY <2>2, <3>1
    <2> QED BY <1>6, <2>1, <2>2
  <1>8. ASSUME NEW i \in 1 .. n + l, H[i] = ScanTerminator(r)
        PROVE  IF ms[i] = 0 THEN Guarded(r, H, i) ELSE Framed(r, H, i, qs[ms[i]])
    <2>1. CASE i \in 1 .. n
      <3>1. ms[i] = marks[i] /\ G[i] = ScanTerminator(r) /\ marks[i] \in Nat /\ marks[i] <= x
        BY <1>1, <1>3, <1>4, <1>8, <2>1
      <3>2. IF ms[i] = 0 THEN Guarded(r, G, i) ELSE Framed(r, G, i, ps[ms[i]])
        BY <1>1, <2>1, <3>1
      <3>3. ms[i] # 0 => qs[ms[i]] = ps[ms[i]]
        <4>1. ms[i] # 0 => ms[i] \in 1 .. x
          BY <1>2, <3>1
        <4> QED BY <1>2, <4>1
      <3>4. Guarded(r, G, i) => Guarded(r, H, i)
        BY <1>1, <1>5, <2>1, AgreeFacts
      <3>5. \A f : Framed(r, G, i, f) => Framed(r, H, i, f)
        BY <1>1, <1>5, <2>1, AgreeFacts
      <3> QED BY <3>2, <3>3, <3>4, <3>5
    <2>2. CASE i - n \in 1 .. l /\ n + (i - n) = i
      <3>1. H[n + (i - n)] = W[i - n] /\ ms[n + (i - n)] = ws[i - n]
        BY <1>3, <1>4, <2>2
      <3>2. W[i - n] = ScanTerminator(r) /\ ms[i] = ws[i - n]
        BY <1>8, <2>2, <3>1
      <3>3. IF ws[i - n] = 0 THEN Guarded(r, H, n + (i - n)) ELSE Framed(r, H, n + (i - n), qs[ws[i - n]])
        BY <1>2, <2>2, <3>2
      <3> QED BY <2>2, <3>2, <3>3
    <2> QED BY <1>6, <2>1, <2>2
  <1>9. ASSUME NEW i \in 1 .. n + l, NEW j \in 1 .. n + l, i < j, ms[i] # 0, ms[j] # 0
        PROVE  ms[i] < ms[j]
    <2>1. CASE j \in 1 .. n
      <3>1. i \in 1 .. n
        BY <1>1, <1>9, <2>1
      <3> QED BY <1>1, <1>4, <1>9, <2>1, <3>1
    <2>2. CASE j - n \in 1 .. l /\ n + (j - n) = j
      <3>1. ms[n + (j - n)] = ws[j - n]
        BY <1>4, <2>2
      <3>2. ms[j] = ws[j - n] /\ ws[j - n] # 0
        BY <1>9, <2>2, <3>1
      <3>3. CASE i \in 1 .. n
        <4>1. ms[i] = marks[i] /\ marks[i] \in Nat /\ marks[i] <= x
          BY <1>1, <1>4, <3>3
        <4>2. x < ws[j - n] /\ ws[j - n] \in Nat
          BY <1>2, <2>2, <3>2
        <4> QED BY <1>2, <3>2, <4>1, <4>2, SMTT(40)
      <3>4. CASE i - n \in 1 .. l /\ n + (i - n) = i
        <4>1. ms[n + (i - n)] = ws[i - n]
          BY <1>4, <3>4
        <4>2. i - n < j - n /\ ws[i - n] # 0 /\ ms[i] = ws[i - n]
          BY <1>1, <1>9, <3>4, <4>1
        <4> QED BY <1>2, <2>2, <3>2, <3>4, <4>2
      <3> QED BY <1>6, <3>3, <3>4
    <2> QED BY <1>6, <2>1, <2>2
  <1>10. Tape(r, qs, H, ms)
    BY <1>3, <1>4, <1>7, <1>8, <1>9 DEF Tape, y
  <1>11. Place(r, qs, H, ms, ts, rd, h)
    <2>1. rd \in Readers(r) /\ Follows(r, rd.s, G, h) /\ rd.s \in Scanners(r)
      BY RdOf DEF Place
    <2>2. Follows(r, rd.s, H, h)
      <3>1. h \in 0 .. n
        BY DEF n
      <3> QED BY <1>1, <1>5, <2>1, <3>1, AgreeFacts
    <2>3. PICK idx : Traces(ts \o rd.q, ps, idx) /\ Ahead(marks, h, idx)
      BY DEF Place
    <2> DEFINE q == ts \o rd.q
    <2>4. /\ idx \in Seq(Nat) /\ Len(idx) = Len(q)
          /\ \A k \in 1 .. Len(q) : idx[k] \in 1 .. x /\ ps[idx[k]] = q[k]
          /\ \A j, k \in 1 .. Len(q) : j < k => idx[j] < idx[k]
      BY <2>3 DEF Traces, x
    <2> HIDE DEF q
    <2>5. Traces(q, qs, idx)
      <3>1. \A k \in 1 .. Len(q) : idx[k] \in 1 .. y /\ qs[idx[k]] = q[k]
        <4>1. \A k \in 1 .. x : k \in 1 .. y
          BY <1>2
        <4> QED BY <1>2, <2>4, <4>1
      <3> QED BY <2>4, <3>1 DEF Traces, y
    <2>6. Ahead(ms, h, idx)
      <3> SUFFICES ASSUME NEW k \in 1 .. Len(idx), NEW i \in h + 1 .. Len(ms), ms[i] # 0
                   PROVE  idx[k] < ms[i]
        BY DEF Ahead
      <3>1. i \in 1 .. n + l
        BY <1>4
      <3>2. CASE i \in 1 .. n
        <4>1. i \in h + 1 .. Len(marks) /\ ms[i] = marks[i]
          BY <1>1, <1>4, <3>2
        <4> QED BY <2>3, <4>1 DEF Ahead
      <3>3. CASE i - n \in 1 .. l /\ n + (i - n) = i
        <4>1. ms[n + (i - n)] = ws[i - n]
          BY <1>4, <3>3
        <4>2. x < ms[i] /\ ms[i] \in Nat
          BY <1>2, <3>3, <4>1
        <4>3. idx[k] \in Nat /\ idx[k] <= x
          <5>1. idx[k] \in 1 .. x
            BY <2>4
          <5> QED BY <1>2, <5>1
        <4> QED BY <1>2, <4>2, <4>3, SMTT(40)
      <3> QED BY <1>6, <3>1, <3>2, <3>3
    <2> QED BY <2>1, <2>2, <2>5, <2>6 DEF Place, q
  <1> QED BY <1>10, <1>11 DEF H, ms

\* Terminal bytes behind a tape.
LEMMA NoiseWritten ==
    ASSUME NEW r, NEW ps \in Seq(Seq(Nat)), NEW G \in Seq(Nat), NEW bytes, TerminalBytes(r, bytes)
    PROVE  Written(r, ps, ps, G, bytes, [i \in 1 .. Len(bytes) |-> 0])
  <1> DEFINE p == ScanPrefix(r)
             x == Len(p)
             n == Len(G)
             l == Len(bytes)
             H == G \o bytes
             ws == [i \in 1 .. l |-> 0]
  <1>1. bytes \in Seq(Nat)
    <2>1. bytes \in Seq(Octet)
      BY DEF TerminalBytes, Octet
    <2>2. \A b \in Octet : b \in Nat
      BY DEF Octet
    <2>3. \A k \in 1 .. l : bytes[k] \in Nat
      BY <2>1, <2>2
    <2>4. bytes \in [1 .. l -> Nat] /\ l \in Nat
      BY <2>1, <2>3
    <2> QED BY ONLY <2>4
  <1>2. /\ ~Occurs(p, bytes)
        /\ \A i \in 1 .. l : bytes[i] = ScanTerminator(r) =>
              \E j \in 1 .. i - 1 : /\ ~BodyByte(r, bytes[j])
                                    /\ \A k \in 2 .. x : bytes[j] # p[k]
    <2>1. /\ \A m \in 0 .. x - 1 : ~Occurs(p, SubSeq(p, 1, m) \o bytes)
          /\ \A i \in 1 .. l : bytes[i] = ScanTerminator(r) =>
                \E j \in 1 .. i - 1 : /\ ~BodyByte(r, bytes[j])
                                      /\ \A k \in 2 .. x : bytes[j] # p[k]
      BY SMT DEF TerminalBytes
    <2>2. 0 \in 0 .. x - 1 /\ SubSeq(p, 1, 0) = << >>
      BY PrefixFacts, WholeSeq
    <2>3. << >> \o bytes = bytes
      BY <1>1
    <2> QED BY <2>1, <2>2, <2>3
  <1>3. x \in Nat /\ x >= 5 /\ n \in Nat /\ l \in Nat
    BY <1>1, PrefixFacts
  <1>4. ws \in Seq(Nat) /\ Len(ws) = l /\ \A i \in 1 .. l : ws[i] = 0
    <2>1. ws \in [1 .. l -> Nat] /\ \A i \in 1 .. l : ws[i] = 0
      OBVIOUS
    <2> HIDE DEF ws
    <2> QED BY <1>3, <2>1
  <1>5. \A k \in 1 .. l : H[n + k] = bytes[k]
    BY <1>1, ConcatFacts
  <1> HIDE DEF p, x, n, l, H, ws
  <1>6. ASSUME NEW i \in 1 .. l, bytes[i] = ScanTerminator(r) PROVE Guarded(r, H, n + i)
    <2>1. PICK j \in 1 .. i - 1 : ~BodyByte(r, bytes[j]) /\ \A k \in 2 .. x : bytes[j] # p[k]
      BY <1>2, <1>6
    <2>2. j \in 1 .. l /\ n + j \in 1 .. (n + i) - 1
      BY <1>3
    <2>3. H[n + j] = bytes[j]
      BY <1>5, <2>2
    <2>4. ASSUME NEW e \in (n + j) + x - 1 .. (n + i) - 1, Ends(H, e, p, x) PROVE FALSE
      <3> DEFINE d == e - n - x
      <3>1. d \in 0 .. l - x /\ \A k \in 1 .. x : d + k \in 1 .. l /\ n + (d + k) = e - x + k
        BY <1>3, <2>2
      <3>2. \A k \in 1 .. x : H[e - x + k] = p[k]
        BY <2>4 DEF Ends
      <3> HIDE DEF d
      <3>3. \A k \in 1 .. x : bytes[d + k] = p[k]
        BY <1>5, <3>1, <3>2
      <3> QED BY <1>2, <3>1, <3>3 DEF Occurs, l, x
    <2> QED BY <2>1, <2>2, <2>3, <2>4 DEF Guarded, p, x
  <1>7. \A i \in 1 .. l : ws[i] <= Len(ps) /\ ~(ws[i] # 0)
    <2>1. Len(ps) \in Nat
      OBVIOUS
    <2> QED BY <1>4, <2>1
  <1>8. Len(ps) <= Len(ps)
    OBVIOUS
  <1>9. Written(r, ps, ps, G, bytes, ws)
    BY <1>1, <1>4, <1>6, <1>7, <1>8 DEF Written, H, n, l
  <1> QED BY <1>9 DEF ws, l

\* A frame of one sequence behind a tape.
LEMMA FrameWritten ==
    ASSUME NEW r, NEW ps \in Seq(Seq(Nat)), NEW G \in Seq(Nat),
           NEW f \in Seq(Nat), Sendable(f), Mendable(r, f)
    PROVE  Written(r, ps, Append(ps, f), G, Wire(r, f),
                   [i \in 1 .. Len(Wire(r, f)) |-> IF i = Len(Wire(r, f)) THEN Len(ps) + 1 ELSE 0])
  <1> DEFINE p == ScanPrefix(r)
             z == ScanTerminator(r)
             u == UnitBody(r, f)
             pu == p \o u
             W == Wire(r, f)
             H == G \o W
             x == Len(p)
             y == Len(u)
             n == Len(G)
             l == Len(W)
             v == Len(ps)
             qs == Append(ps, f)
             ws == [i \in 1 .. l |-> IF i = l THEN v + 1 ELSE 0]
  <1>1. u \in Seq(Nat) /\ InBody(r, u) /\ W = pu \o <<z>>
    BY UnitFacts
  <1>2. p \in Seq(Nat) /\ x \in Nat /\ x >= 5 /\ z \in Nat /\ ~BodyByte(r, z) /\ \A k \in 1 .. x : p[k] # z
    BY PrefixFacts, BodyBytes
  <1> HIDE DEF p, z, u, W
  <1>3. /\ pu \in Seq(Nat) /\ Len(pu) = x + y /\ y \in Nat /\ \A k \in 1 .. x : pu[k] = p[k]
        /\ \A k \in 1 .. y : pu[x + k] = u[k]
    <2>1. p \in Seq(Nat) /\ u \in Seq(Nat)
      BY <1>1, <1>2
    <2> QED BY ONLY <2>1, ConcatFacts DEF pu, x, y
  <1> HIDE DEF pu
  <1>4. /\ W \in Seq(Nat) /\ l = x + y + 1 /\ l \in Nat /\ W[x + y + 1] = z
        /\ \A k \in 1 .. x + y : W[k] = pu[k]
    <2>1. W = Append(pu, z) /\ pu \in Seq(Nat) /\ z \in Nat
      BY <1>1, <1>2, <1>3
    <2>2. /\ Append(pu, z) \in Seq(Nat) /\ Len(Append(pu, z)) = Len(pu) + 1 /\ Append(pu, z)[Len(pu) + 1] = z
          /\ \A k \in 1 .. Len(pu) : Append(pu, z)[k] = pu[k]
      BY ONLY <2>1
    <2>3. x + y + 1 \in Nat
      BY <1>2, <1>3
    <2> QED BY <1>3, <2>1, <2>2, <2>3
  <1>5. /\ n \in Nat /\ \A k \in 1 .. l : H[n + k] = W[k]
    BY <1>4, ConcatFacts
  <1>6. /\ qs \in Seq(Seq(Nat)) /\ v \in Nat /\ Len(qs) = v + 1 /\ qs[v + 1] = f
        /\ \A k \in 1 .. v : qs[k] = ps[k]
    OBVIOUS
  <1> HIDE DEF qs, v, n, H, l, x, y
  <1>7. ws \in Seq(Nat) /\ Len(ws) = l /\ \A i \in 1 .. l : ws[i] = IF i = l THEN v + 1 ELSE 0
    <2>1. ws \in [1 .. l -> Nat] /\ \A i \in 1 .. l : ws[i] = IF i = l THEN v + 1 ELSE 0
      BY <1>6
    <2>2. l \in Nat
      BY <1>4
    <2> HIDE DEF ws
    <2> QED BY ONLY <2>1, <2>2
  <1> HIDE DEF ws
  <1>8. ASSUME NEW i \in 1 .. l, W[i] = z PROVE i = l
    <2>1. i \in 1 .. x \/ (i - x \in 1 .. y /\ x + (i - x) = i) \/ i = l
      BY <1>2, <1>3, <1>4
    <2>2. i # l => W[i] = pu[i]
      BY <1>2, <1>3, <1>4, SMTT(40)
    <2>3. CASE i \in 1 .. x
      BY <1>2, <1>3, <1>8, <2>2, <2>3
    <2>4. CASE i - x \in 1 .. y /\ x + (i - x) = i
      <3>1. pu[x + (i - x)] = u[i - x]
        BY <1>3, <2>4
      <3>2. BodyByte(r, u[i - x])
        BY <1>1, <2>4 DEF InBody, y
      <3> QED BY <1>2, <1>8, <2>2, <2>4, <3>1, <3>2
    <2> QED BY <2>1, <2>3, <2>4
  <1>9. Framed(r, H, n + l, f)
    <2> DEFINE e == (n + l) - 1
    <2>1. e = n + x + y /\ e - y = n + x /\ y <= e /\ x <= e - y
      BY <1>2, <1>3, <1>4, <1>5
    <2>a. x \in Nat /\ y \in Nat /\ n \in Nat /\ l = x + y + 1
      BY <1>2, <1>3, <1>4, <1>5
    <2>2. \A k \in 1 .. y : /\ e - y + k = n + (x + k) /\ x + k \in 1 .. l /\ x + k \in 1 .. x + y
      BY ONLY <2>a
    <2>3. \A k \in 1 .. x : /\ (e - y) - x + k = n + k /\ k \in 1 .. l /\ k \in 1 .. x + y
      BY ONLY <2>a
    <2> HIDE DEF e
    <2>4. \A k \in 1 .. y : H[e - y + k] = u[k]
      BY <1>3, <1>4, <1>5, <2>2
    <2>5. \A k \in 1 .. x : H[(e - y) - x + k] = p[k]
      BY <1>3, <1>4, <1>5, <2>3
    <2>6. Ends(H, e, u, y) /\ Ends(H, e - y, p, x)
      BY <2>1, <2>4, <2>5 DEF Ends
    <2> QED BY <2>6 DEF Framed, e, u, p, x, y
  <1>10. \A i \in 1 .. l : ws[i] <= v + 1 /\ (ws[i] # 0 => v < ws[i] /\ i = l)
    BY <1>6, <1>7
  <1>11. \A i, j \in 1 .. l : i < j /\ ws[i] # 0 /\ ws[j] # 0 => ws[i] < ws[j]
    BY <1>4, <1>10
  <1>12. ASSUME NEW i \in 1 .. l, W[i] = z
         PROVE  IF ws[i] = 0 THEN Guarded(r, H, n + i) ELSE Framed(r, H, n + i, qs[ws[i]])
    <2>1. i = l
      BY <1>8, <1>12
    <2>2. ws[i] = v + 1 /\ v + 1 # 0
      BY <1>6, <1>7, <2>1
    <2> QED BY <1>6, <1>9, <2>1, <2>2
  <1>13. v <= v + 1
    BY <1>6
  <1>14. Written(r, ps, qs, G, W, ws)
    BY <1>4, <1>6, <1>7, <1>10, <1>11, <1>12, <1>13 DEF Written, H, n, l, v, z
  <1> QED BY <1>14 DEF ws, qs, W, v, l

\* The bytes behind the h-th one up to the n-th.
LEMMA SubSeqBehind ==
    ASSUME NEW s \in Seq(Nat), NEW h \in Nat, NEW n \in Nat, h <= n, n <= Len(s)
    PROVE  /\ SubSeq(s, h + 1, n) \in Seq(Nat) /\ Len(SubSeq(s, h + 1, n)) = n - h
           /\ \A k \in 1 .. n - h : SubSeq(s, h + 1, n)[k] = s[h + k]
  <1> DEFINE m == h + 1
             x == SubSeq(s, m, n)
  <1>1. m \in Nat \ {0} /\ n - m + 1 = n - h /\ (IF m <= n THEN n - m + 1 ELSE 0) = n - h
    OBVIOUS
  <1>2. \A k \in 1 .. n - h : m + k - 1 = h + k
    OBVIOUS
  <1> HIDE DEF m
  <1>3. /\ x \in Seq(Nat) /\ Len(x) = IF m <= n THEN n - m + 1 ELSE 0
        /\ \A k \in 1 .. n - m + 1 : x[k] = s[m + k - 1]
    BY <1>1, SubSeqFacts
  <1> HIDE DEF x
  <1>4. x \in Seq(Nat) /\ Len(x) = n - h /\ \A k \in 1 .. n - h : x[k] = s[h + k]
    BY <1>1, <1>2, <1>3
  <1> QED BY <1>4 DEF x, m

\* What is left of a tape behind its h-th byte.
LEMMA LineLonger ==
    ASSUME NEW G \in Seq(Nat), NEW W \in Seq(Nat), NEW h \in 0 .. Len(G)
    PROVE  SubSeq(G, h + 1, Len(G)) \o W = SubSeq(G \o W, h + 1, Len(G \o W))
  <1> DEFINE n == Len(G)
             l == Len(W)
             H == G \o W
             x == SubSeq(G, h + 1, n)
             y == SubSeq(H, h + 1, n + l)
             z == x \o W
  <1>1. n \in Nat /\ l \in Nat /\ H \in Seq(Nat) /\ Len(H) = n + l
        /\ (\A k \in 1 .. n : H[k] = G[k]) /\ \A k \in 1 .. l : H[n + k] = W[k]
    BY ConcatFacts
  <1>2. x \in Seq(Nat) /\ Len(x) = n - h /\ \A k \in 1 .. n - h : x[k] = G[h + k]
    OBVIOUS
  <1> HIDE DEF H, x
  <1>3. y \in Seq(Nat) /\ Len(y) = (n + l) - h /\ \A k \in 1 .. (n + l) - h : y[k] = H[h + k]
    <2>1. h \in Nat /\ h <= n
      BY <1>1
    <2> HIDE DEF n, l
    <2>2. n + l \in Nat /\ h <= n + l /\ n + l <= Len(H) /\ H \in Seq(Nat)
      BY <1>1, <2>1
    <2> DEFINE e == n + l
    <2>3. e \in Nat /\ h \in Nat /\ h <= e /\ e <= Len(H) /\ H \in Seq(Nat)
      BY <2>1, <2>2
    <2> HIDE DEF e
    <2>4. LET s == SubSeq(H, h + 1, e) IN s \in Seq(Nat) /\ Len(s) = e - h /\ \A k \in 1 .. e - h : s[k] = H[h + k]
      BY ONLY <2>3, SubSeqBehind
    <2> QED BY <2>4 DEF e
  <1>4. /\ z \in Seq(Nat) /\ Len(z) = (n - h) + l
        /\ \A k \in 1 .. n - h : z[k] = x[k]
        /\ \A k \in 1 .. l : z[(n - h) + k] = W[k]
    <2>1. x \in Seq(Nat) /\ W \in Seq(Nat)
      BY <1>2
    <2>2. /\ z \in Seq(Nat) /\ Len(z) = Len(x) + Len(W)
          /\ \A k \in 1 .. Len(x) : z[k] = x[k]
          /\ \A k \in 1 .. Len(W) : z[Len(x) + k] = W[k]
      BY ONLY <2>1, ConcatFacts
    <2> QED BY <1>2, <2>2
  <1> HIDE DEF y, z, n, l
  <1>5. h \in Nat /\ h <= n
    BY <1>1 DEF n
  <1>6. Len(y) = Len(z) /\ Len(y) = (n + l) - h
    BY <1>1, <1>3, <1>4, <1>5
  <1>7. ASSUME NEW k \in 1 .. (n + l) - h PROVE z[k] = y[k]
    <2>1. CASE k \in 1 .. n - h
      <3>1. h + k \in 1 .. n
        BY <1>1, <1>5, <2>1
      <3> QED BY <1>1, <1>2, <1>3, <1>4, <2>1, <3>1
    <2>2. CASE ~(k \in 1 .. n - h)
      <3>1. k - (n - h) \in 1 .. l /\ (n - h) + (k - (n - h)) = k /\ n + (k - (n - h)) = h + k
        BY <1>1, <1>5, <2>2
      <3>2. z[(n - h) + (k - (n - h))] = W[k - (n - h)]
        BY <1>4, <3>1
      <3>3. H[n + (k - (n - h))] = W[k - (n - h)]
        BY <1>1, <3>1
      <3> QED BY <1>3, <3>1, <3>2, <3>3
    <2> QED BY <2>1, <2>2
  <1>8. z = y
    BY <1>3, <1>4, <1>6, <1>7, SameSeq
  <1> QED BY <1>1, <1>8 DEF z, y, x, H, n, l

\* The first n bytes of L, what is left of a tape, and the others.
Parts(G, h, L, n) ==
    /\ h + n \in 0 .. Len(G)
    /\ SubSeq(L, 1, n) \in Seq(Nat) /\ Len(SubSeq(L, 1, n)) = n
    /\ \A k \in 1 .. n : SubSeq(L, 1, n)[k] = G[h + k]
    /\ SubSeq(L, 1, n) = SubSeq(SubSeq(G, 1, h + n), h + 1, h + n)
    /\ SubSeq(L, n + 1, Len(L)) = SubSeq(G, (h + n) + 1, Len(G))

\* Where they are on the tape.
LEMMA LineParts ==
    ASSUME NEW G \in Seq(Nat), NEW h \in 0 .. Len(G), NEW L, L = SubSeq(G, h + 1, Len(G)),
           NEW n \in 0 .. Len(L)
    PROVE  Parts(G, h, L, n)
  <1> DEFINE m == Len(G)
             x == SubSeq(L, 1, n)
             G1 == SubSeq(G, 1, h + n)
             y == SubSeq(G1, h + 1, h + n)
             u == SubSeq(L, n + 1, m - h)
             v == SubSeq(G, (h + n) + 1, m)
  <1>1. m \in Nat /\ h \in Nat /\ h <= m /\ L \in Seq(Nat) /\ Len(L) = m - h /\ \A k \in 1 .. m - h : L[k] = G[h + k]
    OBVIOUS
  <1> HIDE DEF m
  <1>2. n \in Nat /\ n <= m - h /\ h + n \in 0 .. m
    BY <1>1
  <1>3. x \in Seq(Nat) /\ Len(x) = n /\ \A k \in 1 .. n : x[k] = L[k]
    <2>1. L \in Seq(Nat) /\ n \in Nat /\ n <= Len(L)
      BY <1>1, <1>2
    <2> QED BY ONLY <2>1
  <1>4. \A k \in 1 .. n : k \in 1 .. m - h /\ h + k \in 1 .. h + n
    <2>1. m \in Nat /\ h \in Nat /\ h <= m /\ n \in Nat /\ n <= m - h
      BY <1>1, <1>2
    <2> QED BY ONLY <2>1
  <1>5. \A k \in 1 .. n : x[k] = G[h + k]
    BY <1>1, <1>3, <1>4
  <1>6. G1 \in Seq(Nat) /\ Len(G1) = h + n /\ \A k \in 1 .. h + n : G1[k] = G[k]
    BY <1>1, <1>2 DEF m
  <1> HIDE DEF G1, x
  <1>7. y \in Seq(Nat) /\ Len(y) = n /\ \A k \in 1 .. n : y[k] = G1[h + k]
    <2>1. h \in Nat /\ n \in Nat /\ h + n \in Nat /\ h <= h + n /\ h + n <= Len(G1) /\ (h + n) - h = n
      BY <1>1, <1>2, <1>6
    <2>2. y \in Seq(Nat) /\ Len(y) = (h + n) - h /\ \A k \in 1 .. (h + n) - h : y[k] = G1[h + k]
      BY ONLY <1>6, <2>1, SubSeqBehind
    <2> QED BY <2>1, <2>2
  <1> HIDE DEF y
  <1>8. x = y
    <2>1. \A k \in 1 .. n : x[k] = y[k]
      BY <1>4, <1>5, <1>6, <1>7
    <2> QED BY <1>3, <1>7, <2>1, SameSeq
  <1>9. u \in Seq(Nat) /\ Len(u) = m - h - n /\ \A k \in 1 .. m - h - n : u[k] = L[n + k]
    <2>1. m \in Nat /\ h \in Nat /\ h <= m /\ n \in Nat /\ n <= m - h
      BY <1>1, <1>2, Zenon
    <2>2. L \in Seq(Nat) /\ Len(L) = m - h
      BY <1>1, Zenon
    <2>3. m - h \in Nat
      BY ONLY <2>1
    <2>4. m - h <= Len(L)
      BY ONLY <2>2, <2>3
    <2> QED BY ONLY <2>1, <2>2, <2>3, <2>4, SubSeqBehind, SMTT(40)
  <1>10. v \in Seq(Nat) /\ Len(v) = m - h - n /\ \A k \in 1 .. m - h - n : v[k] = G[h + n + k]
    <2> DEFINE b == h + n
    <2>1. m \in Nat /\ h \in Nat /\ h <= m /\ n \in Nat /\ n <= m - h
      BY <1>1, <1>2, Zenon
    <2>2. b \in Nat /\ b <= m /\ m - b = m - h - n
      BY ONLY <2>1
    <2>3. m <= Len(G) /\ G \in Seq(Nat)
      BY ONLY <2>1, G \in Seq(Nat) DEF m
    <2> HIDE DEF b
    <2>4. LET s == SubSeq(G, b + 1, m) IN s \in Seq(Nat) /\ Len(s) = m - b /\ \A k \in 1 .. m - b : s[k] = G[b + k]
      BY ONLY <2>1, <2>2, <2>3, SubSeqBehind, SMTT(40)
    <2> QED BY <2>2, <2>4 DEF b
  <1> HIDE DEF u, v
  <1>11. u = v
    <2>1. \A k \in 1 .. m - h - n : n + k \in 1 .. m - h /\ h + (n + k) = h + n + k
      BY <1>1, <1>2
    <2>2. \A k \in 1 .. m - h - n : u[k] = v[k]
      BY <1>1, <1>9, <1>10, <2>1, ZenonT(40)
    <2> QED BY <1>9, <1>10, <2>2, SameSeq
  <1> QED BY <1>1, <1>2, <1>3, <1>5, <1>8, <1>11 DEF Parts, x, y, u, v, G1, m

\* A reader that differs in what it may have given away or given up.
LEMMA PlaceLike ==
    ASSUME NEW r, NEW ps, NEW G, NEW marks, NEW ts, NEW rd, NEW h \in Nat, Place(r, ps, G, marks, ts, rd, h),
           NEW g \in Readers(r), NEW us, us \o g.q = ts \o rd.q,
           g.s.inSeq = rd.s.inSeq, g.s.capture = rd.s.capture,
           g.s.match = rd.s.match \/ g.s.match = 0
    PROVE  Place(r, ps, G, marks, us, g, h)
  <1>1. Follows(r, rd.s, G, h)
    BY DEF Place
  <1>2. Ends(G, h, ScanPrefix(r), g.s.match)
    BY <1>1, EndsNone DEF Follows
  <1>3. Follows(r, g.s, G, h)
    BY <1>1, <1>2 DEF Follows
  <1> QED BY <1>3 DEF Place

-----------------------------------------------------------------------------
\* All the bytes that reached the pty are a tape of which the reader has read
\* some, and the rest is still in it.
Tidy ==
    \E G, marks : \E h \in 0 .. Len(G) :
        /\ Tape(role, posted, G, marks)
        /\ line = SubSeq(G, h + 1, Len(G))
        /\ Place(role, posted, G, marks, taken, Reader, h)

\* While every frame is one sequence the bytes are such a tape; and if one is
\* more, there was no fault.
TidyInv ==
    /\ AllMendable => Tidy
    /\ ~AllMendable => faults = 0

\* Writing.
LEMMA TidyWritten ==
    ASSUME TermWireTypeOK, Tidy, UNCHANGED <<role, scan, assem, frameq, taken>>,
           NEW W, line' = line \o W,
           \A G \in Seq(Nat) : \E ws : Written(role, posted, posted', G, W, ws)
    PROVE  Tidy'
  <1>1. PICK G, marks : \E h \in 0 .. Len(G) :
          /\ Tape(role, posted, G, marks)
          /\ line = SubSeq(G, h + 1, Len(G))
          /\ Place(role, posted, G, marks, taken, Reader, h)
    BY DEF Tidy
  <1>2. PICK h \in 0 .. Len(G) :
          /\ Tape(role, posted, G, marks)
          /\ line = SubSeq(G, h + 1, Len(G))
          /\ Place(role, posted, G, marks, taken, Reader, h)
    BY <1>1
  <1>3. G \in Seq(Nat) /\ posted \in Seq(Seq(Nat))
    BY <1>2 DEF Tape, TermWireTypeOK
  <1>4. PICK ws : Written(role, posted, posted', G, W, ws)
    BY <1>3
  <1> DEFINE H == G \o W
             ms == marks \o ws
  <1>5. Tape(role, posted', H, ms) /\ Place(role, posted', H, ms, taken, Reader, h)
    BY <1>2, <1>3, <1>4, TapeLonger
  <1>6. W \in Seq(Nat)
    BY <1>4 DEF Written
  <1>7. line' = SubSeq(H, h + 1, Len(H))
    BY <1>2, <1>3, <1>6, LineLonger
  <1>8. h \in 0 .. Len(H)
    <2>1. Len(H) = Len(G) + Len(W) /\ Len(G) \in Nat /\ Len(W) \in Nat
      BY <1>3, <1>6, ConcatFacts
    <2> HIDE DEF H
    <2> QED BY <2>1
  <1>9. Reader' = Reader
    BY DEF Reader
  <1> HIDE DEF H, ms
  <1> QED BY <1>5, <1>7, <1>8, <1>9 DEF Tidy

\* A client is killed.
LEMMA TidyTorn ==
    ASSUME TermWireTypeOK, Tidy, Tear
    PROVE  Tidy'
  <1>1. PICK G, marks : \E h \in 0 .. Len(G) :
          /\ Tape(role, posted, G, marks)
          /\ line = SubSeq(G, h + 1, Len(G))
          /\ Place(role, posted, G, marks, taken, Reader, h)
    BY DEF Tidy
  <1>2. PICK h \in 0 .. Len(G) :
          /\ Tape(role, posted, G, marks)
          /\ line = SubSeq(G, h + 1, Len(G))
          /\ Place(role, posted, G, marks, taken, Reader, h)
    BY <1>1
  <1>3. G \in Seq(Nat) /\ posted \in Seq(Seq(Nat))
    BY <1>2 DEF Tape, TermWireTypeOK
  <1>4. PICK n \in 0 .. Len(line) - 1 : line' = SubSeq(line, 1, n)
    BY DEF Tear
  <1>5. UNCHANGED <<role, scan, assem, frameq, posted, taken>>
    BY DEF Tear
  <1>6. n \in 0 .. Len(line)
    <2>1. Len(line) \in Nat
      BY DEF TermWireTypeOK
    <2> QED BY <2>1
  <1> DEFINE k == h + n
             H == SubSeq(G, 1, k)
             ms == SubSeq(marks, 1, k)
  <1>7. k \in 0 .. Len(G) /\ line' = SubSeq(H, h + 1, k)
    <2>1. h \in 0 .. Len(G) /\ G \in Seq(Nat) /\ line = SubSeq(G, h + 1, Len(G))
      BY <1>2, <1>3
    <2>2. Parts(G, h, line, n)
      BY <2>1, <1>6, LineParts, Zenon
    <2> QED BY <1>4, <2>2 DEF Parts
  <1>8. k \in Nat /\ k <= Len(G) /\ h \in 0 .. k
    BY <1>3, <1>6, <1>7
  <1>9. Len(H) = k
    BY <1>3, <1>8
  <1> HIDE DEF k
  <1>10. Tape(role, posted, H, ms) /\ Place(role, posted, H, ms, taken, Reader, h)
    BY <1>2, <1>3, <1>8, TapeShorter
  <1>11. Reader' = Reader
    BY <1>5 DEF Reader
  <1> HIDE DEF H, ms
  <1> QED BY <1>5, <1>7, <1>8, <1>9, <1>10, <1>11 DEF Tidy

\* Reading.
LEMMA TidyRead ==
    ASSUME TermWireTypeOK, Tidy, NEW n \in 1 .. Len(line), ReadLine(n)
    PROVE  Tidy'
  <1>1. PICK G, marks : \E h \in 0 .. Len(G) :
          /\ Tape(role, posted, G, marks)
          /\ line = SubSeq(G, h + 1, Len(G))
          /\ Place(role, posted, G, marks, taken, Reader, h)
    BY DEF Tidy
  <1>2. PICK h \in 0 .. Len(G) :
          /\ Tape(role, posted, G, marks)
          /\ line = SubSeq(G, h + 1, Len(G))
          /\ Place(role, posted, G, marks, taken, Reader, h)
    BY <1>1
  <1>3. G \in Seq(Nat) /\ posted \in Seq(Seq(Nat)) /\ taken \in Seq(Seq(Nat))
    BY <1>2 DEF Tape, TermWireTypeOK
  <1> DEFINE x == SubSeq(line, 1, n)
             rd == FeedTerm(role, Reader, x)
  <1>4. /\ rd \in Readers(role)
        /\ scan' = [rd.s EXCEPT !.pending = << >>] /\ assem' = rd.a /\ frameq' = rd.q
        /\ line' = SubSeq(line, n + 1, Len(line))
        /\ UNCHANGED <<role, posted, taken>>
    BY ReadType
  <1>5. n \in 0 .. Len(line)
    <2>1. Len(line) \in Nat
      BY DEF TermWireTypeOK
    <2> QED BY <2>1
  <1>6. /\ h + n \in 0 .. Len(G) /\ x \in Seq(Nat) /\ Len(x) = n
        /\ \A k \in 1 .. n : x[k] = G[h + k]
        /\ line' = SubSeq(G, (h + n) + 1, Len(G))
    <2>1. h \in 0 .. Len(G) /\ G \in Seq(Nat) /\ line = SubSeq(G, h + 1, Len(G))
      BY <1>2, <1>3
    <2>2. line' = SubSeq(line, n + 1, Len(line))
      BY <1>4
    <2>3. Parts(G, h, line, n)
      BY <2>1, <1>5, LineParts, Zenon
    <2> QED BY <2>2, <2>3 DEF Parts
  <1> HIDE DEF x
  <1>7. Place(role, posted, G, marks, taken, rd, h + n)
    <2>1. h \in Nat /\ h + Len(x) <= Len(G)
      BY <1>3, <1>6
    <2>2. \A k \in 1 .. Len(x) : x[k] = G[h + k]
      BY <1>6
    <2>3. Place(role, posted, G, marks, taken, rd, h + Len(x))
      BY <1>2, <1>3, <1>6, <2>1, <2>2, PlaceFeed
    <2> QED BY <1>6, <2>3
  <1> HIDE DEF rd
  <1> DEFINE t == [rd.s EXCEPT !.pending = << >>]
             g == Rd(t, rd.a, rd.q)
  <1>8. rd.s \in Scanners(role) /\ rd.a \in Assemblies /\ rd.q \in Seq(Seq(Nat))
    BY <1>4, RdOf
  <1>9. t \in Scanners(role) /\ t.inSeq = rd.s.inSeq /\ t.capture = rd.s.capture /\ t.match = rd.s.match
    <2>1. t \in Scanners(role)
      BY <1>8, FlushedType
    <2>2. t.inSeq = rd.s.inSeq /\ t.capture = rd.s.capture /\ t.match = rd.s.match
      BY <1>8 DEF Scanners
    <2> QED BY <2>1, <2>2
  <1> HIDE DEF t
  <1>10. g \in Readers(role) /\ g.s = t /\ g.q = rd.q
    BY <1>8, <1>9, RdFields DEF Readers, Rd
  <1>11. Reader' = g
    BY <1>4 DEF Reader, Rd, t
  <1> HIDE DEF g
  <1>12. Place(role, posted, G, marks, taken, g, h + n)
    <2>1. h + n \in Nat
      BY <1>6
    <2> QED BY <1>7, <1>9, <1>10, <2>1, PlaceLike
  <1> QED BY <1>2, <1>4, <1>6, <1>11, <1>12 DEF Tidy

\* A prefix given up, and a frame taken.
LEMMA TidyRests ==
    ASSUME TermWireTypeOK, TermWireTypeOK', Tidy, OnIdleTimeout \/ DequeueTermFrame
    PROVE  Tidy'
  <1>1. PICK G, marks : \E h \in 0 .. Len(G) :
          /\ Tape(role, posted, G, marks)
          /\ line = SubSeq(G, h + 1, Len(G))
          /\ Place(role, posted, G, marks, taken, Reader, h)
    BY DEF Tidy
  <1>2. PICK h \in 0 .. Len(G) :
          /\ Tape(role, posted, G, marks)
          /\ line = SubSeq(G, h + 1, Len(G))
          /\ Place(role, posted, G, marks, taken, Reader, h)
    BY <1>1
  <1>3. UNCHANGED <<role, line, assem, posted>>
    BY DEF OnIdleTimeout, DequeueTermFrame
  <1>4. Reader' \in Readers(role) /\ Reader'.s = scan' /\ Reader'.q = frameq'
    <2>1. scan' \in Scanners(role) /\ assem' \in Assemblies /\ frameq' \in Seq(Seq(Nat))
      BY <1>3 DEF TermWireTypeOK
    <2> QED BY <2>1 DEF Reader, Readers
  <1>5. Reader.s = scan /\ Reader.q = frameq
    BY DEF Reader
  <1>6. taken' \o frameq' = taken \o frameq
    <2>1. CASE OnIdleTimeout
      BY <2>1 DEF OnIdleTimeout
    <2>2. CASE DequeueTermFrame
      <3>1. \A S : \A t, q \in Seq(S) : q # << >> => Append(t, Head(q)) \o Tail(q) = t \o q
        OBVIOUS
      <3>2. /\ taken \in Seq(Seq(Nat)) /\ frameq \in Seq(Seq(Nat)) /\ frameq # << >>
            /\ taken' = Append(taken, Head(frameq)) /\ frameq' = Tail(frameq)
        BY <2>2 DEF TermWireTypeOK, DequeueTermFrame
      <3> QED BY <3>1, <3>2
    <2> QED BY <2>1, <2>2
  <1>7. scan'.inSeq = scan.inSeq /\ scan'.capture = scan.capture /\ (scan'.match = scan.match \/ scan'.match = 0)
    <2>1. scan \in Scanners(role)
      BY DEF TermWireTypeOK
    <2>2. CASE OnIdleTimeout
      <3>1. scan' = [scan EXCEPT !.timer = FALSE, !.match = 0]
        BY <2>2 DEF OnIdleTimeout
      <3> QED BY <2>1, <3>1 DEF Scanners
    <2>3. CASE DequeueTermFrame
      BY <2>3 DEF DequeueTermFrame
    <2> QED BY <2>2, <2>3
  <1>8. h \in Nat
    OBVIOUS
  <1> DEFINE g == Reader'
  <1>9. Place(role, posted, G, marks, taken', g, h)
    <2>1. /\ g \in Readers(role) /\ taken' \o g.q = taken \o Reader.q /\ g.s.inSeq = Reader.s.inSeq
          /\ g.s.capture = Reader.s.capture /\ (g.s.match = Reader.s.match \/ g.s.match = 0)
      BY <1>4, <1>5, <1>6, <1>7
    <2> HIDE DEF g
    <2> QED BY <1>2, <1>8, <2>1, PlaceLike
  <1> QED BY <1>2, <1>3, <1>9 DEF Tidy

\* What a step does to the bytes that reached the pty.
LEMMA TidyStep ==
    ASSUME TermWireTypeOK, TermWireTypeOK', TidyInv, [TermWireNext]_termWireVars
    PROVE  TidyInv'
  <1>1. CASE SendFrame
    <2>1. PICK n \in TermLengths :
            LET frame == [i \in 1 .. n |-> (16 * (Len(posted) + 1) + i) % 256]
            IN /\ faults > 0 => Mendable(role, frame)
               /\ posted' = Append(posted, frame) /\ line' = line \o Wire(role, frame)
      BY <1>1 DEF SendFrame
    <2> DEFINE f == [i \in 1 .. n |-> (16 * (Len(posted) + 1) + i) % 256]
    <2>2. Len(posted) \in Nat /\ posted \in Seq(Seq(Nat)) /\ faults \in Nat
      BY DEF TermWireTypeOK
    <2>3. Sendable(f) /\ f \in Seq(Nat)
      BY <2>2, SentSendable
    <2>4. (faults > 0 => Mendable(role, f)) /\ posted' = Append(posted, f) /\ line' = line \o Wire(role, f)
      BY <2>1
    <2> HIDE DEF f
    <2>5. UNCHANGED <<role, scan, assem, frameq, taken, faults>>
      BY <1>1 DEF SendFrame
    <2>6. /\ Len(posted') = Len(posted) + 1 /\ posted'[Len(posted) + 1] = f
          /\ \A i \in 1 .. Len(posted) : posted'[i] = posted[i]
      BY <2>2, <2>3, <2>4
    <2>7. AllMendable' <=> AllMendable /\ Mendable(role, f)
      <3>1. \A i \in 1 .. Len(posted) + 1 : i \in 1 .. Len(posted) \/ i = Len(posted) + 1
        BY <2>2
      <3>2. Len(posted) + 1 \in 1 .. Len(posted) + 1
            /\ \A i \in 1 .. Len(posted) : i \in 1 .. Len(posted) + 1
        BY <2>2
      <3>3. AllMendable' <=> \A i \in 1 .. Len(posted) + 1 : Mendable(role, posted'[i])
        BY <2>5, <2>6 DEF AllMendable, Mendable
      <3> QED BY <2>6, <3>1, <3>2, <3>3 DEF AllMendable
    <2>8. ASSUME AllMendable' PROVE Tidy'
      <3>1. Tidy /\ Mendable(role, f)
        BY <2>7, <2>8 DEF TidyInv
      <3> DEFINE W == Wire(role, f)
      <3>2. \A G \in Seq(Nat) : \E ws : Written(role, posted, posted', G, W, ws)
        <4> TAKE G \in Seq(Nat)
        <4>1. Written(role, posted, Append(posted, f), G, W,
                      [i \in 1 .. Len(W) |-> IF i = Len(W) THEN Len(posted) + 1 ELSE 0])
          BY <2>2, <2>3, <3>1, FrameWritten
        <4> QED BY <2>4, <4>1
      <3>3. line' = line \o W
        BY <2>4
      <3> HIDE DEF W
      <3> QED BY <2>5, <3>1, <3>2, <3>3, TidyWritten
    <2>9. ASSUME ~AllMendable' PROVE faults' = 0
      BY <2>2, <2>4, <2>5, <2>7, <2>9 DEF TidyInv
    <2> QED BY <2>8, <2>9 DEF TidyInv
  <1>2. ASSUME UNCHANGED <<role, posted>> PROVE AllMendable' = AllMendable
    BY <1>2 DEF AllMendable, Mendable
  <1>3. CASE SendRaw
    <2>1. PICK bytes \in Noise(role) : line' = line \o bytes
      BY <1>3 DEF SendRaw
    <2>2. UNCHANGED <<role, scan, assem, frameq, posted, taken, faults>>
      BY <1>3 DEF SendRaw
    <2>3. TerminalBytes(role, bytes)
      <3>1. role \in {"client", "server"}
        BY DEF TermWireTypeOK
      <3> QED BY <2>1, <3>1, TermNoiseAssumption
    <2>4. posted \in Seq(Seq(Nat))
      BY DEF TermWireTypeOK
    <2>5. \A G \in Seq(Nat) : \E ws : Written(role, posted, posted', G, bytes, ws)
      <3> TAKE G \in Seq(Nat)
      <3>1. Written(role, posted, posted, G, bytes, [i \in 1 .. Len(bytes) |-> 0])
        BY <2>3, <2>4, NoiseWritten
      <3> QED BY <2>2, <3>1
    <2>6. Tidy => Tidy'
      BY <2>1, <2>2, <2>5, TidyWritten
    <2> QED BY <1>2, <2>2, <2>6 DEF TidyInv
  <1>4. CASE Tear
    <2>1. AllMendable /\ UNCHANGED <<role, posted>>
      BY <1>4 DEF Tear
    <2> QED BY <1>2, <1>4, <2>1, TidyTorn DEF TidyInv
  <1>5. ASSUME NEW n \in 1 .. Len(line), ReadLine(n) PROVE TidyInv'
    <2>1. UNCHANGED <<role, posted, faults>>
      BY <1>5 DEF ReadLine
    <2> QED BY <1>2, <1>5, <2>1, TidyRead DEF TidyInv
  <1>6. CASE OnIdleTimeout
    <2>1. UNCHANGED <<role, posted>> /\ (~AllMendable => faults' = faults)
      BY <1>6 DEF OnIdleTimeout
    <2> QED BY <1>2, <1>6, <2>1, TidyRests DEF TidyInv
  <1>7. CASE DequeueTermFrame
    <2>1. UNCHANGED <<role, posted, faults>>
      BY <1>7 DEF DequeueTermFrame
    <2> QED BY <1>2, <1>7, <2>1, TidyRests DEF TidyInv
  <1>8. CASE UNCHANGED termWireVars
    <2>1. UNCHANGED <<role, line, scan, assem, frameq, posted, taken, faults>>
      BY <1>8 DEF termWireVars
    <2>2. Reader' = Reader
      BY <2>1 DEF Reader
    <2>3. Tidy' = Tidy
      BY <2>1, <2>2 DEF Tidy
    <2> QED BY <1>2, <2>1, <2>3 DEF TidyInv
  <1> QED BY <1>1, <1>3, <1>4, <1>5, <1>6, <1>7, <1>8 DEF TermWireNext

\* Initially no byte has reached the pty.
LEMMA TidyStart ==
    ASSUME TermWireInit
    PROVE  TidyInv
  <1>1. TermWireTypeOK
    BY TermWireStart
  <1>2. Reader \in Readers(role) /\ Reader.s = scan /\ Reader.q = << >>
    BY <1>1, ReaderType DEF TermWireInit
  <1>3. scan.match = 0 /\ ~scan.inSeq
    BY DEF TermWireInit, IdleScan
  <1> DEFINE e == << >>
  <1>4. e \in Seq(Nat) /\ Len(e) = 0 /\ e \o e = e /\ 0 \in 0 .. 0 /\ 1 .. 0 = {}
    OBVIOUS
  <1>5. Follows(role, scan, e, 0)
    BY <1>3, EndsNone DEF Follows
  <1>6. Tape(role, e, e, e)
    BY <1>4 DEF Tape
  <1>7. Traces(e \o e, e, e) /\ Ahead(e, 0, e)
    BY <1>4 DEF Traces, Ahead
  <1>8. Place(role, e, e, e, e, Reader, 0)
    BY <1>2, <1>5, <1>7 DEF Place
  <1>9. e = SubSeq(e, 0 + 1, Len(e))
    <2>1. SubSeq(e, 1, 0) = e
      OBVIOUS
    <2> QED BY <1>4, <2>1
  <1>10. line = e /\ posted = e /\ taken = e /\ faults = 0
    BY DEF TermWireInit
  <1> HIDE DEF e
  <1>11. Tidy
    <2>1. 0 \in 0 .. Len(e)
      BY <1>4
    <2>2. /\ Tape(role, posted, e, e) /\ line = SubSeq(e, 0 + 1, Len(e))
          /\ Place(role, posted, e, e, taken, Reader, 0)
      BY <1>6, <1>8, <1>9, <1>10
    <2> QED BY <2>1, <2>2 DEF Tidy
  <1> QED BY <1>10, <1>11 DEF TidyInv

\* The frames that came out are some of those sent, in their order.
Traced == \E idx : Traces(taken, posted, idx)

\* That follows from the invariants.
LEMMA TakenTraces ==
    ASSUME TermWireTypeOK, LosslessInv, TidyInv
    PROVE  Traced
  <1>1. taken \in Seq(Seq(Nat)) /\ posted \in Seq(Seq(Nat)) /\ frameq \in Seq(Seq(Nat))
    BY DEF TermWireTypeOK
  <1>2. ASSUME NEW q \in Seq(Seq(Nat)), NEW ix, Traces(taken \o q, posted, ix)
        PROVE  Traced
    <2> DEFINE S == Seq(Nat)
               n == Len(taken)
               z == taken \o q
               idx == SubSeq(ix, 1, n)
    <2> HIDE DEF S
    <2>1. taken \in Seq(S) /\ q \in Seq(S)
      BY <1>1 DEF S
    <2>2. /\ Len(z) = n + Len(q) /\ n \in Nat /\ Len(q) \in Nat
          /\ \A k \in 1 .. n : z[k] = taken[k]
      BY <2>1, ConcatFacts
    <2> HIDE DEF z, n
    <2>3. /\ ix \in Seq(Nat) /\ Len(ix) = Len(z)
          /\ \A k \in 1 .. Len(z) : ix[k] \in 1 .. Len(posted) /\ posted[ix[k]] = z[k]
          /\ \A j, k \in 1 .. Len(z) : j < k => ix[j] < ix[k]
      BY <1>2 DEF Traces, z
    <2>4. n <= Len(ix) /\ \A k \in 1 .. n : k \in 1 .. Len(z)
      <3>1. ix \in Seq(Nat) /\ Len(ix) = Len(z)
        BY <2>3
      <3> QED BY <2>2, <3>1
    <2>5. idx \in Seq(Nat) /\ Len(idx) = n /\ \A k \in 1 .. n : idx[k] = ix[k]
      <3>1. ix \in Seq(Nat) /\ n \in Nat /\ n <= Len(ix)
        BY <2>2, <2>3, <2>4
      <3> QED BY ONLY <3>1
    <2> HIDE DEF idx
    <2>6. \A k \in 1 .. n : idx[k] \in 1 .. Len(posted) /\ posted[idx[k]] = taken[k]
      BY <2>2, <2>3, <2>4, <2>5
    <2>7. \A j, k \in 1 .. n : j < k => idx[j] < idx[k]
      BY <2>3, <2>4, <2>5
    <2>8. Traces(taken, posted, idx)
      BY <2>5, <2>6, <2>7 DEF Traces, n
    <2> QED BY <2>8 DEF Traced
  <1>3. CASE AllMendable
    <2>1. \E G, marks, h, idx : Traces(taken \o Reader.q, posted, idx)
      BY <1>3 DEF TidyInv, Tidy, Place
    <2>2. Reader.q = frameq
      BY DEF Reader
    <2> QED BY <1>1, <1>2, <2>1, <2>2
  <1>4. CASE ~AllMendable
    <2>1. ReadAll.q = posted
      BY <1>4 DEF TidyInv, LosslessInv
    <2> DEFINE g == FeedTerm(role, Reader, line)
               q == g.q
               idx == [k \in 1 .. Len(posted) |-> k]
    <2>2. Reader \in Readers(role) /\ line \in Seq(Nat) /\ through \in Seq(Nat)
      BY ReaderType DEF TermWireTypeOK
    <2>3. ReadAll = Shift(g, through, taken)
      BY <1>1, <2>2, ShiftFeed DEF ReadAll
    <2>4. g \in Readers(role)
      BY <2>2, FeedTermType
    <2> HIDE DEF g
    <2>5. ReadAll.q = taken \o q /\ q \in Seq(Seq(Nat))
      BY <1>1, <2>2, <2>3, <2>4, ShiftType, RdOf
    <2>6. Traces(posted, posted, idx)
      <3>1. Len(posted) \in Nat
        BY <1>1
      <3>2. idx \in Seq(Nat) /\ Len(idx) = Len(posted) /\ \A k \in 1 .. Len(posted) : idx[k] = k
        BY <3>1
      <3> HIDE DEF idx
      <3> QED BY <3>2 DEF Traces
    <2> HIDE DEF q, idx
    <2> QED BY <1>2, <2>1, <2>5, <2>6
  <1> QED BY <1>3, <1>4

-----------------------------------------------------------------------------
(***************************************************************************)
(* The numbers of the frames that came out.                                *)
(***************************************************************************)
\* x is the first place after the last-th where ps has the frame.
IsNumber(ps, last, frame, x) ==
    /\ x \in last + 1 .. Len(ps) /\ ps[x] = frame
    /\ \A j \in last + 1 .. Len(ps) : ps[j] = frame => x <= j

\* What FrameNumber computes.
LEMMA FrameNumberFacts ==
    ASSUME NEW S, NEW ps \in Seq(S), NEW last \in Nat, NEW frame
    PROVE  /\ FrameNumber(ps, last, frame) \in Nat
           /\ \A i \in last + 1 .. Len(ps) : ps[i] = frame =>
                IsNumber(ps, last, frame, FrameNumber(ps, last, frame))
           /\ \A x : IsNumber(ps, last, frame, x) => FrameNumber(ps, last, frame) = x
  <1> DEFINE n == Len(ps)
             T == {i \in last + 1 .. n : ps[i] = frame}
             c == CHOOSE i \in T : \A j \in T : i <= j
  <1>1. n \in Nat
    OBVIOUS
  <1>2. FrameNumber(ps, last, frame) = IF T = {} THEN 0 ELSE c
    BY DEF FrameNumber
  <1>3. ASSUME T # {} PROVE c \in T /\ (\A j \in T : c <= j)
    <2>1. T \in SUBSET Nat
      BY <1>1
    <2> HIDE DEF T, n
    <2>2. \E i \in T : \A j \in T : i <= j
      BY <1>3, <2>1, LeastNat
    <2> QED BY <2>2
  <1>4. T # {} => IsNumber(ps, last, frame, c)
    <2> HIDE DEF c
    <2> QED BY <1>3 DEF IsNumber, n
  <1>5. FrameNumber(ps, last, frame) \in Nat
    <2>1. T # {} => c \in Nat
      <3> HIDE DEF c
      <3> QED BY <1>1, <1>3
    <2> HIDE DEF c, T
    <2> QED BY <1>2, <2>1
  <1>6. ASSUME NEW i \in last + 1 .. Len(ps), ps[i] = frame
        PROVE  IsNumber(ps, last, frame, FrameNumber(ps, last, frame))
    <2>1. i \in T
      BY <1>6
    <2> HIDE DEF T, c
    <2> QED BY <1>2, <1>4, <2>1
  <1>7. ASSUME NEW x, IsNumber(ps, last, frame, x) PROVE FrameNumber(ps, last, frame) = x
    <2>1. x \in T /\ x \in Int
      BY <1>1, <1>7 DEF IsNumber
    <2>2. c \in T /\ c <= x
      <3> HIDE DEF T, c
      <3> QED BY <1>3, <2>1
    <2>3. x <= c /\ c \in Int
      <3> HIDE DEF c
      <3> QED BY <1>1, <1>7, <2>2 DEF IsNumber
    <2> HIDE DEF T, c
    <2>4. c = x
      BY <2>1, <2>2, <2>3
    <2> QED BY <1>2, <2>1, <2>4
  <1> QED BY <1>5, <1>6, <1>7

\* v has the numbers of the frames ts: each one's is the first place behind the
\* one's before.
Before(v, k) == IF k = 1 THEN 0 ELSE v[k - 1]
Numbers(v, ps, ts) ==
    /\ v \in Seq(Nat) /\ Len(v) = Len(ts)
    /\ \A k \in 1 .. Len(ts) : v[k] = FrameNumber(ps, Before(v, k), ts[k])

\* What Numbered computes.
LEMMA NumberedNumbers ==
    ASSUME NEW S, NEW ps \in Seq(S), NEW ts \in Seq(S)
    PROVE  Numbers(Numbered(ps, ts), ps, ts)
  <1> DEFINE n == Len(ts)
             f == [i \in Nat |-> [d \in Nat |-> FrameNumber(ps, d, ts[i])]]
  <1>1. n \in Nat
    OBVIOUS
  <1>2. \A i, d \in Nat : FrameNumber(ps, d, ts[i]) \in Nat
    BY FrameNumberFacts
  <1> HIDE DEF n
  <1>3. f \in [Nat -> [Nat -> Nat]]
    BY <1>2
  <1>4. \A i, d \in Nat : f[i][d] = FrameNumber(ps, d, ts[i])
    OBVIOUS
  <1> HIDE DEF f
  <1>5. PICK g \in [0 .. n -> Nat] : g[0] = 0 /\ \A i \in 1 .. n : g[i] = f[i][g[i - 1]]
    <2>1. \E g : Steps(g, Nat, 0, f, n)
      BY <1>1, <1>3, Recursion
    <2> QED BY <2>1 DEF Steps
  <1>6. ASSUME NEW i \in 1 .. n PROVE i - 1 \in 0 .. n /\ g[i] = FrameNumber(ps, g[i - 1], ts[i])
    <2>1. i - 1 \in 0 .. n /\ i \in Nat
      BY <1>1
    <2>2. g[i - 1] \in Nat
      BY <1>5, <2>1
    <2> QED BY <1>4, <1>5, <2>1, <2>2
  <1> DEFINE Is(w) == w = [k \in 0 .. n |-> IF k = 0 THEN 0 ELSE FrameNumber(ps, w[k - 1], ts[k])]
             h == CHOOSE w : Is(w)
             v == [k \in 1 .. n |-> h[k]]
  <1>7. Is(g)
    <2>1. \A i \in 0 .. n : i = 0 \/ i \in 1 .. n
      BY <1>1
    <2>2. \A i \in 0 .. n : g[i] = IF i = 0 THEN 0 ELSE FrameNumber(ps, g[i - 1], ts[i])
      BY <1>5, <1>6, <2>1
    <2> QED BY <2>2
  <1>8. Is(h)
    BY <1>7
  <1>9. Numbered(ps, ts) = v
    BY DEF Numbered, n
  <1> HIDE DEF h
  <1>10. h[0] = 0 /\ \A k \in 1 .. n : h[k] = FrameNumber(ps, h[k - 1], ts[k])
    <2>1. 0 \in 0 .. n /\ \A k \in 1 .. n : k \in 0 .. n /\ k # 0
      BY <1>1
    <2> QED BY <1>8, <2>1
  <1> DEFINE T == {k \in Nat : k <= n => h[k] \in Nat}
  <1>11. 0 \in T
    BY <1>10
  <1>12. ASSUME NEW k \in T PROVE k + 1 \in T
    <2> SUFFICES ASSUME k + 1 <= n PROVE h[k + 1] \in Nat
      OBVIOUS
    <2>1. k \in Nat /\ k <= n /\ k + 1 \in 1 .. n /\ (k + 1) - 1 = k /\ k + 1 \in Nat
      BY <1>1
    <2>2. h[k] \in Nat
      BY <2>1
    <2>3. h[k + 1] = FrameNumber(ps, h[k], ts[k + 1])
      BY <1>10, <2>1
    <2> QED BY <1>2, <2>1, <2>2, <2>3
  <1> HIDE DEF T
  <1>13. T = Nat
    <2>1. T \in SUBSET Nat
      BY DEF T
    <2> QED BY <1>11, <1>12, <2>1, SetInduction
  <1>14. \A k \in 1 .. n : h[k] \in Nat
    <2>1. \A k \in 1 .. n : k \in Nat /\ k <= n
      BY <1>1
    <2> QED BY <1>13, <2>1 DEF T
  <1>15. v \in Seq(Nat) /\ Len(v) = n /\ \A k \in 1 .. n : v[k] = h[k]
    BY <1>1, <1>14
  <1> HIDE DEF v
  <1>16. ASSUME NEW k \in 1 .. n PROVE v[k] = FrameNumber(ps, Before(v, k), ts[k])
    <2>1. CASE k = 1
      <3>1. k - 1 = 0
        BY <2>1
      <3> QED BY <1>10, <1>15, <2>1, <3>1 DEF Before
    <2>2. CASE k # 1
      <3>1. k - 1 \in 1 .. n
        BY <1>1, <2>2
      <3> QED BY <1>10, <1>15, <2>2, <3>1 DEF Before
    <2> QED BY <2>1, <2>2
  <1> QED BY <1>9, <1>15, <1>16 DEF Numbers, n

\* They are the only ones.
LEMMA NumbersUnique ==
    ASSUME NEW ps, NEW S, NEW ts \in Seq(S), NEW v, NEW w, Numbers(v, ps, ts), Numbers(w, ps, ts)
    PROVE  v = w
  <1> DEFINE n == Len(ts)
  <1>1. n \in Nat
    OBVIOUS
  <1>2. /\ v \in Seq(Nat) /\ w \in Seq(Nat) /\ Len(v) = n /\ Len(w) = n
        /\ \A k \in 1 .. n : v[k] = FrameNumber(ps, Before(v, k), ts[k])
        /\ \A k \in 1 .. n : w[k] = FrameNumber(ps, Before(w, k), ts[k])
    BY DEF Numbers
  <1> HIDE DEF n
  <1> DEFINE T == {k \in Nat : k = 0 \/ (k <= n => v[k] = w[k])}
  <1>3. 0 \in T
    OBVIOUS
  <1>4. ASSUME NEW k \in T PROVE k + 1 \in T
    <2> SUFFICES ASSUME k + 1 <= n PROVE v[k + 1] = w[k + 1]
      OBVIOUS
    <2>1. k \in Nat /\ k + 1 \in 1 .. n /\ (k + 1) - 1 = k /\ k <= n
      BY <1>1
    <2>2. Before(v, k + 1) = Before(w, k + 1)
      <3>1. CASE k = 0
        BY <3>1 DEF Before
      <3>2. CASE k # 0
        <4>1. v[k] = w[k] /\ k + 1 # 1
          BY <2>1, <3>2
        <4> QED BY <2>1, <4>1 DEF Before
      <3> QED BY <3>1, <3>2
    <2> QED BY <1>2, <2>1, <2>2
  <1> HIDE DEF T
  <1>5. T = Nat
    <2>1. T \in SUBSET Nat
      BY DEF T
    <2> QED BY <1>3, <1>4, <2>1, SetInduction
  <1>6. \A k \in 1 .. n : v[k] = w[k]
    <2>1. \A k \in 1 .. n : k \in Nat /\ k <= n /\ k # 0
      BY <1>1
    <2> QED BY <1>5, <2>1 DEF T
  <1> QED BY <1>2, <1>6, SameSeq

\* When the frames came out of ps in order, each is found, and not later than
\* where it came from.
LEMMA NumbersFound ==
    ASSUME NEW S, NEW ps \in Seq(S), NEW ts \in Seq(S), NEW idx, Traces(ts, ps, idx),
           NEW v, Numbers(v, ps, ts)
    PROVE  \A k \in 1 .. Len(ts) :
              /\ Before(v, k) \in Nat /\ v[k] <= idx[k]
              /\ IsNumber(ps, Before(v, k), ts[k], v[k])
  <1> DEFINE n == Len(ts)
             Claim(k) == /\ Before(v, k) \in Nat /\ v[k] <= idx[k]
                         /\ IsNumber(ps, Before(v, k), ts[k], v[k])
             T == {k \in Nat : k = 0 \/ (k <= n => Claim(k))}
  <1>1. n \in Nat /\ Len(ps) \in Nat
    OBVIOUS
  <1>2. /\ idx \in Seq(Nat) /\ Len(idx) = n
        /\ \A k \in 1 .. n : idx[k] \in 1 .. Len(ps) /\ ps[idx[k]] = ts[k]
        /\ \A j, k \in 1 .. n : j < k => idx[j] < idx[k]
    BY DEF Traces
  <1>3. v \in Seq(Nat) /\ Len(v) = n /\ \A k \in 1 .. n : v[k] = FrameNumber(ps, Before(v, k), ts[k])
    BY DEF Numbers
  <1> HIDE DEF n
  <1>4. 0 \in T
    OBVIOUS
  <1>5. ASSUME NEW k \in T PROVE k + 1 \in T
    <2> HIDE DEF Claim
    <2> SUFFICES ASSUME k + 1 <= n PROVE Claim(k + 1)
      OBVIOUS
    <2>1. k \in Nat /\ k + 1 \in 1 .. n /\ (k + 1) - 1 = k /\ k <= n /\ (k # 0 => k \in 1 .. n /\ k < k + 1 /\ k + 1 # 1)
      BY <1>1
    <2> DEFINE b == Before(v, k + 1)
               x == idx[k + 1]
    <2>2. b \in Nat /\ b < x
      <3>1. x \in Nat /\ x >= 1
        BY <1>1, <1>2, <2>1
      <3>2. CASE k = 0
        <4>1. b = 0
          BY <3>2 DEF Before
        <4> HIDE DEF b, x
        <4> QED BY <3>1, <4>1
      <3>3. CASE k # 0
        <4>1. b = v[k]
          BY <2>1, <3>3 DEF Before
        <4>2. Claim(k)
          BY <2>1, <3>3
        <4>3. v[k] <= idx[k] /\ v[k] \in Nat
          BY <1>3, <2>1, <3>3, <4>2 DEF Claim
        <4>4. idx[k] < x /\ idx[k] \in Nat
          BY <1>1, <1>2, <2>1, <3>3
        <4> HIDE DEF b, x
        <4> QED BY <3>1, <4>1, <4>3, <4>4
      <3> QED BY <3>2, <3>3
    <2>3. x \in 1 .. Len(ps) /\ ps[x] = ts[k + 1]
      BY <1>2, <2>1
    <2>4. v[k + 1] = FrameNumber(ps, b, ts[k + 1])
      BY <1>3, <2>1
    <2> HIDE DEF b, x
    <2>5. x \in b + 1 .. Len(ps)
      BY <1>1, <2>2, <2>3
    <2>6. IsNumber(ps, b, ts[k + 1], v[k + 1])
      BY <2>2, <2>3, <2>4, <2>5, FrameNumberFacts
    <2>7. v[k + 1] <= x
      BY <2>3, <2>5, <2>6 DEF IsNumber
    <2> QED BY <2>2, <2>6, <2>7 DEF Claim, b, x
  <1> HIDE DEF T
  <1>6. T = Nat
    <2>1. T \in SUBSET Nat
      BY DEF T
    <2> QED BY <1>4, <1>5, <2>1, SetInduction
  <1>7. \A k \in 1 .. n : Claim(k)
    <2>1. \A k \in 1 .. n : k \in Nat /\ k <= n /\ k # 0
      BY <1>1
    <2> QED BY <1>6, <2>1 DEF T
  <1> QED BY <1>7 DEF n

\* One more frame sent leaves the numbers as they are.
LEMMA NumberedSent ==
    ASSUME NEW S, NEW ps \in Seq(S), NEW ts \in Seq(S), NEW f \in S, NEW idx, Traces(ts, ps, idx)
    PROVE  Numbered(Append(ps, f), ts) = Numbered(ps, ts)
  <1> DEFINE v == Numbered(ps, ts)
             qs == Append(ps, f)
             n == Len(ts)
             m == Len(ps)
  <1>1. Numbers(v, ps, ts)
    BY NumberedNumbers
  <1>2. qs \in Seq(S) /\ Len(qs) = m + 1 /\ m \in Nat /\ \A i \in 1 .. m : qs[i] = ps[i]
    OBVIOUS
  <1>3. Numbers(Numbered(qs, ts), qs, ts)
    BY <1>2, NumberedNumbers
  <1> HIDE DEF v, qs
  <1>4. \A k \in 1 .. n : Before(v, k) \in Nat /\ IsNumber(ps, Before(v, k), ts[k], v[k])
    BY <1>1, NumbersFound
  <1>5. ASSUME NEW k \in 1 .. n PROVE v[k] = FrameNumber(qs, Before(v, k), ts[k])
    <2> DEFINE b == Before(v, k)
               t == ts[k]
               x == v[k]
    <2>1. b \in Nat /\ x \in b + 1 .. m /\ ps[x] = t /\ \A j \in b + 1 .. m : ps[j] = t => x <= j
      BY <1>4 DEF IsNumber
    <2> HIDE DEF b, t, x, m
    <2>2. x \in b + 1 .. m + 1 /\ x \in 1 .. m /\ x <= m
      BY <1>2, <2>1
    <2>3. ASSUME NEW j \in b + 1 .. m + 1, qs[j] = t PROVE x <= j
      <3>1. CASE j = m + 1
        BY <1>2, <2>2, <3>1
      <3>2. CASE j # m + 1
        <4>1. j \in b + 1 .. m /\ j \in 1 .. m
          BY <1>2, <2>1, <3>2
        <4> QED BY <1>2, <2>1, <2>3, <4>1
      <3> QED BY <3>1, <3>2
    <2>4. IsNumber(qs, b, t, x)
      BY <1>2, <2>1, <2>2, <2>3 DEF IsNumber
    <2>5. FrameNumber(qs, b, t) = x
      BY <1>2, <2>1, <2>4, FrameNumberFacts
    <2> QED BY <2>5 DEF b, t, x
  <1>6. Numbers(v, qs, ts)
    BY <1>1, <1>5 DEF Numbers
  <1>7. Numbered(qs, ts) = v
    BY <1>3, <1>6, NumbersUnique
  <1> QED BY <1>7 DEF v, qs

\* One more frame that comes out has a number above the others.
LEMMA NumberedTaken ==
    ASSUME NEW S, NEW ps \in Seq(S), NEW ts \in Seq(S), NEW f \in S, NEW idx, Traces(Append(ts, f), ps, idx)
    PROVE  LET v == Numbered(ps, ts)
           IN /\ v \in Seq(Nat) /\ Len(v) = Len(ts)
              /\ \E x \in (IF v = << >> THEN 0 ELSE v[Len(v)]) + 1 .. Len(ps) :
                    Numbered(ps, Append(ts, f)) = Append(v, x)
  <1> DEFINE v == Numbered(ps, ts)
             us == Append(ts, f)
             w == Numbered(ps, us)
             n == Len(ts)
             x == w[n + 1]
             y == Append(v, x)
             u == SubSeq(w, 1, n)
  <1>1. us \in Seq(S) /\ Len(us) = n + 1 /\ n \in Nat /\ us[n + 1] = f /\ \A k \in 1 .. n : us[k] = ts[k]
    OBVIOUS
  <1>2. Numbers(v, ps, ts)
    BY NumberedNumbers
  <1>3. Numbers(w, ps, us)
    BY <1>1, NumberedNumbers
  <1> HIDE DEF v, w, us
  <1>4. \A k \in 1 .. Len(us) : Before(w, k) \in Nat /\ IsNumber(ps, Before(w, k), us[k], w[k])
    BY <1>1, <1>3, NumbersFound DEF us
  <1>5. v \in Seq(Nat) /\ Len(v) = n
    BY <1>2 DEF Numbers
  <1>6. w \in Seq(Nat) /\ Len(w) = n + 1 /\ \A k \in 1 .. n + 1 : w[k] = FrameNumber(ps, Before(w, k), us[k])
    BY <1>1, <1>3 DEF Numbers
  <1> HIDE DEF n
  <1>7. u \in Seq(Nat) /\ Len(u) = n /\ \A k \in 1 .. n : u[k] = w[k]
    <2>1. w \in Seq(Nat) /\ n \in Nat /\ n <= Len(w)
      BY <1>1, <1>6
    <2> QED BY ONLY <2>1
  <1> HIDE DEF u
  <1>8. \A k \in 1 .. n : k \in 1 .. n + 1 /\ (k # 1 => k - 1 \in 1 .. n)
    BY <1>1
  <1>9. \A k \in 1 .. n : Before(u, k) = Before(w, k)
    BY <1>7, <1>8 DEF Before
  <1>10. Numbers(u, ps, ts)
    <2>1. \A k \in 1 .. n : u[k] = FrameNumber(ps, Before(u, k), ts[k])
      BY <1>1, <1>6, <1>7, <1>8, <1>9
    <2> QED BY <1>7, <2>1 DEF Numbers, n
  <1>11. u = v
    BY <1>2, <1>10, NumbersUnique
  <1>12. n + 1 \in 1 .. n + 1 /\ x \in Nat
    BY <1>1, <1>6
  <1>13. w = y
    <2>1. y \in Seq(Nat) /\ Len(y) = n + 1 /\ y[n + 1] = x /\ \A k \in 1 .. n : y[k] = v[k]
      BY <1>5, <1>12
    <2> HIDE DEF y
    <2>2. \A k \in 1 .. n + 1 : k \in 1 .. n \/ k = n + 1
      BY <1>1
    <2>3. \A k \in 1 .. n + 1 : w[k] = y[k]
      BY <1>7, <1>11, <2>1, <2>2
    <2> QED BY <1>6, <2>1, <2>3, SameSeq
  <1>14. Before(w, n + 1) = IF v = << >> THEN 0 ELSE v[Len(v)]
    <2>1. v = << >> <=> n = 0
      BY <1>1, <1>5
    <2>2. CASE n = 0
      BY <2>1, <2>2 DEF Before
    <2>3. CASE n # 0
      <3>1. n + 1 # 1 /\ (n + 1) - 1 = n /\ n \in 1 .. n
        BY <1>1, <2>3
      <3> QED BY <1>5, <1>7, <1>11, <2>1, <2>3, <3>1 DEF Before
    <2> QED BY <2>2, <2>3
  <1>15. x \in Before(w, n + 1) + 1 .. Len(ps)
    <2>1. n + 1 \in 1 .. Len(us)
      BY <1>1, <1>12
    <2> QED BY <1>4, <2>1 DEF IsNumber
  <1> QED BY <1>5, <1>13, <1>14, <1>15 DEF v, w, us, y, n

\* The terminal's wire and its reader implement a channel that may lose frames:
\* what dequeue_frame() returns is a frame that send_frame() was given, at most
\* once and in order, whatever else the terminal carries, wherever reads split
\* it and whenever a client is killed in the middle of a write.
THEOREM TermRefinesHolds == TermWireSpec => TermRefines
  <1> DEFINE Inv == TermWireTypeOK /\ LosslessInv /\ TidyInv
             Nums == Numbered(posted, taken)
  <1>1. TermWireInit => Inv
    BY TermWireStart, TidyStart
  <1>2. Inv /\ [TermWireNext]_termWireVars => Inv'
    <2> SUFFICES ASSUME TermWireTypeOK, LosslessInv, TidyInv, [TermWireNext]_termWireVars PROVE Inv'
      OBVIOUS
    <2>1. TermWireTypeOK'
      BY TermWireTypeStep
    <2> QED BY <2>1, LosslessStep, TidyStep
  <1>3. TermWireInit => TermChannel!Init
    <2> SUFFICES ASSUME TermWireInit PROVE TermChannel!Init
      OBVIOUS
    <2>1. posted = << >> /\ taken = << >>
      BY DEF TermWireInit
    <2> DEFINE e == << >>
    <2>2. Len(e) = 0 /\ e \in Seq(Seq(Nat))
      OBVIOUS
    <2>3. Numbered(e, e) = e
      <3>1. Numbers(Numbered(e, e), e, e)
        BY <2>2, NumberedNumbers
      <3> QED BY <2>2, <3>1 DEF Numbers
    <2> QED BY <2>1, <2>2, <2>3 DEF TermChannel!Init
  <1>4. Inv /\ Inv' /\ [TermWireNext]_termWireVars => [TermChannel!Next]_TermChannel!channelVars
    <2> SUFFICES ASSUME Inv, Inv', [TermWireNext]_termWireVars
                 PROVE  [TermChannel!Next]_TermChannel!channelVars
      OBVIOUS
    <2> DEFINE S == Seq(Nat)
    <2>1. /\ posted \in Seq(S) /\ taken \in Seq(S) /\ frameq \in Seq(S)
          /\ posted' \in Seq(S) /\ taken' \in Seq(S)
      BY DEF TermWireTypeOK
    <2>2. PICK i : Traces(taken, posted, i)
      BY TakenTraces DEF Traced
    <2>3. PICK ix : Traces(taken', posted', ix)
      <3>1. Traced'
        BY TakenTraces, PTL
      <3> QED BY <3>1 DEF Traced, Traces
    <2> HIDE DEF S, Inv
    <2>4. ASSUME UNCHANGED <<posted, taken>> PROVE [TermChannel!Next]_TermChannel!channelVars
      <3>1. UNCHANGED TermChannel!channelVars
        BY <2>4 DEF TermChannel!channelVars, Numbered, FrameNumber
      <3> QED BY <3>1
    <2>5. CASE SendFrame
      <3>1. PICK f : posted' = Append(posted, f)
        BY <2>5 DEF SendFrame
      <3>2. taken' = taken
        BY <2>5 DEF SendFrame
      <3>3. Len(posted) \in Nat /\ Len(posted') = Len(posted) + 1 /\ f \in S
        <4>1. Len(posted) \in Nat /\ Len(posted') = Len(posted) + 1 /\ posted'[Len(posted) + 1] = f
          BY <2>1, <3>1
        <4>2. posted'[Len(posted) + 1] \in S
          BY <2>1, <4>1
        <4> QED BY <4>1, <4>2
      <3>4. Numbered(Append(posted, f), taken) = Numbered(posted, taken)
        BY <2>1, <2>2, <3>3, NumberedSent
      <3>5. Nums' = Nums
        BY <3>1, <3>2, <3>4
      <3>6. TermChannel!Accept
        BY <3>3, <3>5 DEF TermChannel!Accept
      <3> QED BY <3>6 DEF TermChannel!Next
    <2>6. CASE DequeueTermFrame
      <3> DEFINE f == Head(frameq)
      <3>1. taken' = Append(taken, f) /\ posted' = posted /\ frameq # << >>
        BY <2>6 DEF DequeueTermFrame
      <3>2. f \in S
        BY <2>1, <3>1
      <3>3. Traces(Append(taken, f), posted, ix)
        BY <2>3, <3>1
      <3> HIDE DEF f
      <3>4. \E x \in (IF Nums = << >> THEN 0 ELSE Nums[Len(Nums)]) + 1 .. Len(posted) :
              Numbered(posted, Append(taken, f)) = Append(Nums, x)
        BY <2>1, <3>2, <3>3, NumberedTaken
      <3>5. Nums' = Numbered(posted, Append(taken, f))
        BY <3>1
      <3>6. TermChannel!LastDelivered = IF Nums = << >> THEN 0 ELSE Nums[Len(Nums)]
        BY DEF TermChannel!LastDelivered
      <3>7. TermChannel!Deliver
        BY <3>1, <3>4, <3>5, <3>6 DEF TermChannel!Deliver
      <3> QED BY <3>7 DEF TermChannel!Next
    <2>7. CASE SendRaw \/ Tear \/ OnIdleTimeout \/ UNCHANGED termWireVars
      BY <2>4, <2>7 DEF SendRaw, Tear, OnIdleTimeout, termWireVars
    <2>8. ASSUME NEW n \in 1 .. Len(line), ReadLine(n) PROVE [TermChannel!Next]_TermChannel!channelVars
      BY <2>4, <2>8 DEF ReadLine
    <2> QED BY <2>5, <2>6, <2>7, <2>8 DEF TermWireNext
  <1> QED BY <1>1, <1>2, <1>3, <1>4, PTL DEF TermWireSpec, TermRefines, TermChannel!Spec
=============================================================================
