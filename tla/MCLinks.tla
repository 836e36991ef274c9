------------------------------ MODULE MCLinks ------------------------------
(***************************************************************************)
(* StreamTransport, TermWire, TermThreads and Bridge for TLC.  They share  *)
(* no state: a behaviour is of one of them, its part, while the others     *)
(* stay in an initial state, where none of their fair actions is enabled.  *)
(***************************************************************************)
EXTENDS StreamTransport, TermWire, TermThreads, Bridge, TLC

CONSTANT Parts  \* of "stream", "wire", "threads" and "bridge"

VARIABLE part

\* Server-authenticated TLS; mutual TLS that is refused for want of a client
\* certificate; and a client without a trust anchor, which open() refuses.
GoodServer == [cert |-> "good", key |-> "good", ca |-> "none", clientAuth |-> "none"]
GoodClient == [ca |-> "good", skipVerify |-> FALSE, cert |-> "none", key |-> "none"]
MCTlsSetups ==
    {[server |-> GoodServer, client |-> GoodClient],
     [server |-> [GoodServer EXCEPT !.ca = "good", !.clientAuth = "required"],
      client |-> GoodClient],
     [server |-> GoodServer, client |-> [GoodClient EXCEPT !.ca = "none"]]}

\* Two frames where the transport itself frames or queues them.
MCMaxFrames == [k \in Kinds |-> IF k \in {"pipe", "tls"} THEN 1 ELSE 2]

\* Three frames: the third is received into the buffer of the first.
MCReuseFrames == [k \in Kinds |-> 3]

\* An arrow key, a title sequence and a letter; a sequence, a piece of the
\* marker's prefix and a lone escape.
MCOscNoise == {<<27, 91, 66>>, <<27, 93, 48, 7>>, <<65>>}
MCMarkerNoise == {<<27, 91, 66>>, <<66, 73>>, <<27>>}

\* Every session is served by the first worker.
MCWorkerOf == [s \in Sessions |-> 1]

\* TCP and TLS send to the accepting side; the pipe, which shares TCP's
\* stream state, in both directions.
LinksInit ==
    /\ part \in Parts
    /\ StreamInit
    /\ IF part = "stream" THEN kind \in {"tcp", "tls"} => source = "client"
       ELSE kind = "memory" /\ source = "client"
    /\ TermWireInit /\ (part # "wire" => role = "client")
    /\ TermThreadsInit
    /\ BridgeInit

\* The four next-state relations, an action at a time so that TLC reports each.
InStream(A) == part = "stream" /\ A /\ UNCHANGED <<part, termWireVars, termThreadVars, bridgeVars>>
InWire(A) == part = "wire" /\ A /\ UNCHANGED <<part, streamVars, termThreadVars, bridgeVars>>
InThreads(A) == part = "threads" /\ A /\ UNCHANGED <<part, streamVars, termWireVars, bridgeVars>>
InBridge(A) == part = "bridge" /\ A /\ UNCHANGED <<part, streamVars, termWireVars, termThreadVars>>

StreamSteps ==
    \/ InStream(SocketStart) \/ InStream(TlsStart) \/ InStream(PipeStart)
    \/ InStream(MemoryStart) \/ InStream(StreamStart)
    \/ InStream(SocketOnNewConnection) \/ InStream(TlsOnNewConnection)
    \/ InStream(PipeOnNewConnection)
    \/ InStream(SocketAccept) \/ InStream(TlsAccept) \/ InStream(PipeAccept)
    \/ InStream(MemoryAccept) \/ InStream(StreamAccept)
    \/ InStream(SocketStop) \/ InStream(TlsStop) \/ InStream(PipeStop)
    \/ InStream(MemoryStop) \/ InStream(StreamStop)
    \/ InStream(SocketOnAcceptStop) \/ InStream(TlsOnAcceptStop) \/ InStream(PipeOnStop)
    \/ InStream(SocketOpen) \/ InStream(TlsOpen) \/ InStream(PipeOpen)
    \/ InStream(MemoryConnect) \/ InStream(StreamOpen)
    \/ \E e \in Ends : \/ InStream(HandshakeDone(e)) \/ InStream(HandshakeFails(e))
                       \/ InStream(CloseLoop(e)) \/ InStream(CloseFlag(e))
                       \/ InStream(OnStop(e)) \/ InStream(LoopEnds(e))
                       \/ InStream(Eof(e)) \/ InStream(Joined(e))
    \/ InStream(Send) \/ InStream(Flush) \/ InStream(LoseTail)
    \/ InStream(\E n \in 1 .. Len(wire) : Read(n))
    \/ InStream(Receive) \/ InStream(ReceiveStream)
    \/ InStream(IsClosedFlag) \/ InStream(IsClosedQueue)

WireSteps ==
    \/ InWire(SendFrame) \/ InWire(SendRaw) \/ InWire(Tear)
    \/ InWire(\E n \in 1 .. Len(line) : ReadLine(n))
    \/ InWire(OnIdleTimeout) \/ InWire(DequeueTermFrame)

ThreadsSteps ==
    \/ InThreads(OnReadEof) \/ InThreads(DestroyWriter) \/ InThreads(DestroyReader)
    \/ \E a \in Callers : \/ InThreads(Shutdown(a)) \/ InThreads(PipeThreadStop(a))
                          \/ InThreads(PipeThreadJoined(a)) \/ InThreads(StopDoneSeen(a))
    \/ \E p \in Pipes : InThreads(LoopReturns(p)) \/ InThreads(ThreadFinishes(p))
    \/ InThreads(TermAccept) \/ InThreads(TermConnectionClose) \/ InThreads(TermServerStop)

BridgeSteps ==
    \/ InBridge(BridgeStart) \/ InBridge(BridgeStop) \/ InBridge(UpstreamDisconnect)
    \/ \E s \in Sessions :
          \/ InBridge(OnSessionCreated(s)) \/ InBridge(PeerGone(s))
          \/ InBridge(BridgeDisconnect(s)) \/ InBridge(TryHandleRequest(s))
          \/ InBridge(TeardownErase(s)) \/ InBridge(TeardownDeactivate(s))
          \/ InBridge(TeardownDestroyGroup(s)) \/ InBridge(SlotErased(s))
          \/ InBridge(RouteLock(s)) \/ InBridge(RouteEmit(s))
    \/ InBridge(ReceiveResponse) \/ InBridge(ReceiveEvent) \/ InBridge(RouteTargetsDone)
    \/ InBridge(RouteLocal) \/ InBridge(UpstreamLossNoticed)
    \/ InBridge(UpstreamHandles) \/ InBridge(UpstreamEmits) \/ InBridge(UpstreamLost)

LinksNext == StreamSteps \/ WireSteps \/ ThreadsSteps \/ BridgeSteps

LinksSpec ==
    LinksInit /\ [][LinksNext]_<<part, streamVars, termWireVars, termThreadVars, bridgeVars>>

LinksFairSpec == LinksSpec /\ StreamFairness /\ TermThreadsFairness /\ BridgeFairness
=============================================================================
