-------------------------- MODULE StreamTransport --------------------------
(***************************************************************************)
(* The transports that carry length-prefixed frames: TCP, TLS, named pipe  *)
(* (a libuv loop thread per connection, uv_stream_state and                *)
(* tls_stream_state), the in-process memory channel and the iostream       *)
(* transport.  One connection, and the frames of one direction of it: the  *)
(* two directions share nothing but the life of their ends.                *)
(*                                                                         *)
(* A frame is a sequence of bytes; on the wire it is preceded by its       *)
(* length in four bytes, most significant first.  The kernel carries bytes *)
(* in order, hands them over in pieces of any size, and may lose a tail of *)
(* them when the end that wrote them closes.  The TLS record layer is      *)
(* external: the plaintext stands for the ciphertext, and a handshake      *)
(* completes or fails.                                                     *)
(***************************************************************************)
EXTENDS Naturals, Sequences, FiniteSets

CONSTANTS
    Kinds,      \* the transports explored, a subset of AllKinds
    Lengths,    \* lengths of the frames that are sent
    MaxFrame,   \* kMaxFrameBytes
    MaxFrames,  \* bound, per transport: frames sent over a behaviour
    Reuse,      \* the caller of receive() passes the previous frame's buffer
    TlsSetups   \* pairs of tls_server_options and tls_client_options explored

AllKinds == {"tcp", "tls", "pipe", "memory", "iostream"}
LoopKinds == {"tcp", "tls", "pipe"}
Ends == {"client", "server"}

\* What the options give: material is "none", "bad" (does not parse), "good"
\* (parses, and the peer's trust anchor signed it) or "alien" (parses).
Material == {"none", "bad", "good", "alien"}
ServerOptions == [cert : Material, key : Material, ca : Material,
                  clientAuth : {"none", "optional", "required", "typo"}]
ClientOptions == [ca : Material, skipVerify : BOOLEAN, cert : Material, key : Material]

\* The length of a frame is sent as a uint32_t.
FitsPrefix(n) == ((n \div 256) \div 256) \div 256 < 256

ASSUME StreamAssumption ==
    /\ Kinds \subseteq AllKinds
    /\ \A n \in Lengths : n \in Nat /\ FitsPrefix(n)
    /\ MaxFrame \in Nat
    /\ MaxFrames \in [Kinds -> Nat]
    /\ Reuse \in BOOLEAN
    /\ TlsSetups \subseteq [server : ServerOptions, client : ClientOptions]

VARIABLES
    kind,     \* the transport of this behaviour
    source,   \* the end that sends the frames
    tls,      \* the options of both ends
    lst,      \* the server transport: its state, accept thread and accept_queue
    end,      \* the two connection objects with their uv_stream_state
    sendq,    \* send_queue, plaintext_send_queue of the source, frame after frame
    wire,     \* bytes in the kernel
    cipher,   \* tls_stream_state::inbound_ciphertext
    parser,   \* frame_parser of the other end
    recvq,    \* recv_queue of the other end
    caller,   \* capacity of the buffer the caller passes to receive()
    spare,    \* capacity of recycle_slot
    polled,   \* is_closed() has read recv_closed and not yet the queue
    ended,    \* is_closed() has returned true
    sent,     \* history: frames handed to send()
    got       \* history: frames receive() returned

linkVars == <<kind, source, tls>>
dataVars == <<sendq, wire, cipher, parser, recvq, caller, spare>>
userVars == <<polled, ended, sent, got>>
streamVars == <<linkVars, lst, end, dataVars, userVars>>

Peer(e) == IF e = "client" THEN "server" ELSE "client"
Sink == Peer(source)

\* uv_stream_state and the connection object around it.  A loop is "none"
\* before the connection exists, "handshake", "run", "done" once its thread
\* has finished and "failed" when open() or on_new_connection() gave it up.
NewEnd == [loop |-> "none", handle |-> FALSE, reading |-> FALSE, secure |-> FALSE,
           closed |-> FALSE, stopAsync |-> FALSE, recvClosed |-> FALSE, joiner |-> "no"]

IdleParser == [hdr |-> << >>, left |-> 0, partial |-> << >>, cap |-> 0,
               out |-> << >>, ok |-> TRUE]

StreamInit ==
    /\ kind \in Kinds
    /\ source \in Ends
    /\ tls \in IF kind = "tls" THEN TlsSetups ELSE {CHOOSE t \in TlsSetups : TRUE}
    /\ lst = [state |-> "down", thread |-> "none", queue |-> 0, accepted |-> FALSE]
    /\ end = [e \in Ends |-> NewEnd]
    /\ sendq = << >>
    /\ wire = << >>
    /\ cipher = << >>
    /\ parser = IdleParser
    /\ recvq = << >>
    /\ caller = 0
    /\ spare = 0
    /\ polled = FALSE
    /\ ended = FALSE
    /\ sent = << >>
    /\ got = << >>
-----------------------------------------------------------------------------
(***************************************************************************)
(* Framing.                                                                *)
(***************************************************************************)
\* The prefix of enqueue_frame() and stream_write_frame().
Prefix(n) == <<(((n \div 256) \div 256) \div 256) % 256, ((n \div 256) \div 256) % 256,
               (n \div 256) % 256, n % 256>>

Encoded(frame) == Prefix(Len(frame)) \o frame

PrefixValue(hdr) == ((hdr[1] * 256 + hdr[2]) * 256 + hdr[3]) * 256 + hdr[4]

\* frame_parser::offer_reuse().
OfferReuse(p, cap) ==
    IF cap > p.cap THEN [p EXCEPT !.partial = << >>, !.cap = cap] ELSE p

\* on_frame(): the completed buffer leaves with its capacity.
Completed(p) ==
    [p EXCEPT !.hdr = << >>, !.partial = << >>, !.cap = 0,
              !.out = Append(@, [data |-> p.partial, cap |-> p.cap])]

Larger(a, b) == IF a > b THEN a ELSE b

\* One byte of frame_parser::feed().
FeedByte(p, b) ==
    IF ~p.ok THEN p
    ELSE IF Len(p.hdr) < 4
      THEN LET hdr == Append(p.hdr, b)
               n == PrefixValue(hdr)
           IN IF Len(hdr) < 4 THEN [p EXCEPT !.hdr = hdr]
              ELSE IF n > MaxFrame THEN [p EXCEPT !.hdr = hdr, !.left = n, !.ok = FALSE]
              ELSE LET begun == [p EXCEPT !.hdr = hdr, !.left = n, !.partial = << >>,
                                          !.cap = Larger(@, n)]
                   IN IF n = 0 THEN Completed(begun) ELSE begun
      ELSE LET q == [p EXCEPT !.partial = Append(@, b), !.left = @ - 1]
           IN IF q.left = 0 THEN Completed(q) ELSE q

\* frame_parser::feed(): the state after each of the bytes.
Feed(p, bytes) ==
    LET state[i \in 0 .. Len(bytes)] ==
            IF i = 0 THEN [p EXCEPT !.out = << >>, !.ok = TRUE]
            ELSE FeedByte(state[i - 1], bytes[i])
    IN state[Len(bytes)]
-----------------------------------------------------------------------------
(***************************************************************************)
(* TLS configuration.                                                      *)
(***************************************************************************)
Loads(m) == m \in {"good", "alien"}

\* load_private_key() after load_cert_chain(): both throw without material.
KeyPairLoads(cert, key) == Loads(cert) /\ Loads(key)

\* client_auth_to_mode() throws on any other word.
ClientAuthMode(mode) == mode \in {"none", "optional", "required"}

\* validate_server_options(): the material start() insists on.
ValidServerOptions(o) ==
    /\ KeyPairLoads(o.cert, o.key)
    /\ ClientAuthMode(o.clientAuth)
    /\ o.clientAuth # "none" => Loads(o.ca)

\* configure_as_server(): the same material once more, per connection.
ConfiguredAsServer(o) == ValidServerOptions(o)

\* configure_as_client().
ConfiguredAsClient(o) ==
    /\ o.skipVerify \/ Loads(o.ca)
    /\ o.cert # "none" => KeyPairLoads(o.cert, o.key)

\* What the handshake lets pass: the client verifies unless told not to, the
\* server verifies a client only in mode "required" ("optional" accepts a
\* certificate that does not verify).
Verifies(e) ==
    IF e = "client"
    THEN tls.client.skipVerify \/ (tls.client.ca = "good" /\ tls.server.cert = "good")
    ELSE tls.server.clientAuth = "required" => tls.client.cert = "good" /\ tls.server.ca = "good"
-----------------------------------------------------------------------------
(***************************************************************************)
(* The server transports: start(), accept(), stop() and the callbacks of   *)
(* the accept thread.                                                      *)
(***************************************************************************)
Listening(thread) ==
    /\ lst.state = "down"
    /\ lst' = [lst EXCEPT !.state = "up", !.thread = thread]
    /\ UNCHANGED <<linkVars, end, dataVars, userVars>>

\* start().  When an address, bind or listen error throws, nothing runs.
SocketStart == kind = "tcp" /\ Listening("run")
TlsStart == kind = "tls" /\ ValidServerOptions(tls.server) /\ Listening("run")
PipeStart == kind = "pipe" /\ Listening("run")
MemoryStart == kind = "memory" /\ Listening("none")
StreamStart == kind = "iostream" /\ Listening("none")

\* A connection from the kernel's backlog is given a loop and a thread of
\* its own and queued for accept(); on any error it is dropped.
TakeConnection(loop) ==
    /\ lst.thread = "run"
    /\ end["client"].loop # "none"
    /\ end["server"].loop = "none"
    /\ end' = [end EXCEPT !["server"] =
                  [@ EXCEPT !.loop = loop, !.handle = TRUE, !.reading = TRUE,
                            !.secure = loop = "run"]]
    /\ lst' = [lst EXCEPT !.queue = 1]
    /\ UNCHANGED <<linkVars, dataVars, userVars>>

DropConnection ==
    /\ lst.thread = "run"
    /\ end["client"].loop # "none"
    /\ end["server"].loop = "none"
    /\ end' = [end EXCEPT !["server"].loop = "failed"]
    /\ UNCHANGED <<linkVars, lst, dataVars, userVars>>

SocketOnNewConnection == kind = "tcp" /\ (TakeConnection("run") \/ DropConnection)
TlsOnNewConnection ==
    /\ kind = "tls"
    /\ \/ ConfiguredAsServer(tls.server) /\ TakeConnection("handshake")
       \/ DropConnection
PipeOnNewConnection == kind = "pipe" /\ (TakeConnection("run") \/ DropConnection)

\* accept() returns the queued connection, if there is one.
TakeQueued ==
    /\ lst.queue = 1
    /\ lst' = [lst EXCEPT !.queue = 0, !.accepted = TRUE]
    /\ UNCHANGED <<linkVars, dataVars, userVars>>

\* After stop() it is handed out too; the pipe's accept() only when it was
\* already waiting.
SocketAccept == kind = "tcp" /\ lst.state # "down" /\ TakeQueued /\ UNCHANGED end
TlsAccept == kind = "tls" /\ lst.state # "down" /\ TakeQueued /\ UNCHANGED end
PipeAccept == kind = "pipe" /\ lst.state # "down" /\ TakeQueued /\ UNCHANGED end
MemoryAccept ==
    /\ kind = "memory"
    /\ TakeQueued
    /\ end' = [end EXCEPT !["server"].loop = "run"]
\* The iostream transport has one connection to give.
StreamAccept ==
    /\ kind = "iostream"
    /\ lst.state # "stopped"
    /\ ~lst.accepted
    /\ lst' = [lst EXCEPT !.accepted = TRUE]
    /\ end' = [end EXCEPT !["server"].loop = "run"]
    /\ UNCHANGED <<linkVars, dataVars, userVars>>

\* stop() sets the flag; the socket and pipe transports then join the accept
\* thread, which ends once on_accept_stop() has closed its handles.
StopListening ==
    /\ lst.state = "up"
    /\ lst' = [lst EXCEPT !.state = "stopped"]
    /\ UNCHANGED <<linkVars, end, dataVars, userVars>>

SocketStop == kind = "tcp" /\ StopListening
TlsStop == kind = "tls" /\ StopListening
PipeStop == kind = "pipe" /\ StopListening
MemoryStop == kind = "memory" /\ StopListening
StreamStop == kind = "iostream" /\ StopListening

AcceptLoopEnds ==
    /\ lst.state = "stopped"
    /\ lst.thread = "run"
    /\ lst' = [lst EXCEPT !.thread = "done"]
    /\ UNCHANGED <<linkVars, end, dataVars, userVars>>

SocketOnAcceptStop == kind = "tcp" /\ AcceptLoopEnds
TlsOnAcceptStop == kind = "tls" /\ AcceptLoopEnds
PipeOnStop == kind = "pipe" /\ AcceptLoopEnds
-----------------------------------------------------------------------------
(***************************************************************************)
(* The ends.  open() connects and starts the loop thread; for TLS it first *)
(* runs the handshake on the caller's thread.  A connect that fails throws *)
(* and leaves nothing behind; a transport is opened once here.             *)
(***************************************************************************)
Connect(loop) ==
    /\ lst.state = "up"
    /\ end["client"].loop = "none"
    /\ end' = [end EXCEPT !["client"] =
                  [@ EXCEPT !.loop = loop, !.handle = TRUE, !.reading = TRUE,
                            !.secure = loop = "run"]]
    /\ UNCHANGED <<linkVars, lst, dataVars, userVars>>

SocketOpen == kind = "tcp" /\ Connect("run")
\* configure_as_client() runs after the connect: when it throws, the server
\* has a connection whose peer is gone.
TlsOpen ==
    /\ kind = "tls"
    /\ IF ConfiguredAsClient(tls.client)
       THEN Connect("handshake")
       ELSE /\ lst.state = "up"
            /\ end["client"].loop = "none"
            /\ end' = [end EXCEPT !["client"].loop = "failed"]
            /\ UNCHANGED <<linkVars, lst, dataVars, userVars>>
PipeOpen == kind = "pipe" /\ Connect("run")
MemoryConnect ==
    /\ kind = "memory"
    /\ end["client"].loop = "none"
    /\ end' = [end EXCEPT !["client"].loop = "run"]
    /\ lst' = [lst EXCEPT !.queue = 1]
    /\ UNCHANGED <<linkVars, dataVars, userVars>>
StreamOpen ==
    /\ kind = "iostream"
    /\ end["client"].loop = "none"
    /\ end' = [end EXCEPT !["client"].loop = "run"]
    /\ UNCHANGED <<linkVars, lst, dataVars, userVars>>

\* Who may still send and receive: the conditions of send(), receive() and
\* close().  A socket client that was shut down still queues and dequeues,
\* and so do the memory channel; the iostream ends always write.
Connected(e) == end[e].loop \in {"run", "done"}

SocketClientUsable == kind = "tcp" /\ Connected("client")
SocketServerUsable == kind = "tcp" /\ lst.accepted /\ ~end["server"].closed
TlsClientUsable == kind = "tls" /\ Connected("client")
TlsServerUsable == kind = "tls" /\ lst.accepted /\ ~end["server"].closed
PipeClientUsable == kind = "pipe" /\ Connected("client") /\ ~end["client"].closed
PipeServerUsable == kind = "pipe" /\ lst.accepted /\ ~end["server"].closed
MemoryClientUsable == kind = "memory" /\ Connected("client")
MemoryServerUsable == kind = "memory" /\ Connected("server")
StreamClientUsable == kind = "iostream" /\ Connected("client")
StreamServerUsable == kind = "iostream" /\ Connected("server")

Usable(e) ==
    IF e = "client"
    THEN SocketClientUsable \/ TlsClientUsable \/ PipeClientUsable
         \/ MemoryClientUsable \/ StreamClientUsable
    ELSE SocketServerUsable \/ TlsServerUsable \/ PipeServerUsable
         \/ MemoryServerUsable \/ StreamServerUsable

\* Received plaintext goes through pump_decrypt() and the frame parser into
\* the receive queue of end e; bytes of a TLS connection that is not secure
\* yet wait in inbound_ciphertext.
Ingest(e, bytes, secure) ==
    LET plain == cipher \o bytes
        p == Feed(OfferReuse(parser, spare), plain)
    IN IF ~secure \/ plain = << >>
       THEN /\ cipher' = plain
            /\ end' = [end EXCEPT ![e].secure = secure, ![e].loop = "run"]
            /\ UNCHANGED <<parser, recvq, spare>>
       ELSE /\ cipher' = << >>
            /\ parser' = [p EXCEPT !.out = << >>]
            /\ recvq' = recvq \o p.out
            /\ spare' = 0
            /\ end' = [end EXCEPT ![e].secure = TRUE, ![e].loop = "run",
                                  ![e].recvClosed = @ \/ ~p.ok,
                                  ![e].reading = @ /\ (p.ok \/ kind = "tls")]

\* handshake_sync() succeeds: the client's first, on the thread of open(),
\* then the server's, on the connection's own thread.
HandshakeDone(e) ==
    /\ end[e].loop = "handshake"
    /\ end[e].handle
    /\ end[Peer(e)].handle
    /\ IF e = "client" THEN end["server"].loop = "handshake"
                       ELSE end["client"].loop = "run"
    /\ Verifies(e)
    /\ Ingest(e, << >>, TRUE)
    /\ UNCHANGED <<linkVars, lst, sendq, wire, caller, userVars>>

\* handshake_sync() throws: out of open(), or into the server's catch, which
\* reports the connection closed and leaves the handle to a later stop().
HandshakeFails(e) ==
    /\ end[e].loop = "handshake"
    /\ end[e].handle \/ end[e].recvClosed
    /\ end' = IF e = "client"
              THEN [end EXCEPT ![e].loop = "failed", ![e].handle = FALSE]
              ELSE [end EXCEPT ![e].loop = "run", ![e].recvClosed = TRUE]
    /\ UNCHANGED <<linkVars, lst, dataVars, userVars>>

\* shutdown() and close() of the socket, TLS and pipe ends:
\* uv_stream_state::stop() signals the loop and joins its thread.  Nothing
\* calls it on the loop thread itself, where it would detach.
CloseLoop(e) ==
    /\ kind \in LoopKinds
    /\ Usable(e)
    /\ ~end[e].closed
    /\ end' = [end EXCEPT ![e].closed = TRUE, ![e].stopAsync = TRUE, ![e].joiner = "wait"]
    /\ UNCHANGED <<linkVars, lst, dataVars, userVars>>

\* The memory channel has one flag for both ends, the iostream ends each one.
CloseFlag(e) ==
    /\ kind \in {"memory", "iostream"}
    /\ Usable(e)
    /\ ~end[e].closed
    /\ end' = IF kind = "memory" THEN [x \in Ends |-> [end[x] EXCEPT !.closed = TRUE]]
                                 ELSE [end EXCEPT ![e].closed = TRUE]
    /\ UNCHANGED <<linkVars, lst, dataVars, userVars>>

\* Mutant of OnStop: the handle of the stream is left open.
OnStopKeepsHandle(e) ==
    /\ end[e].stopAsync
    /\ end[e].handle
    /\ end[e].reading
    /\ end' = [end EXCEPT ![e].reading = FALSE]
    /\ UNCHANGED <<linkVars, lst, dataVars, userVars>>

\* on_stop() on the loop thread: every handle is closed.
OnStop(e) ==
    /\ end[e].stopAsync
    /\ end[e].handle
    /\ end' = [end EXCEPT ![e].handle = FALSE, ![e].reading = FALSE]
    /\ UNCHANGED <<linkVars, lst, dataVars, userVars>>

\* uv_run() returns when no handle is left.
LoopEnds(e) ==
    /\ end[e].loop = "run"
    /\ end[e].stopAsync
    /\ ~end[e].handle
    /\ end' = [end EXCEPT ![e].loop = "done", ![e].recvClosed = TRUE]
    /\ UNCHANGED <<linkVars, lst, dataVars, userVars>>

Joined(e) ==
    /\ end[e].joiner = "wait"
    /\ end[e].loop = "done"
    /\ end' = [end EXCEPT ![e].joiner = "back"]
    /\ UNCHANGED <<linkVars, lst, dataVars, userVars>>
-----------------------------------------------------------------------------
(***************************************************************************)
(* Frames.                                                                 *)
(***************************************************************************)
\* An over-long frame is sent where the receiver closes on it: TLS keeps
\* feeding its parser, the iostream reader keeps reading behind the prefix.
\* Bound: only the first frame is over-long.
Sendable(n) == n > MaxFrame => kind \in {"tcp", "pipe", "memory"} /\ sent = << >>

\* send().  A TLS server that sends during the handshake (rmi::server only
\* answers requests) is left out.
Send ==
    /\ Len(sent) < MaxFrames[kind]
    /\ Usable(source)
    /\ kind = "tls" => end[source].secure
    /\ \E n \in Lengths :
          LET frame == [i \in 1 .. n |-> Len(sent) + 1]
          IN /\ Sendable(n)
             /\ sent' = Append(sent, frame)
             /\ CASE kind \in LoopKinds ->
                       /\ sendq' = sendq \o Encoded(frame)
                       /\ UNCHANGED <<wire, recvq>>
                  [] kind = "memory" ->
                       /\ recvq' = Append(recvq, [data |-> frame, cap |-> n])
                       /\ UNCHANGED <<sendq, wire>>
                  [] kind = "iostream" ->
                       /\ wire' = wire \o Encoded(frame)
                       /\ UNCHANGED <<sendq, recvq>>
    /\ UNCHANGED <<linkVars, lst, end, cipher, parser, caller, spare, polled, ended, got>>

\* on_send(), on_tls_send(): the whole queue is written, in order.
Flush ==
    /\ end[source].loop = "run"
    /\ end[source].handle
    /\ sendq # << >>
    /\ wire' = IF end[Sink].loop = "failed" THEN wire ELSE wire \o sendq
    /\ sendq' = << >>
    /\ UNCHANGED <<linkVars, lst, end, cipher, parser, recvq, caller, spare, userVars>>

\* A read is armed on the loop that is running.
Reading(e) ==
    /\ end[e].handle
    /\ end[e].reading
    /\ end[e].loop \in {"handshake", "run"}

\* on_read(), on_tls_read(): the next n bytes have arrived.
Read(n) ==
    LET e == Sink
    IN /\ Reading(e)
       /\ n \in 1 .. Len(wire)
       /\ wire' = SubSeq(wire, n + 1, Len(wire))
       /\ IF end[e].loop = "run"
          THEN Ingest(e, SubSeq(wire, 1, n), end[e].secure)
          ELSE /\ cipher' = cipher \o SubSeq(wire, 1, n)
               /\ UNCHANGED <<end, parser, recvq, spare>>
       /\ UNCHANGED <<linkVars, lst, sendq, caller, userVars>>

\* on_read() with an error or end of file, once the peer's handle is closed.
Eof(e) ==
    /\ end[e].handle
    /\ end[e].reading
    /\ end[Peer(e)].loop \in {"handshake", "run", "done", "failed"}
    /\ ~end[Peer(e)].handle
    /\ e = Sink => wire = << >>
    /\ end' = [end EXCEPT ![e].recvClosed = TRUE, ![e].reading = FALSE]
    /\ UNCHANGED <<linkVars, lst, dataVars, userVars>>

\* A closed connection loses what the kernel had not delivered.
LoseTail ==
    /\ wire # << >>
    /\ kind \in LoopKinds
    /\ ~end[source].handle
    /\ \E n \in 0 .. Len(wire) - 1 : wire' = SubSeq(wire, 1, n)
    /\ UNCHANGED <<linkVars, lst, end, sendq, cipher, parser, recvq, caller, spare, userVars>>

\* dequeue_frame(), memory's receive(): the oldest frame.  A caller that
\* passes a used buffer has it kept for the parser when it is the larger.
Receive ==
    /\ kind # "iostream"
    /\ Usable(Sink)
    /\ recvq # << >>
    /\ got' = Append(got, Head(recvq).data)
    /\ recvq' = Tail(recvq)
    /\ caller' = IF Reuse THEN Head(recvq).cap ELSE 0
    /\ spare' = IF kind \in LoopKinds THEN Larger(spare, caller) ELSE spare
    /\ UNCHANGED <<linkVars, lst, end, sendq, wire, cipher, parser, polled, ended, sent>>

\* stream_read_frame() under receive().
ReceiveStream ==
    /\ kind = "iostream"
    /\ Usable(Sink)
    /\ ~end[Sink].closed
    /\ Len(wire) >= 4
    /\ LET n == PrefixValue(SubSeq(wire, 1, 4))
       IN /\ got' = Append(got, SubSeq(wire, 5, 4 + n))
          /\ wire' = SubSeq(wire, 5 + n, Len(wire))
    /\ UNCHANGED <<linkVars, lst, end, sendq, cipher, parser, recvq, caller, spare,
                   polled, ended, sent>>

\* peer_closed_and_drained() reads recv_closed, then the queue.
IsClosedFlag ==
    /\ kind \in LoopKinds
    /\ Sink = "server"
    /\ lst.accepted
    /\ ~end["server"].closed
    /\ end["server"].recvClosed
    /\ ~polled
    /\ ~ended
    /\ polled' = TRUE
    /\ UNCHANGED <<linkVars, lst, end, dataVars, ended, sent, got>>

\* Mutant of IsClosedQueue: a peer that has closed ends the connection, whatever
\* is still queued.
IsClosedUndrained ==
    /\ polled
    /\ polled' = FALSE
    /\ ended' = TRUE
    /\ UNCHANGED <<linkVars, lst, end, dataVars, sent, got>>

IsClosedQueue ==
    /\ polled
    /\ polled' = FALSE
    /\ ended' = (recvq = << >>)
    /\ UNCHANGED <<linkVars, lst, end, dataVars, sent, got>>
-----------------------------------------------------------------------------
ServerStep ==
    \/ SocketStart \/ TlsStart \/ PipeStart \/ MemoryStart \/ StreamStart
    \/ SocketOnNewConnection \/ TlsOnNewConnection \/ PipeOnNewConnection
    \/ SocketAccept \/ TlsAccept \/ PipeAccept \/ MemoryAccept \/ StreamAccept
    \/ SocketStop \/ TlsStop \/ PipeStop \/ MemoryStop \/ StreamStop
    \/ SocketOnAcceptStop \/ TlsOnAcceptStop \/ PipeOnStop

OpenStep == SocketOpen \/ TlsOpen \/ PipeOpen \/ MemoryConnect \/ StreamOpen

LoopStep(e) == OnStop(e) \/ LoopEnds(e) \/ Eof(e)

StreamNext ==
    \/ ServerStep
    \/ OpenStep
    \/ \E e \in Ends : \/ HandshakeDone(e) \/ HandshakeFails(e)
                       \/ CloseLoop(e) \/ CloseFlag(e) \/ LoopStep(e) \/ Joined(e)
    \/ Send \/ Flush \/ LoseTail
    \/ \E n \in 1 .. Len(wire) : Read(n)
    \/ Receive \/ ReceiveStream \/ IsClosedFlag \/ IsClosedQueue

\* The loop threads keep running their callbacks, a joined thread is joined,
\* and the worker of the receiving end keeps polling is_closed() and receive().
ThreadStep ==
    \/ SocketOnAcceptStop \/ TlsOnAcceptStop \/ PipeOnStop
    \/ \E e \in Ends : LoopStep(e) \/ Joined(e)
    \/ Flush

BytesRead ==
    /\ Reading(Sink)
    /\ \E n \in 1 .. Len(wire) : wire' = SubSeq(wire, n + 1, Len(wire))

StreamFairness ==
    /\ WF_streamVars(ThreadStep)
    /\ WF_wire(BytesRead)
    /\ WF_streamVars(Receive \/ ReceiveStream)
    /\ WF_streamVars(IsClosedFlag \/ IsClosedQueue)
-----------------------------------------------------------------------------
\* The frames of a connection come out as FrameChannel promises.
Channel == INSTANCE FrameChannel WITH
    Lossy <- FALSE,
    accepted <- Len(sent),
    delivered <- [i \in 1 .. Len(got) |->
                    IF i <= Len(sent) /\ got[i] = sent[i] THEN i ELSE 0],
    over <- ended

\* Whatever pieces the bytes arrive in (on_read(), pump_decrypt(),
\* frame_parser::feed()) and whenever an end closes or a handshake fails, the
\* frames that receive() returns are the frames that were sent, whole and in
\* order, and none follows an is_closed() that reported the connection drained.
StreamRefines == Channel!Spec

\* What frame_parser promises of the buffer it is offered: its capacity serves
\* the next frame's payload, so that every frame comes out as it was sent.
FramesWhole == \A i \in 1 .. Len(got) : i <= Len(sent) /\ got[i] = sent[i]

\* A stop() that waits for a loop thread.  A TLS connection stopped in its
\* handshake is the exception: handshake_sync() spins on a handle that
\* on_stop() has closed.
Stopping == \E e \in Ends : end[e].joiner = "wait" /\ end[e].loop # "handshake"

\* The worker of an accepted connection has not seen yet that the peer is gone.
LossUnnoticed ==
    /\ Sink = "server" /\ lst.accepted /\ end["client"].loop \in {"done", "failed"}
    /\ ~ended /\ ~end["server"].closed

\* uv_stream_state::stop() returns, as on_stop() closes what keeps the loop
\* alive.  And once the peer's handle is closed, the worker of the receiving
\* server connection gets every frame the kernel delivered and then the end: a
\* killed client does not leave a session behind.
StreamsSettle == (Stopping \/ LossUnnoticed) ~> (~Stopping /\ ~LossUnnoticed)
=============================================================================
