------------------------------ MODULE Bridge ------------------------------
(***************************************************************************)
(* rmi::bridge: an rmi::server for the downstream clients and one          *)
(* rmi::client for the upstream server.  Requests on objects are relayed,  *)
(* tagged with the downstream session as their group; upstream events are  *)
(* broadcast to the sessions; a session that ends takes its group along.   *)
(*                                                                         *)
(* Three kinds of threads meet here: the dispatch workers of the server,   *)
(* the worker of the upstream client, on which events are routed, and the  *)
(* caller of start() and stop().  The inside of the server and of the      *)
(* client is in RmiServer and RmiClient; the upstream server is external.  *)
(***************************************************************************)
EXTENDS Naturals, Sequences, SequencesExt

CONSTANTS
    Sessions,       \* downstream connections, each used once
    BridgeWorkers,  \* the dispatch workers
    WorkerOf,       \* the worker each session is assigned to
    MaxRelays,      \* bound on the requests relayed
    MaxUpEvents,    \* bound on the events of the upstream server
    MaxStarts       \* bound on the connections to the upstream server

VARIABLES
    own,     \* started_, the stage of stop(), the successful connects, the requests relayed
    up,      \* the upstream client: "off", "on", "lost" (peer gone), "dead" (worker has left)
    sess,    \* the life of each downstream session
    worker,  \* what each dispatch worker is doing
    upq,     \* frames on their way to the upstream server
    downq,   \* frames on their way to the upstream client
    objs,    \* objects each group has on the upstream server
    route,   \* route_event() on the upstream client's worker thread
    events,  \* how many events the upstream server has sent
    routed   \* the events each session's connection was given

bridgeVars == <<own, up, sess, worker, upq, downq, objs, route, events, routed>>

IdleWorker == [at |-> "idle", sess |-> "none"]

NoRoute == [at |-> "off", ev |-> 0, all |-> {}, left |-> {}, holds |-> {}]

\* A bridge that is constructed and not started.
BridgeInit ==
    /\ own = [started |-> FALSE, stage |-> "out", connects |-> 0, relays |-> 0]
    /\ up = "off"
    /\ sess = [s \in Sessions |-> "none"]
    /\ worker = [w \in BridgeWorkers |-> IdleWorker]
    /\ upq = <<>> /\ downq = <<>>
    /\ objs = [s \in Sessions |-> 0]
    /\ route = NoRoute
    /\ events = 0
    /\ routed = [s \in Sessions |-> <<>>]

BridgeListening == own.stage = "listening"
\* A session that is still in sessions_.
Registered(s) == sess[s] \in {"open", "eof", "closed"}
-----------------------------------------------------------------------------
\* start(): started_ first, then the connect, which may throw.
BridgeStart ==
    /\ own.stage = "out"
    /\ ~own.started
    /\ own.connects < MaxStarts
    /\ \/ /\ up' = "on"
          /\ own' = [own EXCEPT !.started = TRUE, !.stage = "listening", !.connects = @ + 1]
       \/ /\ UNCHANGED up
          /\ own' = [own EXCEPT !.started = TRUE]
    /\ UNCHANGED <<sess, worker, upq, downq, objs, route, events, routed>>

\* stop(): started_ first; server::stop() then waits for the workers.
BridgeStop ==
    /\ own.started
    /\ own.stage \in {"out", "listening"}
    /\ own' = [own EXCEPT !.started = FALSE, !.stage = "stopping"]
    /\ UNCHANGED <<up, sess, worker, upq, downq, objs, route, events, routed>>

\* The workers have swept their sessions; upstream_client_.disconnect(), after
\* which the upstream server has destroyed all of the connection's objects.
UpstreamDisconnect ==
    /\ own.stage = "stopping"
    /\ \A s \in Sessions : sess[s] \in {"none", "gone"}
    /\ \A w \in BridgeWorkers : worker[w] = IdleWorker
    /\ route = NoRoute
    /\ own' = [own EXCEPT !.stage = "out"]
    /\ up' = "off"
    /\ upq' = <<>> /\ downq' = <<>>
    /\ objs' = [s \in Sessions |-> 0]
    /\ UNCHANGED <<sess, worker, route, events, routed>>
-----------------------------------------------------------------------------
\* on_session_created(): the session, with its emit function, in sessions_.
OnSessionCreated(s) ==
    /\ BridgeListening
    /\ sess[s] = "none"
    /\ sess' = [sess EXCEPT ![s] = "open"]
    /\ UNCHANGED <<own, up, worker, upq, downq, objs, route, events, routed>>

\* The peer of a downstream connection goes; frames sent to it are dropped.
PeerGone(s) ==
    /\ sess[s] = "open"
    /\ sess' = [sess EXCEPT ![s] = "eof"]
    /\ UNCHANGED <<own, up, worker, upq, downq, objs, route, events, routed>>

\* OP_DISCONNECT is not relayed: the base server closes the connection, and
\* its send() throws from then on.
BridgeDisconnect(s) ==
    /\ BridgeListening
    /\ sess[s] = "open"
    /\ worker[WorkerOf[s]] = IdleWorker
    /\ sess' = [sess EXCEPT ![s] = "closed"]
    /\ UNCHANGED <<own, up, worker, upq, downq, objs, route, events, routed>>

Sent(q, frame) == IF up = "on" THEN Append(q, frame) ELSE q

\* try_handle_request(): the request goes upstream under the session's group;
\* the worker blocks in get(), unless the request is one-way, or the client's
\* worker has left and the future fails at once.
TryHandleRequest(s) ==
    /\ BridgeListening
    /\ Registered(s)
    /\ sess[s] # "closed"
    /\ worker[WorkerOf[s]] = IdleWorker
    /\ own.relays < MaxRelays
    /\ own' = [own EXCEPT !.relays = @ + 1]
    /\ \E op \in {"create", "destroy"}, oneway \in BOOLEAN :
          /\ upq' = Sent(upq, [op |-> op, group |-> s, oneway |-> oneway])
          /\ worker' = IF oneway \/ up \in {"off", "dead"} THEN worker
                       ELSE [worker EXCEPT ![WorkerOf[s]] = [at |-> "get", sess |-> s]]
    /\ UNCHANGED <<up, sess, downq, objs, route, events, routed>>

\* The dispatch worker finds the session closed, or sweeps it in stop():
\* on_session_destroyed(), teardown_session() - first the erase.
TeardownErase(s) ==
    LET w == WorkerOf[s]
    IN /\ worker[w] = IdleWorker
       /\ \/ sess[s] \in {"eof", "closed"}
          \/ sess[s] = "open" /\ own.stage = "stopping"
       /\ worker' = [worker EXCEPT ![w] = [at |-> "teardown", sess |-> s]]
       /\ sess' = [sess EXCEPT ![s] = "erased"]
       /\ UNCHANGED <<own, up, upq, downq, objs, route, events, routed>>

\* Mutant of TeardownDeactivate: active is cleared without the lock.
TeardownDeactivateUnlocked(s) ==
    /\ sess[s] = "erased"
    /\ sess' = [sess EXCEPT ![s] = "inactive"]
    /\ UNCHANGED <<own, up, worker, upq, downq, objs, route, events, routed>>

\* active = false, under the lock that route_event() holds around an emit.
TeardownDeactivate(s) ==
    /\ sess[s] = "erased"
    /\ s \notin route.holds
    /\ sess' = [sess EXCEPT ![s] = "inactive"]
    /\ UNCHANGED <<own, up, worker, upq, downq, objs, route, events, routed>>

\* Mutant of TeardownDestroyGroup: the upstream server is not told.
TeardownDestroyGroupSilent(s) ==
    /\ sess[s] = "inactive"
    /\ sess' = [sess EXCEPT ![s] = "destroying"]
    /\ UNCHANGED <<own, up, worker, upq, downq, objs, route, events, routed>>

\* OP_DESTROY_GROUP, one-way; a send() that throws is swallowed.
TeardownDestroyGroup(s) ==
    /\ sess[s] = "inactive"
    /\ sess' = [sess EXCEPT ![s] = "destroying"]
    /\ upq' = Sent(upq, [op |-> "destroy_group", group |-> s, oneway |-> TRUE])
    /\ UNCHANGED <<own, up, worker, downq, objs, route, events, routed>>

\* The slot leaves the worker's list, and the connection is destroyed.
SlotErased(s) ==
    /\ sess[s] = "destroying"
    /\ sess' = [sess EXCEPT ![s] = "gone"]
    /\ worker' = [worker EXCEPT ![WorkerOf[s]] = IdleWorker]
    /\ UNCHANGED <<own, up, upq, downq, objs, route, events, routed>>
-----------------------------------------------------------------------------
\* External: the upstream server handles the requests of a connection in
\* order, files what it creates under the request's group, and answers.
UpstreamHandles ==
    /\ up = "on"
    /\ upq # <<>>
    /\ LET r == Head(upq)
       IN /\ objs' = [objs EXCEPT ![r.group] =
                         CASE r.op = "create" -> @ + 1
                           [] r.op = "destroy" -> IF @ > 0 THEN @ - 1 ELSE 0
                           [] OTHER -> 0]
          /\ downq' = IF r.oneway THEN downq
                      ELSE Append(downq, [kind |-> "response", of |-> r.group, ev |-> 0])
    /\ upq' = Tail(upq)
    /\ UNCHANGED <<own, up, sess, worker, route, events, routed>>

\* External: it emits an event on some object.
UpstreamEmits ==
    /\ up = "on"
    /\ events < MaxUpEvents
    /\ events' = events + 1
    /\ downq' = Append(downq, [kind |-> "event", of |-> "none", ev |-> events + 1])
    /\ UNCHANGED <<own, up, sess, worker, upq, objs, route, routed>>

\* External: it goes away, with the objects and what it had not read.
UpstreamLost ==
    /\ up = "on"
    /\ up' = "lost"
    /\ upq' = <<>>
    /\ objs' = [s \in Sessions |-> 0]
    /\ UNCHANGED <<own, sess, worker, downq, route, events, routed>>

\* bridge_upstream_transport::receive() returns a response, which the client
\* resolves.
ReceiveResponse ==
    /\ route = NoRoute
    /\ downq # <<>>
    /\ Head(downq).kind = "response"
    /\ downq' = Tail(downq)
    /\ worker' = [worker EXCEPT ![WorkerOf[Head(downq).of]] = IdleWorker]
    /\ UNCHANGED <<own, up, sess, upq, objs, route, events, routed>>

\* receive() meets an event: route_event() takes a copy of sessions_.
ReceiveEvent ==
    /\ route = NoRoute
    /\ downq # <<>>
    /\ Head(downq).kind = "event"
    /\ downq' = Tail(downq)
    /\ LET targets == {s \in Sessions : Registered(s)}
       IN route' = [at |-> "targets", ev |-> Head(downq).ev, all |-> targets, left |-> targets,
                    holds |-> {}]
    /\ UNCHANGED <<own, up, sess, worker, upq, objs, events, routed>>

\* The next target: its emit_st lock, and active.
RouteLock(s) ==
    /\ route.at = "targets"
    /\ route.holds = {}
    /\ s \in route.left
    /\ route' = [route EXCEPT !.left = @ \ {s},
                              !.holds = IF sess[s] \in {"inactive", "destroying", "gone"} THEN {}
                                        ELSE {s}]
    /\ UNCHANGED <<own, up, sess, worker, upq, downq, objs, events, routed>>

\* Mutant of RouteEmit: the broadcast ends with the first session it reaches.
RouteEmitFirstOnly(s) ==
    /\ s \in route.holds
    /\ route' = [route EXCEPT !.at = "local", !.left = {}, !.holds = {}]
    /\ routed' = IF sess[s] = "closed" THEN routed ELSE [routed EXCEPT ![s] = Append(@, route.ev)]
    /\ UNCHANGED <<own, up, sess, worker, upq, downq, objs, events>>

\* emit().  On a connection that is closed it throws: receive() catches that,
\* and the remaining targets are not visited.
RouteEmit(s) ==
    /\ s \in route.holds
    /\ IF sess[s] = "closed"
       THEN /\ route' = [route EXCEPT !.at = "local", !.left = {}, !.holds = {}]
            /\ UNCHANGED routed
       ELSE /\ route' = [route EXCEPT !.holds = {}]
            /\ routed' = [routed EXCEPT ![s] = Append(@, route.ev)]
    /\ UNCHANGED <<own, up, sess, worker, upq, downq, objs, events>>

RouteTargetsDone ==
    /\ route.at = "targets"
    /\ route.left = {} /\ route.holds = {}
    /\ route' = [route EXCEPT !.at = "local"]
    /\ UNCHANGED <<own, up, sess, worker, upq, downq, objs, events, routed>>

\* dispatch_local_event(), or process_frame() after the exception; then
\* receive() goes on.
RouteLocal ==
    /\ route.at = "local"
    /\ route' = NoRoute
    /\ UNCHANGED <<own, up, sess, worker, upq, downq, objs, events, routed>>

\* Mutant of UpstreamLossNoticed: what is pending is not failed.
UpstreamLossUnfailed ==
    /\ up = "lost"
    /\ downq = <<>>
    /\ route = NoRoute
    /\ up' = "dead"
    /\ UNCHANGED <<own, sess, worker, upq, downq, objs, route, events, routed>>

\* receive() times out and is_connected() is false, which the wrapper passes
\* on: the client's worker leaves and fails what is pending.
UpstreamLossNoticed ==
    /\ up = "lost"
    /\ downq = <<>>
    /\ route = NoRoute
    /\ up' = "dead"
    /\ worker' = [w \in BridgeWorkers |->
                     IF worker[w].at = "get" THEN IdleWorker ELSE worker[w]]
    /\ UNCHANGED <<own, sess, upq, downq, objs, route, events, routed>>
-----------------------------------------------------------------------------
TeardownStep ==
    \E s \in Sessions : \/ TeardownErase(s) \/ TeardownDeactivate(s)
                        \/ TeardownDestroyGroup(s) \/ SlotErased(s)

ClientWorkerStep ==
    \/ ReceiveResponse \/ ReceiveEvent \/ RouteTargetsDone \/ RouteLocal \/ UpstreamLossNoticed
    \/ \E s \in Sessions : RouteLock(s) \/ RouteEmit(s)

BridgeNext ==
    \/ BridgeStart \/ BridgeStop \/ UpstreamDisconnect
    \/ \E s \in Sessions : \/ OnSessionCreated(s) \/ PeerGone(s) \/ BridgeDisconnect(s)
                           \/ TryHandleRequest(s)
    \/ TeardownStep \/ ClientWorkerStep
    \/ UpstreamHandles \/ UpstreamEmits \/ UpstreamLost

\* The threads run.  The upstream server, while it is there, handles what it
\* is sent; nothing obliges it to stay or to emit anything.
BridgeFairness ==
    /\ WF_bridgeVars(TeardownStep)
    /\ WF_bridgeVars(ClientWorkerStep)
    /\ WF_bridgeVars(UpstreamHandles)
    /\ WF_bridgeVars(UpstreamDisconnect)
-----------------------------------------------------------------------------
\* An emit never runs on a connection that is destroyed: what the emit_st lock
\* and active are for, between the client's worker and the dispatch worker.
NoEmitAfterTeardown == \A s \in route.holds : sess[s] \notin {"destroying", "gone"}

\* Events reach a session in the order of the upstream server and at most
\* once; when a broadcast met no closed connection, every session that was
\* there for all of it has the event.
EventsReachTheOpen ==
    /\ \A s \in Sessions : \A i, j \in DOMAIN routed[s] : i < j => routed[s][i] < routed[s][j]
    /\ route.at = "local" /\ (\A s \in route.all : sess[s] = "open") =>
          \A s \in route.all : Contains(routed[s], route.ev)

\* A session that is gone leaves no object on the upstream server once what
\* the bridge sent has been handled, whatever it created and however it ended.
NoOrphans ==
    \A s \in Sessions :
        sess[s] = "gone" /\ objs[s] > 0 =>
            \E i \in DOMAIN upq : upq[i].op = "destroy_group" /\ upq[i].group = s

\* A relay that blocks a dispatch worker ends: with the answer, or with the
\* failure of what is pending when the upstream server is gone.  So stop()
\* returns, although it joins the dispatch workers first and only then
\* disconnects from the upstream server that they may be waiting for.
RelaysEnd ==
    LET waiting == own.stage = "stopping" \/ \E w \in BridgeWorkers : worker[w].at = "get"
    IN waiting ~> ~waiting
=============================================================================
