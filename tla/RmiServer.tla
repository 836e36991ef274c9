------------------------------ MODULE RmiServer ------------------------------
(***************************************************************************)
(* rmi::server: the accept thread, the bounded pool of dispatch workers,   *)
(* the life of a session from accept() to teardown_session(), the request  *)
(* handlers with the objects and object groups they manage, and stop().    *)
(*                                                                         *)
(* A connection, the session_slot built for it and its context share one   *)
(* identity here: an element of Conns.  generate_id() steps a 32-bit       *)
(* counter by an odd constant and mixes it bijectively, so an id is not    *)
(* handed out twice before the counter wraps: a number, never reused, here.*)
(* Whatever application code decides (does a hook throw, is the class      *)
(* registered, does authentication accept) is a nondeterministic choice,   *)
(* but for the virtual hooks around a dispatch, which return normally, and *)
(* try_handle_request(), which only the bridge overrides.  So is a frame's *)
(* content, chosen when it is dequeued: on the wire a frame is its request *)
(* id, a number counted over all clients.                                  *)
(***************************************************************************)
EXTENDS Naturals, Sequences, FiniteSets

CONSTANTS
    Conns,       \* connections that clients may open
    NoConn,      \* no connection
    NumWorkers,  \* size of dispatch_workers_
    Groups,      \* group keys a request may carry, other than 0
    MaxIds,      \* bound: object ids generated over a behaviour
    MaxReqs,     \* bound: frames sent by all clients over a behaviour
    Drains       \* is_closed() waits for queued frames (socket, TLS, pipe)

ASSUME ServerAssumption ==
    /\ NoConn \notin Conns
    /\ NumWorkers \in Nat \ {0}
    /\ MaxIds \in Nat
    /\ MaxReqs \in Nat
    /\ 0 \notin Groups
    /\ Drains \in BOOLEAN

Workers == 0 .. NumWorkers - 1
Ids == 1 .. MaxIds

VARIABLES
    running,      \* server::running_
    stopPc,       \* where the thread that owns the server is
    listening,    \* the transport accepts new connections
    backlog,      \* connections queued in the transport
    acceptPc,     \* accept_thread_
    accepted,     \* the connection start_session() works on
    nextWorker,   \* accept_loop()'s next_worker
    wpc,          \* dispatch worker threads
    sessions,     \* dispatch_worker_state::sessions
    lap,          \* slots of the snapshot `current` not visited yet
    visiting,     \* the slot being visited
    closed,       \* the vector `closed` of a lap
    todo,         \* slots the worker still has to tear down
    registered,   \* keys of session_contexts_
    objects,      \* context::objects
    groups,       \* context::groups
    currentGroup, \* context::current_group
    emit,         \* context::emit_event is set
    link,         \* the client's end of the connection
    shut,         \* close() was called on the server's end
    inbox,        \* frames received and not yet dequeued
    sent,         \* number of frames the clients have sent
    answers,      \* responses sent, per request id
    exempt,       \* history: requests that may stay unanswered
    nextId,       \* ids handed out by generate_id()
    born,         \* history: session and group each object was created for
    destructed,   \* history: runs of __destruct per object
    torn          \* history: runs of teardown_session() per session

serverVars == <<running, stopPc, listening, backlog, acceptPc, accepted, nextWorker>>
workerVars == <<wpc, sessions, lap, visiting, closed, todo>>
ctxVars == <<registered, objects, groups, currentGroup, emit>>
wireVars == <<link, shut, inbox, sent, answers, exempt>>
histVars == <<nextId, born, destructed, torn>>
vars == <<serverVars, workerVars, ctxVars, wireVars, histVars>>

Init ==
    /\ running = FALSE
    /\ stopPc = "down"
    /\ listening = FALSE
    /\ backlog = {}
    /\ acceptPc = "done"
    /\ accepted = NoConn
    /\ nextWorker = 0
    /\ wpc = [w \in Workers |-> "done"]
    /\ sessions = [w \in Workers |-> {}]
    /\ lap = [w \in Workers |-> {}]
    /\ visiting = [w \in Workers |-> NoConn]
    /\ closed = [w \in Workers |-> {}]
    /\ todo = [w \in Workers |-> {}]
    /\ registered = {}
    /\ objects = [c \in Conns |-> {}]
    /\ groups = [c \in Conns |-> [g \in Groups |-> {}]]
    /\ currentGroup = [c \in Conns |-> 0]
    /\ emit = [c \in Conns |-> FALSE]
    /\ link = [c \in Conns |-> "new"]
    /\ shut = [c \in Conns |-> FALSE]
    /\ inbox = [c \in Conns |-> << >>]
    /\ sent = 0
    /\ answers = [n \in 1 .. MaxReqs |-> 0]
    /\ exempt = {}
    /\ nextId = 0
    /\ born = [i \in Ids |-> [conn |-> NoConn, group |-> 0]]
    /\ destructed = [i \in Ids |-> 0]
    /\ torn = [c \in Conns |-> 0]
-----------------------------------------------------------------------------
(***************************************************************************)
(* Transport.  A client opens a connection, sends frames and goes away at  *)
(* any time, with or without a disconnect request.                         *)
(***************************************************************************)
ClientOpen(c) ==
    /\ listening
    /\ link[c] = "new"
    /\ link' = [link EXCEPT ![c] = "open"]
    /\ backlog' = backlog \cup {c}
    /\ UNCHANGED <<running, stopPc, listening, acceptPc, accepted, nextWorker,
                   workerVars, ctxVars, shut, inbox, sent, answers, exempt, histVars>>

ClientSend(c) ==
    /\ link[c] = "open"
    /\ sent < MaxReqs
    /\ sent' = sent + 1
    /\ inbox' = [inbox EXCEPT ![c] = Append(@, sent')]
    /\ UNCHANGED <<serverVars, workerVars, ctxVars, link, shut, answers, exempt, histVars>>

ClientClose(c) ==
    /\ link[c] = "open"
    /\ link' = [link EXCEPT ![c] = "closed"]
    /\ UNCHANGED <<serverVars, workerVars, ctxVars, shut, inbox, sent, answers,
                   exempt, histVars>>

\* server_connection_iface::is_closed(): after close(), or once the peer is
\* gone and (where the transport drains) nothing it sent is left to dequeue.
IsClosed(c) ==
    shut[c] \/ (link[c] = "closed" /\ (Drains => inbox[c] = << >>))
-----------------------------------------------------------------------------
(***************************************************************************)
(* The owner's thread: listen(), and stop() with the two joins it waits    *)
(* for.  listen() raises running_ before the transport starts, and leaves  *)
(* it raised when start() throws.                                          *)
(***************************************************************************)
Listen ==
    /\ stopPc = "down"
    /\ running' = TRUE
    /\ stopPc' = "up"
    /\ listening' = TRUE
    /\ acceptPc' = "check"
    /\ nextWorker' = 0
    /\ wpc' = [w \in Workers |-> "idle"]
    /\ UNCHANGED <<backlog, accepted, sessions, lap, visiting, closed, todo,
                   ctxVars, wireVars, histVars>>

ListenFails ==
    /\ stopPc = "down"
    /\ running' = TRUE
    /\ UNCHANGED <<stopPc, listening, backlog, acceptPc, accepted, nextWorker,
                   workerVars, ctxVars, wireVars, histVars>>

Stop ==
    /\ stopPc \in {"up", "down"}
    /\ running' = FALSE
    /\ stopPc' = "stop_transport"
    /\ UNCHANGED <<listening, backlog, acceptPc, accepted, nextWorker,
                   workerVars, ctxVars, wireVars, histVars>>

StopTransport ==
    /\ stopPc = "stop_transport"
    /\ listening' = FALSE
    /\ stopPc' = "join_accept"
    /\ UNCHANGED <<running, backlog, acceptPc, accepted, nextWorker,
                   workerVars, ctxVars, wireVars, histVars>>

JoinAccept ==
    /\ stopPc = "join_accept"
    /\ acceptPc = "done"
    /\ stopPc' = "join_workers"
    /\ UNCHANGED <<running, listening, backlog, acceptPc, accepted, nextWorker,
                   workerVars, ctxVars, wireVars, histVars>>

\* join_workers(): clearing dispatch_workers_ destroys the slots left in it.
JoinWorkers ==
    /\ stopPc = "join_workers"
    /\ \A w \in Workers : wpc[w] = "done"
    /\ sessions' = [w \in Workers |-> {}]
    /\ stopPc' = "down"
    /\ UNCHANGED <<running, listening, backlog, acceptPc, accepted, nextWorker,
                   wpc, lap, visiting, closed, todo, ctxVars, wireVars, histVars>>
-----------------------------------------------------------------------------
(***************************************************************************)
(* The accept thread.                                                      *)
(***************************************************************************)
AcceptLoop ==
    /\ acceptPc = "check"
    /\ acceptPc' = IF running THEN "accept" ELSE "done"
    /\ UNCHANGED <<running, stopPc, listening, backlog, accepted, nextWorker,
                   workerVars, ctxVars, wireVars, histVars>>

\* accept() hands over a queued connection, also when stop() was called since.
Accept(c) ==
    /\ acceptPc = "accept"
    /\ c \in backlog
    /\ backlog' = backlog \ {c}
    /\ accepted' = c
    /\ acceptPc' = "create"
    /\ UNCHANGED <<running, stopPc, listening, nextWorker, workerVars, ctxVars,
                   wireVars, histVars>>

\* accept() comes back empty-handed only when nothing is queued, or once the
\* transport was stopped.
AcceptTimeout ==
    /\ acceptPc = "accept"
    /\ backlog = {} \/ ~listening
    /\ acceptPc' = "check"
    /\ UNCHANGED <<running, stopPc, listening, backlog, accepted, nextWorker,
                   workerVars, ctxVars, wireVars, histVars>>

\* start_session(), up to on_session_created(): the context exists, can emit
\* events and is registered, but no worker owns the slot yet.
RegisterSession ==
    /\ acceptPc = "create"
    /\ registered' = registered \cup {accepted}
    /\ emit' = [emit EXCEPT ![accepted] = TRUE]
    /\ acceptPc' = "push"
    /\ UNCHANGED <<running, stopPc, listening, backlog, accepted, nextWorker,
                   workerVars, objects, groups, currentGroup, wireVars, histVars>>

\* Mutant of AssignSession: next_worker runs past the end of the pool.
AssignSessionNoWrap ==
    /\ acceptPc = "push"
    /\ sessions' = [sessions EXCEPT ![nextWorker] = @ \cup {accepted}]
    /\ nextWorker' = nextWorker + 1
    /\ accepted' = NoConn
    /\ acceptPc' = "check"
    /\ UNCHANGED <<running, stopPc, listening, backlog, wpc, lap, visiting,
                   closed, todo, ctxVars, wireVars, histVars>>

\* start_session()'s last statement: the slot goes to its worker.
AssignSession ==
    /\ acceptPc = "push"
    /\ sessions' = [sessions EXCEPT ![nextWorker] = @ \cup {accepted}]
    /\ nextWorker' = (nextWorker + 1) % NumWorkers
    /\ accepted' = NoConn
    /\ acceptPc' = "check"
    /\ UNCHANGED <<running, stopPc, listening, backlog, wpc, lap, visiting,
                   closed, todo, ctxVars, wireVars, histVars>>
-----------------------------------------------------------------------------
(***************************************************************************)
(* Request handlers.  Each describes what dispatching request n of session *)
(* c does to the context and which responses leave; they run under the     *)
(* context's write lock, on the worker that owns the session.              *)
(***************************************************************************)
tableVars == <<objects, groups, nextId, born, destructed>>

\* send_response() or send_error() for request n.
Answer(n) == answers' = [answers EXCEPT ![n] = @ + 1]

\* A handler that leaves the context as it is and answers once.
AnswerOnly(n) ==
    /\ Answer(n)
    /\ UNCHANGED <<tableVars, emit, shut, exempt>>

\* Mutant of PutObject: the id is not filed under its group.
PutObjectUnfiled(c, g) ==
    /\ nextId < MaxIds
    /\ nextId' = nextId + 1
    /\ objects' = [objects EXCEPT ![c] = @ \cup {nextId'}]
    /\ born' = [born EXCEPT ![nextId'] = [conn |-> c, group |-> g]]
    /\ UNCHANGED groups

\* context::put_object() of a fresh id, while current_group is g.
PutObject(c, g) ==
    /\ nextId < MaxIds
    /\ nextId' = nextId + 1
    /\ objects' = [objects EXCEPT ![c] = @ \cup {nextId'}]
    /\ groups' = [groups EXCEPT ![c] =
                    [h \in Groups |-> IF h = g THEN @[h] \cup {nextId'} ELSE @[h]]]
    /\ born' = [born EXCEPT ![nextId'] = [conn |-> c, group |-> g]]

\* __destruct runs on every object of S, failures ignored.
Destruct(S) ==
    destructed' = [i \in Ids |-> IF i \in S THEN destructed[i] + 1 ELSE destructed[i]]

\* cleanup_context()
CleanupContext(c) ==
    /\ Destruct(objects[c])
    /\ objects' = [objects EXCEPT ![c] = {}]
    /\ groups' = [groups EXCEPT ![c] = [g \in Groups |-> {}]]
    /\ emit' = [emit EXCEPT ![c] = FALSE]

\* An undecodable frame: the error response carries no request id.
HandleMalformed(c, n) ==
    /\ exempt' = exempt \cup {n}
    /\ UNCHANGED <<tableVars, emit, shut, answers, currentGroup>>

\* handle_request()'s checks: operation missing, not a request, bad version.
RejectRequest(c, n) ==
    /\ AnswerOnly(n)
    /\ UNCHANGED currentGroup

HandleConnect(c, n) == AnswerOnly(n)

HandleDescribe(c, n) == AnswerOnly(n)

HandleDictionary(c, n) == AnswerOnly(n)

HandleHelp(c, n) == AnswerOnly(n)

HandleUnknown(c, n) == AnswerOnly(n)

\* The fields of an object are not modelled: clear, set and get, with their
\* hooks, leave the object table alone and answer once, found or not.
HandleClear(c, n, oid) == AnswerOnly(n)

HandleSet(c, n, oid) == AnswerOnly(n)

HandleGet(c, n, oid) == AnswerOnly(n)

\* No class, a failed factory or a throwing __construct store nothing.
HandleInstantiate(c, n, g) ==
    \/ AnswerOnly(n)
    \/ /\ PutObject(c, g)
       /\ Answer(n)
       /\ UNCHANGED <<destructed, emit, shut, exempt>>

\* Mutant of HandleCall: an unknown object returns without send_error().
HandleCallSilent(c, n, g, oid, oneway) ==
    /\ exempt' = IF oneway THEN exempt \cup {n} ELSE exempt
    /\ UNCHANGED <<emit, shut, destructed>>
    /\ \/ UNCHANGED <<answers, objects, groups, nextId, born>>
       \/ /\ oid \in objects[c]
          /\ IF oneway THEN UNCHANGED answers ELSE Answer(n)
          /\ PutObject(c, g) \/ UNCHANGED <<objects, groups, nextId, born>>

\* An unknown object or a missing method name is answered even when oneway;
\* the method body may create objects through put_object().
HandleCall(c, n, g, oid, oneway) ==
    /\ exempt' = IF oneway THEN exempt \cup {n} ELSE exempt
    /\ UNCHANGED <<emit, shut, destructed>>
    /\ \/ /\ Answer(n)
          /\ UNCHANGED <<objects, groups, nextId, born>>
       \/ /\ oid \in objects[c]
          /\ IF oneway THEN UNCHANGED answers ELSE Answer(n)
          /\ PutObject(c, g) \/ UNCHANGED <<objects, groups, nextId, born>>

HandleDestroy(c, n, oid) ==
    /\ Answer(n)
    /\ Destruct({oid} \cap objects[c])
    /\ objects' = [objects EXCEPT ![c] = @ \ {oid}]
    /\ UNCHANGED <<groups, nextId, born, emit, shut, exempt>>

\* Mutant of HandleDestroyGroup: ids already destroyed are not skipped.
HandleDestroyGroupNoSkip(c, n, g) ==
    /\ Answer(n)
    /\ \/ /\ g = 0
          /\ UNCHANGED <<objects, groups, destructed>>
       \/ /\ g # 0
          /\ Destruct(groups[c][g])
          /\ objects' = [objects EXCEPT ![c] = @ \ groups[c][g]]
          /\ groups' = [groups EXCEPT ![c][g] = {}]
    /\ UNCHANGED <<nextId, born, emit, shut, exempt>>

\* Ids of the group that were destroyed one by one are skipped.
HandleDestroyGroup(c, n, g) ==
    /\ Answer(n)
    /\ \/ /\ g = 0
          /\ UNCHANGED <<objects, groups, destructed>>
       \/ /\ g # 0
          /\ Destruct(groups[c][g] \cap objects[c])
          /\ objects' = [objects EXCEPT ![c] = @ \ groups[c][g]]
          /\ groups' = [groups EXCEPT ![c][g] = {}]
    /\ UNCHANGED <<nextId, born, emit, shut, exempt>>

HandleDisconnect(c, n) ==
    /\ CleanupContext(c)
    /\ Answer(n)
    /\ shut' = [shut EXCEPT ![c] = TRUE]
    /\ UNCHANGED <<nextId, born, exempt>>

\* The part of handle_request() after its checks.
Dispatch(c, n, g, oid, oneway) ==
    /\ currentGroup' = [currentGroup EXCEPT ![c] = g]
    /\ \/ HandleConnect(c, n)
       \/ HandleDescribe(c, n)
       \/ HandleDictionary(c, n)
       \/ HandleHelp(c, n)
       \/ HandleUnknown(c, n)
       \/ HandleClear(c, n, oid)
       \/ HandleSet(c, n, oid)
       \/ HandleGet(c, n, oid)
       \/ HandleInstantiate(c, n, g)
       \/ HandleCall(c, n, g, oid, oneway)
       \/ HandleDestroy(c, n, oid)
       \/ HandleDestroyGroup(c, n, g)
       \/ HandleDisconnect(c, n)

HandleRequest(c, n) ==
    \/ HandleMalformed(c, n)
    \/ RejectRequest(c, n)
    \/ \E g \in Groups \cup {0}, oid \in Ids, oneway \in BOOLEAN :
         Dispatch(c, n, g, oid, oneway)
-----------------------------------------------------------------------------
(***************************************************************************)
(* A dispatch worker: laps over a snapshot of its sessions, tears down the *)
(* ones found closed, and sweeps what is left once running_ is false.  The *)
(* order within a lap is left open.                                        *)
(***************************************************************************)
StartLap(w) ==
    /\ wpc[w] = "idle"
    /\ running
    /\ sessions[w] # {}
    /\ lap' = [lap EXCEPT ![w] = sessions[w]]
    /\ wpc' = [wpc EXCEPT ![w] = "lap"]
    /\ UNCHANGED <<serverVars, sessions, visiting, closed, todo, ctxVars,
                   wireVars, histVars>>

VisitClosed(w, c) ==
    /\ wpc[w] = "lap"
    /\ running
    /\ c \in lap[w]
    /\ IsClosed(c)
    /\ lap' = [lap EXCEPT ![w] = @ \ {c}]
    /\ closed' = [closed EXCEPT ![w] = @ \cup {c}]
    /\ UNCHANGED <<serverVars, wpc, sessions, visiting, todo, ctxVars,
                   wireVars, histVars>>

\* Mutant of VisitOpen: the lap does not move on to the next slot.
VisitOpenNoAdvance(w, c) ==
    /\ wpc[w] = "lap"
    /\ running
    /\ c \in lap[w]
    /\ ~IsClosed(c)
    /\ visiting' = [visiting EXCEPT ![w] = c]
    /\ wpc' = [wpc EXCEPT ![w] = "receive"]
    /\ UNCHANGED <<serverVars, sessions, lap, closed, todo, ctxVars, wireVars, histVars>>

VisitOpen(w, c) ==
    /\ wpc[w] = "lap"
    /\ running
    /\ c \in lap[w]
    /\ ~IsClosed(c)
    /\ lap' = [lap EXCEPT ![w] = @ \ {c}]
    /\ visiting' = [visiting EXCEPT ![w] = c]
    /\ wpc' = [wpc EXCEPT ![w] = "receive"]
    /\ UNCHANGED <<serverVars, sessions, closed, todo, ctxVars, wireVars, histVars>>

\* service_session(): dequeue one frame and dispatch it ...
ServiceSession(w) ==
    /\ wpc[w] = "receive"
    /\ LET c == visiting[w] IN
         /\ inbox[c] # << >>
         /\ inbox' = [inbox EXCEPT ![c] = Tail(@)]
         /\ HandleRequest(c, Head(inbox[c]))
    /\ wpc' = [wpc EXCEPT ![w] = "serviced"]
    /\ UNCHANGED <<serverVars, sessions, lap, visiting, closed, todo,
                   registered, link, sent, torn>>

\* ... or find nothing within kDispatchPollTimeout.
ReceiveTimeout(w) ==
    /\ wpc[w] = "receive"
    /\ inbox[visiting[w]] = << >>
    /\ wpc' = [wpc EXCEPT ![w] = "serviced"]
    /\ UNCHANGED <<serverVars, sessions, lap, visiting, closed, todo, ctxVars,
                   wireVars, histVars>>

CheckServiced(w) ==
    /\ wpc[w] = "serviced"
    /\ closed' = [closed EXCEPT ![w] =
                    IF IsClosed(visiting[w]) THEN @ \cup {visiting[w]} ELSE @]
    /\ visiting' = [visiting EXCEPT ![w] = NoConn]
    /\ wpc' = [wpc EXCEPT ![w] = "lap"]
    /\ UNCHANGED <<serverVars, sessions, lap, todo, ctxVars, wireVars, histVars>>

\* Mutant of EndLap: the lap does not break off when running_ turns false.
EndLapNoBreak(w) ==
    /\ wpc[w] = "lap"
    /\ lap[w] = {}
    /\ todo' = [todo EXCEPT ![w] = closed[w]]
    /\ wpc' = [wpc EXCEPT ![w] = "teardown"]
    /\ UNCHANGED <<serverVars, sessions, lap, visiting, closed, ctxVars, wireVars, histVars>>

\* The lap is complete, or cut short by running_ turning false.
EndLap(w) ==
    /\ wpc[w] = "lap"
    /\ lap[w] = {} \/ ~running
    /\ lap' = [lap EXCEPT ![w] = {}]
    /\ todo' = [todo EXCEPT ![w] = closed[w]]
    /\ wpc' = [wpc EXCEPT ![w] = "teardown"]
    /\ UNCHANGED <<serverVars, sessions, visiting, closed, ctxVars, wireVars, histVars>>

TeardownSession(w, c) ==
    /\ wpc[w] \in {"teardown", "sweep"}
    /\ c \in todo[w]
    /\ CleanupContext(c)
    /\ registered' = registered \ {c}
    /\ todo' = [todo EXCEPT ![w] = @ \ {c}]
    /\ torn' = [torn EXCEPT ![c] = @ + 1]
    /\ UNCHANGED <<serverVars, wpc, sessions, lap, visiting, closed,
                   currentGroup, wireVars, nextId, born>>

\* Mutant of EraseClosed: torn down slots stay in the worker's list.
EraseClosedKeepsSlots(w) ==
    /\ wpc[w] = "teardown"
    /\ todo[w] = {}
    /\ closed' = [closed EXCEPT ![w] = {}]
    /\ wpc' = [wpc EXCEPT ![w] = "idle"]
    /\ UNCHANGED <<serverVars, sessions, lap, visiting, todo, ctxVars, wireVars, histVars>>

\* Drop the closed slots from the worker's list; a slot without a list is
\* destroyed with its connection.
EraseClosed(w) ==
    /\ wpc[w] = "teardown"
    /\ todo[w] = {}
    /\ sessions' = [sessions EXCEPT ![w] = @ \ closed[w]]
    /\ closed' = [closed EXCEPT ![w] = {}]
    /\ wpc' = [wpc EXCEPT ![w] = "idle"]
    /\ UNCHANGED <<serverVars, lap, visiting, todo, ctxVars, wireVars, histVars>>

StartSweep(w) ==
    /\ wpc[w] = "idle"
    /\ ~running
    /\ todo' = [todo EXCEPT ![w] = sessions[w]]
    /\ sessions' = [sessions EXCEPT ![w] = {}]
    /\ wpc' = [wpc EXCEPT ![w] = "sweep"]
    /\ UNCHANGED <<serverVars, lap, visiting, closed, ctxVars, wireVars, histVars>>

EndSweep(w) ==
    /\ wpc[w] = "sweep"
    /\ todo[w] = {}
    /\ wpc' = [wpc EXCEPT ![w] = "done"]
    /\ UNCHANGED <<serverVars, sessions, lap, visiting, closed, todo, ctxVars,
                   wireVars, histVars>>
-----------------------------------------------------------------------------
AcceptThread ==
    \/ AcceptLoop
    \/ \E c \in Conns : Accept(c)
    \/ AcceptTimeout
    \/ RegisterSession
    \/ AssignSession

WorkerThread(w) ==
    \/ StartLap(w)
    \/ \E c \in Conns : VisitClosed(w, c) \/ VisitOpen(w, c) \/ TeardownSession(w, c)
    \/ ServiceSession(w)
    \/ ReceiveTimeout(w)
    \/ CheckServiced(w)
    \/ EndLap(w)
    \/ EraseClosed(w)
    \/ StartSweep(w)
    \/ EndSweep(w)

StopThread == StopTransport \/ JoinAccept \/ JoinWorkers

Client(c) == ClientOpen(c) \/ ClientSend(c) \/ ClientClose(c)

Next ==
    \/ Listen
    \/ ListenFails
    \/ Stop
    \/ StopThread
    \/ AcceptThread
    \/ \E w \in Workers : WorkerThread(w)
    \/ \E c \in Conns : Client(c)

Spec == Init /\ [][Next]_vars

(***************************************************************************)
(* Every thread the server starts is scheduled, and a stop() that began    *)
(* goes on.  Handlers return: nothing here waits for a client.             *)
(***************************************************************************)
Fairness ==
    /\ WF_vars(StopThread)
    /\ WF_vars(AcceptThread)
    /\ \A w \in Workers : WF_vars(WorkerThread(w))

FairSpec == Spec /\ Fairness
-----------------------------------------------------------------------------
(***************************************************************************)
(* Properties.                                                             *)
(***************************************************************************)
ServerType ==
    /\ running \in BOOLEAN
    /\ stopPc \in {"down", "up", "stop_transport", "join_accept", "join_workers"}
    /\ listening \in BOOLEAN
    /\ backlog \in SUBSET Conns
    /\ acceptPc \in {"check", "accept", "create", "push", "done"}
    /\ accepted \in Conns \cup {NoConn}
    /\ accepted \in Conns <=> acceptPc \in {"create", "push"}
    /\ nextWorker \in Workers
    /\ stopPc \in {"join_workers", "down"} => acceptPc = "done"

WorkerType ==
    /\ wpc \in [Workers -> {"idle", "lap", "receive", "serviced", "teardown",
                            "sweep", "done"}]
    /\ sessions \in [Workers -> SUBSET Conns]
    /\ lap \in [Workers -> SUBSET Conns]
    /\ visiting \in [Workers -> Conns \cup {NoConn}]
    /\ \A w \in Workers : visiting[w] \in Conns <=> wpc[w] \in {"receive", "serviced"}
    /\ stopPc = "down" => \A w \in Workers : wpc[w] = "done"
    /\ closed \in [Workers -> SUBSET Conns]
    /\ todo \in [Workers -> SUBSET Conns]

ContextType ==
    /\ registered \in SUBSET Conns
    /\ objects \in [Conns -> SUBSET Ids]
    /\ groups \in [Conns -> [Groups -> SUBSET Ids]]
    /\ currentGroup \in [Conns -> Groups \cup {0}]
    /\ emit \in [Conns -> BOOLEAN]

WireType ==
    /\ link \in [Conns -> {"new", "open", "closed"}]
    /\ shut \in [Conns -> BOOLEAN]
    /\ inbox \in [Conns -> Seq(1 .. MaxReqs)]
    /\ sent \in 0 .. MaxReqs
    /\ answers \in [1 .. MaxReqs -> Nat]
    /\ exempt \in SUBSET (1 .. MaxReqs)

HistoryType ==
    /\ nextId \in 0 .. MaxIds
    /\ born \in [Ids -> [conn : Conns \cup {NoConn}, group : Groups \cup {0}]]
    /\ destructed \in [Ids -> Nat]
    /\ torn \in [Conns -> Nat]

\* Every variable keeps the shape of the member it stands for; start_session()
\* and service_session() always have a connection to work on, and no thread is
\* left running when stop() has returned.
TypeOK == ServerType /\ WorkerType /\ ContextType /\ WireType /\ HistoryType

\* teardown_session() runs at most once per session, whether the connection
\* was found closed before the receive, after it, or by the shutdown sweep;
\* and nothing revives a session that was torn down: its context keeps no
\* object, cannot emit events and is out of session_contexts_.
TornDownOnce ==
    \A c \in Conns : torn[c] > 0 =>
        /\ torn[c] = 1
        /\ c \notin registered
        /\ ~emit[c]
        /\ objects[c] = {}

\* Every object the server ever created is either in the table of the session
\* that created it, its __destruct not run, or gone from every table with
\* __destruct run exactly once - whichever of destroy, destroy_group,
\* disconnect, a lost connection and shutdown came first.
DestructedOnce ==
    \A i \in Ids :
        IF \E c \in Conns : i \in objects[c]
        THEN destructed[i] = 0 /\ \A c \in Conns : i \in objects[c] => born[i].conn = c
        ELSE destructed[i] = IF i <= nextId THEN 1 ELSE 0

\* A live object created while a request of group g was dispatched is still
\* filed under g in its own session, so that destroy_group reaches it, and no
\* other group reaches it.
GroupsReachTheirObjects ==
    \A c \in Conns : \A i \in objects[c] : \A g \in Groups :
        i \in groups[c][g] <=> born[i].group = g

\* Each frame dequeued by service_session() is answered exactly once, through
\* every early return and exception path, but for oneway calls and frames that
\* could not be decoded.
AnsweredOnce ==
    \A n \in 1 .. MaxReqs :
        LET queued == \E c \in Conns : \E k \in 1 .. Len(inbox[c]) : inbox[c][k] = n
        IN  IF n > sent \/ queued
            THEN answers[n] = 0
            ELSE answers[n] = 1 \/ (n \in exempt /\ answers[n] = 0)

\* A worker that has not begun its shutdown sweep.
Serving(w) == wpc[w] \notin {"sweep", "done"}

\* A session whose connection is closed while its worker still serves is torn
\* down eventually, also when stop() interrupts the lap that found it closed.
ClosedSessionsTornDown ==
    \A c \in Conns, w \in Workers :
        (c \in sessions[w] /\ Serving(w) /\ IsClosed(c)) ~> (torn[c] > 0)

\* Frames queued on a session of a serving worker are all served, unless the
\* session goes away or the server stops: no session of a lap is starved.
FramesServed ==
    \A c \in Conns, w \in Workers :
        (c \in sessions[w] /\ Serving(w) /\ inbox[c] # << >>)
            ~> (inbox[c] = << >> \/ torn[c] > 0 \/ ~running)

\* A dispatch worker starves none of its sessions, and ends those it finds
\* closed, whatever the accept thread adds to its list during a lap.
SessionsServed == FramesServed /\ ClosedSessionsTornDown

\* stop() returns: the accept thread and every worker see running_ false and
\* finish whatever they were doing.
StopReturns == stopPc = "stop_transport" ~> stopPc = "down"

\* What join_workers() documents: once every worker is joined, every session
\* has been torn down.
AllTornDownAfterStop ==
    stopPc = "down" => registered = {}
=============================================================================
