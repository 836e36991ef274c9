------------------------------ MODULE RmiClient ------------------------------
(***************************************************************************)
(* rmi::client: one client object, its worker and event threads, the       *)
(* requests that application threads and event handlers have in flight,    *)
(* and connect(), disconnect() and the destructor on the owner's thread.   *)
(*                                                                         *)
(* event_queue_ is a bison::synchronized: its wait() evaluates the         *)
(* predicate under the lock and then blocks, while notify_one() and the    *)
(* stores to running_ take no lock; the two halves of the wait are two     *)
(* steps here.  Request ids are handed out in order.  The peer is external *)
(* and the transport, one of those that override is_connected() (socket,   *)
(* TLS, named pipe), is seen through client_transport_iface: it may lose   *)
(* the connection, or refuse to open or to send, at any time.              *)
(* A oneway request leaves no trace in the client and is left out.         *)
(***************************************************************************)
EXTENDS Naturals, Sequences, FiniteSets

CONSTANTS
    MaxRequests,  \* bound: requests issued over a behaviour
    Reserved,     \* bound: how many of them application threads leave for the others
    MaxEvents,    \* bound: events the peer emits over a behaviour
    MaxSessions,  \* bound: calls of connect() that reach the transport
    MaxWire       \* bound: frames queued in the transport

ASSUME ClientAssumption ==
    /\ MaxRequests \in Nat /\ Reserved \in Nat /\ MaxEvents \in Nat
    /\ MaxSessions \in Nat /\ MaxWire \in Nat

Reqs == 1 .. MaxRequests
Events == 1 .. MaxEvents
Frames == [kind : {"response"}, id : Reqs \cup {0}] \cup [kind : {"event"}, id : Events]

VARIABLES
    isRunning,    \* client::running_
    session,      \* number of sessions started
    ownerPc,      \* the thread that calls connect() and disconnect()
    ownerNext,    \* what it does once both threads are joined
    ownerReq,     \* the request it waits for
    workerPc,     \* worker_ ("none": not joinable)
    workerEvent,  \* the event worker_ is about to queue
    eventPc,      \* event_thread_ ("none": not joinable)
    taskReq,      \* the request the running event handler waits for
    queue,        \* event_queue_
    handled,      \* event_handlers_ has a handler for the peer's events
    issued,       \* requests issued so far
    reqPc,        \* how far send_request_with_group() got, per request
    pending,      \* keys of pending_
    outcome,      \* what the request's future holds
    resolved,     \* history: times the request's promise was set
    opened,       \* the transport believes it is open
    conn,         \* the session whose open() made the current connection
    recvClosed,   \* end of stream was seen, or shutdown() was called
    c2s,          \* requests the peer has not answered
    s2c,          \* frames received and not dequeued
    emitted,      \* events emitted by the peer
    delivered,    \* history: events handed to handlers, in order
    hooks         \* history: calls of on_disconnect(), per session

ownerVars == <<ownerPc, ownerNext, ownerReq>>
receiverVars == <<workerPc, workerEvent>>
eventVars == <<eventPc, taskReq, queue, handled, delivered>>
reqVars == <<issued, reqPc, pending, outcome, resolved>>
linkVars == <<opened, conn, recvClosed, c2s, s2c, emitted>>
clientVars == <<isRunning, session, ownerVars, receiverVars, eventVars, reqVars, linkVars, hooks>>

ClientInit ==
    /\ isRunning = FALSE
    /\ session = 0
    /\ ownerPc = "idle" /\ ownerNext = "idle" /\ ownerReq = 0
    /\ workerPc = "none" /\ workerEvent = 0
    /\ eventPc = "none" /\ taskReq = 0
    /\ queue = << >>
    /\ handled = FALSE
    /\ issued = 0
    /\ reqPc = [r \in Reqs |-> "unused"]
    /\ pending = {}
    /\ outcome = [r \in Reqs |-> "none"]
    /\ resolved = [r \in Reqs |-> 0]
    /\ opened = FALSE /\ conn = 0 /\ recvClosed = FALSE
    /\ c2s = {}
    /\ s2c = << >>
    /\ emitted = 0
    /\ delivered = << >>
    /\ hooks = [k \in 1 .. MaxSessions |-> 0]
-----------------------------------------------------------------------------
(***************************************************************************)
(* Requests.                                                               *)
(***************************************************************************)
\* Set the promises of the requests in S, all with the same result.
Resolve(S, result) ==
    /\ outcome' = [r \in Reqs |-> IF r \in S THEN result ELSE outcome[r]]
    /\ resolved' = [r \in Reqs |-> IF r \in S THEN resolved[r] + 1 ELSE resolved[r]]

\* Allocate the next request id; the caller goes on with InsertRequest.
NewRequest ==
    /\ issued < MaxRequests
    /\ issued' = issued + 1
    /\ reqPc' = [reqPc EXCEPT ![issued'] = "insert"]
    /\ UNCHANGED <<pending, outcome, resolved>>

\* Application threads stop using the client before they destroy it.
Usable == ownerPc # "destroyed" /\ ownerNext # "destroyed"

\* describe(), get_dictionary(), get_help(), instantiate(), and the calls of
\* proxies, on an application thread.
StartRequest ==
    /\ Usable
    /\ issued + Reserved < MaxRequests
    /\ NewRequest
    /\ UNCHANGED <<isRunning, session, ownerVars, receiverVars, eventVars, linkVars, hooks>>

\* destroy_object(): the handlers go first, then OP_DESTROY is sent.
DestroyObject ==
    /\ Usable
    /\ issued + Reserved < MaxRequests
    /\ handled
    /\ handled' = FALSE
    /\ NewRequest
    /\ UNCHANGED <<isRunning, session, ownerVars, receiverVars, eventPc, taskReq, queue,
                   delivered, linkVars, hooks>>

RegisterEventHandler ==
    /\ Usable
    /\ handled' = TRUE
    /\ UNCHANGED <<isRunning, session, ownerVars, receiverVars, eventPc, taskReq, queue,
                   delivered, reqVars, linkVars, hooks>>

\* Mutant of InsertRequest: running_ is not looked at under pending_'s lock.
InsertRequestUnchecked(r) ==
    /\ reqPc[r] = "insert"
    /\ pending' = pending \cup {r}
    /\ reqPc' = [reqPc EXCEPT ![r] = "send"]
    /\ UNCHANGED <<isRunning, session, ownerVars, receiverVars, eventVars, issued,
                   outcome, resolved, linkVars, hooks>>

\* Under pending_'s lock: queue the promise, or fail it when running_ is false.
InsertRequest(r) ==
    /\ reqPc[r] = "insert"
    /\ IF isRunning
       THEN /\ pending' = pending \cup {r}
            /\ reqPc' = [reqPc EXCEPT ![r] = "send"]
            /\ UNCHANGED <<outcome, resolved>>
       ELSE /\ Resolve({r}, "error")
            /\ reqPc' = [reqPc EXCEPT ![r] = "returned"]
            /\ UNCHANGED pending
    /\ UNCHANGED <<isRunning, session, ownerVars, receiverVars, eventVars, issued,
                   linkVars, hooks>>

\* A frame sent after the connection is gone is lost without an error.
SendRequest(r) ==
    /\ reqPc[r] = "send"
    /\ reqPc' = [reqPc EXCEPT ![r] = "returned"]
    /\ c2s' = IF recvClosed THEN c2s ELSE c2s \cup {r}
    /\ UNCHANGED <<isRunning, session, ownerVars, receiverVars, eventVars, issued, pending,
                   outcome, resolved, opened, conn, recvClosed, s2c, emitted, hooks>>

\* The transport throws: the promise is failed unless it was already taken, and
\* the exception leaves send_request().
SendFails(r) ==
    /\ reqPc[r] = "send"
    /\ reqPc' = [reqPc EXCEPT ![r] = "threw"]
    /\ Resolve({r} \cap pending, "error")
    /\ pending' = pending \ {r}
    /\ UNCHANGED <<isRunning, session, ownerVars, receiverVars, eventVars, issued,
                   linkVars, hooks>>

\* The call of send_request() is over, and its future is ready if it gave one.
Completed(r) ==
    \/ reqPc[r] = "threw"
    \/ reqPc[r] = "returned" /\ outcome[r] # "none"

\* fail_all_pending()
FailAllPending ==
    /\ Resolve(pending, "error")
    /\ pending' = {}
-----------------------------------------------------------------------------
(***************************************************************************)
(* The peer and the connection.                                            *)
(***************************************************************************)
Receivable == opened /\ ~recvClosed /\ Len(s2c) < MaxWire

\* The answer names the request, or nothing when the peer could not decode it.
PeerAnswers(r) ==
    /\ Receivable
    /\ r \in c2s
    /\ c2s' = c2s \ {r}
    /\ \E id \in {r, 0} : s2c' = Append(s2c, [kind |-> "response", id |-> id])
    /\ UNCHANGED <<isRunning, session, ownerVars, receiverVars, eventVars, reqVars,
                   opened, conn, recvClosed, emitted, hooks>>

PeerEmits ==
    /\ Receivable
    /\ emitted < MaxEvents
    /\ emitted' = emitted + 1
    /\ s2c' = Append(s2c, [kind |-> "event", id |-> emitted'])
    /\ UNCHANGED <<isRunning, session, ownerVars, receiverVars, eventVars, reqVars,
                   opened, conn, recvClosed, c2s, hooks>>

PeerCloses ==
    /\ opened /\ ~recvClosed
    /\ recvClosed' = TRUE
    /\ UNCHANGED <<isRunning, session, ownerVars, receiverVars, eventVars, reqVars,
                   opened, conn, c2s, s2c, emitted, hooks>>
-----------------------------------------------------------------------------
(***************************************************************************)
(* worker_loop() and process_frame().                                      *)
(***************************************************************************)
\* notify_one(): only a thread that is already blocked is woken.
Wake == eventPc' = IF eventPc = "blocked" THEN "check" ELSE eventPc

WorkerLoop ==
    /\ workerPc = "loop"
    /\ workerPc' = IF isRunning THEN "receive" ELSE "exit"
    /\ UNCHANGED <<isRunning, session, ownerVars, workerEvent, eventVars, reqVars,
                   linkVars, hooks>>

\* Mutant of ProcessResponse: the promise is set but not taken out of pending_.
ProcessResponseKeepsPromise ==
    /\ workerPc = "receive"
    /\ s2c # << >> /\ Head(s2c).kind = "response"
    /\ \E result \in {"value", "error"} : Resolve({Head(s2c).id} \cap pending, result)
    /\ s2c' = Tail(s2c)
    /\ workerPc' = "loop"
    /\ UNCHANGED <<isRunning, session, ownerVars, workerEvent, eventVars, issued, reqPc,
                   pending, opened, conn, recvClosed, c2s, emitted, hooks>>

\* A response that names no pending request is dropped.
ProcessResponse ==
    /\ workerPc = "receive"
    /\ s2c # << >> /\ Head(s2c).kind = "response"
    /\ \E result \in {"value", "error"} : Resolve({Head(s2c).id} \cap pending, result)
    /\ pending' = pending \ {Head(s2c).id}
    /\ s2c' = Tail(s2c)
    /\ workerPc' = "loop"
    /\ UNCHANGED <<isRunning, session, ownerVars, workerEvent, eventVars, issued, reqPc,
                   opened, conn, recvClosed, c2s, emitted, hooks>>

\* The handler is copied out of event_handlers_ before the event is queued.
ProcessEvent ==
    /\ workerPc = "receive"
    /\ s2c # << >> /\ Head(s2c).kind = "event"
    /\ workerEvent' = IF handled THEN Head(s2c).id ELSE 0
    /\ workerPc' = IF handled THEN "push" ELSE "loop"
    /\ s2c' = Tail(s2c)
    /\ UNCHANGED <<isRunning, session, ownerVars, eventVars, reqVars, opened, conn,
                   recvClosed, c2s, emitted, hooks>>

\* event_loop() holds the queue's lock from its predicate until it blocks.
PushEvent ==
    /\ workerPc = "push"
    /\ eventPc # "blocking"
    /\ queue' = Append(queue, workerEvent)
    /\ workerEvent' = 0
    /\ workerPc' = "notify"
    /\ UNCHANGED <<isRunning, session, ownerVars, eventPc, taskReq, handled, delivered,
                   reqVars, linkVars, hooks>>

NotifyEvent ==
    /\ workerPc = "notify"
    /\ Wake
    /\ workerPc' = "loop"
    /\ UNCHANGED <<isRunning, session, ownerVars, workerEvent, taskReq, queue, handled,
                   delivered, reqVars, linkVars, hooks>>

NothingReceived ==
    /\ workerPc = "receive"
    /\ s2c = << >>
    /\ workerPc' = "connected?"
    /\ UNCHANGED <<isRunning, session, ownerVars, workerEvent, eventVars, reqVars,
                   linkVars, hooks>>

\* Mutant of CheckConnected: the state of the connection is not looked at.
CheckConnectedIgnored ==
    /\ workerPc = "connected?"
    /\ workerPc' = "loop"
    /\ UNCHANGED <<isRunning, session, ownerVars, workerEvent, eventVars, reqVars,
                   linkVars, hooks>>

\* The connection's state is read after the receive timed out: frames may have
\* been queued in between.
CheckConnected ==
    /\ workerPc = "connected?"
    /\ IF recvClosed
       THEN isRunning' = FALSE /\ workerPc' = "lost"
       ELSE workerPc' = "loop" /\ UNCHANGED isRunning
    /\ UNCHANGED <<session, ownerVars, workerEvent, eventVars, reqVars, linkVars, hooks>>

LostNotify ==
    /\ workerPc = "lost"
    /\ Wake
    /\ workerPc' = "hook"
    /\ UNCHANGED <<isRunning, session, ownerVars, workerEvent, taskReq, queue, handled,
                   delivered, reqVars, linkVars, hooks>>

LostHook ==
    /\ workerPc = "hook"
    /\ hooks' = [hooks EXCEPT ![session] = @ + 1]
    /\ workerPc' = "loop"
    /\ UNCHANGED <<isRunning, session, ownerVars, workerEvent, eventVars, reqVars, linkVars>>

WorkerExit ==
    /\ workerPc = "exit"
    /\ FailAllPending
    /\ workerPc' = "done"
    /\ UNCHANGED <<isRunning, session, ownerVars, workerEvent, eventVars, issued, reqPc,
                   linkVars, hooks>>

Worker ==
    \/ WorkerLoop \/ ProcessResponse \/ ProcessEvent \/ PushEvent \/ NotifyEvent
    \/ NothingReceived \/ CheckConnected \/ LostNotify \/ LostHook \/ WorkerExit
-----------------------------------------------------------------------------
(***************************************************************************)
(* event_loop().                                                           *)
(***************************************************************************)
\* The predicate of wait(), evaluated under the queue's lock.
EventCheck ==
    /\ eventPc = "check"
    /\ eventPc' = IF queue # << >> \/ ~isRunning THEN "pop" ELSE "blocking"
    /\ UNCHANGED <<isRunning, session, ownerVars, receiverVars, taskReq, queue, handled,
                   delivered, reqVars, linkVars, hooks>>

EventBlock ==
    /\ eventPc = "blocking"
    /\ eventPc' = "blocked"
    /\ UNCHANGED <<isRunning, session, ownerVars, receiverVars, taskReq, queue, handled,
                   delivered, reqVars, linkVars, hooks>>

\* A condition variable may wake without being notified; nothing promises it.
SpuriousWakeup ==
    /\ eventPc = "blocked"
    /\ eventPc' = "check"
    /\ UNCHANGED <<isRunning, session, ownerVars, receiverVars, taskReq, queue, handled,
                   delivered, reqVars, linkVars, hooks>>

\* Mutant of EventPop: the event is handed over but not popped.
EventPopKeepsFront ==
    /\ eventPc = "pop"
    /\ IF queue = << >>
       THEN eventPc' = "done" /\ UNCHANGED <<queue, delivered>>
       ELSE /\ eventPc' = "task"
            /\ delivered' = Append(delivered, Head(queue))
            /\ UNCHANGED queue
    /\ UNCHANGED <<isRunning, session, ownerVars, receiverVars, taskReq, handled, reqVars,
                   linkVars, hooks>>

EventPop ==
    /\ eventPc = "pop"
    /\ IF queue = << >>
       THEN eventPc' = "done" /\ UNCHANGED <<queue, delivered>>
       ELSE /\ eventPc' = "task"
            /\ delivered' = Append(delivered, Head(queue))
            /\ queue' = Tail(queue)
    /\ UNCHANGED <<isRunning, session, ownerVars, receiverVars, taskReq, handled, reqVars,
                   linkVars, hooks>>

\* A handler may make one blocking RMI call ...
TaskCalls ==
    /\ eventPc = "task"
    /\ NewRequest
    /\ taskReq' = issued'
    /\ eventPc' = "task_wait"
    /\ UNCHANGED <<isRunning, session, ownerVars, receiverVars, queue, handled, delivered,
                   linkVars, hooks>>

\* ... and returns once its future is ready, or without calling at all.
TaskReturns ==
    /\ \/ eventPc = "task"
       \/ eventPc = "task_wait" /\ Completed(taskReq)
    /\ taskReq' = 0
    /\ eventPc' = "check"
    /\ UNCHANGED <<isRunning, session, ownerVars, receiverVars, queue, handled, delivered,
                   reqVars, linkVars, hooks>>

EventThread == EventCheck \/ EventBlock \/ EventPop \/ TaskCalls \/ TaskReturns
-----------------------------------------------------------------------------
(***************************************************************************)
(* The owner's thread.  connect() is called on a client that has no        *)
(* session; a connect() that was rejected is followed by disconnect().     *)
(***************************************************************************)
Joinable == workerPc # "none" \/ eventPc # "none"

\* connect() starts with release_closed_session().
Connect ==
    /\ ownerPc = "idle"
    /\ ~isRunning
    /\ session < MaxSessions
    /\ ownerPc' = IF Joinable THEN "shutdown" ELSE "open"
    /\ ownerNext' = "open"
    /\ UNCHANGED <<isRunning, session, ownerReq, receiverVars, eventVars, reqVars,
                   linkVars, hooks>>

\* open() of a transport that believes it is open changes nothing; otherwise a
\* new connection is made.
Open ==
    /\ ownerPc = "open"
    /\ opened' = TRUE
    /\ IF opened
       THEN UNCHANGED <<conn, recvClosed, c2s, s2c>>
       ELSE /\ conn' = session + 1
            /\ recvClosed' = FALSE
            /\ c2s' = {}
            /\ s2c' = << >>
    /\ ownerPc' = "start"
    /\ UNCHANGED <<isRunning, session, ownerNext, ownerReq, receiverVars, eventVars, reqVars,
                   emitted, hooks>>

OpenFails ==
    /\ ownerPc = "open"
    /\ ~opened
    /\ ownerPc' = "idle"
    /\ UNCHANGED <<isRunning, session, ownerNext, ownerReq, receiverVars, eventVars, reqVars,
                   linkVars, hooks>>

\* running_ is raised, both threads start, and OP_CONNECT is built.
StartThreads ==
    /\ ownerPc = "start"
    /\ isRunning' = TRUE
    /\ session' = session + 1
    /\ workerPc' = "loop"
    /\ eventPc' = "check"
    /\ NewRequest
    /\ ownerReq' = issued'
    /\ ownerPc' = "handshake"
    /\ UNCHANGED <<ownerNext, workerEvent, taskReq, queue, handled, delivered,
                   linkVars, hooks>>

\* f.get() returned, or threw with running_ still raised, or OP_CONNECT could
\* not even be sent: connect() is over.
Handshake ==
    /\ ownerPc = "handshake"
    /\ Completed(ownerReq)
    /\ reqPc[ownerReq] = "threw" \/ outcome[ownerReq] = "value" \/ isRunning
    /\ ownerPc' = "idle"
    /\ ownerReq' = 0
    /\ UNCHANGED <<isRunning, session, ownerNext, receiverVars, eventVars, reqVars,
                   linkVars, hooks>>

\* The worker has stopped: join both threads, then report a failed handshake.
HandshakeFails ==
    /\ ownerPc = "handshake"
    /\ Completed(ownerReq)
    /\ reqPc[ownerReq] = "returned" /\ outcome[ownerReq] = "error" /\ ~isRunning
    /\ ownerPc' = "join_worker"
    /\ ownerNext' = "idle"
    /\ ownerReq' = 0
    /\ UNCHANGED <<isRunning, session, receiverVars, eventVars, reqVars, linkVars, hooks>>

\* disconnect() of a running client sends OP_DISCONNECT first.
Disconnect ==
    /\ ownerPc = "idle"
    /\ isRunning
    /\ NewRequest
    /\ ownerReq' = issued'
    /\ ownerNext' = "hook"
    /\ ownerPc' = "goodbye"
    /\ UNCHANGED <<isRunning, session, receiverVars, eventVars, linkVars, hooks>>

\* disconnect() after the worker stopped by itself: release_closed_session().
DisconnectClosed ==
    /\ ownerPc = "idle"
    /\ ~isRunning
    /\ Joinable
    /\ ownerNext' = "idle"
    /\ ownerPc' = "shutdown"
    /\ UNCHANGED <<isRunning, session, ownerReq, receiverVars, eventVars, reqVars,
                   linkVars, hooks>>

\* The acknowledgment arrived, or kDisconnectAckTimeout passed.
StopRunning ==
    /\ ownerPc = "goodbye"
    /\ reqPc[ownerReq] \in {"returned", "threw"}
    /\ isRunning' = FALSE
    /\ ownerReq' = 0
    /\ ownerPc' = "shutdown"
    /\ UNCHANGED <<session, ownerNext, receiverVars, eventVars, reqVars, linkVars, hooks>>

ShutdownTransport ==
    /\ ownerPc = "shutdown"
    /\ opened' = FALSE
    /\ recvClosed' = TRUE
    /\ ownerPc' = "notify"
    /\ UNCHANGED <<isRunning, session, ownerNext, ownerReq, receiverVars, eventVars, reqVars,
                   conn, c2s, s2c, emitted, hooks>>

OwnerNotify ==
    /\ ownerPc = "notify"
    /\ Wake
    /\ ownerPc' = "join_worker"
    /\ UNCHANGED <<isRunning, session, ownerNext, ownerReq, receiverVars, taskReq, queue,
                   handled, delivered, reqVars, linkVars, hooks>>

JoinWorker ==
    /\ ownerPc = "join_worker"
    /\ workerPc \in {"done", "none"}
    /\ workerPc' = "none"
    /\ ownerPc' = "join_event"
    /\ UNCHANGED <<isRunning, session, ownerNext, ownerReq, workerEvent, eventVars, reqVars,
                   linkVars, hooks>>

JoinEvent ==
    /\ ownerPc = "join_event"
    /\ eventPc \in {"done", "none"}
    /\ eventPc' = "none"
    /\ ownerPc' = ownerNext
    /\ UNCHANGED <<isRunning, session, ownerNext, ownerReq, receiverVars, taskReq, queue,
                   handled, delivered, reqVars, linkVars, hooks>>

\* on_disconnect(), then the fail_all_pending() kept as a safety net.
FinishDisconnect ==
    /\ ownerPc = "hook"
    /\ hooks' = [hooks EXCEPT ![session] = @ + 1]
    /\ FailAllPending
    /\ ownerPc' = "idle"
    /\ ownerNext' = "idle"
    /\ UNCHANGED <<isRunning, session, ownerReq, receiverVars, eventVars, issued, reqPc,
                   linkVars>>

\* ~client() once running_ is false: the threads are joined, nothing is
\* notified.  While running_ is true the destructor calls disconnect() first.
Destroy ==
    /\ ownerPc = "idle"
    /\ ~isRunning
    /\ \A r \in Reqs : reqPc[r] \in {"unused", "returned", "threw"}
    /\ ownerNext' = "destroyed"
    /\ ownerPc' = "join_worker"
    /\ UNCHANGED <<isRunning, session, ownerReq, receiverVars, eventVars, reqVars,
                   linkVars, hooks>>

\* The steps of a call that has begun.
OwnerContinues ==
    \/ Open \/ OpenFails \/ StartThreads \/ Handshake \/ HandshakeFails
    \/ StopRunning \/ ShutdownTransport \/ OwnerNotify \/ JoinWorker \/ JoinEvent
    \/ FinishDisconnect

Owner == Connect \/ Disconnect \/ DisconnectClosed \/ Destroy \/ OwnerContinues
-----------------------------------------------------------------------------
Requests ==
    \/ StartRequest
    \/ DestroyObject
    \/ RegisterEventHandler
    \/ \E r \in Reqs : InsertRequest(r) \/ SendRequest(r) \/ SendFails(r)

Peer ==
    \/ \E r \in Reqs : PeerAnswers(r)
    \/ PeerEmits
    \/ PeerCloses

ClientNext == Requests \/ Peer \/ Worker \/ EventThread \/ SpuriousWakeup \/ Owner

ClientSpec == ClientInit /\ [][ClientNext]_clientVars

(***************************************************************************)
(* The client's threads are scheduled, a call that began goes on, and so   *)
(* does a request; the worker gets the lock of event_queue_ when it keeps  *)
(* being released.  The peer owes nothing, and no one has to be woken      *)
(* spuriously.                                                             *)
(***************************************************************************)
ClientFairness ==
    /\ WF_clientVars(Worker) /\ SF_clientVars(PushEvent)
    /\ WF_clientVars(EventThread)
    /\ WF_clientVars(OwnerContinues)
    /\ WF_clientVars(\E r \in Reqs : InsertRequest(r) \/ SendRequest(r) \/ SendFails(r))

ClientFairSpec == ClientSpec /\ ClientFairness
-----------------------------------------------------------------------------
(***************************************************************************)
(* Properties.                                                             *)
(***************************************************************************)
\* A promise is set at most once, and never while it is still in pending_,
\* whichever of the response, a failing send, the worker's exit and
\* disconnect() gets to it (setting one twice throws std::future_error).
PromisesSetOnce ==
    \A r \in Reqs :
        /\ resolved[r] = IF outcome[r] = "none" THEN 0 ELSE 1
        /\ r \in pending => outcome[r] = "none"

\* A future that send_request() has returned is ready, or its promise is where
\* the response or a later fail_all_pending() will find it: once the worker
\* has swept pending_, nothing is left in it or added to it.  When the threads
\* of a session are gone, on_disconnect() has been called for it too, whether
\* the application, the peer or a failed handshake ended it.
NoFutureForgotten ==
    /\ \A r \in Reqs : reqPc[r] \notin {"unused", "insert"} =>
         outcome[r] # "none" \/ r \in pending
    /\ workerPc \in {"done", "none"} => ~isRunning /\ pending = {}
    /\ (session > 0 /\ ~Joinable /\ ownerPc # "hook") => hooks[session] > 0

\* Handlers see events in the order the peer emitted them, each at most once,
\* across sessions too.
EventsInOrder ==
    \A i, j \in 1 .. Len(delivered) : i < j => delivered[i] < delivered[j]

\* Once running_ is false every future handed out in the session becomes ready:
\* no caller and no event handler blocked in an RMI call waits for ever.
FuturesFailed ==
    \A r \in Reqs :
        (reqPc[r] \notin {"unused", "insert"} /\ ~isRunning) ~> (outcome[r] # "none")

\* A connection the peer closed ends the session without any call by the
\* application.
LossNoticed == (isRunning /\ recvClosed) ~> ~isRunning

\* A queued event reaches its handler, unless the session ends or a handler
\* before it waits for a response.
EventsDelivered ==
    \A e \in Events :
        (\E k \in 1 .. Len(queue) : queue[k] = e)
            ~> (~isRunning \/ eventPc = "task_wait" \/ \E k \in 1 .. Len(delivered) : delivered[k] = e)

\* disconnect() and the destructor never wait for the worker for ever.
WorkerJoined == (ownerPc = "join_worker") ~> (ownerPc # "join_worker")

\* A session runs to its end without anybody hanging: what was asked fails or
\* is answered, a lost connection is noticed, events are delivered and the
\* worker can be joined.
ClientSettles == FuturesFailed /\ LossNoticed /\ EventsDelivered /\ WorkerJoined

\* disconnect() returns: a peer, or a handler, cannot make it hang.
DisconnectReturns == (ownerPc = "goodbye") ~> (ownerPc = "idle")

\* A session that connect() starts runs on a connection that this connect()
\* has opened.
FreshConnection == ownerPc = "start" => conn = session + 1
=============================================================================
