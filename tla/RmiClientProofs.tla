--------------------------- MODULE RmiClientProofs ---------------------------
(***************************************************************************)
(* Proofs about RmiClient, for any number of requests, events and sessions *)
(* and any capacity of the wire.                                           *)
(*                                                                         *)
(* ClientTypeOK is inductive: it includes that a connect() under way has a *)
(* session number left to use.  PromisesSetOnce and the first part of      *)
(* NoFutureForgotten need PromiseInv, which follows a request from the     *)
(* allocation of its id; the rest of NoFutureForgotten needs SessionInv,   *)
(* which says who still owes the session its on_disconnect().              *)
(* EventsInOrder needs OrderInv: the events on the wire, with the worker,  *)
(* in event_queue_ and delivered form one ascending line.                  *)
(***************************************************************************)
EXTENDS RmiClient, SeqFacts

OwnerType ==
    /\ isRunning \in BOOLEAN
    /\ session \in 0 .. MaxSessions
    /\ ownerPc \in {"idle", "open", "start", "handshake", "goodbye", "shutdown", "notify",
                    "join_worker", "join_event", "hook", "destroyed"}
    /\ ownerNext \in {"idle", "open", "hook", "destroyed"}
    /\ ownerReq \in 0 .. MaxRequests
    /\ ownerPc \in {"open", "start"} => ownerNext = "open"
    /\ ownerPc = "goodbye" => ownerNext = "hook"
    /\ ownerNext = "open" /\ ownerPc \in {"open", "start", "shutdown", "notify",
                                          "join_worker", "join_event"}
         => session < MaxSessions
    /\ hooks \in [1 .. MaxSessions -> Nat]

ReceiverType ==
    /\ workerPc \in {"none", "loop", "receive", "push", "notify", "connected?", "lost", "hook",
                     "exit", "done"}
    /\ workerEvent \in 0 .. MaxEvents
    /\ workerPc = "push" => workerEvent \in Events

EventType ==
    /\ eventPc \in {"none", "check", "blocking", "blocked", "pop", "task", "task_wait", "done"}
    /\ taskReq \in 0 .. MaxRequests
    /\ queue \in Seq(Events)
    /\ handled \in BOOLEAN
    /\ delivered \in Seq(Events)

ReqType ==
    /\ issued \in 0 .. MaxRequests
    /\ reqPc \in [Reqs -> {"unused", "insert", "send", "returned", "threw"}]
    /\ pending \in SUBSET Reqs
    /\ outcome \in [Reqs -> {"none", "value", "error"}]
    /\ resolved \in [Reqs -> Nat]

LinkType ==
    /\ opened \in BOOLEAN /\ recvClosed \in BOOLEAN
    /\ conn \in 0 .. MaxSessions
    /\ c2s \in SUBSET Reqs
    /\ s2c \in Seq(Frames)
    /\ emitted \in 0 .. MaxEvents

\* Every variable keeps the shape of the member it stands for; connect() has a
\* session to start, and the worker an event to queue.
ClientTypeOK == OwnerType /\ ReceiverType /\ EventType /\ ReqType /\ LinkType

\* Parts of ClientTypeOK that a step leaves alone.
LEMMA PartsUnchanged ==
    /\ OwnerType /\ UNCHANGED <<isRunning, session, ownerVars, hooks>> => OwnerType'
    /\ ReceiverType /\ UNCHANGED receiverVars => ReceiverType'
    /\ EventType /\ UNCHANGED eventVars => EventType'
    /\ ReqType /\ UNCHANGED reqVars => ReqType'
    /\ LinkType /\ UNCHANGED linkVars => LinkType'
  <1>1. OwnerType /\ UNCHANGED <<isRunning, session, ownerVars, hooks>> => OwnerType'
    BY DEF OwnerType, ownerVars
  <1>2. ReceiverType /\ UNCHANGED receiverVars => ReceiverType'
    BY DEF ReceiverType, receiverVars
  <1>3. EventType /\ UNCHANGED eventVars => EventType'
    BY DEF EventType, eventVars
  <1>4. ReqType /\ UNCHANGED reqVars => ReqType'
    BY DEF ReqType, reqVars
  <1>5. LinkType /\ UNCHANGED linkVars => LinkType'
    BY DEF LinkType, linkVars
  <1> QED BY <1>1, <1>2, <1>3, <1>4, <1>5

\* Setting promises keeps their types.
LEMMA ResolveType ==
    ASSUME ReqType, NEW S, NEW result \in {"value", "error"}, Resolve(S, result)
    PROVE  outcome' \in [Reqs -> {"none", "value", "error"}] /\ resolved' \in [Reqs -> Nat]
  BY DEF Resolve, ReqType

\* Counting a call of on_disconnect().
LEMMA HookType ==
    ASSUME NEW D, NEW h \in [D -> Nat], NEW s
    PROVE  [h EXCEPT ![s] = @ + 1] \in [D -> Nat]
  <1>1. CASE s \in D
    <2>1. h[s] + 1 \in Nat
      BY <1>1
    <2> QED BY <2>1
  <1>2. CASE s \notin D
    <2>1. [h EXCEPT ![s] = @ + 1] = h
      BY <1>2
    <2> QED BY <2>1
  <1> QED BY <1>1, <1>2

\* Allocating a request id.
LEMMA NewRequestType ==
    ASSUME ReqType, NewRequest
    PROVE  ReqType' /\ issued' \in 1 .. MaxRequests
  <1>1. issued' \in 1 .. MaxRequests
    BY ClientAssumption DEF NewRequest, ReqType
  <1>2. issued' \in 0 .. MaxRequests
    BY <1>1, ClientAssumption
  <1>3. reqPc' \in [Reqs -> {"unused", "insert", "send", "returned", "threw"}]
    BY DEF NewRequest, ReqType
  <1> QED
    BY <1>1, <1>2, <1>3 DEF NewRequest, ReqType

\* What a frame is.
LEMMA FrameFacts ==
    /\ \A f \in Frames : f.kind = "event" => f.id \in Events
    /\ \A r \in Reqs \cup {0} : [kind |-> "response", id |-> r] \in Frames
    /\ \A e \in Events : [kind |-> "event", id |-> e] \in Frames
  BY DEF Frames

\* The requests' steps keep the types.
LEMMA RequestsType ==
    ASSUME ClientTypeOK, Requests
    PROVE  ClientTypeOK'
  <1> USE PartsUnchanged DEF ClientTypeOK
  <1>1. CASE StartRequest
    BY <1>1, NewRequestType DEF StartRequest
  <1>2. CASE DestroyObject
    <2>1. EventType'
      BY <1>2 DEF DestroyObject, EventType
    <2> QED BY <1>2, <2>1, NewRequestType DEF DestroyObject
  <1>3. CASE RegisterEventHandler
    <2>1. EventType'
      BY <1>3 DEF RegisterEventHandler, EventType
    <2> QED BY <1>3, <2>1 DEF RegisterEventHandler
  <1>4. ASSUME NEW r \in Reqs, InsertRequest(r) PROVE ClientTypeOK'
    <2>1. CASE isRunning
      <3>1. ReqType'
        BY <1>4, <2>1 DEF InsertRequest, ReqType
      <3> QED BY <1>4, <3>1 DEF InsertRequest
    <2>2. CASE ~isRunning
      <3>1. Resolve({r}, "error") /\ UNCHANGED <<pending, issued>>
            /\ reqPc' = [reqPc EXCEPT ![r] = "returned"]
        BY <1>4, <2>2 DEF InsertRequest
      <3>2. ReqType'
        BY <3>1, ResolveType DEF ReqType
      <3> QED BY <1>4, <3>2 DEF InsertRequest
    <2> QED BY <2>1, <2>2
  <1>5. ASSUME NEW r \in Reqs, SendRequest(r) PROVE ClientTypeOK'
    <2>1. ReqType'
      BY <1>5 DEF SendRequest, ReqType
    <2>2. LinkType'
      BY <1>5 DEF SendRequest, LinkType
    <2> QED BY <1>5, <2>1, <2>2 DEF SendRequest
  <1>6. ASSUME NEW r \in Reqs, SendFails(r) PROVE ClientTypeOK'
    <2>1. ReqType'
      BY <1>6, ResolveType DEF SendFails, ReqType
    <2> QED BY <1>6, <2>1 DEF SendFails
  <1> QED
    BY <1>1, <1>2, <1>3, <1>4, <1>5, <1>6 DEF Requests

\* So do the peer's.
LEMMA PeerType ==
    ASSUME ClientTypeOK, Peer
    PROVE  ClientTypeOK'
  <1> USE PartsUnchanged, ClientAssumption DEF ClientTypeOK
  <1>1. ASSUME NEW r \in Reqs, PeerAnswers(r) PROVE ClientTypeOK'
    <2>1. PICK id \in {r, 0} : s2c' = Append(s2c, [kind |-> "response", id |-> id])
      BY <1>1 DEF PeerAnswers
    <2>2. s2c' \in Seq(Frames)
      BY <2>1, FrameFacts, AppendHas DEF LinkType
    <2>3. LinkType'
      BY <1>1, <2>2 DEF PeerAnswers, LinkType
    <2> QED BY <1>1, <2>3 DEF PeerAnswers
  <1>2. CASE PeerEmits
    <2>1. emitted' \in Events /\ emitted' \in 0 .. MaxEvents
      BY <1>2 DEF PeerEmits, LinkType, Events
    <2>2. s2c' \in Seq(Frames)
      BY <1>2, <2>1, FrameFacts, AppendHas DEF PeerEmits, LinkType
    <2>3. LinkType'
      BY <1>2, <2>1, <2>2 DEF PeerEmits, LinkType
    <2> QED BY <1>2, <2>3 DEF PeerEmits
  <1>3. CASE PeerCloses
    <2>1. LinkType'
      BY <1>3 DEF PeerCloses, LinkType
    <2> QED BY <1>3, <2>1 DEF PeerCloses
  <1> QED
    BY <1>1, <1>2, <1>3 DEF Peer

\* And the worker's.
LEMMA WorkerType ==
    ASSUME ClientTypeOK, Worker
    PROVE  ClientTypeOK'
  <1> USE PartsUnchanged DEF ClientTypeOK
  <1>1. CASE WorkerLoop \/ NothingReceived
    <2>1. ReceiverType'
      BY <1>1 DEF WorkerLoop, NothingReceived, ReceiverType
    <2> QED BY <1>1, <2>1 DEF WorkerLoop, NothingReceived
  <1>2. CASE ProcessResponse
    <2>1. s2c' \in Seq(Frames)
      BY <1>2, TailHas DEF ProcessResponse, LinkType
    <2>2. LinkType'
      BY <1>2, <2>1 DEF ProcessResponse, LinkType
    <2>3. PICK result \in {"value", "error"} : Resolve({Head(s2c).id} \cap pending, result)
      BY <1>2 DEF ProcessResponse
    <2>4. outcome' \in [Reqs -> {"none", "value", "error"}] /\ resolved' \in [Reqs -> Nat]
      BY <2>3, ResolveType
    <2>5. ReqType'
      BY <1>2, <2>4 DEF ProcessResponse, ReqType
    <2>6. ReceiverType'
      BY <1>2 DEF ProcessResponse, ReceiverType
    <2> QED BY <1>2, <2>2, <2>5, <2>6 DEF ProcessResponse
  <1>3. CASE ProcessEvent
    <2>1. s2c' \in Seq(Frames) /\ Head(s2c) \in Frames /\ Head(s2c).kind = "event"
      BY <1>3, TailHas DEF ProcessEvent, LinkType
    <2>2. LinkType'
      BY <1>3, <2>1 DEF ProcessEvent, LinkType
    <2>3. Head(s2c).id \in Events
      BY <2>1, FrameFacts
    <2>4. ReceiverType'
      BY <1>3, <2>3, ClientAssumption DEF ProcessEvent, ReceiverType, Events
    <2> QED BY <1>3, <2>2, <2>4 DEF ProcessEvent
  <1>4. CASE PushEvent
    <2>1. queue' \in Seq(Events)
      BY <1>4, AppendHas DEF PushEvent, ReceiverType, EventType
    <2>2. EventType'
      BY <1>4, <2>1 DEF PushEvent, EventType
    <2>3. ReceiverType'
      BY <1>4, ClientAssumption DEF PushEvent, ReceiverType
    <2> QED BY <1>4, <2>2, <2>3 DEF PushEvent
  <1>5. CASE NotifyEvent \/ LostNotify
    <2>1. ReceiverType' /\ EventType'
      BY <1>5 DEF NotifyEvent, LostNotify, Wake, ReceiverType, EventType
    <2> QED BY <1>5, <2>1 DEF NotifyEvent, LostNotify
  <1>6. CASE CheckConnected
    <2>1. ReceiverType'
      BY <1>6 DEF CheckConnected, ReceiverType
    <2>2. OwnerType'
      BY <1>6 DEF CheckConnected, OwnerType, ownerVars
    <2> QED BY <1>6, <2>1, <2>2 DEF CheckConnected
  <1>7. CASE LostHook
    <2>1. ReceiverType'
      BY <1>7 DEF LostHook, ReceiverType
    <2>2. hooks' \in [1 .. MaxSessions -> Nat]
      BY <1>7 DEF LostHook, OwnerType
    <2>3. OwnerType'
      BY <1>7, <2>2 DEF LostHook, OwnerType, ownerVars
    <2> QED BY <1>7, <2>1, <2>3 DEF LostHook
  <1>8. CASE WorkerExit
    <2>1. ReceiverType'
      BY <1>8 DEF WorkerExit, ReceiverType
    <2>2. ReqType'
      BY <1>8, ResolveType DEF WorkerExit, FailAllPending, ReqType
    <2> QED BY <1>8, <2>1, <2>2 DEF WorkerExit
  <1> QED
    BY <1>1, <1>2, <1>3, <1>4, <1>5, <1>6, <1>7, <1>8 DEF Worker

\* And the event thread's.
LEMMA EventThreadType ==
    ASSUME ClientTypeOK, EventThread \/ SpuriousWakeup
    PROVE  ClientTypeOK'
  <1> USE PartsUnchanged DEF ClientTypeOK
  <1>1. CASE EventCheck \/ EventBlock \/ SpuriousWakeup
    <2>1. EventType'
      BY <1>1 DEF EventCheck, EventBlock, SpuriousWakeup, EventType
    <2> QED BY <1>1, <2>1 DEF EventCheck, EventBlock, SpuriousWakeup
  <1>2. CASE EventPop
    <2>1. CASE queue = << >>
      <3>1. EventType'
        BY <1>2, <2>1 DEF EventPop, EventType
      <3> QED BY <1>2, <3>1 DEF EventPop
    <2>2. CASE queue # << >>
      <3>1. Head(queue) \in Events /\ Tail(queue) \in Seq(Events)
        BY <2>2, TailHas DEF EventType
      <3>2. Append(delivered, Head(queue)) \in Seq(Events)
        BY <3>1, AppendHas DEF EventType
      <3>3. EventType'
        BY <1>2, <2>2, <3>1, <3>2 DEF EventPop, EventType
      <3> QED BY <1>2, <3>3 DEF EventPop
    <2> QED BY <2>1, <2>2
  <1>3. CASE TaskCalls
    <2>1. ReqType' /\ issued' \in 1 .. MaxRequests
      BY <1>3, NewRequestType DEF TaskCalls
    <2>2. issued' \in 0 .. MaxRequests
      BY <2>1, ClientAssumption
    <2>3. EventType'
      BY <1>3, <2>2 DEF TaskCalls, EventType
    <2> QED BY <1>3, <2>1, <2>3 DEF TaskCalls
  <1>4. CASE TaskReturns
    <2>1. EventType'
      BY <1>4, ClientAssumption DEF TaskReturns, EventType
    <2> QED BY <1>4, <2>1 DEF TaskReturns
  <1> QED
    BY <1>1, <1>2, <1>3, <1>4 DEF EventThread

\* And the owner's; the conjuncts about ownerNext carry the bound that
\* connect() tested to the step that starts the session.
LEMMA OwnerStepType ==
    ASSUME ClientTypeOK, Owner
    PROVE  ClientTypeOK'
  <1> USE PartsUnchanged, ClientAssumption DEF ClientTypeOK
  <1>1. CASE Connect \/ DisconnectClosed \/ Destroy \/ OpenFails
    <2>1. OwnerType'
      BY <1>1 DEF Connect, DisconnectClosed, Destroy, OpenFails, OwnerType
    <2> QED BY <1>1, <2>1 DEF Connect, DisconnectClosed, Destroy, OpenFails
  <1>2. CASE Open
    <2>1. OwnerType'
      BY <1>2 DEF Open, OwnerType
    <2>2. session + 1 \in 0 .. MaxSessions
      BY <1>2 DEF Open, OwnerType
    <2>3. << >> \in Seq(Frames)
      OBVIOUS
    <2>4. LinkType'
      BY <1>2, <2>2, <2>3 DEF Open, LinkType
    <2> QED BY <1>2, <2>1, <2>4 DEF Open
  <1>3. CASE StartThreads
    <2>1. ReqType' /\ issued' \in 1 .. MaxRequests
      BY <1>3, NewRequestType DEF StartThreads
    <2>2. session + 1 \in 0 .. MaxSessions /\ issued' \in 0 .. MaxRequests
      BY <1>3, <2>1 DEF StartThreads, OwnerType
    <2>3. OwnerType'
      BY <1>3, <2>2 DEF StartThreads, OwnerType
    <2>4. ReceiverType' /\ EventType'
      BY <1>3 DEF StartThreads, ReceiverType, EventType
    <2> QED BY <1>3, <2>1, <2>3, <2>4 DEF StartThreads
  <1>4. CASE Handshake \/ HandshakeFails \/ StopRunning
    <2>1. OwnerType'
      <3>1. CASE Handshake
        BY <3>1 DEF Handshake, OwnerType
      <3>2. CASE HandshakeFails
        BY <3>2 DEF HandshakeFails, OwnerType
      <3>3. CASE StopRunning
        <4>1. /\ ownerPc = "goodbye" /\ ownerPc' = "shutdown" /\ isRunning' = FALSE
              /\ ownerReq' = 0 /\ UNCHANGED <<session, ownerNext, hooks>>
          BY <3>3 DEF StopRunning
        <4>2. ownerNext = "hook" /\ 0 \in 0 .. MaxRequests
          BY <4>1 DEF OwnerType
        <4> QED BY <4>1, <4>2 DEF OwnerType
      <3> QED BY <1>4, <3>1, <3>2, <3>3
    <2> QED BY <1>4, <2>1 DEF Handshake, HandshakeFails, StopRunning
  <1>5. CASE Disconnect
    <2>1. ReqType' /\ issued' \in 1 .. MaxRequests
      BY <1>5, NewRequestType DEF Disconnect
    <2>2. issued' \in 0 .. MaxRequests
      BY <2>1
    <2>3. OwnerType'
      BY <1>5, <2>2 DEF Disconnect, OwnerType
    <2> QED BY <1>5, <2>1, <2>3 DEF Disconnect
  <1>6. CASE ShutdownTransport
    <2>1. OwnerType' /\ LinkType'
      BY <1>6 DEF ShutdownTransport, OwnerType, LinkType
    <2> QED BY <1>6, <2>1 DEF ShutdownTransport
  <1>7. CASE OwnerNotify
    <2>1. OwnerType' /\ EventType'
      BY <1>7 DEF OwnerNotify, Wake, OwnerType, EventType
    <2> QED BY <1>7, <2>1 DEF OwnerNotify
  <1>8. CASE JoinWorker
    <2>1. OwnerType' /\ ReceiverType'
      BY <1>8 DEF JoinWorker, OwnerType, ReceiverType
    <2> QED BY <1>8, <2>1 DEF JoinWorker
  <1>9. CASE JoinEvent
    <2>1. OwnerType' /\ EventType'
      BY <1>9 DEF JoinEvent, OwnerType, EventType
    <2> QED BY <1>9, <2>1 DEF JoinEvent
  <1>10. CASE FinishDisconnect
    <2>1. hooks' \in [1 .. MaxSessions -> Nat]
      <3>1. hooks' = [hooks EXCEPT ![session] = @ + 1]
        BY <1>10 DEF FinishDisconnect
      <3>2. hooks \in [1 .. MaxSessions -> Nat]
        BY DEF OwnerType
      <3> QED BY <3>1, <3>2, HookType
    <2>2. OwnerType'
      BY <1>10, <2>1 DEF FinishDisconnect, OwnerType
    <2>3. ReqType'
      BY <1>10, ResolveType DEF FinishDisconnect, FailAllPending, ReqType
    <2> QED BY <1>10, <2>2, <2>3 DEF FinishDisconnect
  <1> QED
    BY <1>1, <1>2, <1>3, <1>4, <1>5, <1>6, <1>7, <1>8, <1>9, <1>10 DEF Owner, OwnerContinues

\* Type correctness of the client.
THEOREM ClientTypeCorrect == ClientSpec => []ClientTypeOK
  <1>1. ClientInit => ClientTypeOK
    <2> SUFFICES ASSUME ClientInit PROVE ClientTypeOK
      OBVIOUS
    <2> USE DEF ClientInit
    <2>0. /\ 0 \in 0 .. MaxSessions /\ 0 \in 0 .. MaxRequests /\ 0 \in 0 .. MaxEvents
          /\ << >> \in Seq(Events) /\ << >> \in Seq(Frames)
      BY ClientAssumption
    <2>1. OwnerType BY <2>0 DEF OwnerType
    <2>2. ReceiverType BY <2>0 DEF ReceiverType
    <2>3. EventType BY <2>0 DEF EventType
    <2>4. ReqType BY <2>0 DEF ReqType
    <2>5. LinkType BY <2>0 DEF LinkType
    <2> QED BY <2>1, <2>2, <2>3, <2>4, <2>5 DEF ClientTypeOK
  <1>2. ClientTypeOK /\ [ClientNext]_clientVars => ClientTypeOK'
    <2> SUFFICES ASSUME ClientTypeOK, [ClientNext]_clientVars PROVE ClientTypeOK'
      OBVIOUS
    <2>1. CASE UNCHANGED clientVars
      BY <2>1, PartsUnchanged DEF clientVars, ClientTypeOK
    <2> QED
      BY <2>1, RequestsType, PeerType, WorkerType, EventThreadType, OwnerStepType DEF ClientNext
  <1> QED
    BY <1>1, <1>2, PTL DEF ClientSpec
-----------------------------------------------------------------------------
(***************************************************************************)
(* The promises.                                                           *)
(***************************************************************************)
\* An id that was not handed out is not in use.
UnusedInv == \A r \in Reqs : r > issued => reqPc[r] = "unused"

\* Before its promise is queued, a request has no outcome and nobody knows it.
FreshInv ==
    \A r \in Reqs : reqPc[r] \in {"unused", "insert"} => outcome[r] = "none" /\ r \notin pending

\* A future that was handed out is ready or its promise is in pending_.
HandedOutInv ==
    \A r \in Reqs : reqPc[r] \notin {"unused", "insert"} => outcome[r] # "none" \/ r \in pending

PromiseInv == UnusedInv /\ FreshInv /\ HandedOutInv /\ PromisesSetOnce

\* The steps of the client as its promises see them.
LEMMA PromiseSteps ==
    ASSUME ClientNext
    PROVE  \/ UNCHANGED reqVars
           \/ NewRequest
           \/ \E r \in Reqs : InsertRequest(r) \/ SendRequest(r) \/ SendFails(r)
           \/ ProcessResponse
           \/ FailAllPending /\ UNCHANGED <<issued, reqPc>>
  <1>1. CASE Requests
    BY <1>1 DEF Requests, StartRequest, DestroyObject, RegisterEventHandler
  <1>2. CASE Peer
    BY <1>2 DEF Peer, PeerAnswers, PeerEmits, PeerCloses
  <1>3. CASE Worker
    BY <1>3 DEF Worker, WorkerLoop, ProcessEvent, PushEvent, NotifyEvent, NothingReceived,
                CheckConnected, LostNotify, LostHook, WorkerExit
  <1>4. CASE EventThread \/ SpuriousWakeup
    BY <1>4 DEF EventThread, SpuriousWakeup, EventCheck, EventBlock, EventPop, TaskCalls,
                TaskReturns
  <1>5. CASE Owner
    BY <1>5 DEF Owner, OwnerContinues, Connect, Disconnect, DisconnectClosed, Destroy, Open,
                OpenFails, StartThreads, Handshake, HandshakeFails, StopRunning,
                ShutdownTransport, OwnerNotify, JoinWorker, JoinEvent, FinishDisconnect
  <1> QED
    BY <1>1, <1>2, <1>3, <1>4, <1>5 DEF ClientNext

\* Setting the promises of some pending requests and taking them out of
\* pending_ keeps the invariant.
LEMMA TakePromises ==
    ASSUME ReqType, PromiseInv, NEW S \in SUBSET pending, NEW result \in {"value", "error"},
           Resolve(S, result), pending' = pending \ S, UNCHANGED <<issued, reqPc>>
    PROVE  PromiseInv'
  <1>1. ASSUME NEW r \in Reqs
        PROVE  /\ r \in S => /\ r \in pending /\ r \notin pending' /\ outcome'[r] = result
                             /\ resolved'[r] = resolved[r] + 1
               /\ r \notin S => /\ r \in pending' <=> r \in pending
                                /\ outcome'[r] = outcome[r] /\ resolved'[r] = resolved[r]
    BY DEF Resolve
  <1>2. UnusedInv'
    BY DEF PromiseInv, UnusedInv
  <1>3. FreshInv'
    BY <1>1 DEF PromiseInv, FreshInv
  <1>4. HandedOutInv'
    BY <1>1 DEF PromiseInv, HandedOutInv
  <1>5. PromisesSetOnce'
    <2> SUFFICES ASSUME NEW r \in Reqs
                 PROVE  /\ resolved'[r] = IF outcome'[r] = "none" THEN 0 ELSE 1
                        /\ r \in pending' => outcome'[r] = "none"
      BY DEF PromisesSetOnce
    <2>1. CASE r \in S
      <3>1. outcome[r] = "none" /\ resolved[r] = 0
        BY <1>1, <2>1 DEF PromiseInv, PromisesSetOnce
      <3> QED BY <1>1, <2>1, <3>1
    <2>2. CASE r \notin S
      BY <1>1, <2>2 DEF PromiseInv, PromisesSetOnce
    <2> QED BY <2>1, <2>2
  <1> QED BY <1>2, <1>3, <1>4, <1>5 DEF PromiseInv

\* Allocating an id.
LEMMA NewPromise ==
    ASSUME ReqType, PromiseInv, NewRequest
    PROVE  PromiseInv'
  <1>1. /\ issued' \in Reqs /\ issued' = issued + 1 /\ issued \in Nat
        /\ UNCHANGED <<pending, outcome, resolved>>
    BY ClientAssumption DEF NewRequest, ReqType, Reqs
  <1>2. issued' > issued
    BY <1>1
  <1>3. reqPc[issued'] = "unused"
    BY <1>1, <1>2 DEF PromiseInv, UnusedInv
  <1>4. \A r \in Reqs : reqPc'[r] = IF r = issued' THEN "insert" ELSE reqPc[r]
    BY <1>1 DEF NewRequest, ReqType
  <1>5. UnusedInv'
    <2> SUFFICES ASSUME NEW r \in Reqs, r > issued'
                 PROVE  reqPc'[r] = "unused"
      BY DEF UnusedInv
    <2>1. r > issued /\ r # issued'
      BY <1>1 DEF Reqs
    <2> QED BY <1>4, <2>1 DEF PromiseInv, UnusedInv
  <1>6. FreshInv'
    BY <1>1, <1>3, <1>4 DEF PromiseInv, FreshInv
  <1>7. HandedOutInv'
    BY <1>1, <1>4 DEF PromiseInv, HandedOutInv
  <1>8. PromisesSetOnce'
    BY <1>1 DEF PromiseInv, PromisesSetOnce
  <1> QED BY <1>5, <1>6, <1>7, <1>8 DEF PromiseInv

\* Sending a request.
LEMMA SendPromise ==
    ASSUME ReqType, PromiseInv, NEW r \in Reqs,
           InsertRequest(r) \/ SendRequest(r) \/ SendFails(r)
    PROVE  PromiseInv'
  <1>0. /\ reqPc[r] \in {"insert", "send"} /\ issued' = issued
        /\ \E pc \in {"send", "returned", "threw"} : reqPc' = [reqPc EXCEPT ![r] = pc]
    BY DEF InsertRequest, SendRequest, SendFails
  <1>1. /\ \A q \in Reqs : q # r => reqPc'[q] = reqPc[q]
        /\ reqPc'[r] \in {"send", "returned", "threw"}
    BY <1>0 DEF ReqType
  <1>2. UnusedInv'
    BY <1>0, <1>1 DEF PromiseInv, UnusedInv
  <1>3. CASE InsertRequest(r) /\ isRunning
    <2>1. pending' = pending \cup {r} /\ UNCHANGED <<outcome, resolved>> /\ outcome[r] = "none"
      BY <1>3 DEF InsertRequest, PromiseInv, FreshInv
    <2>2. FreshInv' /\ HandedOutInv' /\ PromisesSetOnce'
      BY <1>1, <2>1 DEF PromiseInv, FreshInv, HandedOutInv, PromisesSetOnce
    <2> QED BY <1>2, <2>2 DEF PromiseInv
  <1>4. CASE InsertRequest(r) /\ ~isRunning
    <2>1. /\ Resolve({r}, "error") /\ UNCHANGED pending
          /\ outcome[r] = "none" /\ r \notin pending /\ resolved[r] = 0
      BY <1>4 DEF InsertRequest, PromiseInv, FreshInv, PromisesSetOnce
    <2>2. /\ \A q \in Reqs : q # r => outcome'[q] = outcome[q] /\ resolved'[q] = resolved[q]
          /\ outcome'[r] = "error" /\ resolved'[r] = 1
      BY <2>1 DEF Resolve
    <2>3. FreshInv' /\ HandedOutInv'
      BY <1>1, <2>1, <2>2 DEF PromiseInv, FreshInv, HandedOutInv
    <2>4. PromisesSetOnce'
      BY <2>1, <2>2 DEF PromiseInv, PromisesSetOnce
    <2> QED BY <1>2, <2>3, <2>4 DEF PromiseInv
  <1>5. CASE SendRequest(r)
    <2>1. UNCHANGED <<pending, outcome, resolved>> /\ reqPc[r] = "send"
      BY <1>5 DEF SendRequest
    <2>2. FreshInv' /\ HandedOutInv' /\ PromisesSetOnce'
      BY <1>1, <2>1 DEF PromiseInv, FreshInv, HandedOutInv, PromisesSetOnce
    <2> QED BY <1>2, <2>2 DEF PromiseInv
  <1>6. CASE SendFails(r)
    <2>1. /\ Resolve({r} \cap pending, "error") /\ pending' = pending \ {r}
          /\ reqPc[r] = "send"
      BY <1>6 DEF SendFails
    <2>2. ASSUME NEW q \in Reqs, q # r
          PROVE  /\ outcome'[q] = outcome[q] /\ resolved'[q] = resolved[q]
                 /\ q \in pending' <=> q \in pending
      BY <2>1, <2>2 DEF Resolve
    <2>4. /\ r \notin pending'
          /\ r \in pending => outcome'[r] = "error" /\ resolved'[r] = 1
          /\ r \notin pending => /\ outcome'[r] = outcome[r] /\ resolved'[r] = resolved[r]
                                 /\ outcome[r] # "none"
      <3>1. r \notin pending'
        BY <2>1
      <3>2. ASSUME r \in pending PROVE outcome'[r] = "error" /\ resolved'[r] = 1
        <4>1. outcome[r] = "none" /\ resolved[r] = 0
          BY <3>2 DEF PromiseInv, PromisesSetOnce
        <4> QED BY <2>1, <3>2, <4>1 DEF Resolve
      <3>3. ASSUME r \notin pending
            PROVE  /\ outcome'[r] = outcome[r] /\ resolved'[r] = resolved[r]
                   /\ outcome[r] # "none"
        BY <2>1, <3>3 DEF Resolve, PromiseInv, HandedOutInv
      <3> QED BY <3>1, <3>2, <3>3
    <2>5. FreshInv'
      <3> SUFFICES ASSUME NEW q \in Reqs, reqPc'[q] \in {"unused", "insert"}
                   PROVE  outcome'[q] = "none" /\ q \notin pending'
        BY DEF FreshInv
      <3>1. q # r /\ reqPc[q] \in {"unused", "insert"}
        BY <1>1
      <3> QED BY <2>2, <3>1 DEF PromiseInv, FreshInv
    <2>6. HandedOutInv'
      <3> SUFFICES ASSUME NEW q \in Reqs, reqPc'[q] \notin {"unused", "insert"}
                   PROVE  outcome'[q] # "none" \/ q \in pending'
        BY DEF HandedOutInv
      <3>1. CASE q = r
        BY <2>4, <3>1
      <3>2. CASE q # r
        BY <1>1, <2>2, <3>2 DEF PromiseInv, HandedOutInv
      <3> QED BY <3>1, <3>2
    <2>7. PromisesSetOnce'
      <3> SUFFICES ASSUME NEW q \in Reqs
                   PROVE  /\ resolved'[q] = IF outcome'[q] = "none" THEN 0 ELSE 1
                          /\ q \in pending' => outcome'[q] = "none"
        BY DEF PromisesSetOnce
      <3>1. CASE q = r
        BY <2>4, <3>1 DEF PromiseInv, PromisesSetOnce
      <3>2. CASE q # r
        BY <2>2, <3>2 DEF PromiseInv, PromisesSetOnce
      <3> QED BY <3>1, <3>2
    <2> QED BY <1>2, <2>5, <2>6, <2>7 DEF PromiseInv
  <1> QED BY <1>3, <1>4, <1>5, <1>6

\* PromiseInv is an invariant of the client.
LEMMA PromisesCorrect == ClientSpec => []PromiseInv
  <1>1. ClientInit => PromiseInv
    BY DEF ClientInit, PromiseInv, UnusedInv, FreshInv, HandedOutInv, PromisesSetOnce
  <1>2. ClientTypeOK /\ PromiseInv /\ [ClientNext]_clientVars => PromiseInv'
    <2> SUFFICES ASSUME ReqType, PromiseInv, [ClientNext]_clientVars PROVE PromiseInv'
      BY DEF ClientTypeOK
    <2>1. CASE UNCHANGED reqVars
      BY <2>1 DEF reqVars, PromiseInv, UnusedInv, FreshInv, HandedOutInv, PromisesSetOnce
    <2>2. CASE NewRequest
      BY <2>2, NewPromise
    <2>3. CASE \E r \in Reqs : InsertRequest(r) \/ SendRequest(r) \/ SendFails(r)
      BY <2>3, SendPromise
    <2>4. CASE ProcessResponse
      <3>1. PICK result \in {"value", "error"} : Resolve({Head(s2c).id} \cap pending, result)
        BY <2>4 DEF ProcessResponse
      <3>2. /\ pending' = pending \ ({Head(s2c).id} \cap pending)
            /\ UNCHANGED <<issued, reqPc>>
        BY <2>4 DEF ProcessResponse
      <3>3. {Head(s2c).id} \cap pending \in SUBSET pending
        OBVIOUS
      <3> QED BY <3>1, <3>2, <3>3, TakePromises
    <2>5. CASE FailAllPending /\ UNCHANGED <<issued, reqPc>>
      <3>1. Resolve(pending, "error") /\ pending' = pending \ pending
        BY <2>5 DEF FailAllPending
      <3> QED BY <2>5, <3>1, TakePromises
    <2>6. UNCHANGED clientVars => UNCHANGED reqVars
      BY DEF clientVars
    <2> QED
      BY <2>1, <2>2, <2>3, <2>4, <2>5, <2>6, PromiseSteps
  <1> QED
    BY <1>1, <1>2, ClientTypeCorrect, PTL DEF ClientSpec

\* No promise is set twice, and none is still in pending_ once it was set:
\* the response, a send that fails, the worker's exit and disconnect() each
\* take it out of pending_ before they set it, under one lock.
THEOREM PromisesSetOnceHolds == ClientSpec => []PromisesSetOnce
  <1>1. PromiseInv => PromisesSetOnce
    BY DEF PromiseInv
  <1> QED
    BY <1>1, PromisesCorrect, PTL
-----------------------------------------------------------------------------
(***************************************************************************)
(* The end of a session.                                                   *)
(***************************************************************************)
\* The worker leaves its loop only after running_ was lowered, and sweeps
\* pending_ on its way out.
WorkerInv ==
    /\ workerPc \in {"exit", "done", "none", "lost", "hook"} => ~isRunning
    /\ workerPc \in {"done", "none"} => pending = {}
    /\ workerPc # "none" => session > 0
    /\ ownerPc = "join_event" => workerPc = "none"

\* The event thread is joined after the worker, by the call that ends the session.
JoinInv ==
    /\ isRunning => eventPc # "none"
    /\ ownerNext = "hook" /\ ownerPc \in {"goodbye", "shutdown", "notify", "join_worker", "join_event"}
         => eventPc # "none"

\* A session that ended had its on_disconnect(), or the worker, or the owner's
\* disconnect(), is on the way to it.
HookInv ==
    session > 0 =>
        \/ hooks[session] > 0
        \/ isRunning
        \/ workerPc \in {"lost", "hook"}
        \/ /\ ownerNext = "hook"
           /\ ownerPc \in {"shutdown", "notify", "join_worker", "join_event", "hook"}

SessionInv == WorkerInv /\ JoinInv /\ HookInv

sessionVars == <<isRunning, session, ownerPc, ownerNext, workerPc, eventPc, pending, hooks>>

\* Steps that do not touch the session.
LEMMA SessionUnchanged == SessionInv /\ UNCHANGED sessionVars => SessionInv'
  BY DEF SessionInv, WorkerInv, JoinInv, HookInv, sessionVars

\* The steps of the requests.
LEMMA SessionRequests ==
    ASSUME ClientTypeOK, SessionInv, Requests \/ Peer \/ EventThread \/ SpuriousWakeup
    PROVE  SessionInv'
  <1>1. /\ UNCHANGED <<isRunning, session, ownerPc, ownerNext, workerPc, hooks>>
        /\ eventPc # "none" => eventPc' # "none"
        /\ eventPc = "none" => eventPc' = "none"
    <2>1. CASE Requests
      BY <2>1 DEF Requests, StartRequest, DestroyObject, RegisterEventHandler, InsertRequest,
                  SendRequest, SendFails, ownerVars, receiverVars, eventVars
    <2>2. CASE Peer
      BY <2>2 DEF Peer, PeerAnswers, PeerEmits, PeerCloses, ownerVars, receiverVars, eventVars
    <2>3. CASE EventThread \/ SpuriousWakeup
      BY <2>3 DEF EventThread, SpuriousWakeup, EventCheck, EventBlock, EventPop, TaskCalls,
                  TaskReturns, ownerVars, receiverVars
    <2> QED BY <2>1, <2>2, <2>3
  <1>2. ~isRunning /\ pending = {} => pending' = {}
    <2>1. CASE Requests
      BY <2>1 DEF Requests, StartRequest, DestroyObject, RegisterEventHandler, InsertRequest,
                  SendRequest, SendFails, NewRequest, reqVars
    <2>2. CASE Peer \/ EventThread \/ SpuriousWakeup
      BY <2>2 DEF Peer, PeerAnswers, PeerEmits, PeerCloses, EventThread, SpuriousWakeup,
                  EventCheck, EventBlock, EventPop, TaskCalls, TaskReturns, NewRequest, reqVars
    <2> QED BY <2>1, <2>2
  <1>3. WorkerInv'
    BY <1>1, <1>2 DEF SessionInv, WorkerInv
  <1>4. JoinInv' /\ HookInv'
    BY <1>1 DEF SessionInv, JoinInv, HookInv
  <1> QED BY <1>3, <1>4 DEF SessionInv

\* The steps of the worker.
LEMMA SessionWorker ==
    ASSUME ClientTypeOK, SessionInv, Worker
    PROVE  SessionInv'
  <1>1. UNCHANGED <<session, ownerPc, ownerNext>> /\ (eventPc # "none" => eventPc' # "none")
    BY DEF Worker, WorkerLoop, ProcessResponse, ProcessEvent, PushEvent, NotifyEvent,
           NothingReceived, CheckConnected, LostNotify, LostHook, WorkerExit, Wake,
           ownerVars, eventVars
  <1>2. workerPc # "none" /\ workerPc' # "none" /\ session > 0 /\ session \in 1 .. MaxSessions
    BY ClientAssumption
       DEF Worker, WorkerLoop, ProcessResponse, ProcessEvent, PushEvent, NotifyEvent,
           NothingReceived, CheckConnected, LostNotify, LostHook, WorkerExit,
           SessionInv, WorkerInv, ClientTypeOK, OwnerType
  <1>3. isRunning' => isRunning
    BY DEF Worker, WorkerLoop, ProcessResponse, ProcessEvent, PushEvent, NotifyEvent,
           NothingReceived, CheckConnected, LostNotify, LostHook, WorkerExit
  <1>4. workerPc' \in {"exit", "lost", "hook", "done"} => ~isRunning'
    BY DEF Worker, WorkerLoop, ProcessResponse, ProcessEvent, PushEvent, NotifyEvent,
           NothingReceived, CheckConnected, LostNotify, LostHook, WorkerExit,
           SessionInv, WorkerInv
  <1>5. workerPc' = "done" => pending' = {}
    BY DEF Worker, WorkerLoop, ProcessResponse, ProcessEvent, PushEvent, NotifyEvent,
           NothingReceived, CheckConnected, LostNotify, LostHook, WorkerExit, FailAllPending
  <1>6. WorkerInv'
    BY <1>1, <1>2, <1>4, <1>5 DEF SessionInv, WorkerInv
  <1>7. JoinInv'
    BY <1>1, <1>3 DEF SessionInv, JoinInv
  <1>8. HookInv'
    <2>1. CASE LostHook
      <3>1. hooks'[session] > 0
        BY <1>2, <2>1 DEF LostHook, ClientTypeOK, OwnerType
      <3> QED BY <1>1, <3>1 DEF HookInv
    <2>2. CASE CheckConnected \/ LostNotify
      BY <1>1, <2>2 DEF CheckConnected, LostNotify, SessionInv, HookInv
    <2>3. CASE ~(LostHook \/ CheckConnected \/ LostNotify)
      <3>1. UNCHANGED <<isRunning, hooks>> /\ workerPc \notin {"lost", "hook"}
        BY <2>3 DEF Worker, WorkerLoop, ProcessResponse, ProcessEvent, PushEvent, NotifyEvent,
                    NothingReceived, WorkerExit
      <3> QED BY <1>1, <3>1 DEF SessionInv, HookInv
    <2> QED BY <2>1, <2>2, <2>3
  <1> QED BY <1>6, <1>7, <1>8 DEF SessionInv

\* The steps of the owner.
LEMMA SessionOwner ==
    ASSUME ClientTypeOK, SessionInv, Owner
    PROVE  SessionInv'
  <1> USE DEF SessionInv, WorkerInv, JoinInv, HookInv
  <1>1. CASE Connect \/ DisconnectClosed \/ Destroy \/ HandshakeFails
    BY <1>1 DEF Connect, DisconnectClosed, Destroy, HandshakeFails, receiverVars, eventVars, reqVars
  <1>2. CASE Open \/ OpenFails \/ Handshake
    BY <1>2 DEF Open, OpenFails, Handshake, receiverVars, eventVars, reqVars
  <1>3. CASE StartThreads
    <2>1. /\ isRunning' = TRUE /\ workerPc' = "loop" /\ eventPc' = "check"
          /\ ownerPc' = "handshake" /\ session' = session + 1
      BY <1>3 DEF StartThreads
    <2>2. session' > 0
      BY <2>1 DEF ClientTypeOK, OwnerType
    <2> QED BY <2>1, <2>2
  <1>4. CASE Disconnect
    BY <1>4 DEF Disconnect, NewRequest, receiverVars, eventVars
  <1>5. CASE StopRunning
    <2>1. ownerNext = "hook"
      BY <1>5 DEF StopRunning, ClientTypeOK, OwnerType
    <2> QED BY <1>5, <2>1 DEF StopRunning, receiverVars, eventVars, reqVars
  <1>6. CASE ShutdownTransport
    BY <1>6 DEF ShutdownTransport, receiverVars, eventVars, reqVars
  <1>7. CASE OwnerNotify
    BY <1>7 DEF OwnerNotify, Wake, receiverVars, eventVars, reqVars
  <1>8. CASE JoinWorker
    BY <1>8 DEF JoinWorker, eventVars, reqVars
  <1>9. CASE JoinEvent
    BY <1>9 DEF JoinEvent, receiverVars, reqVars, ClientTypeOK, OwnerType
  <1>10. CASE FinishDisconnect
    <2>1. /\ UNCHANGED <<isRunning, session, workerPc, eventPc>>
          /\ pending' = {} /\ ownerPc' = "idle" /\ ownerNext' = "idle"
          /\ hooks' = [hooks EXCEPT ![session] = @ + 1]
      BY <1>10 DEF FinishDisconnect, FailAllPending, receiverVars, eventVars
    <2>2. ASSUME session > 0 PROVE hooks'[session] > 0
      <3>1. session \in 1 .. MaxSessions /\ hooks \in [1 .. MaxSessions -> Nat]
        BY <2>2 DEF ClientTypeOK, OwnerType
      <3> QED BY <2>1, <3>1
    <2> QED BY <2>1, <2>2
  <1> QED
    BY <1>1, <1>2, <1>3, <1>4, <1>5, <1>6, <1>7, <1>8, <1>9, <1>10 DEF Owner, OwnerContinues

\* A future that send_request() returned is ready, or its promise is where
\* the response or the next sweep finds it; and no session ends without its
\* on_disconnect(), however the owner's calls, the worker's loss handling and
\* the requests interleave.
THEOREM NoFutureForgottenHolds == ClientSpec => []NoFutureForgotten
  <1>1. ClientInit => SessionInv
    BY DEF ClientInit, SessionInv, WorkerInv, JoinInv, HookInv
  <1>2. ClientTypeOK /\ SessionInv /\ [ClientNext]_clientVars => SessionInv'
    <2>1. UNCHANGED clientVars => UNCHANGED sessionVars
      BY DEF clientVars, sessionVars, ownerVars, receiverVars, eventVars, reqVars
    <2> QED
      BY <2>1, SessionUnchanged, SessionRequests, SessionWorker, SessionOwner DEF ClientNext
  <1>3. PromiseInv /\ SessionInv => NoFutureForgotten
    BY DEF PromiseInv, HandedOutInv, SessionInv, WorkerInv, JoinInv, HookInv,
           NoFutureForgotten, Joinable
  <1> QED
    BY <1>1, <1>2, <1>3, ClientTypeCorrect, PromisesCorrect, PTL DEF ClientSpec
-----------------------------------------------------------------------------
(***************************************************************************)
(* The order of events.                                                    *)
(***************************************************************************)
EventFrame(e) == [kind |-> "event", id |-> e]

\* The events among the frames of s come in ascending order.
EventsAscend(s) ==
    \A j, k \in 1 .. Len(s) :
        j < k /\ s[j].kind = "event" /\ s[k].kind = "event" => s[j].id < s[k].id

Received(e) == Has(delivered, e) \/ Has(queue, e)

\* Each stage an event passes through is in order ...
StagesInv == Ascending(delivered) /\ Ascending(queue) /\ EventsAscend(s2c)

\* ... and what is further along was emitted earlier.
LineInv ==
    /\ \A d, q \in Events : Has(delivered, d) /\ Has(queue, q) => d < q
    /\ workerEvent # 0 => \A e \in Events : Received(e) => e < workerEvent
    /\ \A e, f \in Events :
         (Received(e) \/ workerEvent = e) /\ Has(s2c, EventFrame(f)) => e < f
    /\ \A e \in Events :
         Received(e) \/ workerEvent = e \/ Has(s2c, EventFrame(e)) => e <= emitted

OrderInv == StagesInv /\ LineInv

\* The wire stays in order when a response, or a later event, is added or
\* the first frame is taken.
LEMMA FrameSteps ==
    ASSUME NEW s \in Seq(Frames), EventsAscend(s)
    PROVE  /\ \A f \in Frames :
                (f.kind = "event" => \A e \in Events : Has(s, EventFrame(e)) => e < f.id)
                  => EventsAscend(Append(s, f))
           /\ s # << >> => /\ EventsAscend(Tail(s))
                           /\ \A e \in Events : Has(Tail(s), EventFrame(e)) /\ Head(s).kind = "event"
                                => Head(s).id < e
  <1>0. \A f \in Frames : f.kind = "event" => f.id \in Events /\ f = EventFrame(f.id)
    BY DEF Frames, EventFrame
  <1>1. ASSUME NEW f \in Frames,
               f.kind = "event" => \A e \in Events : Has(s, EventFrame(e)) => e < f.id
        PROVE  EventsAscend(Append(s, f))
    <2> DEFINE t == Append(s, f)
               n == Len(s)
    <2>1. /\ n \in Nat /\ Len(t) = n + 1 /\ t[n + 1] = f
          /\ \A k \in 1 .. n : t[k] = s[k] /\ s[k] \in Frames
      OBVIOUS
    <2> HIDE DEF t
    <2> SUFFICES ASSUME NEW j \in 1 .. Len(t), NEW k \in 1 .. Len(t), j < k,
                        t[j].kind = "event", t[k].kind = "event"
                 PROVE  t[j].id < t[k].id
      BY DEF EventsAscend, t
    <2>2. j \in 1 .. n
      BY <2>1
    <2>3. CASE k \in 1 .. n
      BY <2>1, <2>2, <2>3 DEF EventsAscend
    <2>4. CASE k = n + 1
      <3>1. s[j] \in Frames /\ s[j].kind = "event" /\ t[j] = s[j] /\ t[k] = f
        BY <2>1, <2>2, <2>4
      <3>2. s[j] = EventFrame(s[j].id) /\ s[j].id \in Events
        BY <1>0, <3>1
      <3>3. Has(s, EventFrame(s[j].id))
        BY <2>2, <3>2 DEF Has
      <3> QED BY <1>1, <3>1, <3>2, <3>3
    <2> QED BY <2>1, <2>3, <2>4
  <1>2. ASSUME s # << >>
        PROVE  /\ EventsAscend(Tail(s))
               /\ \A e \in Events : Has(Tail(s), EventFrame(e)) /\ Head(s).kind = "event"
                    => Head(s).id < e
    <2> DEFINE t == Tail(s)
               n == Len(s)
    <2>1. /\ n \in Nat /\ n > 0 /\ Len(t) = n - 1 /\ s[1] = Head(s)
          /\ \A k \in 1 .. n - 1 : t[k] = s[k + 1] /\ k + 1 \in 1 .. n
      BY <1>2
    <2> HIDE DEF t
    <2>2. ASSUME NEW j \in 1 .. Len(t), NEW k \in 1 .. Len(t), j < k,
                 t[j].kind = "event", t[k].kind = "event"
          PROVE  t[j].id < t[k].id
      <3>1. t[j] = s[j + 1] /\ t[k] = s[k + 1] /\ j + 1 \in 1 .. n /\ k + 1 \in 1 .. n
        BY <2>1
      <3>2. j + 1 < k + 1
        BY <2>2
      <3> QED BY <2>2, <3>1, <3>2 DEF EventsAscend
    <2>3. ASSUME NEW e \in Events, Has(t, EventFrame(e)), Head(s).kind = "event"
          PROVE  Head(s).id < e
      <3>1. PICK k \in 1 .. Len(t) : t[k] = EventFrame(e)
        BY <2>3 DEF Has
      <3>2. s[k + 1] = EventFrame(e) /\ k + 1 \in 1 .. n /\ 1 \in 1 .. n /\ 1 < k + 1
        BY <2>1, <3>1
      <3>3. s[k + 1].kind = "event" /\ s[k + 1].id = e
        BY <3>2 DEF EventFrame
      <3> QED BY <2>1, <2>3, <3>2, <3>3 DEF EventsAscend
    <2>4. EventsAscend(t)
      BY <2>2 DEF EventsAscend
    <2> QED BY <2>3, <2>4 DEF t
  <1> QED BY <1>1, <1>2

\* The steps of the client as the events see them.
LEMMA OrderSteps ==
    ASSUME ClientNext
    PROVE  \/ UNCHANGED <<queue, delivered, workerEvent, s2c, emitted>>
           \/ \E r \in Reqs : PeerAnswers(r)
           \/ PeerEmits \/ ProcessResponse \/ ProcessEvent \/ PushEvent
           \/ EventPop /\ queue # << >>
           \/ s2c' = << >> /\ UNCHANGED <<queue, delivered, workerEvent, emitted>>
  <1> USE DEF receiverVars, eventVars, linkVars
  <1>1. CASE Requests
    BY <1>1 DEF Requests, StartRequest, DestroyObject, RegisterEventHandler, InsertRequest,
                SendRequest, SendFails
  <1>2. CASE Peer
    BY <1>2 DEF Peer, PeerCloses
  <1>3. CASE Worker
    BY <1>3 DEF Worker, WorkerLoop, NotifyEvent, NothingReceived,
                CheckConnected, LostNotify, LostHook, WorkerExit
  <1>4. CASE EventThread \/ SpuriousWakeup
    BY <1>4 DEF EventThread, SpuriousWakeup, EventCheck, EventBlock, EventPop, TaskCalls,
                TaskReturns
  <1>5. CASE Owner
    BY <1>5 DEF Owner, OwnerContinues, Connect, Disconnect, DisconnectClosed, Destroy, Open,
                OpenFails, StartThreads, Handshake, HandshakeFails, StopRunning,
                ShutdownTransport, OwnerNotify, JoinWorker, JoinEvent, FinishDisconnect
  <1> QED
    BY <1>1, <1>2, <1>3, <1>4, <1>5 DEF ClientNext

\* Each step keeps the events in line.
LEMMA OrderStep ==
    ASSUME ClientTypeOK, OrderInv, [ClientNext]_clientVars
    PROVE  OrderInv'
  <1> USE DEF OrderInv, StagesInv
  <1>0. /\ queue \in Seq(Events) /\ delivered \in Seq(Events) /\ s2c \in Seq(Frames)
        /\ workerEvent \in 0 .. MaxEvents /\ emitted \in 0 .. MaxEvents
        /\ Events \in SUBSET Nat /\ 0 \notin Events
    BY ClientAssumption DEF ClientTypeOK, EventType, ReceiverType, LinkType, Events
  <1>1. CASE UNCHANGED <<queue, delivered, workerEvent, s2c, emitted>>
    BY <1>1 DEF LineInv, Received
  <1>2. ASSUME NEW r \in Reqs, PeerAnswers(r) PROVE OrderInv'
    <2>1. PICK id \in {r, 0} : s2c' = Append(s2c, [kind |-> "response", id |-> id])
      BY <1>2 DEF PeerAnswers
    <2>2. UNCHANGED <<queue, delivered, workerEvent, emitted>>
      BY <1>2 DEF PeerAnswers, receiverVars, eventVars
    <2> DEFINE f == [kind |-> "response", id |-> id]
    <2>3. f \in Frames /\ f.kind # "event" /\ \A e \in Events : f # EventFrame(e)
      BY FrameFacts DEF EventFrame
    <2> HIDE DEF f
    <2>4. EventsAscend(s2c') /\ \A e \in Events : Has(s2c', EventFrame(e)) <=> Has(s2c, EventFrame(e))
      BY <1>0, <2>1, <2>3, FrameSteps, AppendHas DEF f
    <2> QED BY <2>2, <2>4 DEF LineInv, Received
  <1>3. CASE PeerEmits
    <2>1. /\ UNCHANGED <<queue, delivered, workerEvent>> /\ emitted' = emitted + 1
          /\ s2c' = Append(s2c, EventFrame(emitted')) /\ emitted' \in Events
      BY <1>0, <1>3, ClientAssumption DEF PeerEmits, receiverVars, eventVars, EventFrame, Events
    <2>2. EventFrame(emitted') \in Frames /\ EventFrame(emitted').kind = "event"
          /\ EventFrame(emitted').id = emitted'
      BY <2>1, FrameFacts DEF EventFrame
    <2>3. \A e \in Events : Received(e) \/ workerEvent = e \/ Has(s2c, EventFrame(e)) => e < emitted'
      BY <1>0, <2>1 DEF LineInv
    <2>4. EventsAscend(s2c')
      BY <1>0, <2>1, <2>2, <2>3, FrameSteps
    <2>5. \A e \in Events : Has(s2c', EventFrame(e)) => Has(s2c, EventFrame(e)) \/ e = emitted'
      BY <1>0, <2>1, <2>2, AppendHas DEF EventFrame
    <2>6. \A e \in Events : e < emitted' => e <= emitted'
      BY <1>0, <2>1
    <2>7. emitted' <= emitted'
      BY <1>0, <2>1
    <2>8. \A e : Received(e)' <=> Received(e)
      BY <2>1 DEF Received
    <2>9. LineInv'
      BY <2>1, <2>3, <2>5, <2>6, <2>7, <2>8 DEF LineInv
    <2> QED BY <2>1, <2>4, <2>9
  <1>4. CASE ProcessResponse
    <2>1. /\ UNCHANGED <<queue, delivered, workerEvent, emitted>> /\ s2c # << >>
          /\ s2c' = Tail(s2c)
      BY <1>4 DEF ProcessResponse, eventVars
    <2>2. EventsAscend(s2c') /\ \A e \in Events : Has(s2c', EventFrame(e)) => Has(s2c, EventFrame(e))
      BY <1>0, <2>1, FrameSteps, TailHas
    <2> QED BY <2>1, <2>2 DEF LineInv, Received
  <1>5. CASE ProcessEvent
    <2>1. /\ UNCHANGED <<queue, delivered, emitted>> /\ s2c # << >>
          /\ s2c' = Tail(s2c) /\ Head(s2c).kind = "event"
          /\ workerEvent' \in {0, Head(s2c).id}
      BY <1>5 DEF ProcessEvent, eventVars
    <2>2. /\ EventsAscend(s2c') /\ \A e \in Events : Has(s2c', EventFrame(e)) => Has(s2c, EventFrame(e))
          /\ \A e \in Events : Has(s2c', EventFrame(e)) => Head(s2c).id < e
      BY <1>0, <2>1, FrameSteps, TailHas
    <2>3. Head(s2c) \in Frames /\ Has(s2c, Head(s2c))
      BY <1>0, <2>1, TailHas
    <2>4. Head(s2c).id \in Events /\ Has(s2c, EventFrame(Head(s2c).id))
      BY <2>1, <2>3 DEF Frames, EventFrame
    <2>5. \A e : Received(e)' <=> Received(e)
      BY <2>1 DEF Received
    <2>6. LineInv'
      BY <1>0, <2>1, <2>2, <2>4, <2>5 DEF LineInv
    <2> QED BY <2>1, <2>2, <2>6
  <1>6. CASE PushEvent
    <2>1. /\ UNCHANGED <<s2c, delivered, emitted>> /\ workerEvent \in Events
          /\ queue' = Append(queue, workerEvent) /\ workerEvent' = 0
      BY <1>6 DEF PushEvent, linkVars, ClientTypeOK, ReceiverType
    <2>2. \A e \in Events : Received(e) => e < workerEvent
      BY <1>0, <2>1 DEF LineInv
    <2>3. Ascending(queue') /\ \A e : Has(queue', e) <=> Has(queue, e) \/ e = workerEvent
      BY <1>0, <2>1, <2>2, AscendingSteps, AppendHas DEF Received
    <2>4. \A e : Received(e)' <=> Received(e) \/ e = workerEvent
      BY <2>1, <2>3 DEF Received
    <2>5. \A d, q \in Events : Has(delivered, d) /\ Has(queue', q) => d < q
      BY <2>2, <2>3 DEF LineInv, Received
    <2>6. LineInv'
      BY <1>0, <2>1, <2>4, <2>5 DEF LineInv
    <2> QED BY <2>1, <2>3, <2>6
  <1>7. CASE EventPop /\ queue # << >>
    <2>1. /\ UNCHANGED <<s2c, workerEvent, emitted>>
          /\ delivered' = Append(delivered, Head(queue)) /\ queue' = Tail(queue)
      BY <1>7 DEF EventPop, receiverVars, linkVars
    <2>2. /\ Head(queue) \in Events /\ Has(queue, Head(queue))
          /\ \A e : Has(queue', e) => Has(queue, e)
      BY <1>0, <1>7, <2>1, TailHas
    <2>3. \A e \in Events : Has(delivered, e) => e < Head(queue)
      BY <2>2 DEF LineInv
    <2>4. Ascending(delivered') /\ \A e : Has(delivered', e) <=> Has(delivered, e) \/ e = Head(queue)
      <3>1. Ascending(Append(delivered, Head(queue)))
        BY <1>0, <2>2, <2>3, AscendingSteps
      <3>2. \A e : Has(Append(delivered, Head(queue)), e) <=> Has(delivered, e) \/ e = Head(queue)
        BY <1>0, <2>2, AppendHas
      <3> QED BY <2>1, <3>1, <3>2
    <2>5. Ascending(queue') /\ \A e \in Events : Has(queue', e) => Head(queue) < e
      BY <1>0, <1>7, <2>1, AscendingSteps
    <2>6. \A e : Received(e)' => Received(e)
      BY <2>2, <2>4 DEF Received
    <2>7. \A d, q \in Events : Has(delivered', d) /\ Has(queue', q) => d < q
      BY <2>2, <2>4, <2>5 DEF LineInv
    <2>8. LineInv'
      BY <2>1, <2>6, <2>7 DEF LineInv
    <2> QED BY <2>1, <2>4, <2>5, <2>8
  <1>8. CASE s2c' = << >> /\ UNCHANGED <<queue, delivered, workerEvent, emitted>>
    <2>1. EventsAscend(s2c') /\ \A e : ~Has(s2c', EventFrame(e))
      BY <1>8, EmptyHas DEF EventsAscend
    <2> QED BY <1>8, <2>1 DEF LineInv, Received
  <1>9. UNCHANGED clientVars => UNCHANGED <<queue, delivered, workerEvent, s2c, emitted>>
    BY DEF clientVars, receiverVars, eventVars, linkVars
  <1> QED
    BY <1>1, <1>2, <1>3, <1>4, <1>5, <1>6, <1>7, <1>8, <1>9, OrderSteps

\* Handlers see events in the order the peer emitted them, each at most once:
\* across the wire, the worker's hands and event_queue_, and from one session
\* to the next.
THEOREM EventsInOrderHolds == ClientSpec => []EventsInOrder
  <1>1. ClientInit => OrderInv
    <2> SUFFICES ASSUME ClientInit PROVE OrderInv
      OBVIOUS
    <2>1. Ascending(<< >>) /\ EventsAscend(<< >>)
      BY DEF Ascending, EventsAscend
    <2>2. 0 \notin Events
      BY DEF Events
    <2> QED
      BY <2>1, <2>2, EmptyHas DEF ClientInit, OrderInv, StagesInv, LineInv, Received
  <1>2. OrderInv => EventsInOrder
    BY DEF OrderInv, StagesInv, Ascending, EventsInOrder
  <1> QED
    BY <1>1, <1>2, OrderStep, ClientTypeCorrect, PTL DEF ClientSpec
=============================================================================
