-------------------------------- MODULE RmiC --------------------------------
(***************************************************************************)
(* The pure-C RMI library (src/rmi/rmi_c.cpp) and the C++ and Java layers  *)
(* over it: one client handle, its proxies, futures and event              *)
(* subscriptions, and a server handle with its authentication callback.    *)
(* Several caller threads use the client at once.  A blocking call is two  *)
(* steps, the request and the end of the wait; between them the worker may *)
(* answer, the peer may go, or the caller's timeout may pass.              *)
(*                                                                         *)
(* Requests are numbered; an object is named by the request that created   *)
(* it, a future handle by the request it waits for.  A request is kept by  *)
(* the type of its future ("bool", "dynamic", "proxy", or "destroy"); the  *)
(* values are left out.  An application has a client or a server handle.   *)
(***************************************************************************)
EXTENDS Integers, FiniteSets, Sequences

CONSTANTS RmiLangs,     \* the languages the application is written in
          Callers,      \* its threads
          MaxRequests,  \* bound on the requests it makes
          MaxContexts   \* bound on the callbacks it registers

ASSUME RmiCAssumption ==
    /\ RmiLangs \subseteq {"c", "cpp", "java"}
    /\ MaxRequests \in Nat /\ MaxContexts \in Nat

VARIABLES
    rlang,     \* the language of this application
    cl,        \* the client handle: its kind and the state of its connection
    requests,  \* the requests, in the order made
    objects,   \* the objects alive at the server (or in the standalone)
    proxies,   \* the objects a proxy handle is held for
    futures,   \* the future handles: absent, "live" or "freed"
    held,      \* the futures whose owner's variable is not null
    dropped,   \* the objects whose future was released unread
    inCall,    \* the call each thread is in
    last,      \* the last outcome of a request that was reported
    subs,      \* the event handlers registered: object and context
    firing,    \* the contexts of the handlers that are queued or running
    kept,      \* the contexts allocated and not freed
    made,      \* the number of contexts ever allocated
    srv,       \* the server handle and the context of its auth module
    corrupt    \* a handle was freed twice

clientSide == <<cl, requests, objects, proxies, futures, held, dropped>>
callSide == <<inCall, last>>
eventSide == <<subs, firing, kept, made, srv>>
rmiCVars == <<rlang, clientSide, callSide, eventSide, corrupt>>

----------------------------------------------------------------------------
(* What each language can call; every entry is the C function of the name. *)

CppClient == {"connect", "disconnect", "describe", "describe_async",
              "instantiate", "instantiate_async"}
CppProxy == {"get", "get_async", "set", "set_async", "clear", "clear_async",
             "call", "call_async", "release"}
JavaClient == {"connect", "disconnect", "instantiate", "instantiate_async"}
JavaProxy == {"get", "get_async", "set", "set_async", "clear", "clear_async",
              "call", "call_async", "release"}
Offers(op) == CASE rlang = "c" -> TRUE
                [] rlang = "cpp" -> op \in CppClient \cup CppProxy
                [] rlang = "java" -> op \in JavaClient \cup JavaProxy

\* std::async futures: their destructor waits for the task.
OnItsOwnThread(kind) == kind \in {"bool", "proxy"}

----------------------------------------------------------------------------
Idle == [op |-> "none", req |-> 0, timed |-> FALSE]

\* The handles that the create functions of clients and of servers return.
NewClient == [kind : {"remote", "standalone"}, conn : {"new"}]
NewServer == [state |-> "made", auth |-> 0]

RmiCInit ==
    /\ rlang \in RmiLangs
    /\ \/ /\ cl \in NewClient
          /\ srv = [state |-> "none", auth |-> 0]
       \/ /\ cl = [kind |-> "none", conn |-> "none"]
          /\ srv = NewServer
    /\ requests = <<>> /\ objects = {} /\ proxies = {} /\ dropped = {}
    /\ futures = [r \in 1..MaxRequests |-> "absent"] /\ held = {}
    /\ inCall = [t \in Callers |-> Idle]
    /\ last = [req |-> 0, err |-> "OK"]
    /\ subs = {} /\ firing = {} /\ kept = {} /\ made = 0
    /\ corrupt = FALSE

\* client_handle_is_valid(): neither null nor released.
client_handle_is_valid == cl.conn \notin {"none", "released"}
Reachable == cl.kind = "standalone" \/ cl.conn \in {"up", "gone"}
Pending(r) == requests[r].state = "pending"

\* send_request(): refused at once when the worker has stopped.
Sent(kind, obj) ==
    Append(requests, [kind |-> kind, obj |-> obj,
                      state |-> IF Reachable THEN "pending" ELSE "lost"])

map_runtime_error(state) ==
    IF state = "remote" THEN {"REMOTE_EXCEPTION", "INVALID_STATE"}
    ELSE {"INVALID_STATE"}

\* The call of thread t is over; Report also says what it told of request r.
Return(t) == inCall' = [inCall EXCEPT ![t] = Idle] /\ UNCHANGED last
Report(t, r, err) ==
    /\ inCall' = [inCall EXCEPT ![t] = Idle]
    /\ last' = [req |-> r, err |-> err]

Enter(t, op, r, timed) ==
    /\ inCall' = [inCall EXCEPT ![t] = [op |-> op, req |-> r, timed |-> timed]]
    /\ UNCHANGED last

OutsideCall(t) == inCall[t] = Idle
\* A blocking call on proxy p is in flight.
InUse(p) == \E t \in Callers : inCall[t].op \in {"wait", "unwind"} /\
                               requests[inCall[t].req].obj = p

----------------------------------------------------------------------------
(* The client handle. *)

rmi_client_connect(t) ==
    /\ OutsideCall(t) /\ Offers("connect") /\ client_handle_is_valid
    /\ cl.conn \in {"new", "down"}
    /\ IF cl.kind = "standalone"
       THEN UNCHANGED cl
       ELSE cl' = [cl EXCEPT !.conn = "up"] \/ UNCHANGED cl
    /\ Return(t)
    /\ UNCHANGED <<rlang, requests, objects, proxies, futures, held, dropped, eventSide,
                   corrupt>>

\* Mutant of Ended: what is pending is forgotten.
EndedForgets == requests

\* Every request that is still pending fails, and the session's objects go.
Ended == [r \in DOMAIN requests |->
            IF Pending(r) THEN [requests[r] EXCEPT !.state = "lost"]
            ELSE requests[r]]

rmi_client_disconnect(t) ==
    /\ OutsideCall(t) /\ Offers("disconnect") /\ client_handle_is_valid
    /\ Return(t)
    /\ IF cl.kind = "standalone" \/ ~Reachable
       THEN UNCHANGED <<cl, requests, objects>>
       ELSE /\ cl' = [cl EXCEPT !.conn = "down"]
            /\ requests' = Ended /\ objects' = {}
    /\ UNCHANGED <<rlang, proxies, futures, held, dropped, eventSide, corrupt>>

\* The application releases the client last: no call, proxy or future left.
rmi_client_release(t) ==
    /\ client_handle_is_valid /\ proxies = {} /\ held = {}
    /\ \A u \in Callers : OutsideCall(u)
    /\ cl' = [cl EXCEPT !.conn = "released"]
    /\ requests' = Ended /\ objects' = {}
    /\ Return(t)
    /\ UNCHANGED <<rlang, proxies, futures, held, dropped, eventSide, corrupt>>

----------------------------------------------------------------------------
(* Blocking calls. *)

Request(t, kind, obj) ==
    /\ OutsideCall(t) /\ Len(requests) < MaxRequests
    /\ requests' = Sent(kind, obj)
    /\ UNCHANGED <<rlang, cl, objects, dropped, kept, made, srv, corrupt, firing>>

Blocking(t, op, kind, obj, timed) ==
    /\ Offers(op) /\ Request(t, kind, obj)
    /\ Enter(t, "wait", Len(requests) + 1, timed)
    /\ UNCHANGED <<proxies, futures, held, subs>>

rmi_client_describe(t) ==
    client_handle_is_valid /\ Blocking(t, "describe", "dynamic", 0, FALSE)
rmi_client_instantiate(t) ==
    client_handle_is_valid /\ Blocking(t, "instantiate", "proxy", 0, FALSE)
rmi_proxy_clear(t, p) == p \in proxies /\ Blocking(t, "clear", "bool", p, TRUE)
rmi_proxy_set(t, p) == p \in proxies /\ Blocking(t, "set", "bool", p, TRUE)
rmi_proxy_get(t, p) == p \in proxies /\ Blocking(t, "get", "dynamic", p, TRUE)
rmi_proxy_call(t, p) == p \in proxies /\ Blocking(t, "call", "dynamic", p, TRUE)

\* destroy() forgets the handlers first, then waits for the answer, and the
\* handle is freed whatever the answer.  A standalone forgets them when it
\* carries the request out.
rmi_proxy_release(t, p) ==
    /\ p \in proxies /\ ~InUse(p) /\ Offers("release")
    /\ Request(t, "destroy", p)
    /\ Enter(t, "wait", Len(requests) + 1, FALSE)
    /\ proxies' = proxies \ {p}
    /\ subs' = IF cl.kind = "standalone" THEN subs ELSE {s \in subs : s.obj # p}
    /\ UNCHANGED <<futures, held>>

\* Mutant of Outcomes: only an error of the server counts as a failure.
OutcomesLostIsOk(c) ==
    LET r == requests[c.req] IN
    IF r.state # "remote" THEN {"OK"}
    ELSE IF ~c.timed THEN {"INVALID_STATE"} ELSE map_runtime_error(r.state)

\* What the caller is told of a request that has ended: the untimed calls of
\* the client report any failure in the same way.
Outcomes(c) ==
    LET r == requests[c.req] IN
    IF r.kind = "destroy" \/ r.state = "value" THEN {"OK"}
    ELSE IF ~c.timed THEN {"INVALID_STATE"} ELSE map_runtime_error(r.state)

\* Mutant of CallEnds: the proxy of an object that was made is dropped.
CallEndsDropsProxy(t) ==
    LET c == inCall[t] IN
    /\ c.op = "wait" /\ ~Pending(c.req)
    /\ \E e \in Outcomes(c) : Report(t, c.req, e)
    /\ UNCHANGED <<rlang, clientSide, eventSide, corrupt>>

\* wait_future_result(), wait_future_bool() and the untimed get()s.
CallEnds(t) ==
    LET c == inCall[t] IN
    /\ c.op = "wait" /\ ~Pending(c.req)
    /\ \E e \in Outcomes(c) : Report(t, c.req, e)
    /\ proxies' = IF requests[c.req].kind = "proxy" /\ requests[c.req].state = "value"
                  THEN proxies \cup {c.req} ELSE proxies
    /\ UNCHANGED <<rlang, cl, requests, objects, futures, held, dropped, eventSide, corrupt>>

\* wait_for() gives up.  The future it gave up on is then destroyed: one
\* made by std::async makes its destructor wait for the answer after all.
CallTimesOut(t) ==
    LET c == inCall[t] IN
    /\ c.op = "wait" /\ c.timed /\ Pending(c.req)
    /\ IF OnItsOwnThread(requests[c.req].kind)
       THEN Enter(t, "unwind", c.req, TRUE)
       ELSE Report(t, c.req, "TIMEOUT")
    /\ UNCHANGED <<rlang, clientSide, eventSide, corrupt>>

CallUnwinds(t) ==
    LET c == inCall[t] IN
    /\ c.op = "unwind" /\ ~Pending(c.req)
    /\ Report(t, c.req, "TIMEOUT")
    /\ UNCHANGED <<rlang, clientSide, eventSide, corrupt>>

----------------------------------------------------------------------------
(* Asynchronous calls and their future handles. *)

\* store_future_handle(): the request is made, its handle handed out.
Asynchronous(t, op, kind, obj) ==
    /\ Offers(op) /\ Request(t, kind, obj)
    /\ futures' = [futures EXCEPT ![Len(requests) + 1] = "live"]
    /\ held' = held \cup {Len(requests) + 1}
    /\ Return(t)
    /\ UNCHANGED <<proxies, subs>>

rmi_client_describe_async(t) ==
    client_handle_is_valid /\ Asynchronous(t, "describe_async", "dynamic", 0)
rmi_client_instantiate_async(t) ==
    client_handle_is_valid /\ Asynchronous(t, "instantiate_async", "proxy", 0)
rmi_proxy_clear_async(t, p) == p \in proxies /\ Asynchronous(t, "clear_async", "bool", p)
rmi_proxy_set_async(t, p) == p \in proxies /\ Asynchronous(t, "set_async", "bool", p)
rmi_proxy_get_async(t, p) == p \in proxies /\ Asynchronous(t, "get_async", "dynamic", p)
rmi_proxy_call_async(t, p) == p \in proxies /\ Asynchronous(t, "call_async", "dynamic", p)

Getters == {"get_dynamic", "get_proxy"}
\* No other thread is in a call on the same future.
Exclusive(r) == \A t \in Callers :
                   inCall[t].op \in Getters \cup {"release"} => inCall[t].req # r

\* Bounded, and no result is reported: a failure too makes the future ready.
rmi_future_wait(t, r) ==
    /\ OutsideCall(t) /\ r \in held /\ futures[r] = "live" /\ Exclusive(r)
    /\ UNCHANGED rmiCVars

\* take_dynamic() and take_proxy() by the kind of the future.
Takes(getter, kind) ==
    <<getter, kind>> \in {<<"get_dynamic", "dynamic">>, <<"get_proxy", "proxy">>}

\* consume_future_handle(): the owner's variable is null before the wait.
rmi_future_get(t, r, getter) ==
    /\ OutsideCall(t) /\ r \in held /\ futures[r] = "live" /\ Exclusive(r)
    /\ Enter(t, getter, r, FALSE)
    /\ held' = held \ {r}
    /\ UNCHANGED <<rlang, cl, requests, objects, proxies, futures, dropped, eventSide,
                   corrupt>>

\* Java's getDynamic() and getProxy() hand the native code a copy of the
\* handle; their own field is cleared by the statement after the call.
FutureGet(t, r, getter) ==
    IF rlang = "java"
    THEN /\ OutsideCall(t) /\ r \in held /\ Exclusive(r)
         /\ Enter(t, getter, r, FALSE)
         /\ corrupt' = (futures[r] = "freed")
         /\ UNCHANGED <<rlang, clientSide, eventSide>>
    ELSE rmi_future_get(t, r, getter)

Wakes(c) ==
    LET kind == requests[c.req].kind IN
    ~Pending(c.req) \/ (~Takes(c.op, kind) /\ ~OnItsOwnThread(kind))

\* The state is deleted whatever the result; a failure in Java is thrown
\* before the field is cleared.
FutureGot(t) ==
    LET c == inCall[t]
        r == requests[c.req]
        ok == Takes(c.op, r.kind) /\ r.state = "value"
    IN
    /\ c.op \in Getters /\ Wakes(c)
    /\ futures' = [futures EXCEPT ![c.req] = "freed"]
    /\ held' = IF ok THEN held \ {c.req} ELSE held
    /\ proxies' = IF ok /\ r.kind = "proxy" THEN proxies \cup {c.req} ELSE proxies
    /\ dropped' = IF ~ok /\ r.kind = "proxy" THEN dropped \cup {c.req} ELSE dropped
    /\ \E e \in IF ok THEN {"OK"}
              ELSE IF Takes(c.op, r.kind) THEN map_runtime_error(r.state)
              ELSE {"INVALID_STATE"} : Report(t, c.req, e)
    /\ UNCHANGED <<rlang, cl, requests, objects, eventSide, corrupt>>

\* ~future(), Future.close(): released if the variable is not null.
rmi_future_release(t, r) ==
    /\ OutsideCall(t) /\ r \in held /\ Exclusive(r)
    /\ Enter(t, "release", r, FALSE)
    /\ held' = held \ {r}
    /\ corrupt' = (futures[r] = "freed")
    /\ UNCHANGED <<rlang, cl, requests, objects, proxies, futures, dropped, eventSide>>

FutureReleased(t) ==
    LET c == inCall[t]
        r == requests[c.req]
    IN
    /\ c.op = "release" /\ (~Pending(c.req) \/ ~OnItsOwnThread(r.kind))
    /\ futures' = [futures EXCEPT ![c.req] = "freed"]
    /\ dropped' = IF r.kind = "proxy" THEN dropped \cup {c.req} ELSE dropped
    /\ Return(t)
    /\ UNCHANGED <<rlang, cl, requests, objects, proxies, held, eventSide, corrupt>>

----------------------------------------------------------------------------
(* The other side: the worker, the peer, and the events it sends. *)

Answer(r) ==
    /\ Pending(r) /\ (cl.kind = "standalone" \/ cl.conn = "up")
    /\ \E s \in {"value", "remote"} :
        LET kind == requests[r].kind
            obj == requests[r].obj
        IN /\ kind = "destroy" => s = IF obj \in objects THEN "value" ELSE "remote"
           /\ requests' = [requests EXCEPT ![r].state = s]
           /\ objects' = CASE s = "value" /\ kind = "proxy" -> objects \cup {r}
                           [] s = "value" /\ kind = "destroy" -> objects \ {obj}
                           [] OTHER -> objects
           /\ subs' = IF cl.kind = "standalone" /\ kind = "destroy"
                      THEN {x \in subs : x.obj # obj} ELSE subs
    /\ UNCHANGED <<rlang, cl, proxies, futures, held, dropped, callSide, firing,
                   kept, made, srv, corrupt>>

\* The peer ends the session: its objects go, the client does not know yet.
PeerGone ==
    /\ cl.kind = "remote" /\ cl.conn = "up"
    /\ cl' = [cl EXCEPT !.conn = "gone"] /\ objects' = {}
    /\ UNCHANGED <<rlang, requests, proxies, futures, held, dropped, callSide, eventSide,
                   corrupt>>

\* worker_loop() finds the transport closed and fails every request.
WorkerExits ==
    /\ cl.conn = "gone"
    /\ cl' = [cl EXCEPT !.conn = "down"] /\ requests' = Ended
    /\ UNCHANGED <<rlang, objects, proxies, futures, held, dropped, callSide, eventSide,
                   corrupt>>

\* An event finds its handler, and a copy of the handler is queued.
EventArrives(s) ==
    /\ s \in subs /\ s.obj \in objects /\ s.ctx \notin firing
    /\ firing' = firing \cup {s.ctx}
    /\ UNCHANGED <<rlang, clientSide, callSide, subs, kept, made, srv, corrupt>>

EventHandled(c) ==
    /\ c \in firing /\ firing' = firing \ {c}
    /\ UNCHANGED <<rlang, clientSide, callSide, subs, kept, made, srv, corrupt>>

----------------------------------------------------------------------------
(* Callbacks and the contexts they are called with. *)

\* The C++ layer keeps every closure for the life of the process.
register_event_fn(c) == kept \cup {c}
cpp_onEvent(c, err) == register_event_fn(c)
register_auth_fn(c) == kept \cup {c}
cpp_listen(c, err) == register_auth_fn(c)

\* The Java layer deletes the context of a registration that failed.
nativeOnEvent(c, err) == IF err = "OK" THEN kept \cup {c} ELSE kept

\* Mutant of nativeListen: the context is deleted when the call returns.
nativeListenDrops(c, err) == kept

nativeListen(c, err) == IF err = "OK" THEN kept \cup {c} ELSE kept

\* A null proxy handle is refused; the registration replaces an earlier one.
rmi_proxy_on_event(t, p) ==
    LET c == made + 1
        err == IF p \in proxies THEN "OK" ELSE "NULL"
    IN
    /\ OutsideCall(t) /\ made < MaxContexts
    /\ made' = c
    /\ kept' = CASE rlang = "c" -> kept \cup {c}
                 [] rlang = "cpp" -> cpp_onEvent(c, err)
                 [] rlang = "java" -> nativeOnEvent(c, err)
    /\ subs' = IF err = "OK"
               THEN {s \in subs : s.obj # p} \cup {[obj |-> p, ctx |-> c]} ELSE subs
    /\ Return(t)
    /\ UNCHANGED <<rlang, clientSide, firing, srv, corrupt>>

\* listen() stores the auth module before the transport starts, which may
\* fail; the module is then kept, the accept loop not started.
rmi_server_listen(t) ==
    LET c == made + 1 IN
    /\ OutsideCall(t) /\ srv.state \in {"made", "stopped"} /\ made < MaxContexts
    /\ made' = c
    /\ \E err \in {"OK", "TRANSPORT"} :
        /\ srv' = [state |-> IF err = "OK" THEN "listening" ELSE srv.state, auth |-> c]
        /\ kept' = CASE rlang = "c" -> kept \cup {c}
                     [] rlang = "cpp" -> cpp_listen(c, err)
                     [] rlang = "java" -> nativeListen(c, err)
        /\ Return(t)
    /\ UNCHANGED <<rlang, clientSide, subs, firing, corrupt>>

rmi_server_stop(t) ==
    /\ OutsideCall(t) /\ srv.state = "listening"
    /\ srv' = [srv EXCEPT !.state = "stopped"]
    /\ Return(t)
    /\ UNCHANGED <<rlang, clientSide, subs, firing, kept, made, corrupt>>

rmi_server_release(t) ==
    /\ OutsideCall(t) /\ srv.state \notin {"none", "released"}
    /\ srv' = [state |-> "released", auth |-> 0]
    /\ Return(t)
    /\ UNCHANGED <<rlang, clientSide, subs, firing, kept, made, corrupt>>

----------------------------------------------------------------------------
ClientCall(t) ==
    \/ rmi_client_connect(t) \/ rmi_client_disconnect(t) \/ rmi_client_release(t)
    \/ rmi_client_describe(t) \/ rmi_client_instantiate(t)
    \/ rmi_client_describe_async(t) \/ rmi_client_instantiate_async(t)

ProxyCall(t) ==
    \E p \in proxies :
        \/ rmi_proxy_clear(t, p) \/ rmi_proxy_set(t, p)
        \/ rmi_proxy_get(t, p) \/ rmi_proxy_call(t, p)
        \/ rmi_proxy_clear_async(t, p) \/ rmi_proxy_set_async(t, p)
        \/ rmi_proxy_get_async(t, p) \/ rmi_proxy_call_async(t, p)
        \/ rmi_proxy_release(t, p)

FutureCall(t) ==
    \E r \in held :
        \/ rmi_future_wait(t, r) \/ rmi_future_release(t, r)
        \/ \E g \in {"get_dynamic", "get_proxy"} : FutureGet(t, r, g)

CallbackCall(t) ==
    \/ \E p \in proxies \cup {0} : rmi_proxy_on_event(t, p)
    \/ rmi_server_listen(t) \/ rmi_server_stop(t) \/ rmi_server_release(t)

CallReturns(t) ==
    CallEnds(t) \/ CallUnwinds(t) \/ FutureGot(t) \/ FutureReleased(t)

RmiCNext ==
    /\ ~corrupt
    /\ \/ \E t \in Callers : \/ ClientCall(t) \/ ProxyCall(t) \/ FutureCall(t)
                             \/ CallbackCall(t) \/ CallReturns(t) \/ CallTimesOut(t)
       \/ \E r \in DOMAIN requests : Answer(r)
       \/ PeerGone \/ WorkerExits
       \/ \E s \in subs : EventArrives(s)
       \/ \E c \in firing : EventHandled(c)

(* A wait that is over returns, time passes, and the client's worker runs. *)
(* The server is not assumed to answer.                                    *)
RmiCFairness ==
    /\ \A t \in Callers : WF_rmiCVars(CallReturns(t) \/ CallTimesOut(t))
    /\ WF_rmiCVars(WorkerExits)

----------------------------------------------------------------------------
(* What a call reports is what became of its request: RMI_OK only for one  *)
(* that was carried out, a remote exception only for one the server        *)
(* refused, whatever timeout, loss or disconnect came in between.          *)
ResultsTruthful ==
    last.req # 0 =>
        LET r == requests[last.req] IN
        /\ last.err = "OK" => r.state = "value" \/ r.kind = "destroy"
        /\ last.err = "REMOTE_EXCEPTION" => r.state = "remote"

(* While the session lasts every object has one owner: a proxy handle, a   *)
(* call or future that will hand one out, or a release on its way; only a  *)
(* future that was given up leaves an object without one.  No proxy is     *)
(* left for an object that was destroyed.                                  *)
ObjectsAccountedFor ==
    /\ \A o \in objects \ (proxies \cup held \cup dropped) :
        \E t \in Callers :
            LET r == inCall[t].req IN
            r # 0 /\ (r = o \/ (requests[r].kind = "destroy" /\ requests[r].obj = o))
    /\ cl.kind = "standalone" => proxies \subseteq objects

(* A callback never runs with a context that was freed: not an event       *)
(* handler that was queued when its proxy was released, not the auth       *)
(* handler of a server whose first listen() failed.                        *)
CallbackContextsAlive ==
    /\ firing \cup {s.ctx : s \in subs} \subseteq kept
    /\ srv.state = "listening" => srv.auth \in kept

(* No future handle is freed twice, whatever its result and in whatever    *)
(* language it is held.                                                    *)
FuturesFreedOnce == ~corrupt

(* A call in flight on a session that has ended returns: nobody waits for  *)
(* an answer that cannot come any more.                                    *)
CallsReturn ==
    \A t \in Callers :
        (cl.conn \in {"gone", "down"} /\ inCall[t] # Idle)
            ~> (inCall[t] = Idle \/ cl.conn = "up" \/ corrupt)
=============================================================================
