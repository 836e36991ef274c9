----------------------------- MODULE RmiCProofs -----------------------------
(***************************************************************************)
(* Proofs about RmiC, for any number of threads, requests and callbacks    *)
(* and applications in C, C++ and Java.                                    *)
(*                                                                         *)
(* The many functions of the library do few things to its books.  The      *)
(* proofs bring each of them to one of the forms Asks, AsksLater, Enters,  *)
(* Unwinds, Leaves, Answer, SessionEnds, PeerGone and Inert, and show what *)
(* those preserve.  BooksInv is the inductive invariant: no two threads    *)
(* wait for the same request; a proxy handle has no future, caller or      *)
(* destruction beside it; a destruction is awaited until the object is     *)
(* gone; and every object has an owner.                                    *)
(***************************************************************************)
EXTENDS RmiC, SeqFacts

RmiCSpec == RmiCInit /\ [][RmiCNext]_rmiCVars

Kinds == {"bool", "dynamic", "proxy", "destroy"}
ReqRecs == [kind : Kinds, obj : Nat, state : {"pending", "lost", "value", "remote"}]
CallRecs == [op : {"none", "wait", "unwind", "get_dynamic", "get_proxy", "release"},
             req : Nat, timed : BOOLEAN]
Errors == {"OK", "REMOTE_EXCEPTION", "INVALID_STATE", "TIMEOUT"}

BooksType ==
    /\ cl \in [kind : {"none", "remote", "standalone"},
               conn : {"none", "new", "up", "gone", "down", "released"}]
    /\ requests \in Seq(ReqRecs) /\ Len(requests) <= MaxRequests
    /\ objects \in SUBSET (1 .. Len(requests))
    /\ proxies \in SUBSET (1 .. Len(requests))
    /\ dropped \in SUBSET (1 .. Len(requests))
    /\ held \in SUBSET (1 .. Len(requests))
    /\ futures \in [1 .. MaxRequests -> {"absent", "live", "freed"}]
    /\ inCall \in [Callers -> CallRecs]

EventsType ==
    /\ rlang \in {"c", "cpp", "java"}
    /\ last \in [req : Nat, err : Errors]
    /\ subs \in SUBSET [obj : Nat, ctx : Nat]
    /\ firing \in SUBSET Nat /\ kept \in SUBSET Nat /\ made \in Nat
    /\ srv \in [state : {"none", "made", "listening", "stopped", "released"}, auth : Nat]
    /\ corrupt \in BOOLEAN

\* Every variable keeps the shape of what it stands for.
RmiCTypeOK == BooksType /\ EventsType
-----------------------------------------------------------------------------
(***************************************************************************)
(* What the functions do to the books.                                     *)
(***************************************************************************)
books == <<cl, requests, objects, proxies, futures, held, dropped, inCall>>

\* A thread makes a request of the kind given and waits for it; the request
\* that destroys an object takes the proxy.
Asks(t, kind, obj, timed) ==
    /\ OutsideCall(t) /\ Len(requests) < MaxRequests
    /\ cl.conn \notin {"none", "released"}
    /\ kind \in {"proxy", "destroy"} => ~timed
    /\ kind = "destroy" => obj \in proxies
    /\ requests' = Sent(kind, obj)
    /\ inCall' = [inCall EXCEPT ![t] = [op |-> "wait", req |-> Len(requests) + 1, timed |-> timed]]
    /\ proxies' = IF kind = "destroy" THEN proxies \ {obj} ELSE proxies
    /\ UNCHANGED <<cl, objects, futures, held, dropped>>

\* A thread makes a request and keeps a future.
AsksLater(kind, obj) ==
    /\ Len(requests) < MaxRequests
    /\ cl.conn \notin {"none", "released"}
    /\ requests' = Sent(kind, obj)
    /\ futures' = [futures EXCEPT ![Len(requests) + 1] = "live"]
    /\ held' = held \cup {Len(requests) + 1}
    /\ UNCHANGED <<cl, objects, proxies, dropped, inCall>>

\* A thread goes into a call on a future.
Enters(t, r, op) ==
    /\ OutsideCall(t) /\ r \in held /\ Exclusive(r)
    /\ inCall' = [inCall EXCEPT ![t] = [op |-> op, req |-> r, timed |-> FALSE]]
    /\ held' \in {held, held \ {r}}
    /\ UNCHANGED <<cl, requests, objects, proxies, futures, dropped>>

\* A timeout leaves a thread in the destructor of a std::async future.
Unwinds(t) ==
    /\ inCall[t].op = "wait" /\ inCall[t].timed
    /\ inCall' = [inCall EXCEPT ![t] = [op |-> "unwind", req |-> inCall[t].req, timed |-> TRUE]]
    /\ UNCHANGED <<cl, requests, objects, proxies, futures, held, dropped>>

\* A thread's call is over.
Leaves(t) ==
    LET r == inCall[t].req IN
    /\ inCall[t].op # "none"
    /\ inCall' = [inCall EXCEPT ![t] = Idle]
    /\ \/ UNCHANGED futures
       \/ inCall[t].op \notin {"wait", "unwind"} /\ futures' = [futures EXCEPT ![r] = "freed"]
    /\ held' \in {held, held \ {r}}
    /\ \/ UNCHANGED proxies
       \/ /\ requests[r].kind = "proxy" /\ requests[r].state = "value"
          /\ inCall[t].op \in {"wait", "unwind"} \/ held' = held \ {r}
          /\ proxies' = proxies \cup {r}
    /\ dropped' \in {dropped, dropped \cup {r}}
    /\ requests[r].kind = "proxy" /\ requests[r].state \in {"pending", "value"} =>
         r \in proxies' \cup dropped'
    /\ requests[r].kind = "destroy" => ~Pending(r)
    /\ UNCHANGED <<cl, requests, objects>>

\* Every pending request fails and the objects are gone.
SessionEnds ==
    /\ requests' = Ended /\ objects' = {}
    /\ \/ cl.kind # "standalone" /\ cl.conn # "released" /\ cl' = [cl EXCEPT !.conn = "down"]
       \/ /\ proxies = {} /\ held = {} /\ \A u \in Callers : OutsideCall(u)
          /\ cl' = [cl EXCEPT !.conn = "released"]
    /\ UNCHANGED <<proxies, futures, held, dropped, inCall>>

\* The books are left alone; at most the connection comes up.
Inert ==
    /\ \/ UNCHANGED cl
       \/ cl.kind # "standalone" /\ cl.conn \in {"new", "down"} /\ cl' = [cl EXCEPT !.conn = "up"]
    /\ UNCHANGED <<requests, objects, proxies, futures, held, dropped, inCall>>
-----------------------------------------------------------------------------
(***************************************************************************)
(* The invariant.                                                          *)
(***************************************************************************)
Awaited(r) == \E t \in Callers : inCall[t].op # "none" /\ inCall[t].req = r

Destroyed(r) == \E d \in 1 .. Len(requests) : requests[d].kind = "destroy" /\ requests[d].obj = r

\* No two threads wait for the same request; a request has a future or a
\* thread that blocks for it; what makes or destroys objects never times out.
CallInv ==
    /\ \A t \in Callers : IF inCall[t].op = "none" THEN inCall[t] = Idle
                          ELSE inCall[t].req \in 1 .. Len(requests)
    /\ \A t, u \in Callers :
         inCall[t].op # "none" /\ inCall[u].op # "none" /\ inCall[t].req = inCall[u].req => t = u
    /\ \A t \in Callers : inCall[t].op \in {"wait", "unwind"} =>
         /\ futures[inCall[t].req] = "absent"
         /\ requests[inCall[t].req].kind \in {"proxy", "destroy"} =>
              inCall[t].op = "wait" /\ ~inCall[t].timed
    /\ \A t \in Callers : inCall[t].op \in {"get_dynamic", "get_proxy", "release"} =>
         futures[inCall[t].req] # "absent"

\* Futures belong to requests that were made, and not to destructions.
FutureInv ==
    /\ \A r \in 1 .. MaxRequests : futures[r] # "absent" =>
         r \in 1 .. Len(requests) /\ requests[r].kind # "destroy"
    /\ \A r \in held : futures[r] # "absent"

\* Objects are what requests made, and go with the session.
ObjectInv ==
    /\ \A o \in objects : requests[o].kind = "proxy" /\ requests[o].state = "value"
    /\ cl.kind # "standalone" /\ cl.conn # "up" => objects = {}
    /\ cl.kind = "standalone" => cl.conn \in {"new", "released"}
    /\ cl.conn \in {"none", "released"} =>
         proxies = {} /\ held = {} /\ \A t \in Callers : inCall[t] = Idle

\* Nobody else is on the way to the object of a proxy.
ProxyInv ==
    \A p \in proxies : /\ requests[p].kind = "proxy" /\ requests[p].state = "value"
                       /\ p \notin held /\ ~Awaited(p) /\ ~Destroyed(p)

\* A destruction took the only proxy there was, and is awaited until the
\* object is gone.
DestroyInv ==
    \A d \in 1 .. Len(requests), p \in Nat :
        requests[d].kind = "destroy" /\ requests[d].obj = p =>
            /\ p \in 1 .. Len(requests)
            /\ requests[p].kind = "proxy" /\ requests[p].state = "value"
            /\ p \notin proxies \cup held /\ ~Awaited(p)
            /\ Pending(d) => Awaited(d)
            /\ ~Pending(d) => p \notin objects

\* What a request made, or may still make, has an owner.
OwnedInv ==
    \A r \in 1 .. Len(requests) :
        requests[r].kind = "proxy" /\ requests[r].state \in {"pending", "value"} =>
            r \in proxies \cup held \cup dropped \/ Awaited(r) \/ Destroyed(r)

\* A standalone keeps its objects until they are destroyed.
StandaloneInv ==
    cl.kind = "standalone" /\ cl.conn # "released" =>
        \A r \in 1 .. Len(requests) :
            requests[r].kind = "proxy" /\ requests[r].state = "value" /\ ~Destroyed(r)
                => r \in objects

BooksInv ==
    /\ CallInv /\ FutureInv /\ ObjectInv
    /\ ProxyInv /\ DestroyInv /\ OwnedInv /\ StandaloneInv
-----------------------------------------------------------------------------
(***************************************************************************)
(* What becomes of the requests.                                           *)
(***************************************************************************)
\* A request that is made.
LEMMA SentFacts ==
    ASSUME BooksType, NEW kind \in Kinds, NEW obj \in Nat, requests' = Sent(kind, obj)
    PROVE  /\ Len(requests) \in Nat /\ Len(requests') = Len(requests) + 1
           /\ requests' \in Seq(ReqRecs)
           /\ \A r \in 1 .. Len(requests) : requests'[r] = requests[r]
           /\ requests'[Len(requests) + 1].kind = kind
           /\ requests'[Len(requests) + 1].obj = obj
           /\ requests'[Len(requests) + 1].state = IF Reachable THEN "pending" ELSE "lost"
  <1> DEFINE f == [kind |-> kind, obj |-> obj, state |-> IF Reachable THEN "pending" ELSE "lost"]
  <1>1. f \in ReqRecs /\ f.kind = kind /\ f.obj = obj
        /\ f.state = IF Reachable THEN "pending" ELSE "lost"
    BY DEF ReqRecs
  <1>2. requests' = Append(requests, f) /\ requests \in Seq(ReqRecs)
    BY DEF Sent, BooksType
  <1> HIDE DEF f
  <1>3. /\ Len(requests) \in Nat /\ Len(requests') = Len(requests) + 1
        /\ requests' \in Seq(ReqRecs)
        /\ \A r \in 1 .. Len(requests) : requests'[r] = requests[r]
        /\ requests'[Len(requests) + 1] = f
    BY <1>1, <1>2
  <1> QED BY <1>1, <1>3

\* The requests of a session that ends.
LEMMA EndedFacts ==
    ASSUME BooksType, requests' = Ended
    PROVE  /\ requests' \in Seq(ReqRecs) /\ Len(requests') = Len(requests)
           /\ \A r \in 1 .. Len(requests) :
                /\ requests'[r].kind = requests[r].kind /\ requests'[r].obj = requests[r].obj
                /\ requests'[r].state = IF Pending(r) THEN "lost" ELSE requests[r].state
  <1>0. requests \in Seq(ReqRecs) /\ Len(requests) \in Nat /\ DOMAIN requests = 1 .. Len(requests)
        /\ \A r \in 1 .. Len(requests) : requests[r] \in ReqRecs
    BY DEF BooksType
  <1>1. requests' = [r \in 1 .. Len(requests) |->
                       IF Pending(r) THEN [requests[r] EXCEPT !.state = "lost"] ELSE requests[r]]
    BY <1>0 DEF Ended
  <1>2. ASSUME NEW r \in 1 .. Len(requests)
        PROVE  /\ requests'[r] \in ReqRecs
               /\ requests'[r].kind = requests[r].kind /\ requests'[r].obj = requests[r].obj
               /\ requests'[r].state = IF Pending(r) THEN "lost" ELSE requests[r].state
    <2>1. requests[r] \in ReqRecs
      BY <1>0
    <2>2. CASE Pending(r)
      <3>1. requests'[r] = [requests[r] EXCEPT !.state = "lost"]
        BY <1>1, <2>2
      <3> QED BY <2>1, <2>2, <3>1 DEF ReqRecs
    <2>3. CASE ~Pending(r)
      <3>1. requests'[r] = requests[r]
        BY <1>1, <2>3
      <3> QED BY <2>1, <2>3, <3>1
    <2> QED BY <2>2, <2>3
  <1>3. requests' \in [1 .. Len(requests) -> ReqRecs]
    BY <1>1, <1>2
  <1>4. requests' \in Seq(ReqRecs) /\ Len(requests') = Len(requests)
    BY <1>0, <1>3
  <1> QED BY <1>2, <1>4

\* A request that is answered.
LEMMA AnswerFacts ==
    ASSUME BooksType, NEW r \in 1 .. Len(requests), Answer(r)
    PROVE  /\ requests' \in Seq(ReqRecs) /\ Len(requests') = Len(requests)
           /\ \A q \in 1 .. Len(requests) :
                /\ requests'[q].kind = requests[q].kind /\ requests'[q].obj = requests[q].obj
                /\ q # r => requests'[q].state = requests[q].state
           /\ requests'[r].state \in {"value", "remote"}
           /\ requests[r].kind = "destroy" =>
                requests'[r].state = IF requests[r].obj \in objects THEN "value" ELSE "remote"
           /\ objects' = IF requests'[r].state = "value" /\ requests[r].kind = "proxy"
                         THEN objects \cup {r}
                         ELSE IF requests'[r].state = "value" /\ requests[r].kind = "destroy"
                         THEN objects \ {requests[r].obj} ELSE objects
  <1>0. requests \in Seq(ReqRecs) /\ Len(requests) \in Nat
        /\ \A q \in 1 .. Len(requests) : requests[q] \in ReqRecs
    BY DEF BooksType
  <1>1. PICK s \in {"value", "remote"} :
          /\ requests[r].kind = "destroy" => s = IF requests[r].obj \in objects THEN "value" ELSE "remote"
          /\ requests' = [requests EXCEPT ![r].state = s]
          /\ objects' = CASE s = "value" /\ requests[r].kind = "proxy" -> objects \cup {r}
                          [] s = "value" /\ requests[r].kind = "destroy" -> objects \ {requests[r].obj}
                          [] OTHER -> objects
    BY DEF Answer
  <1>2. [requests[r] EXCEPT !.state = s] \in ReqRecs
    BY <1>0 DEF ReqRecs
  <1>3. requests' = [requests EXCEPT ![r] = [requests[r] EXCEPT !.state = s]]
    BY <1>1
  <1>4. requests' \in Seq(ReqRecs) /\ Len(requests') = Len(requests)
        /\ requests'[r] = [requests[r] EXCEPT !.state = s]
        /\ \A q \in 1 .. Len(requests) : q # r => requests'[q] = requests[q]
    BY <1>0, <1>2, <1>3
  <1>5. requests'[r].kind = requests[r].kind /\ requests'[r].obj = requests[r].obj
        /\ requests'[r].state = s
    BY <1>0, <1>4 DEF ReqRecs
  <1>6. objects' = IF s = "value" /\ requests[r].kind = "proxy" THEN objects \cup {r}
                   ELSE IF s = "value" /\ requests[r].kind = "destroy"
                   THEN objects \ {requests[r].obj} ELSE objects
    <2>1. CASE s = "value" /\ requests[r].kind = "proxy"
      BY <1>1, <2>1
    <2>2. CASE s = "value" /\ requests[r].kind = "destroy"
      BY <1>1, <2>2
    <2>3. CASE ~(s = "value" /\ requests[r].kind \in {"proxy", "destroy"})
      BY <1>1, <2>3
    <2> QED BY <2>1, <2>2, <2>3
  <1> QED BY <1>1, <1>4, <1>5, <1>6
-----------------------------------------------------------------------------
(***************************************************************************)
(* What each form does to the books.                                       *)
(***************************************************************************)
\* The shape of the books, element by element.
LEMMA BooksFacts ==
    ASSUME BooksType
    PROVE  /\ Len(requests) \in Nat /\ MaxRequests \in Nat /\ Len(requests) <= MaxRequests
           /\ requests \in Seq(ReqRecs)
           /\ \A r \in 1 .. Len(requests) :
                /\ requests[r] \in ReqRecs /\ requests[r].kind \in Kinds /\ requests[r].obj \in Nat
                /\ requests[r].state \in {"pending", "lost", "value", "remote"}
           /\ \A r \in 1 .. Len(requests) : r \in Nat /\ r \in 1 .. MaxRequests
           /\ \A t \in Callers : inCall[t] \in CallRecs /\ inCall[t].req \in Nat
  <1>1. Len(requests) \in Nat /\ MaxRequests \in Nat /\ Len(requests) <= MaxRequests
        /\ requests \in Seq(ReqRecs) /\ inCall \in [Callers -> CallRecs]
    BY RmiCAssumption DEF BooksType
  <1>2. \A r \in 1 .. Len(requests) : requests[r] \in ReqRecs
    BY <1>1
  <1>3. \A t \in Callers : inCall[t] \in CallRecs
    BY <1>1
  <1>4. \A t \in Callers : inCall[t].req \in Nat
    BY <1>3 DEF CallRecs
  <1>5. \A r \in 1 .. Len(requests) : requests[r].kind \in Kinds /\ requests[r].obj \in Nat
                /\ requests[r].state \in {"pending", "lost", "value", "remote"}
    BY <1>2 DEF ReqRecs
  <1>6. \A r \in 1 .. Len(requests) : r \in Nat /\ r \in 1 .. MaxRequests
    BY <1>1
  <1> QED BY <1>1, <1>2, <1>3, <1>4, <1>5, <1>6

\* A call that blocks for its request.
LEMMA AsksBooks ==
    ASSUME BooksType, BooksInv, NEW t \in Callers, NEW kind \in Kinds, NEW obj \in Nat,
           NEW timed \in BOOLEAN, Asks(t, kind, obj, timed)
    PROVE  BooksType' /\ BooksInv'
  <1> DEFINE n == Len(requests)
             m == n + 1
  <1>1. /\ n \in Nat /\ Len(requests') = m /\ requests' \in Seq(ReqRecs)
        /\ \A r \in 1 .. n : requests'[r] = requests[r]
        /\ requests'[m].kind = kind /\ requests'[m].obj = obj
        /\ requests'[m].state = IF Reachable THEN "pending" ELSE "lost"
    BY SentFacts DEF Asks
  <1>2. /\ MaxRequests \in Nat /\ m \in Nat /\ n < MaxRequests
        /\ m \in 1 .. m /\ m \in 1 .. MaxRequests /\ m \notin 1 .. n
        /\ \A r : r \in 1 .. m <=> r \in 1 .. n \/ r = m
        /\ m # 0
    BY <1>1, BooksFacts DEF Asks
  <1>3. /\ inCall'[t].op = "wait" /\ inCall'[t].req = m /\ inCall'[t].timed = timed
        /\ \A u \in Callers : u # t => inCall'[u] = inCall[u]
        /\ inCall' \in [Callers -> CallRecs]
        /\ inCall[t] = Idle /\ inCall[t].op = "none" /\ inCall[t].req = 0
    <2> DEFINE c == [op |-> "wait", req |-> m, timed |-> timed]
    <2>1. c \in CallRecs /\ c.op = "wait" /\ c.req = m /\ c.timed = timed
      BY <1>2 DEF CallRecs
    <2>2. inCall \in [Callers -> CallRecs] /\ inCall' = [inCall EXCEPT ![t] = c]
          /\ inCall[t] = Idle /\ inCall[t].op = "none" /\ inCall[t].req = 0
      BY DEF Asks, BooksType, OutsideCall, Idle
    <2> HIDE DEF c
    <2> QED BY <2>1, <2>2
  <1> HIDE DEF n, m
  <1>4. /\ UNCHANGED <<cl, objects, futures, held, dropped>>
        /\ proxies' = IF kind = "destroy" THEN proxies \ {obj} ELSE proxies
        /\ cl.conn \notin {"none", "released"}
        /\ kind \in {"proxy", "destroy"} => ~timed
        /\ kind = "destroy" => obj \in proxies
    BY DEF Asks
  <1>5. BooksType'
    <2>1. objects \in SUBSET (1 .. n) /\ proxies \in SUBSET (1 .. n) /\ dropped \in SUBSET (1 .. n)
          /\ held \in SUBSET (1 .. n)
      BY DEF BooksType, n
    <2>2. objects' \in SUBSET (1 .. m) /\ proxies' \in SUBSET (1 .. m)
          /\ dropped' \in SUBSET (1 .. m) /\ held' \in SUBSET (1 .. m)
      BY <1>2, <1>4, <2>1
    <2>3. Len(requests') <= MaxRequests
      BY <1>1, <1>2 DEF m
    <2> QED BY <1>1, <1>3, <1>4, <2>2, <2>3 DEF BooksType
  <1>6. /\ futures[m] = "absent" /\ m \notin objects /\ m \notin proxies /\ m \notin held
        /\ m \notin dropped /\ ~Awaited(m) /\ ~Destroyed(m)
    <2>1. futures[m] = "absent"
      BY <1>2 DEF BooksInv, FutureInv, BooksType, n
    <2>2. ~Awaited(m)
      BY <1>2 DEF BooksInv, CallInv, Awaited, n
    <2>3. ~Destroyed(m)
      BY <1>2 DEF BooksInv, DestroyInv, Destroyed, n
    <2> QED BY <1>2, <2>1, <2>2, <2>3 DEF BooksType, n
  <1>7. \A r \in Nat : Awaited(r)' <=> Awaited(r) \/ r = m
    BY <1>3 DEF Awaited
  <1>8. \A r \in Nat : Destroyed(r)' <=> Destroyed(r) \/ (kind = "destroy" /\ r = obj)
    BY <1>1, <1>2 DEF Destroyed, n
  <1>9. CallInv'
    <2>1. CallInv /\ BooksType
      BY DEF BooksInv
    <2>2. \A u \in Callers : IF inCall'[u].op = "none" THEN inCall'[u] = Idle
                             ELSE inCall'[u].req \in 1 .. Len(requests')
      BY <1>1, <1>2, <1>3, <2>1 DEF CallInv, n
    <2>3. \A u, v \in Callers :
            inCall'[u].op # "none" /\ inCall'[v].op # "none" /\ inCall'[u].req = inCall'[v].req
              => u = v
      BY <1>2, <1>3, <2>1 DEF CallInv, n
    <2>4. \A u \in Callers : inCall'[u].op \in {"wait", "unwind"} =>
            /\ futures'[inCall'[u].req] = "absent"
            /\ requests'[inCall'[u].req].kind \in {"proxy", "destroy"} =>
                 inCall'[u].op = "wait" /\ ~inCall'[u].timed
      BY <1>1, <1>2, <1>3, <1>4, <1>6, <2>1 DEF CallInv, n
    <2>5. \A u \in Callers : inCall'[u].op \in {"get_dynamic", "get_proxy", "release"} =>
            futures'[inCall'[u].req] # "absent"
      BY <1>3, <1>4, <2>1 DEF CallInv
    <2> QED BY <2>2, <2>3, <2>4, <2>5 DEF CallInv
  <1>10. FutureInv'
    BY <1>1, <1>2, <1>4 DEF BooksInv, FutureInv, BooksType, n
  <1>11. ObjectInv'
    <2>1. \A o \in objects : o \in 1 .. n /\ requests'[o] = requests[o]
      BY <1>1 DEF BooksType, n
    <2> QED BY <1>4, <2>1 DEF BooksInv, ObjectInv
  <1>12. \A p \in proxies : p \in 1 .. n /\ p \in Nat /\ p # m /\ requests'[p] = requests[p]
    BY <1>1, <1>2 DEF BooksType, n
  <1>13. ProxyInv'
    BY <1>4, <1>7, <1>8, <1>12 DEF BooksInv, ProxyInv
  <1>14. DestroyInv'
    <2> SUFFICES ASSUME NEW d \in 1 .. m, NEW p \in Nat,
                        requests'[d].kind = "destroy", requests'[d].obj = p
                 PROVE  /\ p \in 1 .. m
                        /\ requests'[p].kind = "proxy" /\ requests'[p].state = "value"
                        /\ p \notin proxies' \cup held' /\ ~Awaited(p)'
                        /\ requests'[d].state = "pending" => Awaited(d)'
                        /\ requests'[d].state # "pending" => p \notin objects'
      BY <1>1 DEF DestroyInv, Pending
    <2>1. CASE d = m
      <3>1. p = obj /\ kind = "destroy" /\ p \in proxies
        BY <1>1, <1>4, <2>1
      <3>2. requests[p].kind = "proxy" /\ requests[p].state = "value"
                       /\ p \notin held /\ ~Awaited(p) /\ ~Destroyed(p)
        BY <3>1 DEF BooksInv, ProxyInv
      <3>3. requests'[d].state # "pending" => p \notin objects
        BY <1>1, <2>1 DEF Reachable, BooksInv, ObjectInv
      <3> QED BY <1>2, <1>4, <1>7, <1>12, <2>1, <3>1, <3>2, <3>3
    <2>2. CASE d \in 1 .. n
      <3>1. requests'[d] = requests[d] /\ d \in Nat
        BY <1>1, <2>2
      <3>2. /\ p \in 1 .. n
            /\ requests[p].kind = "proxy" /\ requests[p].state = "value"
            /\ p \notin proxies \cup held /\ ~Awaited(p)
            /\ requests[d].state = "pending" => Awaited(d)
            /\ requests[d].state # "pending" => p \notin objects
        BY <2>2, <3>1 DEF BooksInv, DestroyInv, Pending, n
      <3>3. requests'[p] = requests[p] /\ p # m
        BY <1>1, <1>2, <3>2
      <3> QED BY <1>2, <1>4, <1>7, <3>1, <3>2, <3>3
    <2> QED BY <1>2, <2>1, <2>2
  <1>15. OwnedInv'
    <2> SUFFICES ASSUME NEW r \in 1 .. m, requests'[r].kind = "proxy",
                        requests'[r].state \in {"pending", "value"}
                 PROVE  r \in proxies' \cup held' \cup dropped' \/ Awaited(r)' \/ Destroyed(r)'
      BY <1>1 DEF OwnedInv
    <2>1. CASE r = m
      BY <1>2, <1>7, <2>1
    <2>2. CASE r \in 1 .. n
      <3>1. requests[r].kind = "proxy" /\ requests[r].state \in {"pending", "value"} /\ r \in Nat
        BY <1>1, <2>2
      <3>2. r \in proxies \cup held \cup dropped \/ Awaited(r) \/ Destroyed(r)
        BY <2>2, <3>1 DEF BooksInv, OwnedInv, n
      <3> QED BY <1>4, <1>7, <1>8, <3>1, <3>2
    <2> QED BY <1>2, <2>1, <2>2
  <1>16. StandaloneInv'
    <2> SUFFICES ASSUME cl.kind = "standalone", cl.conn # "released", NEW r \in 1 .. m,
                        requests'[r].kind = "proxy", requests'[r].state = "value", ~Destroyed(r)'
                 PROVE  r \in objects
      BY <1>1, <1>4 DEF StandaloneInv
    <2>1. r \in 1 .. n
      BY <1>1, <1>2
    <2>2. r \in Nat /\ requests'[r] = requests[r] /\ ~Destroyed(r)
      BY <1>1, <1>8, <2>1
    <2> QED BY <2>1, <2>2 DEF BooksInv, StandaloneInv, n
  <1> QED BY <1>5, <1>9, <1>10, <1>11, <1>13, <1>14, <1>15, <1>16 DEF BooksInv

\* A call that leaves a future for its request.
LEMMA AsksLaterBooks ==
    ASSUME BooksType, BooksInv, NEW kind \in Kinds \ {"destroy"}, NEW obj \in Nat,
           AsksLater(kind, obj)
    PROVE  BooksType' /\ BooksInv'
  <1> DEFINE n == Len(requests)
             m == n + 1
  <1>1. /\ n \in Nat /\ Len(requests') = m /\ requests' \in Seq(ReqRecs)
        /\ \A r \in 1 .. n : requests'[r] = requests[r]
        /\ requests'[m].kind = kind /\ requests'[m].obj = obj
        /\ requests'[m].state = IF Reachable THEN "pending" ELSE "lost"
    BY SentFacts DEF AsksLater
  <1>2. /\ MaxRequests \in Nat /\ m \in Nat /\ n < MaxRequests
        /\ m \in 1 .. m /\ m \in 1 .. MaxRequests /\ m \notin 1 .. n
        /\ \A r : r \in 1 .. m <=> r \in 1 .. n \/ r = m
        /\ m # 0
    BY <1>1, BooksFacts DEF AsksLater
  <1>3. /\ UNCHANGED <<cl, objects, proxies, dropped, inCall>>
        /\ held' = held \cup {m}
        /\ cl.conn \notin {"none", "released"}
    BY DEF AsksLater
  <1>4. /\ futures'[m] = "live" /\ \A r \in 1 .. MaxRequests : r # m => futures'[r] = futures[r]
        /\ futures' \in [1 .. MaxRequests -> {"absent", "live", "freed"}]
    BY <1>2 DEF AsksLater, BooksType
  <1> HIDE DEF n, m
  <1>5. BooksType'
    <2>1. objects \in SUBSET (1 .. n) /\ proxies \in SUBSET (1 .. n) /\ dropped \in SUBSET (1 .. n)
          /\ held \in SUBSET (1 .. n)
      BY DEF BooksType, n
    <2>2. objects' \in SUBSET (1 .. m) /\ proxies' \in SUBSET (1 .. m)
          /\ dropped' \in SUBSET (1 .. m) /\ held' \in SUBSET (1 .. m)
      BY <1>2, <1>3, <2>1
    <2>3. Len(requests') <= MaxRequests
      BY <1>1, <1>2 DEF m
    <2>4. cl \in [kind : {"none", "remote", "standalone"},
                  conn : {"none", "new", "up", "gone", "down", "released"}]
          /\ inCall \in [Callers -> CallRecs]
      BY DEF BooksType
    <2> QED BY <1>1, <1>3, <1>4, <2>2, <2>3, <2>4 DEF BooksType
  <1>6. m \notin proxies /\ ~Awaited(m) /\ ~Destroyed(m)
    <2>2. ~Awaited(m)
      BY <1>2 DEF BooksInv, CallInv, Awaited, n
    <2>3. ~Destroyed(m)
      BY <1>2 DEF BooksInv, DestroyInv, Destroyed, n
    <2> QED BY <1>2, <2>2, <2>3 DEF BooksType, n
  <1>7. \A r \in Nat : Awaited(r)' <=> Awaited(r)
    BY <1>3 DEF Awaited
  <1>8. \A r \in Nat : Destroyed(r)' <=> Destroyed(r)
    BY <1>1, <1>2 DEF Destroyed, n
  <1>9. CallInv'
    <2>1. \A t \in Callers : inCall[t].op # "none" =>
            /\ inCall[t].req \in 1 .. n /\ inCall[t].req \in 1 .. m
            /\ futures'[inCall[t].req] = futures[inCall[t].req]
            /\ requests'[inCall[t].req] = requests[inCall[t].req]
      <3>1. \A t \in Callers : inCall[t].op # "none" => inCall[t].req \in 1 .. n
        BY DEF BooksInv, CallInv, n
      <3>2. \A r \in 1 .. n : r \in 1 .. MaxRequests /\ r # m
        BY <1>2, BooksFacts DEF n
      <3> QED BY <1>1, <1>2, <1>4, <3>1, <3>2
    <2> QED BY <1>1, <1>3, <2>1 DEF BooksInv, CallInv
  <1>10. FutureInv'
    <2>1. \A r \in 1 .. MaxRequests : futures'[r] # "absent" =>
            r \in 1 .. m /\ requests'[r].kind # "destroy"
      BY <1>1, <1>2, <1>4 DEF BooksInv, FutureInv, n
    <2>2. \A r \in held' : futures'[r] # "absent"
      <3>1. \A r \in held : r \in 1 .. MaxRequests
        BY <1>2, BooksFacts DEF BooksType, n
      <3> QED BY <1>3, <1>4, <3>1 DEF BooksInv, FutureInv
    <2> QED BY <1>1, <2>1, <2>2 DEF FutureInv
  <1>11. ObjectInv'
    <2>1. \A o \in objects : o \in 1 .. n /\ requests'[o] = requests[o]
      BY <1>1 DEF BooksType, n
    <2> QED BY <1>3, <2>1 DEF BooksInv, ObjectInv
  <1>12. \A p \in proxies : p \in 1 .. n /\ p \in Nat /\ p # m /\ requests'[p] = requests[p]
    BY <1>1, <1>2 DEF BooksType, n
  <1>13. ProxyInv'
    BY <1>3, <1>7, <1>8, <1>12 DEF BooksInv, ProxyInv
  <1>14. DestroyInv'
    <2> SUFFICES ASSUME NEW d \in 1 .. m, NEW p \in Nat,
                        requests'[d].kind = "destroy", requests'[d].obj = p
                 PROVE  /\ p \in 1 .. m
                        /\ requests'[p].kind = "proxy" /\ requests'[p].state = "value"
                        /\ p \notin proxies' \cup held' /\ ~Awaited(p)'
                        /\ requests'[d].state = "pending" => Awaited(d)'
                        /\ requests'[d].state # "pending" => p \notin objects'
      BY <1>1 DEF DestroyInv, Pending
    <2>2. d \in 1 .. n
      BY <1>1, <1>2
    <2>3. requests'[d] = requests[d] /\ d \in Nat
      BY <1>1, <2>2
    <2>4. /\ p \in 1 .. n
          /\ requests[p].kind = "proxy" /\ requests[p].state = "value"
          /\ p \notin proxies \cup held /\ ~Awaited(p)
          /\ requests[d].state = "pending" => Awaited(d)
          /\ requests[d].state # "pending" => p \notin objects
      BY <2>2, <2>3 DEF BooksInv, DestroyInv, Pending, n
    <2>5. requests'[p] = requests[p] /\ p # m
      BY <1>1, <1>2, <2>4
    <2> QED BY <1>2, <1>3, <1>7, <2>3, <2>4, <2>5
  <1>15. OwnedInv'
    <2> SUFFICES ASSUME NEW r \in 1 .. m, requests'[r].kind = "proxy",
                        requests'[r].state \in {"pending", "value"}
                 PROVE  r \in proxies' \cup held' \cup dropped' \/ Awaited(r)' \/ Destroyed(r)'
      BY <1>1 DEF OwnedInv
    <2>1. CASE r = m
      BY <1>3, <2>1
    <2>2. CASE r \in 1 .. n
      <3>1. requests[r].kind = "proxy" /\ requests[r].state \in {"pending", "value"} /\ r \in Nat
        BY <1>1, <2>2
      <3>2. r \in proxies \cup held \cup dropped \/ Awaited(r) \/ Destroyed(r)
        BY <2>2, <3>1 DEF BooksInv, OwnedInv, n
      <3> QED BY <1>3, <1>7, <1>8, <3>1, <3>2
    <2> QED BY <1>2, <2>1, <2>2
  <1>16. StandaloneInv'
    <2> SUFFICES ASSUME cl.kind = "standalone", cl.conn # "released", NEW r \in 1 .. m,
                        requests'[r].kind = "proxy", requests'[r].state = "value", ~Destroyed(r)'
                 PROVE  r \in objects
      BY <1>1, <1>3 DEF StandaloneInv
    <2>1. r \in 1 .. n
      BY <1>1, <1>2
    <2>2. r \in Nat /\ requests'[r] = requests[r] /\ ~Destroyed(r)
      BY <1>1, <1>8, <2>1
    <2> QED BY <2>1, <2>2 DEF BooksInv, StandaloneInv, n
  <1> QED BY <1>5, <1>9, <1>10, <1>11, <1>13, <1>14, <1>15, <1>16 DEF BooksInv

\* A call on a future begins: the future is still waited for.
LEMMA EntersBooks ==
    ASSUME BooksType, BooksInv, NEW t \in Callers, NEW r \in held,
           NEW op \in {"get_dynamic", "get_proxy", "release"}, Enters(t, r, op)
    PROVE  BooksType' /\ BooksInv'
  <1>1. /\ UNCHANGED <<cl, requests, objects, proxies, futures, dropped>>
        /\ held' \in {held, held \ {r}} /\ inCall[t] = Idle /\ Exclusive(r)
    BY DEF Enters, OutsideCall
  <1>2. r \in 1 .. Len(requests) /\ r \in Nat /\ futures[r] # "absent"
    BY BooksFacts DEF BooksType, BooksInv, FutureInv
  <1>3. /\ inCall'[t].op = op /\ inCall'[t].req = r /\ inCall'[t].timed = FALSE
        /\ \A u \in Callers : u # t => inCall'[u] = inCall[u]
        /\ inCall' \in [Callers -> CallRecs]
        /\ inCall[t].op = "none"
    <2> DEFINE c == [op |-> op, req |-> r, timed |-> FALSE]
    <2>1. c \in CallRecs /\ c.op = op /\ c.req = r /\ c.timed = FALSE
      BY <1>2 DEF CallRecs
    <2>2. inCall \in [Callers -> CallRecs] /\ inCall' = [inCall EXCEPT ![t] = c]
          /\ inCall[t].op = "none"
      BY <1>1 DEF Enters, BooksType, Idle
    <2> HIDE DEF c
    <2> QED BY <2>1, <2>2
  <1>4. BooksType'
    BY <1>1, <1>3 DEF BooksType
  <1>5. \A q \in Nat : Awaited(q)' <=> Awaited(q) \/ q = r
    BY <1>3 DEF Awaited
  <1>6. \A q \in Nat : Destroyed(q)' <=> Destroyed(q)
    BY <1>1 DEF Destroyed
  <1>7. ~Awaited(r)
    <2> SUFFICES ASSUME NEW u \in Callers, inCall[u].op # "none", inCall[u].req = r
                 PROVE  FALSE
      BY DEF Awaited
    <2>1. inCall[u].op \notin {"get_dynamic", "get_proxy", "release"}
      BY <1>1 DEF Exclusive, Getters
    <2>2. inCall[u].op \in {"wait", "unwind"}
      BY <2>1, BooksFacts DEF CallRecs
    <2> QED BY <1>2, <2>2 DEF BooksInv, CallInv
  <1>8. CallInv'
    <2>1. \A u \in Callers : u # t => inCall[u].op = "none" \/ inCall[u].req # r
      BY <1>7 DEF Awaited
    <2>2. \A u \in Callers : IF inCall'[u].op = "none" THEN inCall'[u] = Idle
                             ELSE inCall'[u].req \in 1 .. Len(requests')
      BY <1>1, <1>2, <1>3 DEF BooksInv, CallInv
    <2>3. \A u, v \in Callers :
            inCall'[u].op # "none" /\ inCall'[v].op # "none" /\ inCall'[u].req = inCall'[v].req
              => u = v
      BY <1>3, <2>1 DEF BooksInv, CallInv
    <2>4. \A u \in Callers : inCall'[u].op \in {"wait", "unwind"} =>
            /\ futures'[inCall'[u].req] = "absent"
            /\ requests'[inCall'[u].req].kind \in {"proxy", "destroy"} =>
                 inCall'[u].op = "wait" /\ ~inCall'[u].timed
      BY <1>1, <1>3 DEF BooksInv, CallInv
    <2>5. \A u \in Callers : inCall'[u].op \in {"get_dynamic", "get_proxy", "release"} =>
            futures'[inCall'[u].req] # "absent"
      BY <1>1, <1>2, <1>3 DEF BooksInv, CallInv
    <2> QED BY <2>2, <2>3, <2>4, <2>5 DEF CallInv
  <1>9. FutureInv'
    BY <1>1 DEF BooksInv, FutureInv
  <1>10. ObjectInv'
    <2>1. cl.conn \notin {"none", "released"}
      BY DEF BooksInv, ObjectInv
    <2> QED BY <1>1, <2>1 DEF BooksInv, ObjectInv
  <1>11. ProxyInv'
    <2>1. \A p \in proxies : p \in Nat
      BY BooksFacts DEF BooksType
    <2> QED BY <1>1, <1>5, <1>6, <2>1 DEF BooksInv, ProxyInv
  <1>12. DestroyInv'
    BY <1>1, <1>5, BooksFacts DEF BooksInv, DestroyInv, Pending
  <1>13. OwnedInv'
    BY <1>1, <1>5, <1>6, BooksFacts DEF BooksInv, OwnedInv
  <1>14. StandaloneInv'
    BY <1>1, <1>6, BooksFacts DEF BooksInv, StandaloneInv
  <1> QED BY <1>4, <1>8, <1>9, <1>10, <1>11, <1>12, <1>13, <1>14 DEF BooksInv

\* A timed wait gives up.
LEMMA UnwindsBooks ==
    ASSUME BooksType, BooksInv, NEW t \in Callers, Unwinds(t)
    PROVE  BooksType' /\ BooksInv'
  <1>1. /\ UNCHANGED <<cl, requests, objects, proxies, futures, held, dropped>>
        /\ inCall[t].op = "wait" /\ inCall[t].timed
    BY DEF Unwinds
  <1>2. /\ inCall'[t].op = "unwind" /\ inCall'[t].req = inCall[t].req /\ inCall'[t].timed = TRUE
        /\ \A u \in Callers : u # t => inCall'[u] = inCall[u]
        /\ inCall' \in [Callers -> CallRecs]
    <2> DEFINE c == [op |-> "unwind", req |-> inCall[t].req, timed |-> TRUE]
    <2>1. c \in CallRecs /\ c.op = "unwind" /\ c.req = inCall[t].req /\ c.timed = TRUE
      BY BooksFacts DEF CallRecs
    <2>2. inCall \in [Callers -> CallRecs] /\ inCall' = [inCall EXCEPT ![t] = c]
      BY DEF Unwinds, BooksType
    <2> HIDE DEF c
    <2> QED BY <2>1, <2>2
  <1>3. BooksType'
    BY <1>1, <1>2 DEF BooksType
  <1>4. \A q \in Nat : Awaited(q)' <=> Awaited(q)
    BY <1>1, <1>2 DEF Awaited
  <1>5. \A q \in Nat : Destroyed(q)' <=> Destroyed(q)
    BY <1>1 DEF Destroyed
  <1>6. CallInv'
    <2>2. \A u \in Callers : IF inCall'[u].op = "none" THEN inCall'[u] = Idle
                             ELSE inCall'[u].req \in 1 .. Len(requests')
      BY <1>1, <1>2 DEF BooksInv, CallInv
    <2>3. \A u, v \in Callers :
            inCall'[u].op # "none" /\ inCall'[v].op # "none" /\ inCall'[u].req = inCall'[v].req
              => u = v
      BY <1>1, <1>2 DEF BooksInv, CallInv
    <2>4. \A u \in Callers : inCall'[u].op \in {"wait", "unwind"} =>
            /\ futures'[inCall'[u].req] = "absent"
            /\ requests'[inCall'[u].req].kind \in {"proxy", "destroy"} =>
                 inCall'[u].op = "wait" /\ ~inCall'[u].timed
      BY <1>1, <1>2 DEF BooksInv, CallInv
    <2>5. \A u \in Callers : inCall'[u].op \in {"get_dynamic", "get_proxy", "release"} =>
            futures'[inCall'[u].req] # "absent"
      BY <1>1, <1>2 DEF BooksInv, CallInv
    <2> QED BY <2>2, <2>3, <2>4, <2>5 DEF CallInv
  <1>7. FutureInv'
    BY <1>1 DEF BooksInv, FutureInv
  <1>8. ObjectInv'
    <2>1. cl.conn \notin {"none", "released"}
      BY <1>1 DEF BooksInv, ObjectInv, Idle
    <2> QED BY <1>1, <2>1 DEF BooksInv, ObjectInv
  <1>9. ProxyInv'
    <2>1. \A p \in proxies : p \in Nat
      BY BooksFacts DEF BooksType
    <2> QED BY <1>1, <1>4, <1>5, <2>1 DEF BooksInv, ProxyInv
  <1>10. DestroyInv'
    BY <1>1, <1>4, BooksFacts DEF BooksInv, DestroyInv, Pending
  <1>11. OwnedInv'
    BY <1>1, <1>4, <1>5, BooksFacts DEF BooksInv, OwnedInv
  <1>12. StandaloneInv'
    BY <1>1, <1>5, BooksFacts DEF BooksInv, StandaloneInv
  <1> QED BY <1>3, <1>6, <1>7, <1>8, <1>9, <1>10, <1>11, <1>12 DEF BooksInv

\* A call is over: it hands out the proxy of what it made, or drops it.
LEMMA LeavesBooks ==
    ASSUME BooksType, BooksInv, NEW t \in Callers, Leaves(t)
    PROVE  BooksType' /\ BooksInv'
  <1>1. PICK r \in Nat : r = inCall[t].req
    BY BooksFacts
  <1>2. /\ UNCHANGED <<cl, requests, objects>>
        /\ inCall[t].op # "none" /\ inCall' = [inCall EXCEPT ![t] = Idle]
        /\ held' \in {held, held \ {r}}
        /\ \/ UNCHANGED futures
           \/ inCall[t].op \notin {"wait", "unwind"} /\ futures' = [futures EXCEPT ![r] = "freed"]
        /\ \/ UNCHANGED proxies
           \/ /\ requests[r].kind = "proxy" /\ requests[r].state = "value"
              /\ inCall[t].op \in {"wait", "unwind"} \/ held' = held \ {r}
              /\ proxies' = proxies \cup {r}
        /\ dropped' \in {dropped, dropped \cup {r}}
        /\ requests[r].kind = "proxy" /\ requests[r].state \in {"pending", "value"} =>
             r \in proxies' \cup dropped'
        /\ requests[r].kind = "destroy" => requests[r].state # "pending"
    BY <1>1 DEF Leaves, Pending
  <1>3. /\ r \in 1 .. Len(requests) /\ r \in 1 .. MaxRequests /\ Awaited(r)
        /\ \A u \in Callers : u # t => inCall[u].op = "none" \/ inCall[u].req # r
    <2>1. r \in 1 .. Len(requests)
      BY <1>1, <1>2 DEF BooksInv, CallInv
    <2>2. Awaited(r)
      BY <1>1, <1>2 DEF Awaited
    <2>3. \A u \in Callers : u # t => inCall[u].op = "none" \/ inCall[u].req # r
      BY <1>1, <1>2 DEF BooksInv, CallInv
    <2> QED BY <2>1, <2>2, <2>3, BooksFacts
  <1>4. /\ inCall'[t] = Idle /\ inCall'[t].op = "none"
        /\ \A u \in Callers : u # t => inCall'[u] = inCall[u]
        /\ inCall' \in [Callers -> CallRecs]
    <2>1. Idle \in CallRecs /\ Idle.op = "none"
      BY DEF Idle, CallRecs
    <2>2. inCall \in [Callers -> CallRecs]
      BY DEF BooksType
    <2> QED BY <1>2, <2>1, <2>2
  <1>5. /\ futures' \in [1 .. MaxRequests -> {"absent", "live", "freed"}]
        /\ \A q \in 1 .. MaxRequests : futures'[q] = "absent" <=> futures[q] = "absent"
    <2>1. futures \in [1 .. MaxRequests -> {"absent", "live", "freed"}]
      BY DEF BooksType
    <2>2. CASE UNCHANGED futures
      BY <2>1, <2>2
    <2>3. CASE inCall[t].op \notin {"wait", "unwind"} /\ futures' = [futures EXCEPT ![r] = "freed"]
      <3>1. inCall[t].op \in {"get_dynamic", "get_proxy", "release"}
        BY <1>2, <2>3, BooksFacts DEF CallRecs
      <3>2. futures[r] # "absent"
        BY <1>1, <3>1 DEF BooksInv, CallInv
      <3> QED BY <1>3, <2>1, <2>3, <3>2
    <2> QED BY <1>2, <2>2, <2>3
  <1>6. BooksType'
    BY <1>2, <1>3, <1>4, <1>5 DEF BooksType
  <1>7. \A q \in Nat : Awaited(q)' <=> Awaited(q) /\ q # r
    BY <1>1, <1>2, <1>3, <1>4 DEF Awaited
  <1>8. \A q \in Nat : Destroyed(q)' <=> Destroyed(q)
    BY <1>2 DEF Destroyed
  <1>9. CallInv'
    <2>1. \A u \in Callers : inCall[u].op # "none" => inCall[u].req \in 1 .. MaxRequests
      BY BooksFacts DEF BooksInv, CallInv
    <2>2. \A u \in Callers : IF inCall'[u].op = "none" THEN inCall'[u] = Idle
                             ELSE inCall'[u].req \in 1 .. Len(requests')
      BY <1>2, <1>4 DEF BooksInv, CallInv
    <2>3. \A u, v \in Callers :
            inCall'[u].op # "none" /\ inCall'[v].op # "none" /\ inCall'[u].req = inCall'[v].req
              => u = v
      BY <1>4 DEF BooksInv, CallInv
    <2>4. \A u \in Callers : inCall'[u].op \in {"wait", "unwind"} =>
            /\ futures'[inCall'[u].req] = "absent"
            /\ requests'[inCall'[u].req].kind \in {"proxy", "destroy"} =>
                 inCall'[u].op = "wait" /\ ~inCall'[u].timed
      BY <1>2, <1>4, <1>5, <2>1 DEF BooksInv, CallInv
    <2>5. \A u \in Callers : inCall'[u].op \in {"get_dynamic", "get_proxy", "release"} =>
            futures'[inCall'[u].req] # "absent"
      BY <1>4, <1>5, <2>1 DEF BooksInv, CallInv
    <2> QED BY <2>2, <2>3, <2>4, <2>5 DEF CallInv
  <1>10. FutureInv'
    <2>1. \A q \in held' : q \in held /\ q \in 1 .. MaxRequests
      BY <1>2, BooksFacts DEF BooksType
    <2> QED BY <1>2, <1>5, <2>1 DEF BooksInv, FutureInv
  <1>11. ObjectInv'
    <2>1. cl.conn \notin {"none", "released"}
      BY <1>2 DEF BooksInv, ObjectInv, Idle
    <2> QED BY <1>2, <2>1 DEF BooksInv, ObjectInv
  <1>12. ProxyInv'
    <2> SUFFICES ASSUME NEW p \in proxies'
                 PROVE  /\ requests[p].kind = "proxy" /\ requests[p].state = "value"
                        /\ p \notin held' /\ ~Awaited(p)' /\ ~Destroyed(p)'
      BY <1>2 DEF ProxyInv
    <2>1. CASE p \in proxies
      <3>1. p \in Nat
        BY <2>1, BooksFacts DEF BooksType
      <3>2. /\ requests[p].kind = "proxy" /\ requests[p].state = "value"
            /\ p \notin held /\ ~Awaited(p) /\ ~Destroyed(p)
        BY <2>1 DEF BooksInv, ProxyInv
      <3> QED BY <1>2, <1>7, <1>8, <3>1, <3>2
    <2>2. CASE p \notin proxies
      <3>1. /\ p = r /\ requests[r].kind = "proxy" /\ requests[r].state = "value"
            /\ inCall[t].op \in {"wait", "unwind"} \/ held' = held \ {r}
        BY <1>2, <2>2
      <3>2. r \notin held'
        <4>1. CASE inCall[t].op \in {"wait", "unwind"}
          <5>1. futures[r] = "absent"
            BY <1>1, <4>1 DEF BooksInv, CallInv
          <5> QED BY <1>2, <5>1 DEF BooksInv, FutureInv
        <4> QED BY <3>1, <4>1
      <3>3. ~Destroyed(r)
        BY <1>3 DEF BooksInv, DestroyInv, Destroyed
      <3> QED BY <1>7, <1>8, <3>1, <3>2, <3>3
    <2> QED BY <2>1, <2>2
  <1>13. DestroyInv'
    <2> SUFFICES ASSUME NEW d \in 1 .. Len(requests), NEW p \in Nat,
                        requests[d].kind = "destroy", requests[d].obj = p
                 PROVE  /\ p \in 1 .. Len(requests)
                        /\ requests[p].kind = "proxy" /\ requests[p].state = "value"
                        /\ p \notin proxies' \cup held' /\ ~Awaited(p)'
                        /\ requests[d].state = "pending" => Awaited(d)'
                        /\ requests[d].state # "pending" => p \notin objects
      BY <1>2 DEF DestroyInv, Pending
    <2>1. /\ p \in 1 .. Len(requests)
          /\ requests[p].kind = "proxy" /\ requests[p].state = "value"
          /\ p \notin proxies \cup held /\ ~Awaited(p)
          /\ requests[d].state = "pending" => Awaited(d)
          /\ requests[d].state # "pending" => p \notin objects
      BY DEF BooksInv, DestroyInv, Pending
    <2>2. p # r /\ d \in Nat
      BY <1>3, <2>1
    <2>3. requests[d].state = "pending" => d # r
      BY <1>2
    <2> QED BY <1>2, <1>7, <2>1, <2>2, <2>3
  <1>14. OwnedInv'
    <2> SUFFICES ASSUME NEW q \in 1 .. Len(requests), requests[q].kind = "proxy",
                        requests[q].state \in {"pending", "value"}
                 PROVE  q \in proxies' \cup held' \cup dropped' \/ Awaited(q)' \/ Destroyed(q)'
      BY <1>2 DEF OwnedInv
    <2>1. q \in proxies \cup held \cup dropped \/ Awaited(q) \/ Destroyed(q)
      BY DEF BooksInv, OwnedInv
    <2>2. CASE q = r
      BY <1>2, <2>2
    <2>3. CASE q # r
      BY <1>2, <1>7, <1>8, <2>1, <2>3, BooksFacts
    <2> QED BY <2>2, <2>3
  <1>15. StandaloneInv'
    BY <1>2, <1>8, BooksFacts DEF BooksInv, StandaloneInv
  <1> QED BY <1>6, <1>9, <1>10, <1>11, <1>12, <1>13, <1>14, <1>15 DEF BooksInv

\* When no request is made and the callers stay where they are, the books
\* agree if only what was pending changes and no object outlives the answer
\* to its destruction.
LEMMA AsideBooks ==
    ASSUME BooksType, BooksInv,
           UNCHANGED <<proxies, futures, held, dropped, inCall>>,
           Len(requests') = Len(requests),
           \A r \in 1 .. Len(requests) :
             /\ requests'[r].kind = requests[r].kind /\ requests'[r].obj = requests[r].obj
             /\ requests[r].state # "pending" => requests'[r].state = requests[r].state
             /\ requests[r].kind = "destroy" /\ requests'[r].state # "pending" =>
                  requests[r].obj \notin objects'
    PROVE  /\ CallInv' /\ FutureInv' /\ ProxyInv' /\ DestroyInv' /\ OwnedInv'
           /\ \A q \in Nat : Destroyed(q)' <=> Destroyed(q)
  <1>1. \A q \in Nat : Awaited(q)' <=> Awaited(q)
    BY DEF Awaited
  <1>2. \A q \in Nat : Destroyed(q)' <=> Destroyed(q)
    BY DEF Destroyed
  <1>3. CallInv'
    <2>1. \A t \in Callers : inCall[t].op # "none" =>
            requests'[inCall[t].req].kind = requests[inCall[t].req].kind
      BY DEF BooksInv, CallInv
    <2> QED BY <2>1 DEF BooksInv, CallInv
  <1>4. FutureInv'
    BY DEF BooksInv, FutureInv
  <1>5. ProxyInv'
    <2>1. \A p \in proxies : p \in Nat /\ requests'[p].kind = requests[p].kind
                             /\ requests[p].state = "value" /\ requests'[p].state = "value"
      BY BooksFacts DEF BooksType, BooksInv, ProxyInv
    <2> QED BY <1>1, <1>2, <2>1 DEF BooksInv, ProxyInv
  <1>6. DestroyInv'
    <2> SUFFICES ASSUME NEW d \in 1 .. Len(requests), NEW p \in Nat,
                        requests[d].kind = "destroy", requests[d].obj = p
                 PROVE  /\ p \in 1 .. Len(requests)
                        /\ requests'[p].kind = "proxy" /\ requests'[p].state = "value"
                        /\ p \notin proxies \cup held /\ ~Awaited(p)'
                        /\ requests'[d].state = "pending" => Awaited(d)'
                        /\ requests'[d].state # "pending" => p \notin objects'
      BY DEF DestroyInv, Pending
    <2>1. /\ p \in 1 .. Len(requests)
          /\ requests[p].kind = "proxy" /\ requests[p].state = "value"
          /\ p \notin proxies \cup held /\ ~Awaited(p)
          /\ requests[d].state = "pending" => Awaited(d)
      BY DEF BooksInv, DestroyInv, Pending
    <2>2. d \in Nat
      BY BooksFacts
    <2> QED BY <1>1, <2>1, <2>2
  <1>7. OwnedInv'
    <2> SUFFICES ASSUME NEW r \in 1 .. Len(requests), requests[r].kind = "proxy",
                        requests'[r].state \in {"pending", "value"}
                 PROVE  r \in proxies \cup held \cup dropped \/ Awaited(r)' \/ Destroyed(r)'
      BY DEF OwnedInv
    <2>1. requests[r].state \in {"pending", "value"} /\ r \in Nat
      BY BooksFacts
    <2> QED BY <1>1, <1>2, <2>1 DEF BooksInv, OwnedInv
  <1> QED BY <1>2, <1>3, <1>4, <1>5, <1>6, <1>7

\* The worker delivers an answer.
LEMMA AnswerBooks ==
    ASSUME BooksType, BooksInv, NEW r \in 1 .. Len(requests), Answer(r)
    PROVE  BooksType' /\ BooksInv'
  <1>1. /\ UNCHANGED <<cl, proxies, futures, held, dropped, inCall>>
        /\ requests[r].state = "pending" /\ (cl.kind = "standalone" \/ cl.conn = "up")
    BY DEF Answer, Pending, callSide
  <1>2. /\ requests' \in Seq(ReqRecs) /\ Len(requests') = Len(requests)
        /\ \A q \in 1 .. Len(requests) :
             /\ requests'[q].kind = requests[q].kind /\ requests'[q].obj = requests[q].obj
             /\ q # r => requests'[q].state = requests[q].state
        /\ requests'[r].state \in {"value", "remote"}
        /\ requests[r].kind = "destroy" =>
             requests'[r].state = IF requests[r].obj \in objects THEN "value" ELSE "remote"
        /\ objects' = IF requests'[r].state = "value" /\ requests[r].kind = "proxy"
                      THEN objects \cup {r}
                      ELSE IF requests'[r].state = "value" /\ requests[r].kind = "destroy"
                      THEN objects \ {requests[r].obj} ELSE objects
    BY AnswerFacts
  <1>3. /\ \A o \in objects' : o \in objects \/ (o = r /\ requests'[r].state = "value"
                                                       /\ requests[r].kind = "proxy")
        /\ \A o \in objects : o \notin objects' => requests[r].kind = "destroy" /\ requests[r].obj = o
        /\ requests'[r].state = "value" /\ requests[r].kind = "proxy" => r \in objects'
        /\ requests[r].kind = "destroy" => requests[r].obj \notin objects'
    BY <1>2
  <1>4. BooksType'
    BY <1>1, <1>2, <1>3 DEF BooksType
  <1>5. \A q \in 1 .. Len(requests) :
          requests[q].kind = "destroy" /\ requests'[q].state # "pending" =>
            requests[q].obj \notin objects'
    <2> SUFFICES ASSUME NEW q \in 1 .. Len(requests), requests[q].kind = "destroy",
                        requests'[q].state # "pending", q # r
                 PROVE  requests[q].obj \notin objects'
      BY <1>3
    <2>1. requests[q].obj \in Nat /\ requests[q].state # "pending"
      BY <1>2, BooksFacts
    <2>2. requests[q].obj \notin objects /\ requests[requests[q].obj].state = "value"
      BY <2>1 DEF BooksInv, DestroyInv, Pending
    <2>3. requests[q].obj # r
      BY <1>1, <2>2
    <2> QED BY <1>3, <2>2, <2>3
  <1>6. /\ CallInv' /\ FutureInv' /\ ProxyInv' /\ DestroyInv' /\ OwnedInv'
        /\ \A q \in Nat : Destroyed(q)' <=> Destroyed(q)
    BY <1>1, <1>2, <1>5, AsideBooks
  <1>7. ObjectInv'
    <2>1. \A o \in objects : o \in 1 .. Len(requests) /\ requests[o].state = "value" /\ o # r
      BY <1>1 DEF BooksType, BooksInv, ObjectInv
    <2>2. \A o \in objects' : requests'[o].kind = "proxy" /\ requests'[o].state = "value"
      BY <1>2, <1>3, <2>1 DEF BooksInv, ObjectInv
    <2> QED BY <1>1, <2>2 DEF BooksInv, ObjectInv
  <1>8. StandaloneInv'
    <2> SUFFICES ASSUME cl.kind = "standalone", cl.conn # "released", NEW q \in 1 .. Len(requests),
                        requests[q].kind = "proxy", requests'[q].state = "value", ~Destroyed(q)'
                 PROVE  q \in objects'
      BY <1>1, <1>2 DEF StandaloneInv
    <2>1. CASE q = r
      BY <1>3, <2>1
    <2>2. CASE q # r
      <3>1. q \in Nat /\ requests[q].state = "value" /\ ~Destroyed(q)
        BY <1>2, <1>6, <2>2, BooksFacts
      <3>2. q \in objects
        BY <3>1 DEF BooksInv, StandaloneInv
      <3>3. ~(requests[r].kind = "destroy" /\ requests[r].obj = q)
        BY <3>1 DEF Destroyed
      <3> QED BY <1>3, <3>2, <3>3
    <2> QED BY <2>1, <2>2
  <1> QED BY <1>4, <1>6, <1>7, <1>8 DEF BooksInv

\* A session ends, or the client is released.
LEMMA SessionEndsBooks ==
    ASSUME BooksType, BooksInv, SessionEnds
    PROVE  BooksType' /\ BooksInv'
  <1>1. /\ UNCHANGED <<proxies, futures, held, dropped, inCall>> /\ objects' = {}
        /\ requests' = Ended
    BY DEF SessionEnds
  <1>2. /\ requests' \in Seq(ReqRecs) /\ Len(requests') = Len(requests)
        /\ \A r \in 1 .. Len(requests) :
             /\ requests'[r].kind = requests[r].kind /\ requests'[r].obj = requests[r].obj
             /\ requests[r].state # "pending" => requests'[r].state = requests[r].state
    BY <1>1, EndedFacts DEF Pending
  <1>3. /\ cl' \in [kind : {"none", "remote", "standalone"},
                    conn : {"none", "new", "up", "gone", "down", "released"}]
        /\ cl'.kind = cl.kind
        /\ \/ cl.kind # "standalone" /\ cl'.conn = "down"
           \/ cl'.conn = "released" /\ proxies = {} /\ held = {}
              /\ \A u \in Callers : inCall[u] = Idle
    BY DEF SessionEnds, BooksType, OutsideCall
  <1>4. BooksType'
    <2>1. futures \in [1 .. MaxRequests -> {"absent", "live", "freed"}]
          /\ inCall \in [Callers -> CallRecs] /\ Len(requests) <= MaxRequests
          /\ proxies \in SUBSET (1 .. Len(requests)) /\ dropped \in SUBSET (1 .. Len(requests))
          /\ held \in SUBSET (1 .. Len(requests))
      BY DEF BooksType
    <2> QED BY <1>1, <1>2, <1>3, <2>1 DEF BooksType
  <1>5. CallInv' /\ FutureInv' /\ ProxyInv' /\ DestroyInv' /\ OwnedInv'
    BY <1>1, <1>2, AsideBooks
  <1>6. ObjectInv' /\ StandaloneInv'
    BY <1>1, <1>3 DEF ObjectInv, StandaloneInv
  <1> QED BY <1>4, <1>5, <1>6 DEF BooksInv

\* The peer goes, unnoticed.
LEMMA PeerGoneBooks ==
    ASSUME BooksType, BooksInv, PeerGone
    PROVE  BooksType' /\ BooksInv'
  <1>1. /\ UNCHANGED <<requests, proxies, futures, held, dropped, inCall>> /\ objects' = {}
        /\ cl.kind = "remote"
        /\ cl' \in [kind : {"none", "remote", "standalone"},
                    conn : {"none", "new", "up", "gone", "down", "released"}]
        /\ cl'.kind = "remote" /\ cl'.conn = "gone"
    BY DEF PeerGone, callSide, BooksType
  <1>2. BooksType'
    BY <1>1 DEF BooksType
  <1>3. CallInv' /\ FutureInv' /\ ProxyInv' /\ DestroyInv' /\ OwnedInv'
    BY <1>1, AsideBooks
  <1>4. ObjectInv' /\ StandaloneInv'
    BY <1>1 DEF ObjectInv, StandaloneInv
  <1> QED BY <1>2, <1>3, <1>4 DEF BooksInv

\* Everything else.
LEMMA InertBooks ==
    ASSUME BooksType, BooksInv, Inert
    PROVE  BooksType' /\ BooksInv'
  <1>1. /\ UNCHANGED <<requests, objects, proxies, futures, held, dropped, inCall>>
        /\ cl' \in [kind : {"none", "remote", "standalone"},
                    conn : {"none", "new", "up", "gone", "down", "released"}]
        /\ cl' = cl \/ (cl.kind # "standalone" /\ cl'.kind = cl.kind /\ cl'.conn = "up")
    BY DEF Inert, BooksType
  <1>2. BooksType'
    BY <1>1 DEF BooksType
  <1>3. \A r \in 1 .. Len(requests) :
          requests[r].kind = "destroy" /\ requests[r].state # "pending" => requests[r].obj \notin objects
    BY BooksFacts DEF BooksInv, DestroyInv, Pending
  <1>4. /\ CallInv' /\ FutureInv' /\ ProxyInv' /\ DestroyInv' /\ OwnedInv'
        /\ \A q \in Nat : Destroyed(q)' <=> Destroyed(q)
    BY <1>1, <1>3, AsideBooks
  <1>5. ObjectInv'
    BY <1>1 DEF BooksInv, ObjectInv
  <1>6. StandaloneInv'
    BY <1>1, <1>4, BooksFacts DEF BooksInv, StandaloneInv
  <1> QED BY <1>2, <1>4, <1>5, <1>6 DEF BooksInv
-----------------------------------------------------------------------------
(***************************************************************************)
(* Each function takes one of the forms.                                   *)
(***************************************************************************)
\* A function that does not wait leaves its thread where it was.
LEMMA ReturnStays ==
    ASSUME BooksType, NEW t \in Callers, OutsideCall(t), Return(t)
    PROVE  UNCHANGED inCall
  <1>1. inCall \in [Callers -> CallRecs] /\ inCall[t] = Idle /\ inCall' = [inCall EXCEPT ![t] = Idle]
    BY DEF BooksType, OutsideCall, Return
  <1> QED BY <1>1

\* The calls of the client handle.
LEMMA ClientCallBooks ==
    ASSUME BooksType, BooksInv, NEW t \in Callers, ClientCall(t)
    PROVE  BooksType' /\ BooksInv'
  <1>1. ASSUME OutsideCall(t), Return(t)
        PROVE  UNCHANGED inCall
    BY <1>1, ReturnStays
  <1>5. CASE rmi_client_connect(t)
    <2>1. Inert
      BY <1>1, <1>5 DEF rmi_client_connect, Inert
    <2> QED BY <2>1, InertBooks
  <1>6. CASE rmi_client_disconnect(t)
    <2>0. UNCHANGED <<inCall, proxies, futures, held, dropped>>
      BY <1>1, <1>6 DEF rmi_client_disconnect
    <2>1. CASE cl.kind = "standalone" \/ ~Reachable
      <3>1. Inert
        BY <1>6, <2>0, <2>1 DEF rmi_client_disconnect, Inert
      <3> QED BY <3>1, InertBooks
    <2>2. CASE ~(cl.kind = "standalone" \/ ~Reachable)
      <3>1. SessionEnds
        BY <1>6, <2>0, <2>2 DEF rmi_client_disconnect, SessionEnds, Reachable
      <3> QED BY <3>1, SessionEndsBooks
    <2> QED BY <2>1, <2>2
  <1>7. CASE rmi_client_release(t)
    <2>1. SessionEnds
      BY <1>1, <1>7 DEF rmi_client_release, SessionEnds
    <2> QED BY <2>1, SessionEndsBooks
  <1>8. CASE rmi_client_describe(t)
    <2>1. Asks(t, "dynamic", 0, FALSE)
      BY <1>8 DEF rmi_client_describe, Blocking, Request, Enter, Asks, client_handle_is_valid
    <2> QED BY <2>1, AsksBooks DEF Kinds
  <1>9. CASE rmi_client_instantiate(t)
    <2>1. Asks(t, "proxy", 0, FALSE)
      BY <1>9 DEF rmi_client_instantiate, Blocking, Request, Enter, Asks, client_handle_is_valid
    <2> QED BY <2>1, AsksBooks DEF Kinds
  <1>10. CASE rmi_client_describe_async(t)
    <2>1. AsksLater("dynamic", 0)
      BY <1>1, <1>10 DEF rmi_client_describe_async, Asynchronous, Request, AsksLater, client_handle_is_valid
    <2> QED BY <2>1, AsksLaterBooks DEF Kinds
  <1>11. CASE rmi_client_instantiate_async(t)
    <2>1. AsksLater("proxy", 0)
      BY <1>1, <1>11 DEF rmi_client_instantiate_async, Asynchronous, Request, AsksLater, client_handle_is_valid
    <2> QED BY <2>1, AsksLaterBooks DEF Kinds
  <1> QED BY <1>5, <1>6, <1>7, <1>8, <1>9, <1>10, <1>11 DEF ClientCall

\* The calls of a proxy.
LEMMA ProxyCallBooks ==
    ASSUME BooksType, BooksInv, NEW t \in Callers, ProxyCall(t)
    PROVE  BooksType' /\ BooksInv'
  <1>1. ASSUME OutsideCall(t), Return(t)
        PROVE  UNCHANGED inCall
    BY <1>1, ReturnStays
  <1>2. PICK p \in proxies :
          \/ rmi_proxy_clear(t, p) \/ rmi_proxy_set(t, p)
          \/ rmi_proxy_get(t, p) \/ rmi_proxy_call(t, p)
          \/ rmi_proxy_clear_async(t, p) \/ rmi_proxy_set_async(t, p)
          \/ rmi_proxy_get_async(t, p) \/ rmi_proxy_call_async(t, p)
          \/ rmi_proxy_release(t, p)
    BY DEF ProxyCall
  <1>3. p \in Nat /\ cl.conn \notin {"none", "released"}
    BY BooksFacts DEF BooksType, BooksInv, ObjectInv
  <1>4. CASE rmi_proxy_clear(t, p)
    <2>1. Asks(t, "bool", p, TRUE)
      BY <1>3, <1>4 DEF rmi_proxy_clear, Blocking, Request, Enter, Asks
    <2> QED BY <1>3, <2>1, AsksBooks DEF Kinds
  <1>5. CASE rmi_proxy_set(t, p)
    <2>1. Asks(t, "bool", p, TRUE)
      BY <1>3, <1>5 DEF rmi_proxy_set, Blocking, Request, Enter, Asks
    <2> QED BY <1>3, <2>1, AsksBooks DEF Kinds
  <1>6. CASE rmi_proxy_get(t, p)
    <2>1. Asks(t, "dynamic", p, TRUE)
      BY <1>3, <1>6 DEF rmi_proxy_get, Blocking, Request, Enter, Asks
    <2> QED BY <1>3, <2>1, AsksBooks DEF Kinds
  <1>7. CASE rmi_proxy_call(t, p)
    <2>1. Asks(t, "dynamic", p, TRUE)
      BY <1>3, <1>7 DEF rmi_proxy_call, Blocking, Request, Enter, Asks
    <2> QED BY <1>3, <2>1, AsksBooks DEF Kinds
  <1>8. CASE rmi_proxy_clear_async(t, p)
    <2>1. AsksLater("bool", p)
      BY <1>1, <1>3, <1>8 DEF rmi_proxy_clear_async, Asynchronous, Request, AsksLater
    <2> QED BY <1>3, <2>1, AsksLaterBooks DEF Kinds
  <1>9. CASE rmi_proxy_set_async(t, p)
    <2>1. AsksLater("bool", p)
      BY <1>1, <1>3, <1>9 DEF rmi_proxy_set_async, Asynchronous, Request, AsksLater
    <2> QED BY <1>3, <2>1, AsksLaterBooks DEF Kinds
  <1>10. CASE rmi_proxy_get_async(t, p)
    <2>1. AsksLater("dynamic", p)
      BY <1>1, <1>3, <1>10 DEF rmi_proxy_get_async, Asynchronous, Request, AsksLater
    <2> QED BY <1>3, <2>1, AsksLaterBooks DEF Kinds
  <1>11. CASE rmi_proxy_call_async(t, p)
    <2>1. AsksLater("dynamic", p)
      BY <1>1, <1>3, <1>11 DEF rmi_proxy_call_async, Asynchronous, Request, AsksLater
    <2> QED BY <1>3, <2>1, AsksLaterBooks DEF Kinds
  <1>12. CASE rmi_proxy_release(t, p)
    <2>1. Asks(t, "destroy", p, FALSE)
      BY <1>3, <1>12 DEF rmi_proxy_release, Request, Enter, Asks
    <2> QED BY <1>3, <2>1, AsksBooks DEF Kinds
  <1> QED BY <1>2, <1>4, <1>5, <1>6, <1>7, <1>8, <1>9, <1>10, <1>11, <1>12

\* The calls on a future.
LEMMA FutureCallBooks ==
    ASSUME BooksType, BooksInv, NEW t \in Callers, FutureCall(t)
    PROVE  BooksType' /\ BooksInv'
  <1>1. PICK r \in held : \/ rmi_future_wait(t, r) \/ rmi_future_release(t, r)
                          \/ \E g \in {"get_dynamic", "get_proxy"} : FutureGet(t, r, g)
    BY DEF FutureCall
  <1>2. CASE rmi_future_wait(t, r)
    <2>1. Inert
      BY <1>2 DEF rmi_future_wait, rmiCVars, clientSide, callSide, Inert
    <2> QED BY <2>1, InertBooks
  <1>3. CASE rmi_future_release(t, r)
    <2>1. Enters(t, r, "release")
      BY <1>3 DEF rmi_future_release, Enter, Enters
    <2> QED BY <2>1, EntersBooks
  <1>4. ASSUME NEW g \in {"get_dynamic", "get_proxy"}, FutureGet(t, r, g)
        PROVE  BooksType' /\ BooksInv'
    <2>1. CASE rlang = "java"
      <3>1. Enters(t, r, g)
        BY <1>4, <2>1 DEF FutureGet, Enter, Enters, clientSide
      <3> QED BY <3>1, EntersBooks
    <2>2. CASE rlang # "java"
      <3>1. Enters(t, r, g)
        BY <1>4, <2>2 DEF FutureGet, rmi_future_get, Enter, Enters
      <3> QED BY <3>1, EntersBooks
    <2> QED BY <2>1, <2>2
  <1> QED BY <1>1, <1>2, <1>3, <1>4

\* The ends of the calls.
LEMMA CallReturnsBooks ==
    ASSUME BooksType, BooksInv, NEW t \in Callers, CallReturns(t) \/ CallTimesOut(t)
    PROVE  BooksType' /\ BooksInv'
  <1>1. PICK r \in Nat : r = inCall[t].req
    BY BooksFacts
  <1>2. inCall[t].op \in {"wait", "unwind"} /\ requests[r].kind \in {"proxy", "destroy"} =>
          inCall[t].op = "wait" /\ ~inCall[t].timed
    BY <1>1 DEF BooksInv, CallInv
  <1>3. inCall[t].op \in {"get_dynamic", "get_proxy", "release"} => requests[r].kind # "destroy"
    <2> SUFFICES ASSUME inCall[t].op \in {"get_dynamic", "get_proxy", "release"}
                 PROVE  requests[r].kind # "destroy"
      OBVIOUS
    <2>1. r \in 1 .. Len(requests) /\ futures[r] # "absent"
      BY <1>1 DEF BooksInv, CallInv
    <2>2. r \in 1 .. MaxRequests
      BY <2>1, BooksFacts
    <2> QED BY <2>1, <2>2 DEF BooksInv, FutureInv
  <1>4. ASSUME inCall[t].op # "none", inCall' = [inCall EXCEPT ![t] = Idle],
               UNCHANGED <<cl, requests, objects>>,
               \/ UNCHANGED futures
               \/ inCall[t].op \notin {"wait", "unwind"} /\ futures' = [futures EXCEPT ![r] = "freed"],
               held' \in {held, held \ {r}},
               \/ UNCHANGED proxies
               \/ /\ requests[r].kind = "proxy" /\ requests[r].state = "value"
                  /\ inCall[t].op \in {"wait", "unwind"} \/ held' = held \ {r}
                  /\ proxies' = proxies \cup {r},
               dropped' \in {dropped, dropped \cup {r}},
               requests[r].kind = "proxy" /\ requests[r].state \in {"pending", "value"} =>
                 r \in proxies' \cup dropped',
               requests[r].kind = "destroy" => requests[r].state # "pending"
        PROVE  BooksType' /\ BooksInv'
    <2>1. Leaves(t)
      BY <1>1, <1>4 DEF Leaves, Pending
    <2> QED BY <2>1, LeavesBooks
  <1>5. CASE CallEnds(t)
    <2>1. /\ inCall[t].op = "wait" /\ requests[r].state # "pending"
          /\ inCall' = [inCall EXCEPT ![t] = Idle]
          /\ UNCHANGED <<cl, requests, objects, futures, held, dropped>>
          /\ proxies' = IF requests[r].kind = "proxy" /\ requests[r].state = "value"
                        THEN proxies \cup {r} ELSE proxies
      BY <1>1, <1>5 DEF CallEnds, Pending, Report
    <2> QED BY <1>4, <2>1
  <1>6. CASE CallUnwinds(t)
    <2>1. /\ inCall[t].op = "unwind" /\ inCall' = [inCall EXCEPT ![t] = Idle]
          /\ UNCHANGED <<cl, requests, objects, futures, held, dropped, proxies>>
      BY <1>1, <1>6 DEF CallUnwinds, Report, clientSide
    <2> QED BY <1>2, <1>4, <2>1
  <1>7. CASE CallTimesOut(t)
    <2>1. /\ inCall[t].op = "wait" /\ inCall[t].timed
          /\ UNCHANGED <<cl, requests, objects, futures, held, dropped, proxies>>
      BY <1>7 DEF CallTimesOut, clientSide
    <2>2. CASE OnItsOwnThread(requests[r].kind)
      <3>1. Unwinds(t)
        BY <1>1, <1>7, <2>1, <2>2 DEF CallTimesOut, Enter, Unwinds
      <3> QED BY <3>1, UnwindsBooks
    <2>3. CASE ~OnItsOwnThread(requests[r].kind)
      <3>1. inCall' = [inCall EXCEPT ![t] = Idle]
        BY <1>1, <1>7, <2>3 DEF CallTimesOut, Report
      <3> QED BY <1>2, <1>4, <2>1, <3>1
    <2> QED BY <2>2, <2>3
  <1>8. CASE FutureGot(t)
    <2> DEFINE ok == Takes(inCall[t].op, requests[r].kind) /\ requests[r].state = "value"
    <2>1. /\ inCall[t].op \in {"get_dynamic", "get_proxy"} /\ inCall' = [inCall EXCEPT ![t] = Idle]
          /\ UNCHANGED <<cl, requests, objects>>
          /\ futures' = [futures EXCEPT ![r] = "freed"]
          /\ held' = IF ok THEN held \ {r} ELSE held
          /\ proxies' = IF ok /\ requests[r].kind = "proxy" THEN proxies \cup {r} ELSE proxies
          /\ dropped' = IF ~ok /\ requests[r].kind = "proxy" THEN dropped \cup {r} ELSE dropped
      BY <1>1, <1>8 DEF FutureGot, Report, Getters
    <2>2. ok => requests[r].state = "value"
      OBVIOUS
    <2> HIDE DEF ok
    <2> QED BY <1>3, <1>4, <2>1, <2>2
  <1>9. CASE FutureReleased(t)
    <2>1. /\ inCall[t].op = "release" /\ inCall' = [inCall EXCEPT ![t] = Idle]
          /\ UNCHANGED <<cl, requests, objects, held, proxies>>
          /\ futures' = [futures EXCEPT ![r] = "freed"]
          /\ dropped' = IF requests[r].kind = "proxy" THEN dropped \cup {r} ELSE dropped
      BY <1>1, <1>9 DEF FutureReleased, Return
    <2> QED BY <1>3, <1>4, <2>1
  <1> QED BY <1>5, <1>6, <1>7, <1>8, <1>9 DEF CallReturns

\* Every step.
LEMMA BooksStep ==
    ASSUME BooksType, BooksInv, [RmiCNext]_rmiCVars
    PROVE  BooksType' /\ BooksInv'
  <1>1. ASSUME Inert
        PROVE  BooksType' /\ BooksInv'
    BY <1>1, InertBooks
  <1>2. CASE UNCHANGED rmiCVars
    <2>1. Inert
      BY <1>2 DEF rmiCVars, clientSide, callSide, Inert
    <2> QED BY <1>1, <2>1
  <1>3. ASSUME NEW t \in Callers, ClientCall(t) \/ ProxyCall(t) \/ FutureCall(t)
        PROVE  BooksType' /\ BooksInv'
    BY <1>3, ClientCallBooks, ProxyCallBooks, FutureCallBooks
  <1>4. ASSUME NEW t \in Callers, CallReturns(t) \/ CallTimesOut(t)
        PROVE  BooksType' /\ BooksInv'
    BY <1>4, CallReturnsBooks
  <1>5. ASSUME NEW t \in Callers, CallbackCall(t)
        PROVE  BooksType' /\ BooksInv'
    <2>1. OutsideCall(t) /\ Return(t) /\ UNCHANGED clientSide
      BY <1>5 DEF CallbackCall, rmi_proxy_on_event, rmi_server_listen, rmi_server_stop,
                  rmi_server_release
    <2>2. Inert
      BY <2>1, ReturnStays DEF clientSide, Inert
    <2> QED BY <1>1, <2>2
  <1>6. ASSUME NEW r \in DOMAIN requests, Answer(r)
        PROVE  BooksType' /\ BooksInv'
    <2>1. r \in 1 .. Len(requests)
      BY DEF BooksType
    <2> QED BY <1>6, <2>1, AnswerBooks
  <1>7. CASE PeerGone
    BY <1>7, PeerGoneBooks
  <1>8. CASE WorkerExits
    <2>1. objects = {} /\ cl.kind # "standalone"
      BY <1>8 DEF WorkerExits, BooksInv, ObjectInv
    <2>2. SessionEnds
      BY <1>8, <2>1 DEF WorkerExits, SessionEnds, callSide
    <2> QED BY <2>2, SessionEndsBooks
  <1>9. ASSUME NEW s \in subs, EventArrives(s)
        PROVE  BooksType' /\ BooksInv'
    <2>1. Inert
      BY <1>9 DEF EventArrives, clientSide, callSide, Inert
    <2> QED BY <1>1, <2>1
  <1>10. ASSUME NEW c \in firing, EventHandled(c)
        PROVE  BooksType' /\ BooksInv'
    <2>1. Inert
      BY <1>10 DEF EventHandled, clientSide, callSide, Inert
    <2> QED BY <1>1, <2>1
  <1> QED BY <1>2, <1>3, <1>4, <1>5, <1>6, <1>7, <1>8, <1>9, <1>10 DEF RmiCNext

\* The application starts without requests.
LEMMA BooksInit ==
    ASSUME RmiCInit
    PROVE  BooksType /\ BooksInv
  <1>1. /\ requests = << >> /\ objects = {} /\ proxies = {} /\ dropped = {} /\ held = {}
        /\ futures = [r \in 1 .. MaxRequests |-> "absent"]
        /\ inCall = [t \in Callers |-> Idle]
    BY DEF RmiCInit
  <1>2. /\ cl \in [kind : {"none", "remote", "standalone"},
                   conn : {"none", "new", "up", "gone", "down", "released"}]
        /\ cl.conn \in {"none", "new"} /\ (cl.kind = "standalone" => cl.conn = "new")
    BY DEF RmiCInit, NewClient
  <1>3. /\ Idle \in CallRecs /\ Idle.op = "none" /\ requests \in Seq(ReqRecs) /\ Len(requests) = 0
        /\ MaxRequests \in Nat /\ 1 .. Len(requests) = {}
    BY <1>1, RmiCAssumption DEF Idle, CallRecs
  <1>4. \A t \in Callers : inCall[t] = Idle /\ inCall[t].op = "none"
    BY <1>1, <1>3
  <1>5. BooksType
    <2>1. inCall \in [Callers -> CallRecs]
          /\ futures \in [1 .. MaxRequests -> {"absent", "live", "freed"}]
      BY <1>1, <1>3
    <2>2. Len(requests) <= MaxRequests
      BY <1>3
    <2> QED BY <1>1, <1>2, <1>3, <2>1, <2>2 DEF BooksType
  <1>6. CallInv /\ FutureInv /\ ObjectInv
    BY <1>1, <1>2, <1>3, <1>4 DEF CallInv, FutureInv, ObjectInv
  <1>7. ProxyInv /\ DestroyInv /\ OwnedInv /\ StandaloneInv
    BY <1>1, <1>3 DEF ProxyInv, DestroyInv, OwnedInv, StandaloneInv
  <1> QED BY <1>5, <1>6, <1>7 DEF BooksInv

\* The books agree with each other in every state.
LEMMA BooksCorrect == RmiCSpec => [](BooksType /\ BooksInv)
  <1>1. RmiCInit => BooksType /\ BooksInv
    BY BooksInit
  <1>2. (BooksType /\ BooksInv) /\ [RmiCNext]_rmiCVars => (BooksType /\ BooksInv)'
    BY BooksStep
  <1> QED BY <1>1, <1>2, PTL DEF RmiCSpec

(* The client side of the library accounts for every object: while the     *)
(* session lasts each has a proxy, a future, a thread on its way with one, *)
(* or was given up with its future, and a standalone never destroys the    *)
(* object of a proxy that is still held.                                   *)
THEOREM ObjectsAccountedForHolds == RmiCSpec => []ObjectsAccountedFor
  <1>1. ASSUME BooksType, BooksInv
        PROVE  ObjectsAccountedFor
    <2>1. ASSUME NEW o \in objects \ (proxies \cup held \cup dropped)
          PROVE  \E t \in Callers :
                   LET r == inCall[t].req IN
                   r # 0 /\ (r = o \/ (requests[r].kind = "destroy" /\ requests[r].obj = o))
      <3>1. o \in 1 .. Len(requests) /\ o \in Nat /\ o # 0
            /\ requests[o].kind = "proxy" /\ requests[o].state = "value"
        BY <1>1, <2>1, BooksFacts DEF BooksType, BooksInv, ObjectInv
      <3>2. Awaited(o) \/ Destroyed(o)
        BY <1>1, <2>1, <3>1 DEF BooksInv, OwnedInv
      <3>3. CASE Awaited(o)
        BY <3>1, <3>3 DEF Awaited
      <3>4. CASE Destroyed(o)
        <4>1. PICK d \in 1 .. Len(requests) : requests[d].kind = "destroy" /\ requests[d].obj = o
          BY <3>4 DEF Destroyed
        <4>2. d # 0 /\ Awaited(d)
          BY <1>1, <2>1, <3>1, <4>1 DEF BooksInv, DestroyInv
        <4> QED BY <4>1, <4>2 DEF Awaited
      <3> QED BY <3>2, <3>3, <3>4
    <2>2. ASSUME cl.kind = "standalone", NEW p \in proxies
          PROVE  p \in objects
      <3>1. p \in 1 .. Len(requests) /\ cl.conn # "released" /\ ~Destroyed(p)
            /\ requests[p].kind = "proxy" /\ requests[p].state = "value"
        BY <1>1, <2>2 DEF BooksType, BooksInv, ObjectInv, ProxyInv
      <3> QED BY <1>1, <2>2, <3>1 DEF BooksInv, StandaloneInv
    <2> QED BY <2>1, <2>2 DEF ObjectsAccountedFor
  <1> QED BY <1>1, BooksCorrect, PTL
-----------------------------------------------------------------------------
(***************************************************************************)
(* What is reported of the requests.                                       *)
(***************************************************************************)
\* A report of a request: who waited for it, and what it may say.
Reports(t) ==
    \E r \in 1 .. Len(requests), err \in Errors :
        /\ r = inCall[t].req /\ last' = [req |-> r, err |-> err]
        /\ UNCHANGED requests
        /\ err = "OK" => requests[r].state = "value" \/ requests[r].kind = "destroy"
        /\ err = "REMOTE_EXCEPTION" => requests[r].state = "remote"

\* The result is the last one reported, of a request that was made.
TruthInv == last.req \in 0 .. Len(requests) /\ ResultsTruthful

\* Requests are made, answered or lost; nothing else becomes of them.
LEMMA RequestSteps ==
    ASSUME BooksType, [RmiCNext]_rmiCVars
    PROVE  \/ UNCHANGED requests
           \/ requests' = Ended
           \/ \E kind \in Kinds, obj \in Nat : requests' = Sent(kind, obj)
           \/ \E r \in 1 .. Len(requests) : Answer(r)
  <1>1. \A p \in proxies : p \in Nat
    BY BooksFacts DEF BooksType
  <1>2. CASE UNCHANGED rmiCVars
    BY <1>2 DEF rmiCVars, clientSide
  <1>3. ASSUME NEW t \in Callers, NEW kind \in Kinds, NEW obj \in Nat, Request(t, kind, obj)
        PROVE  \E k \in Kinds, o \in Nat : requests' = Sent(k, o)
    BY <1>3 DEF Request
  <1>4. ASSUME NEW t \in Callers, ClientCall(t)
        PROVE  \/ UNCHANGED requests \/ requests' = Ended
               \/ \E k \in Kinds, o \in Nat : requests' = Sent(k, o)
    <2>1. \/ UNCHANGED requests \/ requests' = Ended
          \/ Request(t, "dynamic", 0) \/ Request(t, "proxy", 0)
      BY <1>4 DEF ClientCall, rmi_client_connect, rmi_client_disconnect, rmi_client_release,
                  rmi_client_describe, rmi_client_instantiate, rmi_client_describe_async,
                  rmi_client_instantiate_async, Blocking, Asynchronous
    <2> QED BY <1>3, <2>1 DEF Kinds
  <1>5. ASSUME NEW t \in Callers, ProxyCall(t)
        PROVE  \E k \in Kinds, o \in Nat : requests' = Sent(k, o)
    <2>1. \E p \in proxies : \/ Request(t, "bool", p) \/ Request(t, "dynamic", p)
                             \/ Request(t, "destroy", p)
      BY <1>5 DEF ProxyCall, rmi_proxy_clear, rmi_proxy_set, rmi_proxy_get, rmi_proxy_call,
                  rmi_proxy_clear_async, rmi_proxy_set_async, rmi_proxy_get_async,
                  rmi_proxy_call_async, rmi_proxy_release, Blocking, Asynchronous
    <2> QED BY <1>1, <1>3, <2>1 DEF Kinds
  <1>6. ASSUME NEW t \in Callers, FutureCall(t)
        PROVE  UNCHANGED requests
    BY <1>6 DEF FutureCall, rmi_future_wait, rmi_future_release, FutureGet, rmi_future_get,
                rmiCVars, clientSide
  <1>7. ASSUME NEW t \in Callers, CallbackCall(t)
        PROVE  UNCHANGED requests
    BY <1>7 DEF CallbackCall, rmi_proxy_on_event, rmi_server_listen, rmi_server_stop,
                rmi_server_release, clientSide
  <1>8. ASSUME NEW t \in Callers, CallReturns(t) \/ CallTimesOut(t)
        PROVE  UNCHANGED requests
    BY <1>8 DEF CallReturns, CallEnds, CallUnwinds, FutureGot, FutureReleased, CallTimesOut,
                clientSide
  <1>9. ASSUME NEW r \in DOMAIN requests, Answer(r)
        PROVE  \E q \in 1 .. Len(requests) : Answer(q)
    <2>1. r \in 1 .. Len(requests)
      BY DEF BooksType
    <2> QED BY <1>9, <2>1
  <1>10. ASSUME \/ PeerGone \/ WorkerExits
                \/ \E s \in subs : EventArrives(s)
                \/ \E c \in firing : EventHandled(c)
         PROVE  UNCHANGED requests \/ requests' = Ended
    BY <1>10 DEF PeerGone, WorkerExits, EventArrives, EventHandled, clientSide
  <1> QED BY <1>2, <1>4, <1>5, <1>6, <1>7, <1>8, <1>9, <1>10 DEF RmiCNext

\* What has become of a request is final.
LEMMA RequestsKept ==
    ASSUME BooksType, [RmiCNext]_rmiCVars
    PROVE  \A r \in 1 .. Len(requests) :
             /\ r \in 1 .. Len(requests')
             /\ requests'[r].kind = requests[r].kind
             /\ requests[r].state # "pending" => requests'[r].state = requests[r].state
  <1>1. CASE UNCHANGED requests
    BY <1>1
  <1>2. CASE requests' = Ended
    BY <1>2, EndedFacts DEF Pending
  <1>3. ASSUME NEW kind \in Kinds, NEW obj \in Nat, requests' = Sent(kind, obj)
        PROVE  \A r \in 1 .. Len(requests) : r \in 1 .. Len(requests') /\ requests'[r] = requests[r]
    BY <1>3, SentFacts
  <1>4. ASSUME NEW q \in 1 .. Len(requests), Answer(q)
        PROVE  \A r \in 1 .. Len(requests) :
                 /\ r \in 1 .. Len(requests')
                 /\ requests'[r].kind = requests[r].kind
                 /\ requests[r].state # "pending" => requests'[r].state = requests[r].state
    <2>1. requests[q].state = "pending"
      BY <1>4 DEF Answer, Pending
    <2> QED BY <1>4, <2>1, AnswerFacts
  <1> QED BY <1>1, <1>2, <1>3, <1>4, RequestSteps

\* Only the end of a wait reports, and it reports what it found.
LEMMA ReportSteps ==
    ASSUME BooksType, BooksInv, [RmiCNext]_rmiCVars
    PROVE  UNCHANGED last \/ \E t \in Callers : Reports(t)
  <1>1. ASSUME NEW t \in Callers, inCall[t].op # "none", UNCHANGED requests,
               NEW err \in Errors, Report(t, inCall[t].req, err),
               err = "OK" => \/ requests[inCall[t].req].state = "value"
                             \/ requests[inCall[t].req].kind = "destroy",
               err = "REMOTE_EXCEPTION" => requests[inCall[t].req].state = "remote"
        PROVE  Reports(t)
    <2>1. inCall[t].req \in 1 .. Len(requests)
      BY <1>1 DEF BooksInv, CallInv
    <2> QED BY <1>1, <2>1 DEF Reports, Report
  <1>2. CASE UNCHANGED rmiCVars
    BY <1>2 DEF rmiCVars, callSide
  <1>3. ASSUME NEW t \in Callers, ClientCall(t)
        PROVE  UNCHANGED last
    BY <1>3 DEF ClientCall, rmi_client_connect, rmi_client_disconnect, rmi_client_release,
                rmi_client_describe, rmi_client_instantiate, rmi_client_describe_async,
                rmi_client_instantiate_async, Blocking, Asynchronous, Enter, Return
  <1>4. ASSUME NEW t \in Callers, ProxyCall(t)
        PROVE  UNCHANGED last
    BY <1>4 DEF ProxyCall, rmi_proxy_clear, rmi_proxy_set, rmi_proxy_get, rmi_proxy_call,
                rmi_proxy_clear_async, rmi_proxy_set_async, rmi_proxy_get_async,
                rmi_proxy_call_async, rmi_proxy_release, Blocking, Asynchronous, Enter, Return
  <1>5. ASSUME NEW t \in Callers, FutureCall(t)
        PROVE  UNCHANGED last
    BY <1>5 DEF FutureCall, rmi_future_wait, rmi_future_release, FutureGet, rmi_future_get,
                rmiCVars, callSide, Enter
  <1>6. ASSUME NEW t \in Callers, CallbackCall(t)
        PROVE  UNCHANGED last
    BY <1>6 DEF CallbackCall, rmi_proxy_on_event, rmi_server_listen, rmi_server_stop,
                rmi_server_release, Return
  <1>7. ASSUME NEW t \in Callers, CallEnds(t)
        PROVE  Reports(t)
    <2>1. PICK err \in Outcomes(inCall[t]) : Report(t, inCall[t].req, err)
      BY <1>7 DEF CallEnds
    <2>2. inCall[t].op = "wait" /\ UNCHANGED requests
      BY <1>7 DEF CallEnds
    <2>3. /\ err \in Errors
          /\ err = "OK" => \/ requests[inCall[t].req].state = "value"
                           \/ requests[inCall[t].req].kind = "destroy"
          /\ err = "REMOTE_EXCEPTION" => requests[inCall[t].req].state = "remote"
      BY <2>1 DEF Outcomes, map_runtime_error, Errors
    <2> QED BY <1>1, <2>1, <2>2, <2>3
  <1>8. ASSUME NEW t \in Callers, CallUnwinds(t)
        PROVE  Reports(t)
    <2>1. inCall[t].op = "unwind" /\ UNCHANGED requests /\ Report(t, inCall[t].req, "TIMEOUT")
      BY <1>8 DEF CallUnwinds, clientSide
    <2> QED BY <1>1, <2>1 DEF Errors
  <1>9. ASSUME NEW t \in Callers, CallTimesOut(t)
        PROVE  UNCHANGED last \/ Reports(t)
    <2>1. inCall[t].op = "wait" /\ UNCHANGED requests
      BY <1>9 DEF CallTimesOut, clientSide
    <2>2. UNCHANGED last \/ Report(t, inCall[t].req, "TIMEOUT")
      BY <1>9 DEF CallTimesOut, Enter
    <2> QED BY <1>1, <2>1, <2>2 DEF Errors
  <1>10. ASSUME NEW t \in Callers, FutureGot(t)
         PROVE  Reports(t)
    <2> DEFINE c == inCall[t]
               ok == Takes(c.op, requests[c.req].kind) /\ requests[c.req].state = "value"
    <2>1. PICK err \in IF ok THEN {"OK"}
                       ELSE IF Takes(c.op, requests[c.req].kind)
                       THEN map_runtime_error(requests[c.req].state)
                       ELSE {"INVALID_STATE"} : Report(t, c.req, err)
      BY <1>10 DEF FutureGot
    <2>2. c.op \in {"get_dynamic", "get_proxy"} /\ UNCHANGED requests
      BY <1>10 DEF FutureGot, Getters
    <2>3. /\ err \in Errors
          /\ err = "OK" => requests[c.req].state = "value"
          /\ err = "REMOTE_EXCEPTION" => requests[c.req].state = "remote"
      BY <2>1 DEF map_runtime_error, Errors
    <2> QED BY <1>1, <2>1, <2>2, <2>3
  <1>11. ASSUME NEW t \in Callers, FutureReleased(t)
         PROVE  UNCHANGED last
    BY <1>11 DEF FutureReleased, Return
  <1>12. ASSUME \/ PeerGone \/ WorkerExits
                \/ \E r \in DOMAIN requests : Answer(r)
                \/ \E s \in subs : EventArrives(s)
                \/ \E c \in firing : EventHandled(c)
         PROVE  UNCHANGED last
    BY <1>12 DEF PeerGone, WorkerExits, Answer, EventArrives, EventHandled, callSide
  <1> QED BY <1>2, <1>3, <1>4, <1>5, <1>6, <1>7, <1>8, <1>9, <1>10, <1>11, <1>12
          DEF RmiCNext, CallReturns

(* What a call reports is what became of its request, in every state: the  *)
(* waits read a request that is over, and what is over never changes.      *)
THEOREM ResultsTruthfulHolds == RmiCSpec => []ResultsTruthful
  <1>1. RmiCInit => TruthInv
    <2> SUFFICES ASSUME RmiCInit PROVE TruthInv
      OBVIOUS
    <2>1. last.req = 0 /\ Len(requests) = 0
      BY DEF RmiCInit
    <2> QED BY <2>1 DEF TruthInv, ResultsTruthful
  <1>2. ASSUME TruthInv, BooksType, BooksInv, [RmiCNext]_rmiCVars
        PROVE  TruthInv'
    <2>1. \A r \in 1 .. Len(requests) :
             /\ r \in 1 .. Len(requests')
             /\ requests'[r].kind = requests[r].kind
             /\ requests[r].state # "pending" => requests'[r].state = requests[r].state
      BY <1>2, RequestsKept
    <2>2. Len(requests) \in Nat /\ Len(requests') \in Nat
      BY <1>2, BooksStep DEF BooksType
    <2>3. CASE UNCHANGED last
      <3>1. CASE last.req = 0
        BY <2>2, <2>3, <3>1 DEF TruthInv, ResultsTruthful
      <3>2. CASE last.req # 0
        <4>1. last.req \in 1 .. Len(requests)
          BY <1>2, <2>2, <3>2 DEF TruthInv
        <4>2. /\ last.err = "OK" => requests[last.req].state = "value" \/ requests[last.req].kind = "destroy"
              /\ last.err = "REMOTE_EXCEPTION" => requests[last.req].state = "remote"
          BY <1>2, <3>2 DEF TruthInv, ResultsTruthful
        <4>3. /\ last'.req \in 1 .. Len(requests')
              /\ last'.err = "OK" => requests'[last'.req].state = "value" \/ requests'[last'.req].kind = "destroy"
              /\ last'.err = "REMOTE_EXCEPTION" => requests'[last'.req].state = "remote"
          BY <2>1, <2>3, <4>1, <4>2
        <4> QED BY <2>2, <4>3 DEF TruthInv, ResultsTruthful
      <3> QED BY <3>1, <3>2
    <2>4. ASSUME NEW t \in Callers, Reports(t)
          PROVE  TruthInv'
      <3>1. PICK r \in 1 .. Len(requests), err \in Errors :
              /\ last' = [req |-> r, err |-> err] /\ UNCHANGED requests
              /\ err = "OK" => requests[r].state = "value" \/ requests[r].kind = "destroy"
              /\ err = "REMOTE_EXCEPTION" => requests[r].state = "remote"
        BY <2>4 DEF Reports
      <3>2. last'.req = r /\ last'.err = err /\ r \in 0 .. Len(requests')
        BY <2>2, <3>1
      <3> QED BY <3>1, <3>2 DEF TruthInv, ResultsTruthful
    <2> QED BY <1>2, <2>3, <2>4, ReportSteps
  <1>3. TruthInv => ResultsTruthful
    BY DEF TruthInv
  <1> QED BY <1>1, <1>2, <1>3, BooksCorrect, PTL DEF RmiCSpec
-----------------------------------------------------------------------------
(***************************************************************************)
(* Callbacks and their contexts.                                           *)
(***************************************************************************)
\* The step leaves the contexts alone and registers nothing.
NoCallback == UNCHANGED <<firing, kept, made, srv>> /\ subs' \subseteq subs

\* Only events and registrations do more, and nothing changes the language.
LEMMA EventSteps ==
    ASSUME EventsType, [RmiCNext]_rmiCVars
    PROVE  /\ UNCHANGED rlang /\ corrupt' \in BOOLEAN
           /\ \/ NoCallback
              \/ \E s \in subs : EventArrives(s)
              \/ \E c \in firing : EventHandled(c)
              \/ \E t \in Callers : CallbackCall(t)
  <1>0. corrupt \in BOOLEAN
    BY DEF EventsType
  <1>1. CASE UNCHANGED rmiCVars
    BY <1>0, <1>1 DEF rmiCVars, eventSide, NoCallback
  <1>2. ASSUME NEW t \in Callers, ClientCall(t)
        PROVE  UNCHANGED <<rlang, corrupt>> /\ NoCallback
    BY <1>2 DEF ClientCall, rmi_client_connect, rmi_client_disconnect, rmi_client_release,
                rmi_client_describe, rmi_client_instantiate, rmi_client_describe_async,
                rmi_client_instantiate_async, Blocking, Asynchronous, Request, eventSide, NoCallback
  <1>3. ASSUME NEW t \in Callers, ProxyCall(t)
        PROVE  UNCHANGED <<rlang, corrupt>> /\ NoCallback
    <2>1. PICK p \in proxies :
            \/ rmi_proxy_release(t, p)
            \/ rmi_proxy_clear(t, p) \/ rmi_proxy_set(t, p)
            \/ rmi_proxy_get(t, p) \/ rmi_proxy_call(t, p)
            \/ rmi_proxy_clear_async(t, p) \/ rmi_proxy_set_async(t, p)
            \/ rmi_proxy_get_async(t, p) \/ rmi_proxy_call_async(t, p)
      BY <1>3 DEF ProxyCall
    <2>2. CASE rmi_proxy_release(t, p)
      BY <2>2 DEF rmi_proxy_release, Request, NoCallback
    <2>3. CASE ~rmi_proxy_release(t, p)
      BY <2>1, <2>3 DEF rmi_proxy_clear, rmi_proxy_set, rmi_proxy_get, rmi_proxy_call,
              rmi_proxy_clear_async, rmi_proxy_set_async, rmi_proxy_get_async,
              rmi_proxy_call_async, Blocking, Asynchronous, Request, NoCallback
    <2> QED BY <2>2, <2>3
  <1>4. ASSUME NEW t \in Callers, FutureCall(t)
        PROVE  UNCHANGED rlang /\ corrupt' \in BOOLEAN /\ NoCallback
    <2>1. PICK r \in held : \/ rmi_future_wait(t, r) \/ rmi_future_release(t, r)
                            \/ \E g \in {"get_dynamic", "get_proxy"} : FutureGet(t, r, g)
      BY <1>4 DEF FutureCall
    <2>2. UNCHANGED rlang /\ NoCallback
      BY <2>1 DEF rmi_future_wait, rmi_future_release, FutureGet, rmi_future_get, rmiCVars,
              eventSide, NoCallback
    <2>3. corrupt' = corrupt \/ corrupt' = (futures[r] = "freed")
      BY <2>1 DEF rmi_future_wait, rmi_future_release, FutureGet, rmi_future_get, rmiCVars
    <2> QED BY <1>0, <2>2, <2>3
  <1>5. ASSUME NEW t \in Callers, CallbackCall(t)
        PROVE  UNCHANGED <<rlang, corrupt>>
    BY <1>5 DEF CallbackCall, rmi_proxy_on_event, rmi_server_listen, rmi_server_stop,
                rmi_server_release
  <1>6. ASSUME NEW t \in Callers, CallReturns(t) \/ CallTimesOut(t)
        PROVE  UNCHANGED <<rlang, corrupt>> /\ NoCallback
    BY <1>6 DEF CallReturns, CallEnds, CallUnwinds, FutureGot, FutureReleased, CallTimesOut,
                eventSide, NoCallback
  <1>7. ASSUME NEW r \in DOMAIN requests, Answer(r)
        PROVE  UNCHANGED <<rlang, corrupt>> /\ NoCallback
    BY <1>7 DEF Answer, NoCallback
  <1>8. ASSUME PeerGone \/ WorkerExits
        PROVE  UNCHANGED <<rlang, corrupt>> /\ NoCallback
    BY <1>8 DEF PeerGone, WorkerExits, eventSide, NoCallback
  <1>9. ASSUME \/ \E s \in subs : EventArrives(s)
               \/ \E c \in firing : EventHandled(c)
        PROVE  UNCHANGED <<rlang, corrupt>>
    BY <1>9 DEF EventArrives, EventHandled
  <1> QED BY <1>0, <1>1, <1>2, <1>3, <1>4, <1>5, <1>6, <1>7, <1>8, <1>9 DEF RmiCNext

\* The contexts left by a registration that returned err.
Registered(c, err) ==
    CASE rlang = "c" -> kept \cup {c}
      [] rlang = "cpp" -> kept \cup {c}
      [] rlang = "java" -> IF err = "OK" THEN kept \cup {c} ELSE kept

\* A registration keeps the contexts there were, and its own if it succeeds.
LEMMA RegistrationKeeps ==
    ASSUME EventsType, NEW c \in Nat, NEW err
    PROVE  /\ Registered(c, err) \in SUBSET Nat
           /\ kept \subseteq Registered(c, err) /\ (err = "OK" => c \in Registered(c, err))
  <1>1. kept \in SUBSET Nat /\ rlang \in {"c", "cpp", "java"}
    BY DEF EventsType
  <1>2. CASE rlang = "c"
    BY <1>1, <1>2 DEF Registered
  <1>3. CASE rlang = "cpp"
    BY <1>1, <1>3 DEF Registered
  <1>4. CASE rlang = "java"
    BY <1>1, <1>4 DEF Registered
  <1> QED BY <1>1, <1>2, <1>3, <1>4

\* A registration, of an event handler or of a server's auth module.
LEMMA CallbackSteps ==
    ASSUME EventsType, BooksType, CallbackContextsAlive, NEW t \in Callers, CallbackCall(t)
    PROVE  /\ subs' \in SUBSET [obj : Nat, ctx : Nat]
           /\ firing' \in SUBSET Nat /\ kept' \in SUBSET Nat /\ made' \in Nat
           /\ srv' \in [state : {"none", "made", "listening", "stopped", "released"}, auth : Nat]
           /\ CallbackContextsAlive'
  <1>0. /\ subs \in SUBSET [obj : Nat, ctx : Nat] /\ firing \in SUBSET Nat /\ kept \in SUBSET Nat
        /\ made \in Nat /\ made + 1 \in Nat
        /\ srv \in [state : {"none", "made", "listening", "stopped", "released"}, auth : Nat]
    BY DEF EventsType
  <1>1. ASSUME NEW p \in proxies \cup {0}, rmi_proxy_on_event(t, p)
        PROVE  /\ subs' \in SUBSET [obj : Nat, ctx : Nat]
               /\ firing' \in SUBSET Nat /\ kept' \in SUBSET Nat /\ made' \in Nat
               /\ srv' \in [state : {"none", "made", "listening", "stopped", "released"}, auth : Nat]
               /\ CallbackContextsAlive'
    <2> DEFINE c == made + 1
               err == IF p \in proxies THEN "OK" ELSE "NULL"
    <2>1. p \in Nat
      BY BooksFacts DEF BooksType
    <2>2. /\ made' = c /\ UNCHANGED <<firing, srv>>
          /\ subs' = IF err = "OK" THEN {s \in subs : s.obj # p} \cup {[obj |-> p, ctx |-> c]}
                     ELSE subs
          /\ kept' = Registered(c, err)
      BY <1>1 DEF Registered, rmi_proxy_on_event, cpp_onEvent, register_event_fn, nativeOnEvent
    <2>3. c \in Nat
      BY <1>0
    <2> HIDE DEF c, err
    <2>4. kept' \in SUBSET Nat /\ kept \subseteq kept' /\ (err = "OK" => c \in kept')
      BY <2>2, <2>3, RegistrationKeeps
    <2>5. subs' \in SUBSET [obj : Nat, ctx : Nat]
      BY <1>0, <2>1, <2>2, <2>3
    <2>6. \A s \in subs' : s.ctx \in kept'
      <3>1. \A s \in subs : s.ctx \in kept
        BY DEF CallbackContextsAlive
      <3>2. \A s \in subs' : s \in subs \/ (err = "OK" /\ s.ctx = c)
        BY <2>2
      <3> QED BY <2>4, <3>1, <3>2
    <2>7. firing' \subseteq kept' /\ (srv'.state = "listening" => srv'.auth \in kept')
      BY <2>2, <2>4 DEF CallbackContextsAlive
    <2>8. CallbackContextsAlive'
      BY <2>6, <2>7 DEF CallbackContextsAlive
    <2> QED BY <1>0, <2>2, <2>3, <2>4, <2>5, <2>8
  <1>2. CASE rmi_server_listen(t)
    <2> DEFINE c == made + 1
    <2>1. PICK err \in {"OK", "TRANSPORT"} :
            /\ srv' = [state |-> IF err = "OK" THEN "listening" ELSE srv.state, auth |-> c]
            /\ kept' = Registered(c, err)
      BY <1>2 DEF Registered, rmi_server_listen, cpp_listen, register_auth_fn, nativeListen
    <2>2. made' = c /\ UNCHANGED <<subs, firing>> /\ srv.state \in {"made", "stopped"} /\ c \in Nat
      BY <1>0, <1>2 DEF rmi_server_listen
    <2> HIDE DEF c
    <2>3. kept' \in SUBSET Nat /\ kept \subseteq kept' /\ (err = "OK" => c \in kept')
      BY <2>1, <2>2, RegistrationKeeps
    <2>4. /\ srv' \in [state : {"none", "made", "listening", "stopped", "released"}, auth : Nat]
          /\ srv'.state = "listening" => err = "OK" /\ srv'.auth = c
      BY <2>1, <2>2
    <2>5. CallbackContextsAlive'
      BY <2>2, <2>3, <2>4 DEF CallbackContextsAlive
    <2> QED BY <1>0, <2>2, <2>3, <2>4, <2>5
  <1>3. CASE rmi_server_stop(t) \/ rmi_server_release(t)
    <2>1. UNCHANGED <<subs, firing, kept, made>>
      BY <1>3 DEF rmi_server_stop, rmi_server_release
    <2>2. /\ srv' \in [state : {"none", "made", "listening", "stopped", "released"}, auth : Nat]
          /\ srv'.state # "listening"
      BY <1>0, <1>3 DEF rmi_server_stop, rmi_server_release
    <2>3. CallbackContextsAlive'
      BY <2>1, <2>2 DEF CallbackContextsAlive
    <2> QED BY <1>0, <2>1, <2>2, <2>3
  <1> QED BY <1>1, <1>2, <1>3 DEF CallbackCall

\* The events' side of every step.
LEMMA EventsStep ==
    ASSUME EventsType, CallbackContextsAlive, BooksType, BooksInv, [RmiCNext]_rmiCVars
    PROVE  EventsType' /\ CallbackContextsAlive'
  <1>0. /\ subs \in SUBSET [obj : Nat, ctx : Nat] /\ firing \in SUBSET Nat /\ kept \in SUBSET Nat
        /\ made \in Nat
        /\ srv \in [state : {"none", "made", "listening", "stopped", "released"}, auth : Nat]
    BY DEF EventsType
  <1>1. last' \in [req : Nat, err : Errors]
    <2>1. CASE UNCHANGED last
      BY <2>1 DEF EventsType
    <2>2. ASSUME NEW t \in Callers, Reports(t)
          PROVE  last' \in [req : Nat, err : Errors]
      <3>1. PICK r \in 1 .. Len(requests), err \in Errors : last' = [req |-> r, err |-> err]
        BY <2>2 DEF Reports
      <3>2. r \in Nat
        BY BooksFacts
      <3> QED BY <3>1, <3>2
    <2> QED BY <2>1, <2>2, ReportSteps
  <1>2. rlang' \in {"c", "cpp", "java"} /\ corrupt' \in BOOLEAN
    BY EventSteps DEF EventsType
  <1>3. /\ subs' \in SUBSET [obj : Nat, ctx : Nat]
        /\ firing' \in SUBSET Nat /\ kept' \in SUBSET Nat /\ made' \in Nat
        /\ srv' \in [state : {"none", "made", "listening", "stopped", "released"}, auth : Nat]
        /\ CallbackContextsAlive'
    <2>1. CASE NoCallback
      BY <1>0, <2>1 DEF NoCallback, CallbackContextsAlive
    <2>2. CASE (\E s \in subs : EventArrives(s)) \/ \E c \in firing : EventHandled(c)
      <3>1. UNCHANGED <<subs, kept, made, srv>>
        BY <2>2 DEF EventArrives, EventHandled
      <3>2. firing' \subseteq firing \/ \E s \in subs : firing' = firing \cup {s.ctx}
        BY <2>2 DEF EventArrives, EventHandled
      <3>3. \A s \in subs : s.ctx \in kept
        BY DEF CallbackContextsAlive
      <3>4. firing \subseteq kept
        BY DEF CallbackContextsAlive
      <3>5. firing' \subseteq kept
        BY <3>2, <3>3, <3>4
      <3> QED BY <1>0, <3>1, <3>3, <3>5 DEF CallbackContextsAlive
    <2> QED BY <2>1, <2>2, CallbackSteps, EventSteps
  <1> QED BY <1>1, <1>2, <1>3 DEF EventsType

\* The application starts without callbacks.
LEMMA EventsInit ==
    ASSUME RmiCInit
    PROVE  EventsType /\ CallbackContextsAlive
  <1>1. /\ rlang \in {"c", "cpp", "java"} /\ last = [req |-> 0, err |-> "OK"]
        /\ subs = {} /\ firing = {} /\ kept = {} /\ made = 0 /\ corrupt = FALSE
    BY RmiCAssumption DEF RmiCInit
  <1>2. srv \in {[state |-> "none", auth |-> 0], [state |-> "made", auth |-> 0]}
    BY DEF RmiCInit, NewServer
  <1>3. /\ srv \in [state : {"none", "made", "listening", "stopped", "released"}, auth : Nat]
        /\ srv.state # "listening"
    BY <1>2
  <1>4. last \in [req : Nat, err : Errors]
    BY <1>1 DEF Errors
  <1>5. CallbackContextsAlive
    BY <1>1, <1>3 DEF CallbackContextsAlive
  <1> QED BY <1>1, <1>3, <1>4, <1>5 DEF EventsType

(* Type correctness of the library's client and server handles, for any    *)
(* number of threads, requests and callbacks.                              *)
THEOREM RmiCTypeCorrect == RmiCSpec => []RmiCTypeOK
  <1>1. RmiCInit => EventsType /\ CallbackContextsAlive
    BY EventsInit
  <1>2. (EventsType /\ CallbackContextsAlive) /\ (BooksType /\ BooksInv) /\ [RmiCNext]_rmiCVars
          => (EventsType /\ CallbackContextsAlive)'
    BY EventsStep
  <1>3. EventsType /\ BooksType => RmiCTypeOK
    BY DEF RmiCTypeOK
  <1> QED BY <1>1, <1>2, <1>3, BooksCorrect, PTL DEF RmiCSpec

(* No callback of the C, C++ or Java layer runs with a context that was    *)
(* freed: neither a queued event handler whose proxy is released nor the   *)
(* auth module of a server that listens.                                   *)
THEOREM CallbackContextsAliveHolds == RmiCSpec => []CallbackContextsAlive
  <1>1. RmiCInit => EventsType /\ CallbackContextsAlive
    BY EventsInit
  <1>2. (EventsType /\ CallbackContextsAlive) /\ (BooksType /\ BooksInv) /\ [RmiCNext]_rmiCVars
          => (EventsType /\ CallbackContextsAlive)'
    BY EventsStep
  <1> QED BY <1>1, <1>2, BooksCorrect, PTL DEF RmiCSpec
=============================================================================
