--------------------------- MODULE RmiServerProofs ---------------------------
(***************************************************************************)
(* Proofs about RmiServer, for any number of connections, workers, groups, *)
(* object ids and frames.                                                  *)
(*                                                                         *)
(* TypeOK is inductive as it stands.  DestructedOnce and                   *)
(* GroupsReachTheirObjects follow from ContextInv, which ties the object   *)
(* tables, the group index and the id counter together.  TornDownOnce      *)
(* needs to know which thread holds a session at each point of its life:   *)
(* that is OwnershipInv.  AnsweredOnce needs that a frame is in one queue  *)
(* only, once, and was sent: FramesInv.                                    *)
(***************************************************************************)
EXTENDS RmiServer, TLAPS

\* What service_session() dequeues, and what it leaves in the queue.
LEMMA HeadTailType ==
    ASSUME NEW S, NEW s \in Seq(S), s # << >>
    PROVE  Head(s) \in S /\ Tail(s) \in Seq(S)
  OBVIOUS

\* Where the elements of a queue are before and after its head is taken.
LEMMA HeadTailAt ==
    ASSUME NEW S, NEW s \in Seq(S), s # << >>
    PROVE  /\ Len(s) \in Nat /\ Len(s) > 0
           /\ Len(Tail(s)) = Len(s) - 1
           /\ \A k \in 1 .. Len(Tail(s)) : Tail(s)[k] = s[k + 1]
           /\ Head(s) = s[1]
  OBVIOUS

\* Dispatching a request keeps the types of what it may change.
LEMMA HandleRequestType ==
    ASSUME ContextType, WireType, HistoryType,
           NEW c \in Conns, NEW n \in 1 .. MaxReqs, HandleRequest(c, n),
           registered' = registered, link' = link, sent' = sent,
           inbox' \in [Conns -> Seq(1 .. MaxReqs)], torn' = torn
    PROVE  ContextType' /\ WireType' /\ HistoryType'
  <1> USE ServerAssumption DEF Ids
  <1>1. CASE HandleMalformed(c, n)
    BY <1>1 DEF ContextType, WireType, HistoryType, HandleMalformed, tableVars
  <1>2. ASSUME AnswerOnly(n), currentGroup' \in [Conns -> Groups \cup {0}]
        PROVE  ContextType' /\ WireType' /\ HistoryType'
    <2>1. answers' \in [1 .. MaxReqs -> Nat]
      BY <1>2 DEF WireType, AnswerOnly, Answer
    <2> QED
      BY <1>2, <2>1 DEF ContextType, WireType, HistoryType, AnswerOnly, tableVars
  <1>3. CASE RejectRequest(c, n)
    BY <1>2, <1>3 DEF RejectRequest, ContextType
  <1>4. ASSUME NEW g \in Groups \cup {0}, NEW oid \in Ids, NEW oneway \in BOOLEAN,
               Dispatch(c, n, g, oid, oneway)
        PROVE  ContextType' /\ WireType' /\ HistoryType'
    <2>1. currentGroup' \in [Conns -> Groups \cup {0}]
      BY <1>4 DEF ContextType, Dispatch
    <2>2. ASSUME Answer(n) PROVE answers' \in [1 .. MaxReqs -> Nat]
      BY <2>2 DEF WireType, Answer
    <2>3. ASSUME PutObject(c, g)
          PROVE  /\ objects' \in [Conns -> SUBSET Ids]
                 /\ groups' \in [Conns -> [Groups -> SUBSET Ids]]
                 /\ nextId' \in 0 .. MaxIds
                 /\ born' \in [Ids -> [conn : Conns \cup {NoConn}, group : Groups \cup {0}]]
      <3>1. nextId' \in Ids
        BY <2>3 DEF HistoryType, PutObject
      <3>2. objects' \in [Conns -> SUBSET Ids]
        BY <2>3, <3>1 DEF ContextType, PutObject
      <3>3. groups' \in [Conns -> [Groups -> SUBSET Ids]]
        BY <2>3, <3>1 DEF ContextType, PutObject
      <3>4. born' \in [Ids -> [conn : Conns \cup {NoConn}, group : Groups \cup {0}]]
        BY <2>3, <3>1 DEF HistoryType, PutObject
      <3> QED BY <3>1, <3>2, <3>3, <3>4
    <2>4. ASSUME NEW S, Destruct(S) PROVE destructed' \in [Ids -> Nat]
      BY <2>4 DEF HistoryType, Destruct
    <2>5. CASE AnswerOnly(n)
      BY <1>2, <2>1, <2>5
    <2>6. CASE PutObject(c, g) /\ Answer(n) /\ UNCHANGED <<destructed, emit, shut, exempt>>
      BY <2>1, <2>2, <2>3, <2>6 DEF ContextType, WireType, HistoryType
    <2>7. CASE HandleCall(c, n, g, oid, oneway)
      <3>1. exempt' \in SUBSET (1 .. MaxReqs) /\ UNCHANGED <<emit, shut, destructed>>
        BY <2>7 DEF WireType, HandleCall
      <3>2. answers' \in [1 .. MaxReqs -> Nat]
        BY <2>2, <2>7 DEF WireType, HandleCall
      <3>3. PutObject(c, g) \/ UNCHANGED <<objects, groups, nextId, born>>
        BY <2>7 DEF HandleCall
      <3> QED
        BY <2>1, <2>3, <3>1, <3>2, <3>3 DEF ContextType, WireType, HistoryType
    <2>8. CASE HandleDestroy(c, n, oid)
      BY <2>1, <2>2, <2>4, <2>8 DEF ContextType, WireType, HistoryType, HandleDestroy
    <2>9. CASE HandleDestroyGroup(c, n, g)
      <3>1. destructed' \in [Ids -> Nat]
        BY <2>4, <2>9 DEF HistoryType, HandleDestroyGroup
      <3>2. objects' \in [Conns -> SUBSET Ids] /\ groups' \in [Conns -> [Groups -> SUBSET Ids]]
        <4>1. CASE g = 0
          BY <2>9, <4>1 DEF ContextType, HandleDestroyGroup
        <4>2. CASE g \in Groups
          <5>1. objects' = [objects EXCEPT ![c] = @ \ groups[c][g]]
            BY <2>9, <4>2 DEF HandleDestroyGroup
          <5>2. groups' = [groups EXCEPT ![c][g] = {}]
            BY <2>9, <4>2 DEF HandleDestroyGroup
          <5>3. groups[c] \in [Groups -> SUBSET Ids]
            BY DEF ContextType
          <5> QED BY <4>2, <5>1, <5>2, <5>3 DEF ContextType
        <4> QED BY <4>1, <4>2
      <3> QED
        BY <2>1, <2>2, <2>9, <3>1, <3>2
           DEF ContextType, WireType, HistoryType, HandleDestroyGroup
    <2>10. CASE HandleDisconnect(c, n)
      BY <2>1, <2>2, <2>4, <2>10
         DEF ContextType, WireType, HistoryType, HandleDisconnect, CleanupContext
    <2> QED
      BY <1>4, <2>5, <2>6, <2>7, <2>8, <2>9, <2>10
         DEF Dispatch, HandleConnect, HandleDescribe, HandleDictionary, HandleHelp,
             HandleUnknown, HandleClear, HandleSet, HandleGet, HandleInstantiate
  <1> QED
    BY <1>1, <1>3, <1>4 DEF HandleRequest

\* Parts of TypeOK that a step leaves alone.
LEMMA PartsUnchanged ==
    /\ ServerType /\ UNCHANGED serverVars => ServerType'
    /\ WorkerType /\ UNCHANGED <<stopPc, workerVars>> => WorkerType'
    /\ ContextType /\ UNCHANGED ctxVars => ContextType'
    /\ WireType /\ UNCHANGED wireVars => WireType'
    /\ HistoryType /\ UNCHANGED histVars => HistoryType'
  <1>1. ServerType /\ UNCHANGED serverVars => ServerType'
    BY DEF ServerType, serverVars
  <1>2. WorkerType /\ UNCHANGED <<stopPc, workerVars>> => WorkerType'
    BY DEF WorkerType, workerVars
  <1>3. ContextType /\ UNCHANGED ctxVars => ContextType'
    BY DEF ContextType, ctxVars
  <1>4. WireType /\ UNCHANGED wireVars => WireType'
    BY DEF WireType, wireVars
  <1>5. HistoryType /\ UNCHANGED histVars => HistoryType'
    BY DEF HistoryType, histVars
  <1> QED BY <1>1, <1>2, <1>3, <1>4, <1>5

\* The owner's and the accept thread's steps keep TypeOK.
LEMMA ServerStepType ==
    ASSUME TypeOK, Listen \/ ListenFails \/ Stop \/ StopThread \/ AcceptThread
    PROVE  TypeOK'
  <1> USE ServerAssumption, PartsUnchanged DEF TypeOK
  <1>1. CASE Listen
    <2>1. ServerType'
      BY <1>1 DEF Listen, ServerType, Workers
    <2>2. WorkerType'
      BY <1>1 DEF Listen, WorkerType
    <2> QED BY <1>1, <2>1, <2>2 DEF Listen
  <1>2. CASE ListenFails \/ Stop \/ StopTransport \/ JoinAccept \/ AcceptLoop \/ AcceptTimeout
    <2>1. ServerType'
      BY <1>2 DEF ListenFails, Stop, StopTransport, JoinAccept, AcceptLoop, AcceptTimeout,
                  ServerType
    <2>2. WorkerType'
      BY <1>2 DEF ListenFails, Stop, StopTransport, JoinAccept, AcceptLoop, AcceptTimeout,
                  WorkerType, workerVars
    <2> QED
      BY <1>2, <2>1, <2>2 DEF ListenFails, Stop, StopTransport, JoinAccept, AcceptLoop,
                        AcceptTimeout
  <1>3. CASE JoinWorkers
    <2>1. ServerType'
      BY <1>3 DEF JoinWorkers, ServerType
    <2>2. WorkerType'
      BY <1>3 DEF JoinWorkers, WorkerType
    <2> QED BY <1>3, <2>1, <2>2 DEF JoinWorkers
  <1>4. ASSUME NEW c \in Conns, Accept(c) PROVE TypeOK'
    <2>1. ServerType'
      BY <1>4 DEF Accept, ServerType
    <2> QED BY <1>4, <2>1 DEF Accept
  <1>5. CASE RegisterSession
    <2>1. ServerType'
      BY <1>5 DEF RegisterSession, ServerType
    <2>2. ContextType'
      BY <1>5 DEF RegisterSession, ServerType, ContextType
    <2> QED BY <1>5, <2>1, <2>2 DEF RegisterSession
  <1>6. CASE AssignSession
    <2>1. nextWorker' \in Workers
      BY <1>6 DEF AssignSession, ServerType, Workers
    <2>2. ServerType'
      BY <1>6, <2>1 DEF AssignSession, ServerType
    <2>3. WorkerType'
      BY <1>6 DEF AssignSession, ServerType, WorkerType
    <2> QED BY <1>6, <2>2, <2>3 DEF AssignSession
  <1> QED
    BY <1>1, <1>2, <1>3, <1>4, <1>5, <1>6 DEF AcceptThread, StopThread

\* A client's steps keep TypeOK.
LEMMA ClientStepType ==
    ASSUME TypeOK, NEW c \in Conns, Client(c)
    PROVE  TypeOK'
  <1> USE ServerAssumption, PartsUnchanged DEF TypeOK, serverVars
  <1>1. CASE ClientOpen(c)
    <2>1. ServerType'
      BY <1>1 DEF ClientOpen, ServerType
    <2>2. WireType'
      BY <1>1 DEF ClientOpen, WireType
    <2> QED BY <1>1, <2>1, <2>2 DEF ClientOpen
  <1>2. CASE ClientSend(c)
    <2>1. sent' \in 1 .. MaxReqs
      BY <1>2 DEF ClientSend, WireType
    <2>2. Append(inbox[c], sent') \in Seq(1 .. MaxReqs)
      BY <2>1 DEF WireType
    <2>3. WireType'
      BY <1>2, <2>1, <2>2 DEF ClientSend, WireType
    <2> QED BY <1>2, <2>3 DEF ClientSend
  <1>3. CASE ClientClose(c)
    <2>1. WireType'
      BY <1>3 DEF ClientClose, WireType
    <2> QED BY <1>3, <2>1 DEF ClientClose
  <1> QED
    BY <1>1, <1>2, <1>3 DEF Client

\* A dispatch worker's steps keep TypeOK.
LEMMA WorkerStepType ==
    ASSUME TypeOK, NEW w \in Workers, WorkerThread(w)
    PROVE  TypeOK'
  <1> USE ServerAssumption, PartsUnchanged DEF TypeOK, serverVars
  <1>0. ASSUME WorkerType', UNCHANGED <<serverVars, ctxVars, wireVars, histVars>>
        PROVE  TypeOK'
    BY <1>0
  <1>1. CASE StartLap(w) \/ EndLap(w) \/ ReceiveTimeout(w) \/ EraseClosed(w)
               \/ StartSweep(w) \/ EndSweep(w)
    <2>1. WorkerType'
      BY <1>1 DEF StartLap, EndLap, ReceiveTimeout, EraseClosed, StartSweep, EndSweep,
                  WorkerType
    <2> QED
      BY <1>0, <1>1, <2>1
         DEF StartLap, EndLap, ReceiveTimeout, EraseClosed, StartSweep, EndSweep
  <1>2. CASE CheckServiced(w)
    <2>1. visiting[w] \in Conns
      BY <1>2 DEF CheckServiced, WorkerType
    <2>2. closed' \in [Workers -> SUBSET Conns]
      BY <1>2, <2>1 DEF CheckServiced, WorkerType
    <2>3. WorkerType'
      BY <1>2, <2>2 DEF CheckServiced, WorkerType
    <2> QED BY <1>2, <2>3 DEF CheckServiced
  <1>3. ASSUME NEW c \in Conns, VisitClosed(w, c) \/ VisitOpen(w, c) PROVE TypeOK'
    <2>1. WorkerType'
      BY <1>3 DEF VisitClosed, VisitOpen, WorkerType
    <2> QED BY <1>3, <2>1 DEF VisitClosed, VisitOpen
  <1>4. ASSUME NEW c \in Conns, TeardownSession(w, c) PROVE TypeOK'
    <2>1. HistoryType'
      BY <1>4 DEF TeardownSession, CleanupContext, Destruct, HistoryType
    <2>2. ContextType'
      BY <1>4 DEF TeardownSession, CleanupContext, ContextType
    <2>3. WorkerType'
      BY <1>4 DEF TeardownSession, WorkerType
    <2> QED BY <1>4, <2>1, <2>2, <2>3 DEF TeardownSession
  <1>5. CASE ServiceSession(w)
    <2> DEFINE c == visiting[w]
    <2>1. c \in Conns /\ inbox[c] # << >> /\ inbox[c] \in Seq(1 .. MaxReqs)
      BY <1>5 DEF ServiceSession, WorkerType, WireType
    <2>2. Head(inbox[c]) \in 1 .. MaxReqs /\ Tail(inbox[c]) \in Seq(1 .. MaxReqs)
      BY <2>1, HeadTailType
    <2>3. inbox' \in [Conns -> Seq(1 .. MaxReqs)]
      BY <1>5, <2>1, <2>2 DEF ServiceSession, WireType
    <2>4. ContextType' /\ WireType' /\ HistoryType'
      BY <1>5, <2>1, <2>2, <2>3, HandleRequestType DEF ServiceSession
    <2>5. WorkerType'
      BY <1>5 DEF ServiceSession, WorkerType
    <2> QED BY <1>5, <2>4, <2>5 DEF ServiceSession
  <1> QED
    BY <1>1, <1>2, <1>3, <1>4, <1>5 DEF WorkerThread

\* TypeOK holds in every reachable state of the server.
THEOREM TypeCorrect == Spec => []TypeOK
  <1>1. Init => TypeOK
    <2>1. Init => ServerType
      <3>1. 0 \in Workers
        BY ServerAssumption DEF Workers
      <3> QED BY <3>1, ServerAssumption DEF Init, ServerType
    <2> USE ServerAssumption DEF Init, Workers, Ids
    <2>5. Init => WorkerType
      BY DEF WorkerType
    <2>2. Init => ContextType
      BY DEF ContextType
    <2>3. Init => WireType
      BY DEF WireType
    <2>4. Init => HistoryType
      BY DEF HistoryType
    <2> QED BY <2>1, <2>2, <2>3, <2>4, <2>5 DEF TypeOK
  <1>2. TypeOK /\ [Next]_vars => TypeOK'
    <2>1. TypeOK /\ UNCHANGED vars => TypeOK'
      BY PartsUnchanged DEF vars, serverVars, TypeOK
    <2> QED
      BY <2>1, ServerStepType, ClientStepType, WorkerStepType DEF Next
  <1> QED
    BY <1>1, <1>2, PTL DEF Spec
-----------------------------------------------------------------------------
(***************************************************************************)
(* Objects.  Each id handed out belongs to the session recorded in born;   *)
(* it is in that session's table with __destruct not run, or in no table   *)
(* with __destruct run once.  A group only ever lists ids created for it   *)
(* in the same session, and lists all the live ones.                       *)
(***************************************************************************)
LiveInv ==
    \A c \in Conns : \A i \in objects[c] :
        i <= nextId /\ born[i].conn = c /\ destructed[i] = 0

DeadInv ==
    \A i \in Ids : (\A c \in Conns : i \notin objects[c]) =>
        destructed[i] = IF i <= nextId THEN 1 ELSE 0

FiledInv ==
    \A c \in Conns, g \in Groups : \A i \in groups[c][g] :
        i <= nextId /\ born[i] = [conn |-> c, group |-> g]

ReachInv ==
    \A c \in Conns : \A i \in objects[c] :
        born[i].group # 0 => i \in groups[c][born[i].group]

ContextInv == LiveInv /\ DeadInv /\ FiledInv /\ ReachInv

(***************************************************************************)
(* Sessions.  A connection that some thread still holds is in exactly one  *)
(* place: the transport's backlog, the accept thread's hands, one worker's *)
(* list or that worker's shutdown sweep.  A session that was torn down is  *)
(* held by nobody, but for the closed slots a lap has yet to erase.        *)
(***************************************************************************)
Held(w) == sessions[w] \cup todo[w]

LapOf(w) ==
    /\ lap[w] \subseteq sessions[w]
    /\ closed[w] \subseteq sessions[w]
    /\ visiting[w] \in Conns => visiting[w] \in sessions[w]
    /\ lap[w] \cap closed[w] = {}
    /\ visiting[w] \notin lap[w] \cup closed[w]
    /\ wpc[w] = "teardown" => todo[w] \subseteq closed[w] /\ lap[w] = {}
    /\ wpc[w] = "sweep" => todo[w] \cap sessions[w] = {}
    /\ wpc[w] \notin {"teardown", "sweep"} => todo[w] = {}
    /\ wpc[w] \in {"idle", "sweep", "done"} => closed[w] = {} /\ lap[w] = {}

LapInv == \A w \in Workers : LapOf(w)

PlaceInv ==
    /\ \A c \in backlog : link[c] # "new" /\ c # accepted
    /\ accepted \in Conns => link[accepted] # "new"
    /\ \A w \in Workers : \A c \in Held(w) :
         link[c] # "new" /\ c \notin backlog /\ c # accepted
    /\ \A v, w \in Workers : v # w => Held(v) \cap Held(w) = {}

TornInv ==
    \A c \in Conns : torn[c] # 0 =>
        /\ torn[c] = 1
        /\ c \notin registered /\ ~emit[c] /\ objects[c] = {}
        /\ link[c] # "new" /\ c \notin backlog /\ c # accepted
        /\ \A w \in Workers : c \in Held(w) =>
             wpc[w] = "teardown" /\ c \in closed[w] \ todo[w]

OwnershipInv == LapInv /\ PlaceInv /\ TornInv
-----------------------------------------------------------------------------
\* put_object() of a fresh id keeps ContextInv.
LEMMA PutObjectContext ==
    ASSUME ContextType, HistoryType, ContextInv, NEW c \in Conns, NEW g \in Groups \cup {0},
           PutObject(c, g), destructed' = destructed
    PROVE  ContextInv'
  <1> USE ServerAssumption DEF Ids
  <1> DEFINE new == nextId + 1
  <1>1. new \in Ids /\ nextId' = new /\ nextId \in Nat
    BY DEF PutObject, HistoryType
  <1>2. \A i \in Ids : /\ i <= nextId => i # new /\ i <= nextId'
                       /\ i <= nextId' /\ i # new => i <= nextId
    BY <1>1
  <1>3. \A d \in Conns, h \in Groups :
          groups'[d][h] = IF d = c /\ h = g THEN groups[d][h] \cup {new} ELSE groups[d][h]
    <2>1. groups' = [groups EXCEPT ![c] =
            [h \in Groups |-> IF h = g THEN groups[c][h] \cup {new} ELSE groups[c][h]]]
      BY <1>1 DEF PutObject, ContextType
    <2> HIDE DEF new
    <2> QED BY <2>1 DEF ContextType
  <1> HIDE DEF new
  <1>4. born' = [born EXCEPT ![new] = [conn |-> c, group |-> g]]
    BY <1>1 DEF PutObject
  <1>5. born'[new] = [conn |-> c, group |-> g] /\ \A i \in Ids : i # new => born'[i] = born[i]
    BY <1>1, <1>4 DEF HistoryType
  <1>6. \A d \in Conns : objects'[d] = IF d = c THEN objects[d] \cup {new} ELSE objects[d]
    BY <1>1 DEF ContextType, PutObject
  <1>7. \A d \in Conns : objects[d] \subseteq Ids /\ \A h \in Groups : groups[d][h] \subseteq Ids
    BY DEF ContextType
  <1>8. \A d \in Conns : new \notin objects[d] /\ \A h \in Groups : new \notin groups[d][h]
    BY <1>1, <1>2 DEF ContextInv, LiveInv, FiledInv
  <1>9. ~(new <= nextId)
    BY <1>1, <1>2
  <1>10. destructed[new] = 0
    BY <1>1, <1>8, <1>9 DEF ContextInv, DeadInv
  <1>11. LiveInv'
    <2> SUFFICES ASSUME NEW d \in Conns, NEW i \in objects'[d]
                 PROVE  i <= nextId' /\ born'[i].conn = d /\ destructed'[i] = 0
      BY DEF LiveInv
    <2>1. CASE i = new
      <3>1. d = c
        BY <1>6, <1>8, <2>1
      <3> QED BY <1>1, <1>5, <1>10, <2>1, <3>1
    <2>2. CASE i # new
      <3>1. i \in objects[d] /\ i \in Ids
        BY <1>6, <1>7, <2>2
      <3>2. i <= nextId /\ born[i].conn = d /\ destructed[i] = 0
        BY <3>1 DEF ContextInv, LiveInv
      <3> QED BY <1>2, <1>5, <2>2, <3>1, <3>2
    <2> QED BY <2>1, <2>2
  <1>12. DeadInv'
    <2> SUFFICES ASSUME NEW i \in Ids, \A d \in Conns : i \notin objects'[d]
                 PROVE  destructed'[i] = IF i <= nextId' THEN 1 ELSE 0
      BY DEF DeadInv
    <2>1. i # new /\ \A d \in Conns : i \notin objects[d]
      BY <1>6
    <2>2. destructed[i] = IF i <= nextId THEN 1 ELSE 0
      BY <2>1 DEF ContextInv, DeadInv
    <2> QED BY <1>2, <2>1, <2>2
  <1>13. FiledInv'
    <2> SUFFICES ASSUME NEW d \in Conns, NEW h \in Groups, NEW i \in groups'[d][h]
                 PROVE  i <= nextId' /\ born'[i] = [conn |-> d, group |-> h]
      BY DEF FiledInv
    <2>1. CASE i = new
      <3>1. d = c /\ h = g
        BY <1>3, <1>8, <2>1
      <3> QED BY <1>1, <1>5, <2>1, <3>1
    <2>2. CASE i # new
      <3>0. i \in groups[d][h]
        BY <1>3, <2>2
      <3>1. i \in groups[d][h] /\ i \in Ids
        BY <1>7, <3>0
      <3>2. i <= nextId /\ born[i] = [conn |-> d, group |-> h]
        BY <3>1 DEF ContextInv, FiledInv
      <3> QED BY <1>2, <1>5, <2>2, <3>1, <3>2
    <2> QED BY <2>1, <2>2
  <1>14. ReachInv'
    <2> SUFFICES ASSUME NEW d \in Conns, NEW i \in objects'[d], born'[i].group # 0
                 PROVE  i \in groups'[d][born'[i].group]
      BY DEF ReachInv
    <2>1. CASE i = new
      <3>1. d = c
        BY <1>6, <1>8, <2>1
      <3>2. born'[i].group = g /\ g \in Groups
        BY <1>5, <2>1
      <3> QED BY <1>3, <2>1, <3>1, <3>2
    <2>2. CASE i # new
      <3>1. i \in objects[d] /\ i \in Ids /\ born'[i] = born[i]
        BY <1>5, <1>6, <1>7, <2>2
      <3>2. born[i].group \in Groups
        BY <3>1 DEF HistoryType
      <3>3. i \in groups[d][born[i].group]
        BY <3>1 DEF ContextInv, ReachInv
      <3> QED BY <1>3, <3>1, <3>2, <3>3
    <2> QED BY <2>1, <2>2
  <1> QED BY <1>11, <1>12, <1>13, <1>14 DEF ContextInv

\* Taking objects S out of one session's table, with __destruct run on each,
\* keeps ContextInv, as long as no group loses an object that stays alive.
LEMMA RemoveObjectsContext ==
    ASSUME ContextType, HistoryType, ContextInv, NEW c \in Conns, NEW S, S \subseteq objects[c],
           Destruct(S), objects' = [objects EXCEPT ![c] = @ \ S],
           nextId' = nextId, born' = born,
           \A d \in Conns, h \in Groups : groups'[d][h] \subseteq groups[d][h],
           \A d \in Conns, h \in Groups : \A i \in objects'[d] :
               i \in groups[d][h] => i \in groups'[d][h]
    PROVE  ContextInv'
  <1> USE ServerAssumption DEF Ids
  <1>1. \A d \in Conns : objects'[d] = IF d = c THEN objects[d] \ S ELSE objects[d]
    BY DEF ContextType
  <1>2. \A d \in Conns : objects[d] \subseteq Ids
    BY DEF ContextType
  <1>3. \A i \in Ids : destructed'[i] = IF i \in S THEN destructed[i] + 1 ELSE destructed[i]
    BY DEF Destruct
  <1>4. \A d \in Conns : \A i \in objects[d] : i \in S => d = c
    BY DEF ContextInv, LiveInv
  <1>5. LiveInv'
    <2> SUFFICES ASSUME NEW d \in Conns, NEW i \in objects'[d]
                 PROVE  i <= nextId' /\ born'[i].conn = d /\ destructed'[i] = 0
      BY DEF LiveInv
    <2>1. i \in objects[d] /\ i \in Ids /\ i \notin S
      BY <1>1, <1>2, <1>4
    <2> QED BY <1>3, <2>1 DEF ContextInv, LiveInv
  <1>6. DeadInv'
    <2> SUFFICES ASSUME NEW i \in Ids, \A d \in Conns : i \notin objects'[d]
                 PROVE  destructed'[i] = IF i <= nextId THEN 1 ELSE 0
      BY DEF DeadInv
    <2>1. CASE i \in S
      BY <1>3, <2>1 DEF ContextInv, LiveInv
    <2>2. CASE i \notin S
      BY <1>1, <1>3, <2>2 DEF ContextInv, DeadInv
    <2> QED BY <2>1, <2>2
  <1>7. FiledInv'
    BY DEF ContextInv, FiledInv
  <1>8. ReachInv'
    <2> SUFFICES ASSUME NEW d \in Conns, NEW i \in objects'[d], born[i].group # 0
                 PROVE  i \in groups'[d][born[i].group]
      BY DEF ReachInv
    <2>1. i \in objects[d] /\ i \in Ids
      BY <1>1, <1>2
    <2>2. born[i].group \in Groups
      BY <2>1 DEF HistoryType
    <2> QED BY <2>1, <2>2 DEF ContextInv, ReachInv
  <1> QED BY <1>5, <1>6, <1>7, <1>8 DEF ContextInv

\* cleanup_context() keeps ContextInv.
LEMMA CleanupContextInv ==
    ASSUME ContextType, HistoryType, ContextInv, NEW c \in Conns, CleanupContext(c),
           nextId' = nextId, born' = born
    PROVE  ContextInv'
  <1>1. objects' = [objects EXCEPT ![c] = @ \ objects[c]]
    BY DEF CleanupContext, ContextType
  <1>2. \A d \in Conns, h \in Groups :
          groups'[d][h] = IF d = c THEN {} ELSE groups[d][h]
    <2>1. groups' = [groups EXCEPT ![c] = [g \in Groups |-> {}]]
      BY DEF CleanupContext
    <2> QED BY <2>1 DEF ContextType
  <1>3. \A d \in Conns, h \in Groups : \A i \in objects'[d] :
          i \in groups[d][h] => i \in groups'[d][h]
    BY <1>1, <1>2 DEF ContextType
  <1>4. \A d \in Conns, h \in Groups : groups'[d][h] \subseteq groups[d][h]
    BY <1>2
  <1>5. Destruct(objects[c]) /\ objects[c] \subseteq objects[c]
    BY DEF CleanupContext
  <1> HIDE DEF CleanupContext
  <1> QED
    BY <1>1, <1>3, <1>4, <1>5, RemoveObjectsContext

\* A step that leaves the tables alone keeps ContextInv.
LEMMA TablesUnchanged ==
    ASSUME ContextInv, UNCHANGED tableVars
    PROVE  ContextInv'
  BY DEF ContextInv, LiveInv, DeadInv, FiledInv, ReachInv, tableVars

\* Dispatching a request keeps ContextInv.
LEMMA HandleRequestContext ==
    ASSUME ContextType, HistoryType, ContextInv, NEW c \in Conns, NEW n, HandleRequest(c, n)
    PROVE  ContextInv'
  <1>1. CASE HandleMalformed(c, n) \/ RejectRequest(c, n)
    BY <1>1, TablesUnchanged DEF HandleMalformed, RejectRequest, AnswerOnly, tableVars
  <1>2. ASSUME NEW g \in Groups \cup {0}, NEW oid \in Ids, NEW oneway \in BOOLEAN,
               Dispatch(c, n, g, oid, oneway)
        PROVE  ContextInv'
    <2>1. CASE AnswerOnly(n)
      BY <2>1, TablesUnchanged DEF AnswerOnly, tableVars
    <2>2. CASE PutObject(c, g) /\ Answer(n) /\ UNCHANGED <<destructed, emit, shut, exempt>>
      BY <2>2, PutObjectContext
    <2>3. CASE HandleCall(c, n, g, oid, oneway)
      <3>1. destructed' = destructed
        BY <2>3 DEF HandleCall
      <3>2. PutObject(c, g) \/ UNCHANGED <<objects, groups, nextId, born>>
        BY <2>3 DEF HandleCall
      <3> QED BY <3>1, <3>2, PutObjectContext, TablesUnchanged DEF tableVars
    <2>4. CASE HandleDestroy(c, n, oid)
      <3> DEFINE S == {oid} \cap objects[c]
      <3>1. S \subseteq objects[c] /\ Destruct(S) /\ UNCHANGED <<groups, nextId, born>>
        BY <2>4 DEF HandleDestroy
      <3>2. objects' = [objects EXCEPT ![c] = @ \ S]
        <4>1. objects[c] \ {oid} = objects[c] \ S
          OBVIOUS
        <4> QED BY <2>4, <4>1 DEF HandleDestroy
      <3> HIDE DEF S
      <3> QED BY <3>1, <3>2, RemoveObjectsContext
    <2>5. CASE HandleDestroyGroup(c, n, g) /\ g = 0
      BY <2>5, TablesUnchanged DEF HandleDestroyGroup, tableVars
    <2>6. CASE HandleDestroyGroup(c, n, g) /\ g # 0
      <3> DEFINE S == groups[c][g] \cap objects[c]
      <3>1. S \subseteq objects[c] /\ Destruct(S) /\ UNCHANGED <<nextId, born>> /\ g \in Groups
        BY <2>6 DEF HandleDestroyGroup
      <3>2. objects' = [objects EXCEPT ![c] = @ \ S]
        <4>1. objects[c] \ groups[c][g] = objects[c] \ S
          OBVIOUS
        <4> QED BY <2>6, <4>1 DEF HandleDestroyGroup
      <3>3. \A d \in Conns, h \in Groups :
              groups'[d][h] = IF d = c /\ h = g THEN {} ELSE groups[d][h]
        <4>1. groups' = [groups EXCEPT ![c][g] = {}]
          BY <2>6 DEF HandleDestroyGroup
        <4> QED BY <3>1, <4>1 DEF ContextType
      <3>4. \A d \in Conns, h \in Groups : groups'[d][h] \subseteq groups[d][h]
        BY <3>3
      <3>5. \A d \in Conns, h \in Groups : \A i \in objects'[d] :
              i \in groups[d][h] => i \in groups'[d][h]
        BY <3>2, <3>3 DEF ContextType
      <3> HIDE DEF S
      <3> QED BY <3>1, <3>2, <3>4, <3>5, RemoveObjectsContext
    <2>7. CASE HandleDisconnect(c, n)
      BY <2>7, CleanupContextInv DEF HandleDisconnect
    <2> QED
      BY <1>2, <2>1, <2>2, <2>3, <2>4, <2>5, <2>6, <2>7
         DEF Dispatch, HandleConnect, HandleDescribe, HandleDictionary, HandleHelp,
             HandleUnknown, HandleClear, HandleSet, HandleGet, HandleInstantiate
  <1> QED
    BY <1>1, <1>2 DEF HandleRequest

\* Every step of the server keeps ContextInv.
LEMMA ContextStep ==
    ASSUME TypeOK, ContextInv, [Next]_vars
    PROVE  ContextInv'
  <1> USE DEF TypeOK
  <1>1. ASSUME NEW w \in Workers, ServiceSession(w) PROVE ContextInv'
    <2>1. visiting[w] \in Conns
      BY <1>1 DEF ServiceSession, WorkerType
    <2> QED BY <1>1, <2>1, HandleRequestContext DEF ServiceSession
  <1>2. ASSUME NEW w \in Workers, NEW c \in Conns, TeardownSession(w, c) PROVE ContextInv'
    BY <1>2, CleanupContextInv DEF TeardownSession
  <1>3. ASSUME NEW w \in Workers, WorkerThread(w), ~ServiceSession(w),
               \A c \in Conns : ~TeardownSession(w, c)
        PROVE  ContextInv'
    BY <1>3, TablesUnchanged
       DEF WorkerThread, StartLap, VisitClosed, VisitOpen, ReceiveTimeout, CheckServiced,
           EndLap, EraseClosed, StartSweep, EndSweep, tableVars, ctxVars, histVars
  <1>4. CASE Listen \/ ListenFails \/ Stop \/ StopThread \/ AcceptThread
    BY <1>4, TablesUnchanged
       DEF Listen, ListenFails, Stop, StopThread, StopTransport, JoinAccept, JoinWorkers,
           AcceptThread, AcceptLoop, Accept, AcceptTimeout, RegisterSession, AssignSession,
           tableVars, ctxVars, histVars
  <1>5. ASSUME NEW c \in Conns, Client(c) PROVE ContextInv'
    BY <1>5, TablesUnchanged
       DEF Client, ClientOpen, ClientSend, ClientClose, tableVars, ctxVars, histVars
  <1>6. CASE UNCHANGED vars
    BY <1>6, TablesUnchanged DEF vars, tableVars, ctxVars, histVars
  <1> QED
    BY <1>1, <1>2, <1>3, <1>4, <1>5, <1>6 DEF Next

\* ContextInv holds in every reachable state.
THEOREM ContextCorrect == Spec => []ContextInv
  <1>1. Init => ContextInv
    BY ServerAssumption
       DEF Init, ContextInv, LiveInv, DeadInv, FiledInv, ReachInv, Ids
  <1>2. TypeOK /\ ContextInv /\ [Next]_vars => ContextInv'
    BY ContextStep
  <1> QED
    BY <1>1, <1>2, TypeCorrect, PTL DEF Spec

\* Every object ever created is live in its own session's table, or was
\* destructed exactly once - for any number of sessions, workers and requests.
THEOREM ObjectsDestructedOnce == Spec => []DestructedOnce
  <1>1. TypeOK /\ ContextInv => DestructedOnce
    <2> SUFFICES ASSUME TypeOK, ContextInv, NEW i \in Ids
                 PROVE  IF \E c \in Conns : i \in objects[c]
                        THEN /\ destructed[i] = 0
                             /\ \A c \in Conns : i \in objects[c] => born[i].conn = c
                        ELSE destructed[i] = IF i <= nextId THEN 1 ELSE 0
      BY DEF DestructedOnce
    <2>1. CASE \E c \in Conns : i \in objects[c]
      <3>1. destructed[i] = 0 /\ \A c \in Conns : i \in objects[c] => born[i].conn = c
        BY <2>1 DEF ContextInv, LiveInv
      <3> QED BY <2>1, <3>1
    <2>2. CASE ~\E c \in Conns : i \in objects[c]
      <3>1. destructed[i] = IF i <= nextId THEN 1 ELSE 0
        BY <2>2 DEF ContextInv, DeadInv
      <3> QED BY <2>2, <3>1
    <2> QED BY <2>1, <2>2
  <1> QED
    BY <1>1, TypeCorrect, ContextCorrect, PTL

\* A group lists exactly the live objects created for it, so destroy_group
\* reaches every one of them and none of another group.
THEOREM GroupsReachLiveObjects == Spec => []GroupsReachTheirObjects
  <1>1. TypeOK /\ ContextInv => GroupsReachTheirObjects
    <2> SUFFICES ASSUME TypeOK, ContextInv, NEW c \in Conns, NEW i \in objects[c],
                        NEW g \in Groups
                 PROVE  i \in groups[c][g] <=> born[i].group = g
      BY DEF GroupsReachTheirObjects
    <2>1. ASSUME i \in groups[c][g] PROVE born[i].group = g
      <3>1. born[i] = [conn |-> c, group |-> g]
        BY <2>1 DEF ContextInv, FiledInv
      <3> QED BY <3>1
    <2>2. born[i].group = g => i \in groups[c][g]
      BY ServerAssumption DEF ContextInv, ReachInv
    <2> QED BY <2>1, <2>2
  <1> QED
    BY <1>1, TypeCorrect, ContextCorrect, PTL
-----------------------------------------------------------------------------
\* Dispatching a request of session c leaves the objects and the event sink of
\* every other session alone.
LEMMA HandleRequestLocal ==
    ASSUME ContextType, NEW c \in Conns, NEW n, HandleRequest(c, n)
    PROVE  \A d \in Conns \ {c} : objects'[d] = objects[d] /\ emit'[d] = emit[d]
  <1>1. CASE HandleMalformed(c, n) \/ RejectRequest(c, n)
    BY <1>1 DEF HandleMalformed, RejectRequest, AnswerOnly, tableVars
  <1>2. ASSUME NEW g \in Groups \cup {0}, NEW oid \in Ids, NEW oneway \in BOOLEAN,
               Dispatch(c, n, g, oid, oneway)
        PROVE  \A d \in Conns \ {c} : objects'[d] = objects[d] /\ emit'[d] = emit[d]
    <2>1. CASE AnswerOnly(n)
      BY <2>1 DEF AnswerOnly, tableVars
    <2>2. ASSUME PutObject(c, g)
          PROVE  \A d \in Conns \ {c} : objects'[d] = objects[d]
      BY <2>2 DEF PutObject, ContextType
    <2>3. CASE HandleInstantiate(c, n, g)
      BY <2>1, <2>2, <2>3 DEF HandleInstantiate
    <2>4. CASE HandleCall(c, n, g, oid, oneway)
      BY <2>2, <2>4 DEF HandleCall
    <2>5. CASE HandleDestroy(c, n, oid)
      BY <2>5 DEF HandleDestroy, ContextType
    <2>6. CASE HandleDestroyGroup(c, n, g)
      BY <2>6 DEF HandleDestroyGroup, ContextType
    <2>7. CASE HandleDisconnect(c, n)
      BY <2>7 DEF HandleDisconnect, CleanupContext, ContextType
    <2> QED
      BY <1>2, <2>1, <2>3, <2>4, <2>5, <2>6, <2>7
         DEF Dispatch, HandleConnect, HandleDescribe, HandleDictionary, HandleHelp,
             HandleUnknown, HandleClear, HandleSet, HandleGet
  <1> QED
    BY <1>1, <1>2 DEF HandleRequest

\* The owner's and the accept thread's steps, and the clients', keep OwnershipInv.
LEMMA OwnershipServerStep ==
    ASSUME TypeOK, OwnershipInv,
           Listen \/ ListenFails \/ Stop \/ StopThread \/ AcceptThread
           \/ (\E c \in Conns : Client(c)) \/ UNCHANGED vars
    PROVE  OwnershipInv'
  <1> USE ServerAssumption DEF TypeOK, ServerType, WorkerType
  <1> USE DEF OwnershipInv
  <1>1. CASE Listen
    <2>1. LapInv' BY <1>1 DEF Listen, LapInv, LapOf
    <2>2. PlaceInv' BY <1>1 DEF Listen, PlaceInv, Held, wireVars
    <2>3. TornInv'
      BY <1>1 DEF Listen, TornInv, Held, LapInv, LapOf, wireVars, ctxVars, histVars
    <2> QED BY <2>1, <2>2, <2>3
  <1>2. CASE ListenFails \/ Stop \/ StopTransport \/ JoinAccept \/ AcceptLoop
             \/ AcceptTimeout \/ UNCHANGED vars
    <2>1. UNCHANGED <<backlog, accepted, workerVars, ctxVars, wireVars, histVars>>
      BY <1>2 DEF ListenFails, Stop, StopTransport, JoinAccept, AcceptLoop,
                  AcceptTimeout, vars, serverVars
    <2>2. LapInv' BY <2>1 DEF LapInv, LapOf, workerVars
    <2>3. PlaceInv' BY <2>1 DEF PlaceInv, Held, workerVars, wireVars
    <2>4. TornInv'
      BY <2>1 DEF TornInv, Held, workerVars, wireVars, ctxVars, histVars
    <2> QED BY <2>2, <2>3, <2>4
  <1>3. CASE JoinWorkers
    <2>1. LapInv' BY <1>3 DEF JoinWorkers, LapInv, LapOf
    <2>2. PlaceInv' BY <1>3 DEF JoinWorkers, PlaceInv, Held, wireVars
    <2>3. TornInv'
      BY <1>3 DEF JoinWorkers, TornInv, Held, wireVars, ctxVars, histVars
    <2> QED BY <2>1, <2>2, <2>3
  <1>4. ASSUME NEW c \in Conns, Accept(c) PROVE OwnershipInv'
    <2>1. LapInv' BY <1>4 DEF Accept, LapInv, LapOf, workerVars
    <2>2. PlaceInv' BY <1>4 DEF Accept, PlaceInv, Held, workerVars, wireVars
    <2>3. TornInv'
      BY <1>4 DEF Accept, TornInv, Held, workerVars, wireVars, ctxVars, histVars
    <2> QED BY <2>1, <2>2, <2>3
  <1>5. CASE RegisterSession
    <2>1. LapInv' BY <1>5 DEF RegisterSession, LapInv, LapOf, workerVars
    <2>2. PlaceInv' BY <1>5 DEF RegisterSession, PlaceInv, Held, workerVars, wireVars
    <2>3. TornInv'
      BY <1>5 DEF RegisterSession, TornInv, Held, workerVars, wireVars, histVars, ContextType
    <2> QED BY <2>1, <2>2, <2>3
  <1>6. CASE AssignSession
    <2>1. /\ nextWorker \in Workers /\ accepted \in Conns /\ accepted' = NoConn
          /\ \A v \in Workers : sessions'[v] =
               IF v = nextWorker THEN sessions[v] \cup {accepted} ELSE sessions[v]
          /\ UNCHANGED <<backlog, wpc, lap, visiting, closed, todo, wireVars, ctxVars, histVars>>
      BY <1>6 DEF AssignSession
    <2> HIDE DEF TypeOK, ServerType, WorkerType
    <2>2. \A v \in Workers : /\ accepted \notin Held(v)
                             /\ Held(v)' = IF v = nextWorker THEN Held(v) \cup {accepted}
                                                             ELSE Held(v)
      BY <2>1 DEF PlaceInv, Held
    <2>3. ASSUME NEW v \in Workers PROVE LapOf(v)'
      <3>1. LapOf(v) /\ accepted \notin todo[v] BY <2>2 DEF LapInv, Held
      <3> QED BY <2>1, <3>1 DEF LapOf
    <2>4. /\ accepted \notin backlog /\ link[accepted] # "new"
          /\ \A c \in Conns : c # NoConn
      BY <2>1, ServerAssumption DEF PlaceInv
    <2>5. PlaceInv'
      <3>1. backlog \subseteq Conns /\ \A v \in Workers : Held(v) \subseteq Conns
        BY DEF TypeOK, ServerType, WorkerType, Held
      <3>2. \A c \in backlog' : link'[c] # "new" /\ c # accepted'
        BY <2>1, <2>4, <3>1 DEF PlaceInv, wireVars
      <3>3. \A v \in Workers : \A c \in Held(v)' :
              link'[c] # "new" /\ c \notin backlog' /\ c # accepted'
        BY <2>1, <2>2, <2>4, <3>1 DEF PlaceInv, wireVars
      <3>4. \A v, w \in Workers : v # w => Held(v)' \cap Held(w)' = {}
        BY <2>2 DEF PlaceInv
      <3> QED BY <2>1, <3>2, <3>3, <3>4, ServerAssumption DEF PlaceInv
    <2>6. TornInv'
      <3> SUFFICES ASSUME NEW c \in Conns, torn'[c] # 0
                   PROVE  /\ torn'[c] = 1
                          /\ c \notin registered' /\ ~emit'[c] /\ objects'[c] = {}
                          /\ link'[c] # "new" /\ c \notin backlog' /\ c # accepted'
                          /\ \A w \in Workers : c \in Held(w)' =>
                               wpc'[w] = "teardown" /\ c \in closed'[w] \ todo'[w]
        BY DEF TornInv
      <3>1. UNCHANGED <<torn, registered, emit, objects, link, backlog, wpc, closed, todo>>
        BY <2>1 DEF wireVars, ctxVars, histVars
      <3>2. c # accepted
        BY <3>1 DEF TornInv
      <3> QED BY <2>1, <2>2, <2>4, <3>1, <3>2 DEF TornInv
    <2> QED BY <2>3, <2>5, <2>6 DEF LapInv
  <1>7. ASSUME NEW c \in Conns, Client(c) PROVE OwnershipInv'
    <2>1. \A d \in Conns : link[d] # "new" => link'[d] # "new"
      BY <1>7 DEF Client, ClientOpen, ClientSend, ClientClose, WireType
    <2>2. \A d \in backlog' : d \in backlog \/ (link[d] = "new" /\ link'[d] # "new")
      BY <1>7 DEF Client, ClientOpen, ClientSend, ClientClose, WireType, serverVars
    <2>3. UNCHANGED <<accepted, workerVars, ctxVars, histVars>> /\ backlog \subseteq Conns
      BY <1>7 DEF Client, ClientOpen, ClientSend, ClientClose, serverVars
    <2>4. LapInv' BY <2>3 DEF LapInv, LapOf, workerVars
    <2>5. PlaceInv'
      <3> HIDE DEF TypeOK, ServerType, WorkerType
      <3>1. \A v \in Workers : Held(v)' = Held(v) /\ Held(v) \subseteq Conns
        BY <2>3 DEF Held, workerVars, TypeOK, WorkerType
      <3>2. \A d \in backlog' : link'[d] # "new" /\ d # accepted'
        <4>1. accepted \in Conns \cup {NoConn} /\ backlog' \subseteq Conns
          BY <1>7, <2>3 DEF TypeOK, ServerType, Client, ClientOpen, ClientSend,
                            ClientClose, serverVars
        <4> QED BY <2>1, <2>2, <2>3, <4>1, ServerAssumption DEF PlaceInv
      <3>3. accepted' \in Conns => link'[accepted'] # "new"
        BY <2>1, <2>3 DEF PlaceInv
      <3>4. \A v \in Workers : \A d \in Held(v)' :
              link'[d] # "new" /\ d \notin backlog' /\ d # accepted'
        BY <2>1, <2>2, <2>3, <3>1 DEF PlaceInv
      <3>5. \A v, w \in Workers : v # w => Held(v)' \cap Held(w)' = {}
        BY <3>1 DEF PlaceInv
      <3> QED BY <3>2, <3>3, <3>4, <3>5 DEF PlaceInv
    <2>6. TornInv'
      BY <2>1, <2>2, <2>3 DEF TornInv, Held, workerVars, ctxVars, histVars
    <2> QED BY <2>4, <2>5, <2>6
  <1> QED
    BY <1>1, <1>2, <1>3, <1>4, <1>5, <1>6, <1>7 DEF StopThread, AcceptThread

\* A step of worker w that tears nothing down keeps OwnershipInv when its own
\* lap is in order, it takes no session, and the torn down sessions it still
\* holds are the ones it is about to erase.
LEMMA OwnershipFrame ==
    ASSUME TypeOK, OwnershipInv, NEW w \in Workers,
           UNCHANGED <<backlog, accepted, link, torn, registered>>,
           \A c \in Conns : torn[c] # 0 => emit'[c] = emit[c] /\ objects'[c] = objects[c],
           \A v \in Workers \ {w} :
               /\ wpc'[v] = wpc[v] /\ sessions'[v] = sessions[v] /\ lap'[v] = lap[v]
               /\ visiting'[v] = visiting[v] /\ closed'[v] = closed[v] /\ todo'[v] = todo[v],
           LapOf(w)', Held(w)' \subseteq Held(w),
           \A c \in Held(w)' : torn[c] # 0 =>
               wpc'[w] = "teardown" /\ c \in closed'[w] \ todo'[w]
    PROVE  OwnershipInv'
  <1>1. \A v \in Workers \ {w} : Held(v)' = Held(v) /\ LapOf(v)'
    BY DEF OwnershipInv, LapInv, LapOf, Held
  <1>2. LapInv'
    BY <1>1 DEF LapInv
  <1>3. PlaceInv'
    BY <1>1 DEF OwnershipInv, PlaceInv
  <1>4. TornInv'
    <2> SUFFICES ASSUME NEW c \in Conns, torn'[c] # 0
                 PROVE  /\ torn'[c] = 1
                        /\ c \notin registered' /\ ~emit'[c] /\ objects'[c] = {}
                        /\ link'[c] # "new" /\ c \notin backlog' /\ c # accepted'
                        /\ \A v \in Workers : c \in Held(v)' =>
                             wpc'[v] = "teardown" /\ c \in closed'[v] \ todo'[v]
      BY DEF TornInv
    <2> QED BY <1>1 DEF OwnershipInv, TornInv
  <1> QED BY <1>2, <1>3, <1>4 DEF OwnershipInv

\* No session that a worker holds has been torn down, but for the ones the
\* worker tore down in the lap it is finishing.
LEMMA HeldNotTorn ==
    ASSUME TypeOK, OwnershipInv, NEW w \in Workers, NEW c \in Held(w)
    PROVE  c \in Conns /\ (torn[c] # 0 => wpc[w] = "teardown" /\ c \in closed[w] \ todo[w])
  <1>1. c \in Conns
    BY DEF TypeOK, WorkerType, Held
  <1> QED BY <1>1 DEF OwnershipInv, TornInv

\* teardown_session() runs on a session that no thread has torn down before.
LEMMA OwnershipTeardown ==
    ASSUME TypeOK, OwnershipInv, NEW w \in Workers, NEW c \in Conns, TeardownSession(w, c)
    PROVE  OwnershipInv'
  <1>1. c \in todo[w] /\ wpc[w] \in {"teardown", "sweep"} /\ torn[c] = 0
    BY HeldNotTorn DEF TeardownSession, Held
  <1>2. /\ UNCHANGED <<backlog, accepted, link, wpc, sessions, lap, visiting, closed>>
        /\ todo' = [todo EXCEPT ![w] = @ \ {c}]
        /\ torn' = [torn EXCEPT ![c] = @ + 1]
        /\ registered' = registered \ {c}
        /\ objects' = [objects EXCEPT ![c] = {}]
        /\ emit' = [emit EXCEPT ![c] = FALSE]
    BY DEF TeardownSession, CleanupContext, serverVars, wireVars
  <1>3. \A v \in Workers : /\ v # w => todo'[v] = todo[v]
                           /\ todo'[w] = todo[w] \ {c}
    BY <1>2 DEF TypeOK, WorkerType
  <1>4. \A v \in Workers : Held(v)' \subseteq Held(v) /\ (v # w => Held(v)' = Held(v))
    BY <1>2, <1>3 DEF Held
  <1>5. LapInv'
    <2> SUFFICES ASSUME NEW v \in Workers PROVE LapOf(v)'
      BY DEF LapInv
    <2>1. LapOf(v) BY DEF OwnershipInv, LapInv
    <2>2. todo'[v] \subseteq todo[v]
      BY <1>3
    <2> QED BY <1>2, <2>1, <2>2 DEF LapOf
  <1>6. PlaceInv'
    BY <1>2, <1>4 DEF OwnershipInv, PlaceInv
  <1>7. TornInv'
    <2>1. ASSUME NEW d \in Conns, torn'[d] # 0, d # c
          PROVE  /\ torn'[d] = 1
                 /\ d \notin registered' /\ ~emit'[d] /\ objects'[d] = {}
                 /\ link'[d] # "new" /\ d \notin backlog' /\ d # accepted'
                 /\ \A v \in Workers : d \in Held(v)' =>
                      wpc'[v] = "teardown" /\ d \in closed'[v] \ todo'[v]
      <3>1. torn[d] # 0 /\ torn'[d] = torn[d] /\ emit'[d] = emit[d] /\ objects'[d] = objects[d]
        BY <1>2, <2>1 DEF TypeOK, HistoryType, ContextType
      <3>2. \A v \in Workers : d \in Held(v)' =>
                      wpc'[v] = "teardown" /\ d \in closed'[v] \ todo'[v]
        BY <1>2, <1>3, <1>4, <2>1, <3>1 DEF OwnershipInv, TornInv
      <3> QED BY <1>2, <2>1, <3>1, <3>2 DEF OwnershipInv, TornInv
    <2>2. /\ torn'[c] = 1
          /\ c \notin registered' /\ ~emit'[c] /\ objects'[c] = {}
      BY <1>1, <1>2 DEF TypeOK, HistoryType, ContextType
    <2>3. /\ link'[c] # "new" /\ c \notin backlog' /\ c # accepted'
          /\ \A v \in Workers : v # w => c \notin Held(v)'
      <3>1. c \in Held(w) BY <1>1 DEF Held
      <3> QED BY <1>2, <1>4, <3>1 DEF OwnershipInv, PlaceInv
    <2>4. c \in Held(w)' => wpc'[w] = "teardown" /\ c \in closed'[w] \ todo'[w]
      <3>1. LapOf(w) BY DEF OwnershipInv, LapInv
      <3> QED BY <1>1, <1>2, <1>3, <3>1 DEF LapOf, Held
    <2> QED BY <2>1, <2>2, <2>3, <2>4 DEF TornInv
  <1> QED BY <1>5, <1>6, <1>7 DEF OwnershipInv

\* Every other step of a dispatch worker keeps OwnershipInv.
LEMMA OwnershipWorkerStep ==
    ASSUME TypeOK, OwnershipInv, NEW w \in Workers, WorkerThread(w),
           \A c \in Conns : ~TeardownSession(w, c)
    PROVE  OwnershipInv'
  <1>1. LapOf(w) BY DEF OwnershipInv, LapInv
  <1>2. \A c \in Held(w) : torn[c] # 0 => wpc[w] = "teardown" /\ c \in closed[w] \ todo[w]
    BY HeldNotTorn
  <1>3. UNCHANGED <<backlog, accepted, link, torn, registered>>
    BY DEF WorkerThread, StartLap, VisitClosed, VisitOpen, ServiceSession, ReceiveTimeout,
           CheckServiced, EndLap, EraseClosed, StartSweep, EndSweep, serverVars, wireVars,
           ctxVars, histVars
  <1>4. \A v \in Workers \ {w} :
               /\ wpc'[v] = wpc[v] /\ sessions'[v] = sessions[v] /\ lap'[v] = lap[v]
               /\ visiting'[v] = visiting[v] /\ closed'[v] = closed[v] /\ todo'[v] = todo[v]
    BY DEF WorkerThread, StartLap, VisitClosed, VisitOpen, ServiceSession, ReceiveTimeout,
           CheckServiced, EndLap, EraseClosed, StartSweep, EndSweep, TypeOK, WorkerType
  <1>5. \A c \in Conns : torn[c] # 0 => emit'[c] = emit[c] /\ objects'[c] = objects[c]
    <2>1. CASE ServiceSession(w)
      <3>1. visiting[w] \in Conns /\ wpc[w] = "receive"
        BY <2>1 DEF ServiceSession, TypeOK, WorkerType
      <3>2. torn[visiting[w]] = 0
        BY <1>1, <1>2, <3>1 DEF LapOf, Held
      <3>3. \A d \in Conns \ {visiting[w]} : objects'[d] = objects[d] /\ emit'[d] = emit[d]
        BY <2>1, <3>1, HandleRequestLocal DEF ServiceSession, TypeOK
      <3> QED BY <3>2, <3>3
    <2>2. CASE ~ServiceSession(w)
      BY <2>2 DEF WorkerThread, StartLap, VisitClosed, VisitOpen, ReceiveTimeout,
                  CheckServiced, EndLap, EraseClosed, StartSweep, EndSweep, ctxVars
    <2> QED BY <2>1, <2>2
  <1>6. /\ LapOf(w)' /\ Held(w)' \subseteq Held(w)
        /\ \A c \in Held(w)' : torn[c] # 0 =>
             wpc'[w] = "teardown" /\ c \in closed'[w] \ todo'[w]
    <2> USE <1>1, <1>2 DEF LapOf, Held, TypeOK, WorkerType
    <2>1. CASE StartLap(w)
      BY <2>1 DEF StartLap
    <2>2. ASSUME NEW c \in Conns, VisitClosed(w, c) \/ VisitOpen(w, c)
          PROVE  /\ LapOf(w)' /\ Held(w)' \subseteq Held(w)
                 /\ \A d \in Held(w)' : torn[d] # 0 =>
                      wpc'[w] = "teardown" /\ d \in closed'[w] \ todo'[w]
      BY <2>2 DEF VisitClosed, VisitOpen
    <2>3. CASE ServiceSession(w) \/ ReceiveTimeout(w)
      BY <2>3 DEF ServiceSession, ReceiveTimeout
    <2>4. CASE CheckServiced(w)
      <3>1. /\ visiting[w] \in Conns /\ visiting'[w] = NoConn /\ NoConn \notin Conns
            /\ wpc[w] = "serviced" /\ wpc'[w] = "lap"
            /\ closed'[w] \subseteq closed[w] \cup {visiting[w]}
            /\ UNCHANGED <<sessions, lap, todo>>
        BY <2>4, ServerAssumption DEF CheckServiced
      <3>2. closed'[w] \subseteq Conns /\ lap[w] \subseteq Conns
        BY <3>1
      <3> HIDE DEF TypeOK, WorkerType
      <3> QED BY <3>1, <3>2
    <2>5. CASE EndLap(w)
      BY <2>5 DEF EndLap
    <2>6. CASE EraseClosed(w)
      BY <2>6 DEF EraseClosed
    <2>7. CASE StartSweep(w) \/ EndSweep(w)
      BY <2>7 DEF StartSweep, EndSweep
    <2> QED
      BY <2>1, <2>2, <2>3, <2>4, <2>5, <2>6, <2>7 DEF WorkerThread
  <1> QED BY <1>3, <1>4, <1>5, <1>6, OwnershipFrame

\* OwnershipInv holds in every reachable state.
THEOREM OwnershipCorrect == Spec => []OwnershipInv
  <1>1. Init => OwnershipInv
    BY ServerAssumption
       DEF Init, OwnershipInv, LapInv, LapOf, PlaceInv, TornInv, Held, Workers
  <1>2. TypeOK /\ OwnershipInv /\ [Next]_vars => OwnershipInv'
    BY OwnershipServerStep, OwnershipTeardown, OwnershipWorkerStep DEF Next
  <1> QED
    BY <1>1, <1>2, TypeCorrect, PTL DEF Spec

\* No session is torn down twice, and nothing revives one that was torn down:
\* for any number of connections and workers, and any interleaving of stop()
\* with the laps of the workers.
THEOREM SessionsTornDownOnce == Spec => []TornDownOnce
  <1>1. TypeOK /\ OwnershipInv => TornDownOnce
    BY DEF TypeOK, HistoryType, OwnershipInv, TornInv, TornDownOnce
  <1> QED
    BY <1>1, TypeCorrect, OwnershipCorrect, PTL
-----------------------------------------------------------------------------
(***************************************************************************)
(* Frames.  What is queued was sent, and is queued at one place.           *)
(***************************************************************************)
Queued(n) == \E c \in Conns : \E k \in 1 .. Len(inbox[c]) : inbox[c][k] = n

SentInv == \A c \in Conns : \A k \in 1 .. Len(inbox[c]) : inbox[c][k] <= sent

UniqueInv ==
    \A c, d \in Conns : \A j \in 1 .. Len(inbox[c]), k \in 1 .. Len(inbox[d]) :
        inbox[c][j] = inbox[d][k] => c = d /\ j = k

FramesInv == SentInv /\ UniqueInv /\ AnsweredOnce

\* Dispatching request n answers n once, or leaves it unanswered and exempt,
\* and answers no other request.
LEMMA HandleRequestAnswers ==
    ASSUME WireType, NEW c \in Conns, NEW n \in 1 .. MaxReqs, HandleRequest(c, n)
    PROVE  /\ \A m \in 1 .. MaxReqs : m # n => answers'[m] = answers[m]
           /\ answers'[n] = answers[n] + 1 \/ (answers'[n] = answers[n] /\ n \in exempt')
           /\ exempt \subseteq exempt'
  <1> USE DEF WireType
  <1>1. ASSUME Answer(n), exempt \subseteq exempt'
        PROVE  /\ \A m \in 1 .. MaxReqs : m # n => answers'[m] = answers[m]
               /\ answers'[n] = answers[n] + 1
               /\ exempt \subseteq exempt'
    BY <1>1 DEF Answer
  <1>2. CASE HandleMalformed(c, n)
    BY <1>2 DEF HandleMalformed
  <1>3. CASE AnswerOnly(n)
    BY <1>1, <1>3 DEF AnswerOnly
  <1>4. ASSUME NEW g \in Groups \cup {0}, NEW oid \in Ids, NEW oneway \in BOOLEAN,
               HandleCall(c, n, g, oid, oneway)
        PROVE  /\ \A m \in 1 .. MaxReqs : m # n => answers'[m] = answers[m]
               /\ answers'[n] = answers[n] + 1 \/ (answers'[n] = answers[n] /\ n \in exempt')
               /\ exempt \subseteq exempt'
    <2>1. CASE Answer(n)
      BY <1>1, <1>4, <2>1 DEF HandleCall
    <2>2. CASE oneway /\ UNCHANGED answers
      BY <1>4, <2>2 DEF HandleCall
    <2> QED BY <1>4, <2>1, <2>2 DEF HandleCall
  <1>5. ASSUME NEW g \in Groups \cup {0}, NEW oid \in Ids,
               \/ HandleInstantiate(c, n, g) \/ HandleDestroy(c, n, oid)
               \/ HandleDestroyGroup(c, n, g) \/ HandleDisconnect(c, n)
        PROVE  /\ \A m \in 1 .. MaxReqs : m # n => answers'[m] = answers[m]
               /\ answers'[n] = answers[n] + 1
               /\ exempt \subseteq exempt'
    <2>1. Answer(n) /\ exempt' = exempt
      BY <1>5 DEF HandleInstantiate, AnswerOnly, HandleDestroy, HandleDestroyGroup,
                  HandleDisconnect
    <2> QED BY <1>1, <2>1
  <1> QED
    BY <1>2, <1>3, <1>4, <1>5
       DEF HandleRequest, RejectRequest, Dispatch, HandleConnect, HandleDescribe,
           HandleDictionary, HandleHelp, HandleUnknown, HandleClear, HandleSet, HandleGet

\* A client that sends puts a fresh, unanswered request at the end of one queue.
LEMMA FramesClientSend ==
    ASSUME TypeOK, FramesInv, NEW c \in Conns, ClientSend(c)
    PROVE  FramesInv'
  <1> USE ServerAssumption DEF FramesInv
  <1>1. /\ sent \in Nat /\ sent' = sent + 1 /\ sent' \in 1 .. MaxReqs
        /\ UNCHANGED <<answers, exempt>>
    BY DEF ClientSend, TypeOK, WireType
  <1>2. /\ \A d \in Conns : d # c => inbox'[d] = inbox[d]
        /\ inbox'[c] = Append(inbox[c], sent')
    BY DEF ClientSend, TypeOK, WireType
  <1>3. /\ Len(inbox'[c]) = Len(inbox[c]) + 1
        /\ \A k \in 1 .. Len(inbox[c]) : inbox'[c][k] = inbox[c][k]
        /\ inbox'[c][Len(inbox[c]) + 1] = sent'
        /\ \A k \in 1 .. Len(inbox'[c]) : k \in 1 .. Len(inbox[c]) \/ k = Len(inbox[c]) + 1
        /\ \A k \in 1 .. Len(inbox[c]) : k \in 1 .. Len(inbox'[c])
        /\ Len(inbox[c]) + 1 \in 1 .. Len(inbox'[c])
    <2>1. inbox[c] \in Seq(1 .. MaxReqs) /\ Len(inbox[c]) \in Nat
      BY DEF TypeOK, WireType
    <2> QED BY <1>1, <1>2, <2>1
  <1>4. \A d \in Conns : \A k \in 1 .. Len(inbox[d]) : inbox[d][k] \in Nat /\ inbox[d][k] # sent'
    <2>1. \A d \in Conns : \A k \in 1 .. Len(inbox[d]) : inbox[d][k] \in 1 .. MaxReqs
      BY DEF TypeOK, WireType
    <2> QED BY <1>1, <2>1 DEF SentInv
  <1>5. SentInv'
    <2> SUFFICES ASSUME NEW d \in Conns, NEW k \in 1 .. Len(inbox'[d]) PROVE inbox'[d][k] <= sent'
      BY DEF SentInv
    <2>1. CASE d = c /\ k = Len(inbox[c]) + 1
      BY <1>1, <1>3, <2>1
    <2>2. CASE k \in 1 .. Len(inbox[d]) /\ inbox'[d][k] = inbox[d][k]
      <3>1. inbox[d][k] <= sent /\ inbox[d][k] \in Nat
        BY <1>4, <2>2 DEF SentInv
      <3> QED BY <1>1, <2>2, <3>1
    <2> QED BY <1>2, <1>3, <2>1, <2>2
  <1>6. UniqueInv'
    <2> SUFFICES ASSUME NEW d \in Conns, NEW e \in Conns,
                        NEW j \in 1 .. Len(inbox'[d]), NEW k \in 1 .. Len(inbox'[e]),
                        inbox'[d][j] = inbox'[e][k]
                 PROVE  d = e /\ j = k
      BY DEF UniqueInv
    <2>1. \/ d = c /\ j = Len(inbox[c]) + 1 /\ inbox'[d][j] = sent'
          \/ j \in 1 .. Len(inbox[d]) /\ inbox'[d][j] = inbox[d][j]
      BY <1>2, <1>3
    <2>2. \/ e = c /\ k = Len(inbox[c]) + 1 /\ inbox'[e][k] = sent'
          \/ k \in 1 .. Len(inbox[e]) /\ inbox'[e][k] = inbox[e][k]
      BY <1>2, <1>3
    <2> QED BY <1>4, <2>1, <2>2 DEF UniqueInv
  <1>7. AnsweredOnce'
    <2>1. \A n \in 1 .. MaxReqs : Queued(n)' <=> Queued(n) \/ n = sent'
      BY <1>2, <1>3 DEF Queued
    <2>2. \A n \in 1 .. MaxReqs : n > sent' \/ n = sent' <=> n > sent
      BY <1>1
    <2> QED BY <1>1, <2>1, <2>2 DEF AnsweredOnce, Queued
  <1> QED BY <1>5, <1>6, <1>7

\* A worker that serves a frame takes it out of the only place it was queued
\* at and answers it, unless it is exempt.
LEMMA FramesServe ==
    ASSUME TypeOK, FramesInv, NEW w \in Workers, ServiceSession(w)
    PROVE  FramesInv'
  <1> USE ServerAssumption DEF FramesInv
  <1>0. PICK c \in Conns : c = visiting[w]
    BY DEF ServiceSession, TypeOK, WorkerType
  <1>1. /\ inbox[c] # << >> /\ inbox[c] \in Seq(1 .. MaxReqs)
        /\ HandleRequest(c, Head(inbox[c])) /\ sent' = sent
        /\ inbox' = [inbox EXCEPT ![c] = Tail(@)]
    BY <1>0 DEF ServiceSession, TypeOK, WireType
  <1>2. PICK n \in 1 .. MaxReqs : n = Head(inbox[c])
    BY <1>1, HeadTailType
  <1>3. /\ \A d \in Conns : d # c => inbox'[d] = inbox[d]
        /\ inbox'[c] = Tail(inbox[c])
    BY <1>1 DEF TypeOK, WireType
  <1>4. /\ Len(inbox[c]) \in Nat /\ Len(inbox[c]) > 0
        /\ Len(inbox'[c]) = Len(inbox[c]) - 1
        /\ \A k \in 1 .. Len(inbox'[c]) : inbox'[c][k] = inbox[c][k + 1]
        /\ n = inbox[c][1]
    <2>1. /\ Len(inbox[c]) \in Nat /\ Len(inbox[c]) > 0
          /\ Len(Tail(inbox[c])) = Len(inbox[c]) - 1
          /\ \A k \in 1 .. Len(Tail(inbox[c])) : Tail(inbox[c])[k] = inbox[c][k + 1]
          /\ Head(inbox[c]) = inbox[c][1]
      BY <1>1, HeadTailAt, Zenon
    <2> QED BY <1>2, <1>3, <2>1
  <1>5. /\ \A m \in 1 .. MaxReqs : m # n => answers'[m] = answers[m]
        /\ answers'[n] = answers[n] + 1 \/ (answers'[n] = answers[n] /\ n \in exempt')
        /\ exempt \subseteq exempt'
    BY <1>1, <1>2, HandleRequestAnswers DEF TypeOK
  <1>6. /\ \A k \in 1 .. Len(inbox'[c]) : k + 1 \in 1 .. Len(inbox[c]) /\ k + 1 # 1
        /\ \A k \in 1 .. Len(inbox[c]) : k # 1 => k - 1 \in 1 .. Len(inbox'[c]) /\ (k - 1) + 1 = k
        /\ 1 \in 1 .. Len(inbox[c])
    BY <1>4
  <1>7. SentInv'
    BY <1>1, <1>3, <1>4, <1>6 DEF SentInv
  <1>8. UniqueInv'
    BY <1>1, <1>3, <1>4, <1>6 DEF UniqueInv
  <1>9. \A m \in 1 .. MaxReqs : Queued(m)' <=> Queued(m) /\ m # n
    <2>1. ~Queued(n)'
      BY <1>1, <1>3, <1>4, <1>6 DEF Queued, UniqueInv
    <2>2. ASSUME NEW m \in 1 .. MaxReqs, Queued(m)' PROVE Queued(m)
      <3>1. PICK d \in Conns : \E k \in 1 .. Len(inbox'[d]) : inbox'[d][k] = m
        BY <2>2 DEF Queued
      <3>2. PICK k \in 1 .. Len(inbox'[d]) : inbox'[d][k] = m
        BY <3>1
      <3>3. CASE d = c
        <4>1. k + 1 \in 1 .. Len(inbox[c]) /\ inbox[c][k + 1] = m
          BY <1>4, <1>6, <3>2, <3>3
        <4> QED BY <4>1 DEF Queued
      <3>4. CASE d # c
        BY <1>3, <3>2, <3>4 DEF Queued
      <3> QED BY <3>3, <3>4
    <2>3. ASSUME NEW m \in 1 .. MaxReqs, Queued(m), m # n PROVE Queued(m)'
      <3>0. PICK d \in Conns : \E k \in 1 .. Len(inbox[d]) : inbox[d][k] = m
        BY <2>3 DEF Queued
      <3>1. PICK k \in 1 .. Len(inbox[d]) : inbox[d][k] = m
        BY <3>0
      <3>2. CASE d = c
        <4>1. k # 1
          BY <1>4, <2>3, <3>1, <3>2
        <4>2. k - 1 \in 1 .. Len(inbox'[c]) /\ inbox'[c][k - 1] = m
          BY <1>4, <1>6, <3>1, <3>2, <4>1
        <4> QED BY <1>1, <4>2 DEF Queued
      <3>3. CASE d # c
        BY <1>3, <3>1, <3>3 DEF Queued
      <3> QED BY <3>2, <3>3
    <2> QED BY <2>1, <2>2, <2>3
  <1>10. Queued(n) /\ n <= sent /\ answers[n] = 0
    <2>1. Queued(n) /\ n <= sent
      BY <1>1, <1>4, <1>6 DEF Queued, SentInv
    <2> QED BY <1>2, <2>1 DEF AnsweredOnce, Queued
  <1>11. AnsweredOnce'
    <2> SUFFICES ASSUME NEW m \in 1 .. MaxReqs
                 PROVE  IF m > sent' \/ Queued(m)' THEN answers'[m] = 0
                        ELSE answers'[m] = 1 \/ (m \in exempt' /\ answers'[m] = 0)
      BY DEF AnsweredOnce, Queued
    <2>1. CASE m = n
      <3>1. ~(n > sent') /\ ~Queued(n)'
        BY <1>1, <1>2, <1>9, <1>10 DEF TypeOK, WireType
      <3> QED BY <1>5, <1>10, <2>1, <3>1
    <2>2. CASE m # n
      <3>1. Queued(m)' <=> Queued(m)
        BY <1>9, <2>2
      <3>2. answers'[m] = answers[m] /\ sent' = sent /\ exempt \subseteq exempt'
        BY <1>1, <1>5, <2>2
      <3>3. IF m > sent \/ Queued(m) THEN answers[m] = 0
            ELSE answers[m] = 1 \/ (m \in exempt /\ answers[m] = 0)
        BY DEF AnsweredOnce, Queued
      <3> QED BY <3>1, <3>2, <3>3
    <2> QED BY <2>1, <2>2
  <1> QED BY <1>7, <1>8, <1>11

\* Every frame the server dequeues is answered exactly once, whichever handler,
\* early return or exception path it takes, but for oneway calls and frames
\* that could not be decoded; one it has not dequeued is not answered at all.
THEOREM FramesAnsweredOnce == Spec => []AnsweredOnce
  <1>1. Init => FramesInv
    BY ServerAssumption DEF Init, FramesInv, SentInv, UniqueInv, AnsweredOnce
  <1>2. TypeOK /\ FramesInv /\ [Next]_vars => FramesInv'
    <2> SUFFICES ASSUME TypeOK, FramesInv, [Next]_vars PROVE FramesInv'
      OBVIOUS
    <2>1. CASE UNCHANGED <<inbox, sent, answers, exempt>>
      BY <2>1 DEF FramesInv, SentInv, UniqueInv, AnsweredOnce
    <2>2. \/ UNCHANGED <<inbox, sent, answers, exempt>>
          \/ \E c \in Conns : ClientSend(c)
          \/ \E w \in Workers : ServiceSession(w)
      BY DEF Next, Listen, ListenFails, Stop, StopThread, StopTransport, JoinAccept,
             JoinWorkers, AcceptThread, AcceptLoop, Accept, AcceptTimeout, RegisterSession,
             AssignSession, WorkerThread, StartLap, VisitClosed, VisitOpen, ReceiveTimeout,
             CheckServiced, EndLap, TeardownSession, EraseClosed, StartSweep, EndSweep,
             Client, ClientOpen, ClientClose, vars, wireVars
    <2> QED BY <2>1, <2>2, FramesClientSend, FramesServe
  <1>3. FramesInv => AnsweredOnce
    BY DEF FramesInv
  <1> QED
    BY <1>1, <1>2, <1>3, TypeCorrect, PTL DEF Spec
=============================================================================
