------------------------------- MODULE MCRmi -------------------------------
(***************************************************************************)
(* RmiServer and RmiClient for TLC.  The two share no state: a behaviour   *)
(* is of one of them, its part, while the other stays in its initial       *)
(* state, where none of its fair actions is enabled.                       *)
(***************************************************************************)
EXTENDS RmiServer, RmiClient, TLC

CONSTANT Parts  \* of "server" and "client"

VARIABLE part

RmiInit == part \in Parts /\ Init /\ ClientInit

\* Next and ClientNext, an action at a time so that TLC reports each.
InServer(A) == part = "server" /\ A /\ UNCHANGED <<part, clientVars>>
InClient(A) == part = "client" /\ A /\ UNCHANGED <<part, vars>>

ServerSteps ==
    \/ InServer(Listen) \/ InServer(ListenFails) \/ InServer(Stop)
    \/ InServer(StopTransport) \/ InServer(JoinAccept) \/ InServer(JoinWorkers)
    \/ InServer(AcceptLoop) \/ InServer(AcceptTimeout)
    \/ InServer(RegisterSession) \/ InServer(AssignSession)
    \/ \E c \in Conns : \/ InServer(Accept(c)) \/ InServer(ClientOpen(c))
                        \/ InServer(ClientSend(c)) \/ InServer(ClientClose(c))
    \/ \E w \in Workers :
          \/ InServer(StartLap(w)) \/ InServer(ServiceSession(w))
          \/ InServer(ReceiveTimeout(w)) \/ InServer(CheckServiced(w))
          \/ InServer(EndLap(w)) \/ InServer(EraseClosed(w))
          \/ InServer(StartSweep(w)) \/ InServer(EndSweep(w))
          \/ \E c \in Conns : \/ InServer(VisitClosed(w, c)) \/ InServer(VisitOpen(w, c))
                              \/ InServer(TeardownSession(w, c))

ClientSteps ==
    \/ InClient(StartRequest) \/ InClient(DestroyObject) \/ InClient(RegisterEventHandler)
    \/ \E r \in Reqs : \/ InClient(InsertRequest(r)) \/ InClient(SendRequest(r))
                       \/ InClient(SendFails(r)) \/ InClient(PeerAnswers(r))
    \/ InClient(PeerEmits) \/ InClient(PeerCloses)
    \/ InClient(WorkerLoop) \/ InClient(ProcessResponse) \/ InClient(ProcessEvent)
    \/ InClient(PushEvent) \/ InClient(NotifyEvent) \/ InClient(NothingReceived)
    \/ InClient(CheckConnected) \/ InClient(LostNotify) \/ InClient(LostHook)
    \/ InClient(WorkerExit)
    \/ InClient(EventCheck) \/ InClient(EventBlock) \/ InClient(EventPop)
    \/ InClient(TaskCalls) \/ InClient(TaskReturns) \/ InClient(SpuriousWakeup)
    \/ InClient(Connect) \/ InClient(Disconnect) \/ InClient(DisconnectClosed)
    \/ InClient(Destroy) \/ InClient(Open) \/ InClient(OpenFails)
    \/ InClient(StartThreads) \/ InClient(Handshake) \/ InClient(HandshakeFails)
    \/ InClient(StopRunning) \/ InClient(ShutdownTransport) \/ InClient(OwnerNotify)
    \/ InClient(JoinWorker) \/ InClient(JoinEvent) \/ InClient(FinishDisconnect)

RmiNext == ServerSteps \/ ClientSteps

RmiSpec == RmiInit /\ [][RmiNext]_<<part, vars, clientVars>>

RmiFairSpec == RmiSpec /\ Fairness /\ ClientFairness

\* Connections are interchangeable.
ConnSymmetry == Permutations(Conns)
=============================================================================
