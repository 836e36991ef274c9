--------------------------- MODULE RuntimeProofs ---------------------------
(***************************************************************************)
(* Proofs about two parts of the process around an object, which share no  *)
(* state: the standalone runtime, for any number of requests and object    *)
(* ids, and the line editor of the console, for any chunks of input and    *)
(* any number of keystrokes and lines.                                     *)
(*                                                                         *)
(* Standalone: StandaloneTypeOK is inductive as it stands.  TasksRunOnce   *)
(* needs to know where the promise of a request may be at each point of    *)
(* enqueue(): that is TaskInv.  DestructedOnce needs that the table holds  *)
(* only ids that generate_id() has handed out: IdsHandedOut.               *)
(*                                                                         *)
(* Console: LineAsTyped relates line_edit_state to the page that the user  *)
(* sees.  It becomes inductive (EditorInv) with the types of both, and     *)
(* with the place in the history inside the history: a line that was       *)
(* submitted is kept while another one is edited.  LinesDelivered needs    *)
(* the text of the line that is not ended yet, and whether the last byte   *)
(* was a \r: CookedInv, which each byte of a chunk preserves.              *)
(***************************************************************************)
EXTENDS Standalone, Console, SeqFacts, FiniteSetTheorems

-----------------------------------------------------------------------------
(***************************************************************************)
(* The standalone runtime.                                                 *)
(***************************************************************************)
\* What a step of the session, the queue and the handlers may do to the
\* context, whichever handler runs.
LEMMA DispatchType ==
    ASSUME StandaloneTypeOK, task # 0, Dispatch
    PROVE  /\ outcome' \in [Reqs -> {"none", "value", "error", "broken"}]
           /\ resolved' \in [Reqs -> Nat]
           /\ objects' \in SUBSET Ids
           /\ nextId' \in 0 .. MaxIds
           /\ destructed' \in [Ids -> Nat]
  <1> USE StandaloneAssumption DEF StandaloneTypeOK, Ids
  <1>1. ASSUME NEW result \in {"value", "error"}, Resolve({task}, result)
        PROVE  /\ outcome' \in [Reqs -> {"none", "value", "error", "broken"}]
               /\ resolved' \in [Reqs -> Nat]
    BY <1>1 DEF Resolve
  <1>2. /\ outcome' \in [Reqs -> {"none", "value", "error", "broken"}]
        /\ resolved' \in [Reqs -> Nat]
    BY <1>1 DEF Dispatch, Throws, Succeeds, HandleDescribe, HandleDictionary, HandleHelp,
                HandleClear, HandleSet, HandleGet, FileObject, HandleInstantiate, HandleCall,
                HandleDestroy
  <1>3. CASE UNCHANGED ctxVars
    BY <1>2, <1>3 DEF ctxVars
  <1>4. CASE FileObject
    BY <1>2, <1>4 DEF FileObject
  <1>5. ASSUME NEW oid \in Ids, HandleDestroy(oid)
        PROVE  objects' \in SUBSET Ids /\ nextId' \in 0 .. MaxIds /\ destructed' \in [Ids -> Nat]
    BY <1>5 DEF HandleDestroy
  <1> QED
    BY <1>2, <1>3, <1>4, <1>5
       DEF Dispatch, Throws, HandleDescribe, HandleDictionary, HandleHelp, HandleClear,
           HandleSet, HandleGet, HandleInstantiate, HandleCall

\* The callers' steps keep the types.
LEMMA CallerType ==
    ASSUME StandaloneTypeOK, NEW r \in Reqs, Caller(r)
    PROVE  StandaloneTypeOK'
  <1> USE StandaloneAssumption
  <1>1. CASE EnqueueTask(r)
    <2>1. reqPc' \in [Reqs -> {"unused", "push", "notify", "returned"}]
      BY <1>1 DEF EnqueueTask, StandaloneTypeOK
    <2>2. /\ outcome' \in [Reqs -> {"none", "value", "error", "broken"}]
          /\ resolved' \in [Reqs -> Nat]
      <3>1. CASE running
        BY <1>1, <3>1 DEF EnqueueTask, StandaloneTypeOK, futureVars
      <3>2. CASE ~running
        <4>1. Resolve({r}, "error")
          BY <1>1, <3>2 DEF EnqueueTask
        <4> QED
          BY <4>1 DEF StandaloneTypeOK, Resolve
      <3> QED BY <3>1, <3>2
    <2> QED
      BY <1>1, <2>1, <2>2 DEF EnqueueTask, StandaloneTypeOK, sessionVars, workerVars, ctxVars
  <1>2. CASE PushTask(r)
    <2>1. tasks' \in Seq(Reqs)
      BY <1>2 DEF PushTask, StandaloneTypeOK
    <2> QED
      BY <1>2, <2>1 DEF PushTask, StandaloneTypeOK, sessionVars, workerVars, ctxVars, futureVars
  <1>3. CASE NotifyTask(r)
    BY <1>3 DEF NotifyTask, WakeWorker, StandaloneTypeOK, sessionVars, ctxVars, futureVars
  <1> QED
    BY <1>1, <1>2, <1>3 DEF Caller

\* The worker's steps keep the types.
LEMMA WorkerType ==
    ASSUME StandaloneTypeOK, Worker \/ SpuriousTaskWakeup
    PROVE  StandaloneTypeOK'
  <1> USE StandaloneAssumption
  <1>1. CASE TaskWaitCheck \/ TaskWaitBlock \/ SpuriousTaskWakeup \/ FoundEmpty
    BY <1>1 DEF TaskWaitCheck, TaskWaitBlock, SpuriousTaskWakeup, FoundEmpty,
                StandaloneTypeOK, sessionVars, ctxVars, futureVars
  <1>2. CASE Pop
    <2>1. CASE tasks = << >>
      BY <1>2, <2>1 DEF Pop, StandaloneTypeOK, sessionVars, ctxVars, futureVars
    <2>2. CASE tasks # << >>
      <3>1. Head(tasks) \in Reqs /\ Tail(tasks) \in Seq(Reqs)
        BY <2>2 DEF StandaloneTypeOK
      <3>2. Head(tasks) \in 0 .. MaxReqs /\ Head(tasks) # 0
        BY <3>1 DEF Reqs
      <3> QED
        BY <1>2, <2>2, <3>1, <3>2 DEF Pop, StandaloneTypeOK, sessionVars, ctxVars, futureVars
    <2> QED BY <2>1, <2>2
  <1>3. CASE RunTask
    <2>1. task # 0
      BY <1>3 DEF RunTask, StandaloneTypeOK
    <2>2. Dispatch
      BY <1>3 DEF RunTask
    <2>3. /\ outcome' \in [Reqs -> {"none", "value", "error", "broken"}]
          /\ resolved' \in [Reqs -> Nat]
          /\ objects' \in SUBSET Ids
          /\ nextId' \in 0 .. MaxIds
          /\ destructed' \in [Ids -> Nat]
      BY <2>1, <2>2, DispatchType
    <2> QED
      BY <1>3, <2>3 DEF RunTask, StandaloneTypeOK, sessionVars
  <1> QED
    BY <1>1, <1>2, <1>3 DEF Worker

\* The owner's steps keep the types; JoinWorker is where the last conjunct,
\* that nothing is torn down before the worker is gone, comes from.
LEMMA SessionOwnerType ==
    ASSUME StandaloneTypeOK, SessionOwner
    PROVE  StandaloneTypeOK'
  <1> USE StandaloneAssumption
  <1>1. CASE Connect
    BY <1>1 DEF Connect, StandaloneTypeOK, workerVars, ctxVars, futureVars
  <1>2. CASE Disconnect
    BY <1>2 DEF Disconnect, StandaloneTypeOK, workerVars, ctxVars, futureVars
  <1>3. CASE DestroySession
    BY <1>3 DEF DestroySession, StandaloneTypeOK, workerVars, ctxVars, futureVars
  <1>4. CASE JoinWorker
    BY <1>4 DEF JoinWorker, StandaloneTypeOK, workerVars, ctxVars, futureVars
  <1>5. CASE StopStore
    BY <1>5 DEF StopStore, StandaloneTypeOK, workerVars, ctxVars, futureVars
  <1>6. CASE StopNotify
    BY <1>6 DEF StopNotify, WakeWorker, StandaloneTypeOK, ctxVars, futureVars
  <1>7. CASE Cleanup
    <2>1. /\ outcome' \in [Reqs -> {"none", "value", "error", "broken"}]
          /\ resolved' \in [Reqs -> Nat]
      BY <1>7 DEF Cleanup, Resolve, StandaloneTypeOK
    <2>2. destructed' \in [Ids -> Nat]
      BY <1>7 DEF Cleanup, StandaloneTypeOK
    <2>3. tasks' \in Seq(Reqs)
      BY <1>7 DEF Cleanup
    <2> QED
      BY <1>7, <2>1, <2>2, <2>3 DEF Cleanup, StandaloneTypeOK, workerVars
  <1> QED
    BY <1>1, <1>2, <1>3, <1>4, <1>5, <1>6, <1>7 DEF SessionOwner, SessionOwnerContinues

\* Type correctness of the standalone runtime; the worker of a runtime that
\* was stopped has left before disconnect() returns and before the context is
\* torn down.
THEOREM StandaloneTypeCorrect == StandaloneSpec => []StandaloneTypeOK
  <1>1. StandaloneInit => StandaloneTypeOK
    <2> SUFFICES ASSUME StandaloneInit PROVE StandaloneTypeOK
      OBVIOUS
    <2> USE DEF StandaloneInit, StandaloneWith
    <2>1. /\ tasks \in Seq(Reqs)
          /\ reqPc \in [Reqs -> {"unused", "push", "notify", "returned"}]
          /\ outcome \in [Reqs -> {"none", "value", "error", "broken"}]
          /\ resolved \in [Reqs -> Nat]
          /\ destructed \in [Ids -> Nat]
      OBVIOUS
    <2>2. task \in 0 .. MaxReqs /\ nextId \in 0 .. MaxIds
      BY StandaloneAssumption
    <2> QED
      BY <2>1, <2>2 DEF StandaloneTypeOK
  <1>2. StandaloneTypeOK /\ [StandaloneNext]_standaloneVars => StandaloneTypeOK'
    <2> SUFFICES ASSUME StandaloneTypeOK, [StandaloneNext]_standaloneVars
                 PROVE  StandaloneTypeOK'
      OBVIOUS
    <2>1. CASE UNCHANGED standaloneVars
      BY <2>1 DEF StandaloneTypeOK, standaloneVars, sessionVars, workerVars, futureVars, ctxVars
    <2> QED
      BY <2>1, CallerType, WorkerType, SessionOwnerType DEF StandaloneNext
  <1> QED
    BY <1>1, <1>2, PTL DEF StandaloneSpec
-----------------------------------------------------------------------------
(***************************************************************************)
(* A task is run at most once.                                             *)
(***************************************************************************)
\* Where the promise of a request may be: unset and nowhere before it is
\* pushed, in queue_ or with the worker only after that, and unset while the
\* worker has it.
TaskInv ==
    /\ \A r \in Reqs : reqPc[r] \in {"unused", "push"} => outcome[r] = "none"
    /\ \A k \in 1 .. Len(tasks) : reqPc[tasks[k]] \in {"notify", "returned"}
    /\ task # 0 => outcome[task] = "none" /\ reqPc[task] \in {"notify", "returned"}

\* The inductive invariant behind TasksRunOnce.
TasksIndInv == StandaloneTypeOK /\ TaskInv /\ TasksRunOnce

\* Setting the promises of S once, when none of them is set, keeps the count
\* of each promise equal to whether it is set.
LEMMA ResolveOnce ==
    ASSUME StandaloneTypeOK, NEW S \in SUBSET Reqs, NEW result \in {"value", "error", "broken"},
           \A r \in Reqs : resolved[r] = IF outcome[r] = "none" THEN 0 ELSE 1,
           \A r \in S : outcome[r] = "none",
           Resolve(S, result)
    PROVE  \A r \in Reqs : /\ resolved'[r] = IF outcome'[r] = "none" THEN 0 ELSE 1
                           /\ outcome'[r] = IF r \in S THEN result ELSE outcome[r]
  BY DEF Resolve, StandaloneTypeOK

\* enqueue() keeps the invariant: a promise refused because running_ is false
\* was never in queue_, and a request is pushed once.
LEMMA CallerTasks ==
    ASSUME TasksIndInv, NEW r \in Reqs, Caller(r)
    PROVE  TaskInv' /\ TasksRunOnce'
  <1> USE DEF TasksIndInv
  <1>0. /\ \A k \in 1 .. Len(tasks) : tasks[k] \in Reqs
        /\ Len(tasks) \in Nat
        /\ task # 0 => task \in Reqs
    BY StandaloneAssumption DEF StandaloneTypeOK, Reqs
  <1>1. CASE EnqueueTask(r)
    <2>1. /\ \A k \in 1 .. Len(tasks) : tasks[k] # r
          /\ task # r
          /\ outcome[r] = "none"
      <3>1. reqPc[r] = "unused"
        BY <1>1 DEF EnqueueTask
      <3>2. 0 \notin Reqs
        BY StandaloneAssumption DEF Reqs
      <3> QED BY <1>0, <3>1, <3>2 DEF TaskInv
    <2>2. CASE running
      <3>1. UNCHANGED <<outcome, resolved, tasks, task>> /\ reqPc' = [reqPc EXCEPT ![r] = "push"]
        BY <1>1, <2>2 DEF EnqueueTask, workerVars, futureVars
      <3> QED
        BY <1>0, <2>1, <3>1 DEF TaskInv, TasksRunOnce, StandaloneTypeOK
    <2>3. CASE ~running
      <3>1. /\ UNCHANGED <<tasks, task>>
            /\ reqPc' = [reqPc EXCEPT ![r] = "returned"]
            /\ Resolve({r}, "error")
        BY <1>1, <2>3 DEF EnqueueTask, workerVars
      <3>2. \A q \in Reqs : /\ resolved'[q] = IF outcome'[q] = "none" THEN 0 ELSE 1
                            /\ outcome'[q] = IF q \in {r} THEN "error" ELSE outcome[q]
        BY <2>1, <3>1, ResolveOnce DEF TasksRunOnce
      <3> QED
        BY <1>0, <2>1, <3>1, <3>2 DEF TaskInv, TasksRunOnce, StandaloneTypeOK
    <2> QED BY <2>2, <2>3
  <1>2. CASE PushTask(r)
    <2>1. /\ tasks' = Append(tasks, r)
          /\ reqPc' = [reqPc EXCEPT ![r] = "notify"]
          /\ UNCHANGED <<outcome, resolved, task>>
      BY <1>2 DEF PushTask, workerVars, futureVars
    <2>2. /\ Len(tasks') = Len(tasks) + 1
          /\ \A k \in 1 .. Len(tasks) : tasks'[k] = tasks[k]
          /\ tasks'[Len(tasks) + 1] = r
      BY <2>1 DEF StandaloneTypeOK
    <2>3. /\ \A k \in 1 .. Len(tasks) : tasks[k] # r
          /\ task # r
          /\ outcome[r] = "none"
      <3>1. reqPc[r] = "push" /\ r # 0
        BY <1>2, StandaloneAssumption DEF PushTask, Reqs
      <3> QED
        BY <1>0, <3>1 DEF TaskInv
    <2>4. \A k \in 1 .. Len(tasks') : k \in 1 .. Len(tasks) \/ k = Len(tasks) + 1
      BY <2>2, <1>0
    <2>5. TaskInv'
      BY <1>0, <2>1, <2>2, <2>3, <2>4 DEF TaskInv, StandaloneTypeOK
    <2>6. TasksRunOnce'
      BY <1>0, <2>1, <2>2, <2>3, <2>4 DEF TasksRunOnce, StandaloneTypeOK
    <2> QED BY <2>5, <2>6
  <1>3. CASE NotifyTask(r)
    <2>1. /\ UNCHANGED <<outcome, resolved, task, tasks>>
          /\ reqPc[r] = "notify"
          /\ reqPc' = [reqPc EXCEPT ![r] = "returned"]
      BY <1>3 DEF NotifyTask, futureVars
    <2> QED
      BY <1>0, <2>1 DEF TaskInv, TasksRunOnce, StandaloneTypeOK
  <1> QED
    BY <1>1, <1>2, <1>3 DEF Caller

\* The worker keeps it: what it pops has left queue_, and what it runs was not
\* answered before.
LEMMA WorkerTasks ==
    ASSUME TasksIndInv, Worker \/ SpuriousTaskWakeup
    PROVE  TaskInv' /\ TasksRunOnce'
  <1> USE DEF TasksIndInv
  <1>0. /\ \A k \in 1 .. Len(tasks) : tasks[k] \in Reqs
        /\ Len(tasks) \in Nat
        /\ task # 0 => task \in Reqs
        /\ \A r \in Reqs : r # 0
    BY StandaloneAssumption DEF StandaloneTypeOK, Reqs
  <1>1. ASSUME UNCHANGED <<task, tasks, reqPc, outcome, resolved>>
        PROVE  TaskInv' /\ TasksRunOnce'
    BY <1>1 DEF TaskInv, TasksRunOnce
  <1>2. CASE TaskWaitCheck \/ TaskWaitBlock \/ SpuriousTaskWakeup \/ FoundEmpty
    BY <1>1, <1>2 DEF TaskWaitCheck, TaskWaitBlock, SpuriousTaskWakeup, FoundEmpty, futureVars
  <1>3. CASE Pop
    <2>1. CASE tasks = << >>
      BY <1>1, <1>3, <2>1 DEF Pop, futureVars
    <2>2. CASE tasks # << >>
      <3>1. /\ task' = Head(tasks)
            /\ tasks' = Tail(tasks)
            /\ UNCHANGED <<reqPc, outcome, resolved>>
        BY <1>3, <2>2 DEF Pop, futureVars
      <3>2. /\ Len(tasks) > 0
            /\ task' = tasks[1]
            /\ Len(tasks') = Len(tasks) - 1
            /\ \A k \in 1 .. Len(tasks') : tasks'[k] = tasks[k + 1]
        BY <2>2, <3>1 DEF StandaloneTypeOK
      <3>3. \A k \in 1 .. Len(tasks') : k + 1 \in 1 .. Len(tasks) /\ k + 1 # 1
        BY <1>0, <3>2
      <3>4. TaskInv'
        BY <1>0, <3>1, <3>2, <3>3 DEF TaskInv, TasksRunOnce
      <3>5. \A k, j \in 1 .. Len(tasks') : tasks'[j] = tasks'[k] => j = k
        BY <1>0, <3>2, <3>3 DEF TasksRunOnce
      <3>6. \A k \in 1 .. Len(tasks') : outcome'[tasks'[k]] = "none" /\ tasks'[k] # task'
        BY <1>0, <3>1, <3>2, <3>3 DEF TasksRunOnce
      <3> QED
        BY <3>1, <3>4, <3>5, <3>6 DEF TasksRunOnce
    <2> QED BY <2>1, <2>2
  <1>4. CASE RunTask
    <2>1. task \in Reqs /\ outcome[task] = "none" /\ reqPc[task] \in {"notify", "returned"}
      BY <1>4, <1>0 DEF RunTask, StandaloneTypeOK, TaskInv
    <2>2. PICK result \in {"value", "error"} : Resolve({task}, result)
      BY <1>4 DEF RunTask, Dispatch, Throws, Succeeds, HandleDescribe, HandleDictionary,
                  HandleHelp, HandleClear, HandleSet, HandleGet, FileObject, HandleInstantiate,
                  HandleCall, HandleDestroy
    <2>3. \A q \in Reqs : /\ resolved'[q] = IF outcome'[q] = "none" THEN 0 ELSE 1
                          /\ outcome'[q] = IF q \in {task} THEN result ELSE outcome[q]
      BY <2>1, <2>2, ResolveOnce DEF TasksRunOnce
    <2>4. task' = 0 /\ UNCHANGED <<tasks, reqPc>>
      BY <1>4 DEF RunTask
    <2> QED
      BY <1>0, <2>1, <2>3, <2>4 DEF TaskInv, TasksRunOnce
  <1> QED
    BY <1>2, <1>3, <1>4 DEF Worker

\* The owner keeps it: the promises that die with queue_ were never set.
LEMMA SessionOwnerTasks ==
    ASSUME TasksIndInv, SessionOwner
    PROVE  TaskInv' /\ TasksRunOnce'
  <1> USE DEF TasksIndInv
  <1>1. ASSUME UNCHANGED <<task, tasks, reqPc, outcome, resolved>>
        PROVE  TaskInv' /\ TasksRunOnce'
    BY <1>1 DEF TaskInv, TasksRunOnce
  <1>2. CASE Connect \/ Disconnect \/ DestroySession \/ StopStore \/ StopNotify \/ JoinWorker
    BY <1>1, <1>2 DEF Connect, Disconnect, DestroySession, StopStore, StopNotify, JoinWorker,
                      workerVars, futureVars
  <1>3. CASE Cleanup
    <2> DEFINE Left == {tasks[k] : k \in 1 .. Len(tasks)}
    <2>1. Left \in SUBSET Reqs
      BY DEF StandaloneTypeOK
    <2>2. /\ \A q \in Left : /\ outcome[q] = "none"
                            /\ reqPc[q] \in {"notify", "returned"}
                            /\ q # task
          /\ \A q \in Reqs : resolved[q] = IF outcome[q] = "none" THEN 0 ELSE 1
      BY DEF TasksRunOnce, TaskInv
    <2>3. Resolve(Left, "broken") /\ tasks' = << >> /\ UNCHANGED <<task, reqPc>>
      BY <1>3 DEF Cleanup, workerVars
    <2> HIDE DEF Left
    <2>4. \A q \in Reqs : /\ resolved'[q] = IF outcome'[q] = "none" THEN 0 ELSE 1
                          /\ outcome'[q] = IF q \in Left THEN "broken" ELSE outcome[q]
      BY <2>1, <2>2, <2>3, ResolveOnce
    <2>5. task # 0 => task \in Reqs
      BY StandaloneAssumption DEF StandaloneTypeOK, Reqs
    <2> QED
      BY <2>2, <2>3, <2>4, <2>5 DEF TaskInv, TasksRunOnce
  <1> QED
    BY <1>2, <1>3 DEF SessionOwner, SessionOwnerContinues

\* Whatever callers, worker and owner interleave to, a request is queued at
\* most once, its task runs at most once, and its promise is set at most once:
\* by the task, by enqueue() refusing it, or by the queue dying with it.
THEOREM TasksRunOnceHolds == StandaloneSpec => []TasksRunOnce
  <1>1. StandaloneInit => TaskInv /\ TasksRunOnce
    BY DEF StandaloneInit, StandaloneWith, TaskInv, TasksRunOnce
  <1>2. TasksIndInv /\ [StandaloneNext]_standaloneVars => TaskInv' /\ TasksRunOnce'
    <2> SUFFICES ASSUME TasksIndInv, [StandaloneNext]_standaloneVars
                 PROVE  TaskInv' /\ TasksRunOnce'
      OBVIOUS
    <2>1. CASE UNCHANGED standaloneVars
      BY <2>1 DEF TasksIndInv, TaskInv, TasksRunOnce, standaloneVars, workerVars, futureVars
    <2> QED
      BY <2>1, CallerTasks, WorkerTasks, SessionOwnerTasks DEF StandaloneNext
  <1> QED
    BY <1>1, <1>2, StandaloneTypeCorrect, PTL DEF StandaloneSpec, TasksIndInv
-----------------------------------------------------------------------------
(***************************************************************************)
(* __destruct runs exactly once.                                           *)
(***************************************************************************)
\* The table holds only ids that generate_id() has handed out.
IdsHandedOut == \A i \in objects : i <= nextId

\* The inductive invariant behind DestructedOnce.
ObjectsIndInv == StandaloneTypeOK /\ IdsHandedOut /\ DestructedOnce

\* No handler destructs an object twice or lets one leave the table without.
LEMMA DispatchObjects ==
    ASSUME ObjectsIndInv, Dispatch
    PROVE  IdsHandedOut' /\ DestructedOnce'
  <1> USE StandaloneAssumption DEF ObjectsIndInv
  <1>1. CASE UNCHANGED ctxVars
    BY <1>1 DEF ctxVars, IdsHandedOut, DestructedOnce
  <1>2. CASE FileObject
    BY <1>2 DEF FileObject, IdsHandedOut, DestructedOnce, StandaloneTypeOK, Ids
  <1>3. ASSUME NEW oid \in Ids, HandleDestroy(oid)
        PROVE  IdsHandedOut' /\ DestructedOnce'
    <2>1. /\ oid \in objects
          /\ destructed' = [destructed EXCEPT ![oid] = @ + 1]
          /\ objects' = objects \ {oid}
          /\ nextId' = nextId
      BY <1>3 DEF HandleDestroy
    <2>2. oid <= nextId /\ destructed[oid] = 0
      BY <2>1 DEF IdsHandedOut, DestructedOnce
    <2> QED
      BY <2>1, <2>2 DEF IdsHandedOut, DestructedOnce, StandaloneTypeOK
  <1> QED
    BY <1>1, <1>2, <1>3
       DEF Dispatch, Throws, HandleDescribe, HandleDictionary, HandleHelp, HandleClear,
           HandleSet, HandleGet, HandleInstantiate, HandleCall

\* Every object ever filed is still in the table, or has left it with
\* __destruct run exactly once, by a destroy task or by the destructor.
THEOREM DestructedOnceHolds == StandaloneSpec => []DestructedOnce
  <1>1. StandaloneInit => IdsHandedOut /\ DestructedOnce
    BY StandaloneAssumption DEF StandaloneInit, StandaloneWith, IdsHandedOut, DestructedOnce, Ids
  <1>2. ObjectsIndInv /\ [StandaloneNext]_standaloneVars => IdsHandedOut' /\ DestructedOnce'
    <2> SUFFICES ASSUME ObjectsIndInv, [StandaloneNext]_standaloneVars
                 PROVE  IdsHandedOut' /\ DestructedOnce'
      OBVIOUS
    <2>1. CASE UNCHANGED ctxVars
      BY <2>1 DEF ObjectsIndInv, IdsHandedOut, DestructedOnce, ctxVars
    <2>2. CASE RunTask
      BY <2>2, DispatchObjects DEF RunTask
    <2>3. CASE Cleanup
      <3>1. /\ destructed' = [i \in Ids |-> IF i \in objects THEN destructed[i] + 1
                                                           ELSE destructed[i]]
            /\ objects' = {}
            /\ nextId' = nextId
        BY <2>3 DEF Cleanup
      <3> QED
        BY <3>1 DEF ObjectsIndInv, IdsHandedOut, DestructedOnce, StandaloneTypeOK
    <2>4. UNCHANGED ctxVars \/ RunTask \/ Cleanup
      BY DEF StandaloneNext, Caller, EnqueueTask, PushTask, NotifyTask, Worker, TaskWaitCheck,
             TaskWaitBlock, SpuriousTaskWakeup, Pop, FoundEmpty, SessionOwner,
             SessionOwnerContinues, Connect, Disconnect, DestroySession, StopStore, StopNotify,
             JoinWorker, standaloneVars
    <2> QED
      BY <2>1, <2>2, <2>3, <2>4
  <1> QED
    BY <1>1, <1>2, StandaloneTypeCorrect, PTL DEF StandaloneSpec, ObjectsIndInv
-----------------------------------------------------------------------------
(***************************************************************************)
(* The line editor.                                                        *)
(***************************************************************************)
ConsoleSpec == ConsoleInit /\ [][ConsoleNext]_consoleVars

\* A byte, or the end of the input.
Symbols == 0 .. EndOfInput
Text == Seq(Symbols)
EditorRecs == [buffer : Text, cursor : Nat, history_index : Nat, draft : Text]
PageRecs == [at : Nat, before : Text, after : Text, typed : Text]
-----------------------------------------------------------------------------
(***************************************************************************)
(* Editing a sequence that is cut at the cursor.                           *)
(***************************************************************************)
\* The halves of a text cut at the cursor.
LEMMA CutFacts ==
    ASSUME NEW S, NEW a \in Seq(S), NEW b \in Seq(S)
    PROVE  /\ SubSeq(a \o b, 1, Len(a)) = a
           /\ SubSeq(a \o b, Len(a) + 1, Len(a \o b)) = b
  <1> DEFINE t == a \o b
  <1>1. /\ t \in Seq(S) /\ Len(a) \in Nat /\ Len(b) \in Nat /\ Len(t) = Len(a) + Len(b)
        /\ \A k \in 1 .. Len(a) : t[k] = a[k]
        /\ \A k \in 1 .. Len(b) : t[Len(a) + k] = b[k]
    BY ConcatFacts
  <1> HIDE DEF t
  <1>2. SubSeq(t, 1, Len(a)) = a
    <2> DEFINE s == SubSeq(t, 1, Len(a))
    <2>1. s \in Seq(S) /\ Len(s) = Len(a) /\ \A k \in 1 .. Len(a) : s[k] = t[k]
      BY <1>1
    <2> HIDE DEF s
    <2> QED BY <1>1, <2>1, SameSeq
  <1>3. SubSeq(t, Len(a) + 1, Len(t)) = b
    <2> DEFINE s == SubSeq(t, Len(a) + 1, Len(t))
    <2>1. s \in Seq(S) /\ Len(s) = Len(b) /\ \A k \in 1 .. Len(b) : s[k] = t[Len(a) + k]
      BY <1>1
    <2> HIDE DEF s
    <2>2. \A k \in 1 .. Len(s) : s[k] = b[k]
      BY <1>1, <2>1
    <2>3. s = b
      BY <2>1, <2>2, SameSeq
    <2> QED BY <2>3 DEF s
  <1> QED BY <1>2, <1>3 DEF t

\* A character is inserted at the cursor.
LEMMA InsertAtCursor ==
    ASSUME NEW S, NEW a \in Seq(S), NEW b \in Seq(S), NEW x \in S
    PROVE  /\ InsertAt(a \o b, Len(a) + 1, x) = Append(a, x) \o b
           /\ Append(a, x) \in Seq(S) /\ Len(Append(a, x)) = Len(a) + 1 /\ Append(a, x) # a
  <1>1. (Len(a) + 1) - 1 = Len(a) /\ Len(a) \in Nat
    OBVIOUS
  <1>2. InsertAt(a \o b, Len(a) + 1, x) = a \o <<x>> \o b
    BY <1>1, CutFacts DEF InsertAt
  <1>3. a \o <<x>> = Append(a, x)
    OBVIOUS
  <1>4. Append(a, x) \in Seq(S) /\ Len(Append(a, x)) = Len(a) + 1
    OBVIOUS
  <1>5. Append(a, x) # a
    <2> SUFFICES ASSUME Append(a, x) = a PROVE FALSE
      OBVIOUS
    <2>1. Len(a) = Len(a) + 1
      BY <1>4
    <2> QED BY <1>1, <2>1
  <1> QED BY <1>2, <1>3, <1>4, <1>5

\* A text before the cursor that is not empty: its last character.
LEMMA FrontFacts ==
    ASSUME NEW S, NEW a \in Seq(S), NEW b \in Seq(S), a # << >>
    PROVE  /\ Front(a) \in Seq(S) /\ Len(Front(a)) = Len(a) - 1 /\ Front(a) # a
           /\ Last(a) \in S /\ Len(a) \in Nat /\ Len(a) # 0
           /\ a = Append(Front(a), Last(a))
           /\ Front(a) \o (<<Last(a)>> \o b) = a \o b
           /\ RemoveAt(a \o b, Len(a)) = Front(a) \o b
  <1> DEFINE f == Front(a)
             x == Last(a)
  <1>1. Len(a) \in Nat /\ Len(a) # 0 /\ Len(a) - 1 \in Nat
    OBVIOUS
  <1>2. f \in Seq(S) /\ Len(f) = Len(a) - 1 /\ (\A k \in 1 .. Len(a) - 1 : f[k] = a[k])
        /\ x \in S /\ x = a[Len(a)]
    <2>1. f = SubSeq(a, 1, Len(a) - 1) /\ x = a[Len(a)]
      BY DEF Front, Last
    <2>2. x \in S
      BY <1>1, <2>1
    <2>3. f \in Seq(S) /\ Len(f) = Len(a) - 1
      <3> HIDE DEF f
      <3>1. 1 <= Len(a) /\ Len(a) - 1 <= Len(a)
        BY <1>1
      <3>2. \A k \in 1 .. Len(a) - 1 : a[k] \in S
        BY <1>1
      <3>3. SubSeq(a, 1, Len(a) - 1) = [k \in 1 .. Len(a) - 1 |-> a[k]]
        BY <1>1
      <3> DEFINE m == Len(a) - 1
      <3>4. m \in Nat /\ f = [k \in 1 .. m |-> a[k]] /\ \A k \in 1 .. m : a[k] \in S
        BY <1>1, <2>1, <3>2, <3>3
      <3> HIDE DEF m
      <3>5. f \in [1 .. m -> S]
        BY <3>4
      <3>6. f \in Seq(S) /\ Len(f) = m
        BY <3>4, <3>5
      <3> QED BY <3>6 DEF m
    <2>4. \A k \in 1 .. Len(a) - 1 : f[k] = a[k]
      BY <1>1, <2>1
    <2> QED BY <2>1, <2>2, <2>3, <2>4
  <1> HIDE DEF f, x
  <1>3. a = Append(f, x)
    BY <1>1, <1>2
  <1>4. <<x>> \o b \in Seq(S) /\ f \o <<x>> = a /\ f \o (<<x>> \o b) = (f \o <<x>>) \o b
    BY <1>1, <1>2, <1>3
  <1>5. RemoveAt(a \o b, Len(a)) = f \o b
    <2>1. a \o b = f \o (<<x>> \o b)
      BY <1>4
    <2>2. SubSeq(a \o b, 1, Len(a) - 1) = f
      BY <1>2, <1>4, <2>1, CutFacts
    <2>3. SubSeq(a \o b, Len(a) + 1, Len(a \o b)) = b
      BY CutFacts
    <2> QED BY <2>2, <2>3 DEF RemoveAt
  <1>6. f # a
    BY <1>1, <1>2, SMTT(40)
  <1> QED BY <1>1, <1>2, <1>3, <1>4, <1>5, <1>6 DEF f, x

\* A text behind the cursor that is not empty: its first character.
LEMMA TailFacts ==
    ASSUME NEW S, NEW a \in Seq(S), NEW b \in Seq(S), b # << >>
    PROVE  /\ Tail(b) \in Seq(S) /\ Tail(b) # b /\ Head(b) \in S
           /\ Append(a, Head(b)) \in Seq(S) /\ Len(Append(a, Head(b))) = Len(a) + 1
           /\ Append(a, Head(b)) \o Tail(b) = a \o b
           /\ RemoveAt(a \o b, Len(a) + 1) = a \o Tail(b)
  <1> DEFINE u == Tail(b)
             x == Head(b)
             p == Append(a, x)
  <1>1. u \in Seq(S) /\ x \in S /\ Len(u) = Len(b) - 1 /\ Len(b) \in Nat /\ u # b
        /\ b = <<x>> \o u
    OBVIOUS
  <1> HIDE DEF u, x
  <1>2. p \in Seq(S) /\ Len(p) = Len(a) + 1 /\ Len(a) \in Nat /\ p = a \o <<x>>
    BY <1>1
  <1>3. p \o u = a \o b
    BY <1>1, <1>2
  <1> HIDE DEF p
  <1>4. RemoveAt(a \o b, Len(a) + 1) = a \o u
    <2>1. (Len(a) + 1) - 1 = Len(a) /\ (Len(a) + 1) + 1 = Len(p) + 1
      BY <1>2
    <2>2. SubSeq(a \o b, 1, Len(a)) = a
      BY CutFacts
    <2>3. SubSeq(a \o b, Len(p) + 1, Len(a \o b)) = u
      BY <1>1, <1>2, <1>3, CutFacts
    <2> QED BY <2>1, <2>2, <2>3 DEF RemoveAt
  <1> QED BY <1>1, <1>2, <1>3, <1>4 DEF u, x, p
\* The same of the text of a line.
LEMMA TextFacts ==
    ASSUME NEW b \in Text, NEW a \in Text, NEW x \in Symbols
    PROVE  /\ InsertAt(b \o a, Len(b) + 1, x) = Append(b, x) \o a
           /\ Append(b, x) \in Text /\ Len(Append(b, x)) = Len(b) + 1 /\ Append(b, x) # b
           /\ a # << >> => /\ Len(b) < Len(b \o a)
                           /\ Tail(a) \in Text /\ Tail(a) # a
                           /\ Append(b, Head(a)) \in Text /\ Len(Append(b, Head(a))) = Len(b) + 1
                           /\ Append(b, Head(a)) \o Tail(a) = b \o a
                           /\ RemoveAt(b \o a, Len(b) + 1) = b \o Tail(a)
  <1> DEFINE S == Symbols
  <1>1. Text = Seq(S) /\ b \in Seq(S) /\ a \in Seq(S) /\ x \in S
    BY DEF Text
  <1> HIDE DEF S
  <1>2. /\ InsertAt(b \o a, Len(b) + 1, x) = Append(b, x) \o a
        /\ Append(b, x) \in Seq(S) /\ Len(Append(b, x)) = Len(b) + 1 /\ Append(b, x) # b
    BY <1>1, InsertAtCursor
  <1>3. ASSUME a # << >>
        PROVE  /\ Tail(a) \in Seq(S) /\ Tail(a) # a
               /\ Append(b, Head(a)) \in Seq(S) /\ Len(Append(b, Head(a))) = Len(b) + 1
               /\ Append(b, Head(a)) \o Tail(a) = b \o a
               /\ RemoveAt(b \o a, Len(b) + 1) = b \o Tail(a)
    BY ONLY <1>1, <1>3, TailFacts, SMTT(40)
  <1>4. ASSUME a # << >> PROVE Len(b) < Len(b \o a)
    <2>1. Len(b) \in Nat /\ Len(a) \in Nat /\ Len(b \o a) = Len(b) + Len(a)
      BY <1>1, ConcatFacts
    <2>2. Len(a) # 0
      BY <1>1, <1>4
    <2> DEFINE m == Len(b)
               k == Len(a)
    <2>3. m < m + k
      <3> HIDE DEF m, k
      <3>1. m \in Nat /\ k \in Nat /\ k # 0
        BY <2>1, <2>2 DEF m, k
      <3> QED BY <3>1
    <2> QED BY <2>1, <2>3
  <1> QED BY <1>1, <1>2, <1>3, <1>4
-----------------------------------------------------------------------------
(***************************************************************************)
(* One keystroke.                                                          *)
(***************************************************************************)
\* LineAsTyped for an editor and a page, with their types.
Agrees(ed, pg) ==
    /\ ed \in EditorRecs /\ pg \in PageRecs
    /\ ed.buffer = pg.before \o pg.after
    /\ ed.cursor = Len(pg.before)
    /\ ed.history_index \in 0 .. Len(history)
    /\ pg.at = IF ed.history_index = 0 THEN Len(history) + 1 ELSE ed.history_index
    /\ ed.history_index # 0 => ed.draft = pg.typed

\* The keystrokes that apply() knows.
Keys == {"char", "backspace", "delete", "eof", "left", "right", "home", "end", "up", "down",
         "interrupt", "ignored"}

\* A new line.
LEMMA NewAgrees ==
    ASSUME history \in Seq(Text)
    PROVE  Agrees(NewEditor, NewPage)
  <1>1. << >> \in Text /\ Len(<< >>) = 0 /\ << >> \o << >> = << >> /\ Len(history) \in Nat
        /\ Len(history) + 1 \in Nat /\ 0 \in 0 .. Len(history)
    BY DEF Text
  <1>2. NewEditor \in EditorRecs /\ NewPage \in PageRecs
    BY <1>1 DEF NewEditor, NewPage, EditorRecs, PageRecs
  <1> QED BY <1>1, <1>2 DEF NewEditor, NewPage, Agrees

\* Text is changed: a new line at the bottom of the page.
LEMMA EditedAgrees ==
    ASSUME history \in Seq(Text), Agrees(editor, page), NEW b \in Text, NEW a \in Text,
           <<b, a>> # <<page.before, page.after>>
    PROVE  Agrees(Edited(editor, b \o a, Len(b)), Typed(b, a))
  <1> DEFINE ed == [editor EXCEPT !.buffer = b \o a, !.cursor = Len(b), !.history_index = 0]
             pg == [page EXCEPT !.at = Len(history) + 1, !.before = b, !.after = a]
  <1>1. Edited(editor, b \o a, Len(b)) = ed /\ Typed(b, a) = pg
    BY DEF Edited, Typed
  <1>2. b \o a \in Text /\ Len(b) \in Nat /\ Len(history) + 1 \in Nat /\ Len(history) \in Nat
    BY DEF Text
  <1>3. editor \in EditorRecs /\ page \in PageRecs
    BY DEF Agrees
  <1>4. /\ ed \in EditorRecs /\ ed.buffer = b \o a /\ ed.cursor = Len(b) /\ ed.history_index = 0
        /\ pg \in PageRecs /\ pg.at = Len(history) + 1 /\ pg.before = b /\ pg.after = a
    BY <1>2, <1>3 DEF EditorRecs, PageRecs
  <1> HIDE DEF ed, pg
  <1>5. Agrees(ed, pg)
    BY <1>2, <1>4 DEF Agrees
  <1> QED BY <1>1, <1>5

\* The cursor moves within the text.
LEMMA MovedAgrees ==
    ASSUME Agrees(editor, page), NEW b \in Text, NEW a \in Text,
           b \o a = page.before \o page.after
    PROVE  Agrees([editor EXCEPT !.cursor = Len(b)], [page EXCEPT !.before = b, !.after = a])
  <1> DEFINE ed == [editor EXCEPT !.cursor = Len(b)]
             pg == [page EXCEPT !.before = b, !.after = a]
  <1>1. Len(b) \in Nat
    BY DEF Text
  <1>2. /\ ed \in EditorRecs /\ ed.buffer = editor.buffer /\ ed.cursor = Len(b)
        /\ ed.history_index = editor.history_index /\ ed.draft = editor.draft
        /\ pg \in PageRecs /\ pg.at = page.at /\ pg.before = b /\ pg.after = a
        /\ pg.typed = page.typed
    BY <1>1 DEF Agrees, EditorRecs, PageRecs
  <1> HIDE DEF ed, pg
  <1>3. Agrees(ed, pg)
    BY <1>2 DEF Agrees
  <1> QED BY <1>3 DEF ed, pg

\* A line of the history is recalled.
LEMMA RecalledAgrees ==
    ASSUME history \in Seq(Text), NEW ed \in EditorRecs, NEW i \in 1 .. Len(history)
    PROVE  Agrees(Recalled(ed, i), [at |-> i, after |-> << >>, typed |-> ed.draft,
                                    before |-> history[i]])
  <1> DEFINE new == [ed EXCEPT !.history_index = i, !.buffer = history[i],
                               !.cursor = Len(history[i])]
             pg == [at |-> i, after |-> << >>, typed |-> ed.draft, before |-> history[i]]
  <1>1. history[i] \in Text /\ i \in Nat /\ i # 0 /\ Len(history[i]) \in Nat /\ << >> \in Text
        /\ history[i] \o << >> = history[i] /\ i \in 0 .. Len(history)
    BY DEF Text
  <1>2. /\ new \in EditorRecs /\ new.buffer = history[i] /\ new.cursor = Len(history[i])
        /\ new.history_index = i /\ new.draft = ed.draft
        /\ pg \in PageRecs /\ pg.at = i /\ pg.before = history[i] /\ pg.after = << >>
        /\ pg.typed = ed.draft
    BY <1>1 DEF EditorRecs, PageRecs
  <1>3. Recalled(ed, i) = new
    BY DEF Recalled
  <1> HIDE DEF new, pg
  <1>4. Agrees(new, pg)
    BY <1>1, <1>2 DEF Agrees
  <1> QED BY <1>3, <1>4 DEF pg

\* Up and down in the history: navigate_history() against the page.
LEMMA NavigateAgrees ==
    ASSUME history \in Seq(Text), Agrees(editor, page)
    PROVE  /\ Agrees(navigate_history(editor, TRUE), Turned(page.at - 1))
           /\ Agrees(navigate_history(editor, FALSE), Turned(page.at + 1))
  <1> DEFINE n == Len(history)
             i == editor.history_index
  <1>1. /\ n \in Nat /\ i \in 0 .. n /\ page.at = IF i = 0 THEN n + 1 ELSE i
        /\ editor \in EditorRecs /\ page \in PageRecs /\ editor.draft \in Text
        /\ editor.buffer = page.before \o page.after /\ editor.buffer \in Text
        /\ i # 0 => editor.draft = page.typed
    <2>1. editor \in EditorRecs /\ page \in PageRecs
      BY DEF Agrees
    <2>2. editor.draft \in Text /\ editor.buffer \in Text
      BY <2>1 DEF EditorRecs
    <2>3. n \in Nat
      OBVIOUS
    <2>4. /\ i \in 0 .. n /\ page.at = IF i = 0 THEN n + 1 ELSE i
          /\ editor.buffer = page.before \o page.after
          /\ i # 0 => editor.draft = page.typed
      BY DEF Agrees
    <2> QED BY <2>1, <2>2, <2>3, <2>4
  <1>2. history = << >> <=> n = 0
    OBVIOUS
  <1>3. CASE i = 0
    <2>1. page.at = n + 1 /\ page.at > n
      BY <1>1, <1>3
    <2>2. navigate_history(editor, FALSE) = editor
      BY <1>3 DEF navigate_history
    <2>3. Turned(page.at + 1) = page
      <3>1. page.at + 1 \notin 1 .. n + 1
        BY <1>1, <2>1
      <3> QED BY <3>1 DEF Turned
    <2>4. CASE n = 0
      <3>1. navigate_history(editor, TRUE) = editor
        BY <1>2, <1>3, <2>4 DEF navigate_history
      <3>2. page.at - 1 \notin 1 .. n + 1
        BY <1>1, <2>1, <2>4
      <3>3. Turned(page.at - 1) = page
        BY <3>2 DEF Turned
      <3> QED BY <2>2, <2>3, <3>1, <3>3
    <2>5. CASE n # 0
      <3> DEFINE ed == [editor EXCEPT !.draft = editor.buffer]
      <3>1. navigate_history(editor, TRUE) = Recalled(ed, n)
        BY <1>2, <1>3, <2>5 DEF navigate_history
      <3>2. ed \in EditorRecs /\ ed.draft = editor.buffer
        BY <1>1 DEF EditorRecs
      <3>3. n \in 1 .. n + 1 /\ n # page.at /\ ~(n > n) /\ page.at - 1 = n /\ n \in 1 .. n
        BY <1>1, <2>1, <2>5
      <3>4. Turned(n) = [at |-> n, after |-> << >>, typed |-> page.before \o page.after,
                         before |-> history[n]]
        BY <2>1, <3>3 DEF Turned
      <3> HIDE DEF ed
      <3>5. Agrees(Recalled(ed, n), Turned(n))
        BY <1>1, <3>2, <3>3, <3>4, RecalledAgrees
      <3> QED BY <2>2, <2>3, <3>1, <3>3, <3>5
    <2> QED BY <2>4, <2>5
  <1>4. CASE i # 0
    <2>1. page.at = i /\ ~(page.at > n) /\ n # 0 /\ i \in 1 .. n /\ history # << >>
          /\ editor.draft = page.typed
      BY <1>1, <1>2, <1>4
    <2>2. ASSUME NEW k \in 1 .. n, k # i
          PROVE  Agrees(Recalled(editor, k), Turned(k))
      <3>1. k \in 1 .. n + 1 /\ ~(k > n)
        BY <1>1
      <3>2. Turned(k) = [at |-> k, after |-> << >>, typed |-> page.typed, before |-> history[k]]
        BY <2>1, <2>2, <3>1 DEF Turned
      <3> QED BY <1>1, <2>1, <3>2, RecalledAgrees
    <2>3. Agrees(navigate_history(editor, TRUE), Turned(page.at - 1))
      <3>1. CASE i = 1
        <4>1. navigate_history(editor, TRUE) = editor
          BY <1>4, <2>1, <3>1 DEF navigate_history
        <4>2. Turned(page.at - 1) = page
          BY <1>1, <2>1, <3>1 DEF Turned
        <4> QED BY <4>1, <4>2
      <3>2. CASE i # 1
        <4>1. navigate_history(editor, TRUE) = Recalled(editor, i - 1)
          BY <1>4, <2>1, <3>2 DEF navigate_history
        <4>2. i - 1 \in 1 .. n /\ i - 1 # i
          BY <2>1, <3>2
        <4> QED BY <2>1, <2>2, <4>1, <4>2
      <3> QED BY <3>1, <3>2
    <2>4. Agrees(navigate_history(editor, FALSE), Turned(page.at + 1))
      <3>1. CASE i < n
        <4>1. navigate_history(editor, FALSE) = Recalled(editor, i + 1)
          BY <1>4, <2>1, <3>1 DEF navigate_history
        <4>2. i + 1 \in 1 .. n /\ i + 1 # i
          BY <1>1, <2>1, <3>1
        <4> QED BY <2>1, <2>2, <4>1, <4>2
      <3>2. CASE ~(i < n)
        <4> DEFINE ed == [editor EXCEPT !.history_index = 0, !.buffer = editor.draft,
                                        !.cursor = Len(editor.draft)]
                   pg == [at |-> n + 1, after |-> << >>, typed |-> page.typed, before |-> page.typed]
        <4>1. navigate_history(editor, FALSE) = ed
          BY <1>4, <2>1, <3>2 DEF navigate_history
        <4>2. page.at + 1 = n + 1 /\ n + 1 # page.at /\ n + 1 > n /\ n + 1 \in 1 .. n + 1
              /\ n + 1 \in Nat
          BY <1>1, <2>1, <3>2
        <4>3. Turned(n + 1) = pg
          BY <2>1, <4>2 DEF Turned
        <4>4. Len(editor.draft) \in Nat /\ << >> \in Text /\ editor.draft \o << >> = editor.draft
              /\ 0 \in 0 .. n
          BY <1>1 DEF Text
        <4>5. /\ ed \in EditorRecs /\ ed.buffer = editor.draft /\ ed.cursor = Len(editor.draft)
              /\ ed.history_index = 0
          BY <1>1, <4>4 DEF EditorRecs
        <4>6. /\ pg \in PageRecs /\ pg.at = n + 1 /\ pg.before = editor.draft /\ pg.after = << >>
          BY <1>1, <2>1, <4>2, <4>4 DEF PageRecs
        <4> HIDE DEF ed, pg
        <4>7. Agrees(ed, pg)
          BY <4>4, <4>5, <4>6 DEF Agrees
        <4> QED BY <4>1, <4>2, <4>3, <4>7
      <3> QED BY <3>1, <3>2
    <2> QED BY <2>3, <2>4
  <1> QED BY <1>3, <1>4

\* Every keystroke leaves text, cursor and place in the history as the user
\* sees them.
LEMMA KeyAgrees ==
    ASSUME history \in Seq(Text), Agrees(editor, page), NEW key \in Keys, NEW ch \in Symbols
    PROVE  Agrees(apply(editor, key, ch), PageAfter(key, ch))
  <1> DEFINE b == page.before
             a == page.after
  <1>1. editor \in EditorRecs /\ page \in PageRecs
    BY DEF Agrees
  <1>2. b \in Seq(Symbols) /\ a \in Seq(Symbols) /\ Text = Seq(Symbols)
    BY <1>1 DEF PageRecs, Text
  <1>3. editor.buffer = b \o a /\ editor.cursor = Len(b) /\ Len(b) \in Nat /\ Len(a) \in Nat
        /\ Len(b \o a) = Len(b) + Len(a) /\ b \o a \in Text
    BY <1>2, ConcatFacts DEF Agrees
  <1>4. (b = << >> <=> Len(b) = 0) /\ (a = << >> <=> Len(a) = 0)
    BY <1>2
  <1>5. [editor EXCEPT !.cursor = editor.cursor] = editor
    BY <1>1 DEF EditorRecs
  <1>6. CASE key = "char"
    <2>1. apply(editor, key, ch) = Edited(editor, InsertAt(b \o a, Len(b) + 1, ch), Len(b) + 1)
      BY <1>3, <1>6 DEF apply
    <2>2. PageAfter(key, ch) = Typed(Append(b, ch), a)
      BY <1>6 DEF PageAfter
    <2>3. InsertAt(b \o a, Len(b) + 1, ch) = Append(b, ch) \o a /\ Append(b, ch) \in Text
          /\ Len(Append(b, ch)) = Len(b) + 1 /\ Append(b, ch) # b
      <3> HIDE DEF b, a
      <3>1. b \in Text /\ a \in Text
        BY <1>2
      <3> QED BY <3>1, TextFacts
    <2>4. <<Append(b, ch), a>> # <<page.before, page.after>>
      BY <2>3
    <2>5. Agrees(Edited(editor, Append(b, ch) \o a, Len(Append(b, ch))), Typed(Append(b, ch), a))
      BY <1>2, <2>3, <2>4, EditedAgrees
    <2> QED BY <2>1, <2>2, <2>3, <2>5
  <1>7. CASE key = "backspace"
    <2>1. PageAfter(key, ch) = Typed(IF b = << >> THEN b ELSE Front(b), a)
      BY <1>7 DEF PageAfter
    <2>2. CASE b = << >>
      <3>1. apply(editor, key, ch) = editor
        BY <1>3, <1>4, <1>7, <2>2 DEF apply
      <3>2. PageAfter(key, ch) = page
        BY <2>1, <2>2 DEF Typed
      <3> QED BY <3>1, <3>2
    <2>3. CASE b # << >>
      <3>1. apply(editor, key, ch) = Edited(editor, RemoveAt(b \o a, Len(b)), Len(b) - 1)
        BY <1>3, <1>4, <1>7, <2>3 DEF apply
      <3>2. RemoveAt(b \o a, Len(b)) = Front(b) \o a /\ Front(b) \in Text
            /\ Len(Front(b)) = Len(b) - 1 /\ Front(b) # b
        BY <1>2, <2>3, FrontFacts
      <3>3. <<Front(b), a>> # <<page.before, page.after>>
        BY <3>2
      <3>4. Agrees(Edited(editor, Front(b) \o a, Len(Front(b))), Typed(Front(b), a))
        BY <1>2, <3>2, <3>3, EditedAgrees
      <3> QED BY <2>1, <2>3, <3>1, <3>2, <3>4
    <2> QED BY <2>2, <2>3
  <1>8. CASE key \in {"delete", "eof"}
    <2>1. PageAfter(key, ch) = Typed(b, IF a = << >> THEN a ELSE Tail(a))
      BY <1>8 DEF PageAfter
    <2>2. apply(editor, key, ch) = DeleteForward(editor)
      BY <1>8 DEF apply
    <2>3. CASE a = << >>
      <3>1. DeleteForward(editor) = editor
        BY <1>3, <1>4, <2>3 DEF DeleteForward
      <3>2. PageAfter(key, ch) = page
        BY <2>1, <2>3 DEF Typed
      <3> QED BY <2>2, <3>1, <3>2
    <2>4. CASE a # << >>
      <3>1. Len(b) < Len(b \o a)
        BY <1>2, <2>4, TextFacts
      <3>2. DeleteForward(editor) = Edited(editor, RemoveAt(b \o a, Len(b) + 1), Len(b))
        BY <1>3, <3>1 DEF DeleteForward
      <3>3. RemoveAt(b \o a, Len(b) + 1) = b \o Tail(a) /\ Tail(a) \in Text /\ Tail(a) # a
        BY <1>2, <2>4, TextFacts
      <3>4. <<b, Tail(a)>> # <<page.before, page.after>>
        BY <3>3
      <3>5. Agrees(Edited(editor, b \o Tail(a), Len(b)), Typed(b, Tail(a)))
        BY <1>2, <3>3, <3>4, EditedAgrees
      <3> QED BY <2>1, <2>2, <2>4, <3>2, <3>3, <3>5
    <2> QED BY <2>3, <2>4
  <1>9. CASE key = "left"
    <2>1. CASE b = << >>
      <3>1. apply(editor, key, ch) = [editor EXCEPT !.cursor = editor.cursor]
        BY <1>3, <1>4, <1>9, <2>1 DEF apply
      <3>2. PageAfter(key, ch) = page
        BY <1>9, <2>1, SMTT(40) DEF PageAfter
      <3> QED BY <1>5, <3>1, <3>2
    <2>2. CASE b # << >>
      <3>1. Front(b) \in Text /\ Len(Front(b)) = Len(b) - 1 /\ Last(b) \in Symbols
            /\ Front(b) \o (<<Last(b)>> \o a) = b \o a /\ <<Last(b)>> \o a \in Text
        <4>1. Front(b) \in Text /\ Len(Front(b)) = Len(b) - 1 /\ Last(b) \in Symbols
              /\ Front(b) \o (<<Last(b)>> \o a) = b \o a
          BY <1>2, <2>2, FrontFacts, ZenonT(40)
        <4>2. <<Last(b)>> \in Seq(Symbols)
          BY <4>1
        <4>3. <<Last(b)>> \o a \in Text
          BY <1>2, <4>2, ConcatFacts
        <4> QED BY <4>1, <4>3
      <3>2. apply(editor, key, ch) = [editor EXCEPT !.cursor = Len(Front(b))]
        BY <1>3, <1>4, <1>9, <2>2, <3>1 DEF apply
      <3>3. PageAfter(key, ch) = [page EXCEPT !.before = Front(b), !.after = <<Last(b)>> \o a]
        BY <1>9, <2>2 DEF PageAfter
      <3> QED BY <3>1, <3>2, <3>3, MovedAgrees
    <2> QED BY <2>1, <2>2
  <1>10. CASE key = "right"
    <2>1. CASE a = << >>
      <3>1. apply(editor, key, ch) = [editor EXCEPT !.cursor = editor.cursor]
        BY <1>3, <1>4, <1>10, <2>1 DEF apply
      <3>2. PageAfter(key, ch) = page
        BY <1>10, <2>1, SMTT(40) DEF PageAfter
      <3> QED BY <1>5, <3>1, <3>2
    <2>2. CASE a # << >>
      <3>1. Append(b, Head(a)) \in Text /\ Len(Append(b, Head(a))) = Len(b) + 1
            /\ Append(b, Head(a)) \o Tail(a) = b \o a /\ Tail(a) \in Text
        BY <1>2, <2>2, TextFacts, ZenonT(40)
      <3>2. Len(b) < Len(b \o a)
        BY <1>2, <2>2, TextFacts
      <3>3. apply(editor, key, ch) = [editor EXCEPT !.cursor = Len(Append(b, Head(a)))]
        BY <1>3, <1>10, <3>1, <3>2 DEF apply
      <3>4. PageAfter(key, ch) = [page EXCEPT !.before = Append(b, Head(a)), !.after = Tail(a)]
        BY <1>10, <2>2 DEF PageAfter
      <3> QED BY <3>1, <3>3, <3>4, MovedAgrees
    <2> QED BY <2>1, <2>2
  <1>11. << >> \in Text /\ Len(<< >>) = 0 /\ << >> \o (b \o a) = b \o a /\ (b \o a) \o << >> = b \o a
    BY <1>2, <1>3, SMTT(40)
  <1>12. CASE key = "home"
    <2>1. apply(editor, key, ch) = [editor EXCEPT !.cursor = Len(<< >>)]
      BY <1>11, <1>12 DEF apply
    <2>2. PageAfter(key, ch) = [page EXCEPT !.before = << >>, !.after = b \o a]
      BY <1>12 DEF PageAfter
    <2> QED BY <1>3, <1>11, <2>1, <2>2, MovedAgrees, ZenonT(40)
  <1>13. CASE key = "end"
    <2>1. apply(editor, key, ch) = [editor EXCEPT !.cursor = Len(b \o a)]
      BY <1>3, <1>13 DEF apply
    <2>2. PageAfter(key, ch) = [page EXCEPT !.before = b \o a, !.after = << >>]
      BY <1>13 DEF PageAfter
    <2> QED BY <1>3, <1>11, <2>1, <2>2, MovedAgrees
  <1>14. CASE key \in {"up", "down"}
    <2>2. CASE key = "up"
      <3>1. apply(editor, key, ch) = navigate_history(editor, TRUE)
            /\ PageAfter(key, ch) = Turned(page.at - 1)
        BY <2>2 DEF apply, PageAfter
      <3> QED BY <3>1, NavigateAgrees
    <2>3. CASE key = "down"
      <3>1. apply(editor, key, ch) = navigate_history(editor, FALSE)
            /\ PageAfter(key, ch) = Turned(page.at + 1)
        BY <2>3 DEF apply, PageAfter
      <3> QED BY <3>1, NavigateAgrees
    <2> QED BY <1>14, <2>2, <2>3
  <1>15. CASE key = "interrupt"
    <2>1. apply(editor, key, ch) = NewEditor /\ PageAfter(key, ch) = NewPage
      BY <1>15 DEF apply, PageAfter
    <2> QED BY <2>1, NewAgrees
  <1>16. CASE key = "ignored"
    <2>1. apply(editor, key, ch) = editor /\ PageAfter(key, ch) = page
      BY <1>16 DEF apply, PageAfter
    <2> QED BY <2>1
  <1> QED
    BY <1>6, <1>7, <1>8, <1>9, <1>10, <1>12, <1>13, <1>14, <1>15, <1>16 DEF Keys
-----------------------------------------------------------------------------
(***************************************************************************)
(* The threads that feed and read.                                         *)
(***************************************************************************)
EditorInv ==
    /\ fed \in [bytes : Seq(0 .. 255), eof : BOOLEAN]
    /\ decoding \in Text
    /\ history \in Seq(Text)
    /\ editor \in EditorRecs
    /\ reading = "reading" => Agrees(editor, page)

\* Any bytes are a keystroke, or the start of one.
LEMMA DecodedKeys ==
    ASSUME NEW s
    PROVE  decode_byte_stream(s) \in Keys \cup {"enter", "more"}
  <1> DEFINE c == s[1]
  <1>1. EscapeCode(s[3]) \in Keys \cup {"more"}
    BY DEF EscapeCode, Keys
  <1>2. EscapeTilde(s[3]) \in Keys
    BY DEF EscapeTilde, Keys
  <1> DEFINE third == EscapeCode(s[3])
             fourth == EscapeTilde(s[3])
  <1> HIDE DEF third, fourth
  <1> QED BY <1>1, <1>2 DEF decode_byte_stream, Keys

\* The byte that is taken from the queue.
LEMMA PoppedFacts ==
    ASSUME fed \in [bytes : Seq(0 .. 255), eof : BOOLEAN], decoding \in Text, pop_fed_byte
    PROVE  /\ Append(decoding, Popped) \in Text
           /\ Append(decoding, Popped)[1] \in Symbols
           /\ fed' \in [bytes : Seq(0 .. 255), eof : BOOLEAN]
  <1> DEFINE bs == fed.bytes
             x == Popped
             s == Append(decoding, x)
  <1>1. bs \in Seq(0 .. 255) /\ fed.eof \in BOOLEAN
    OBVIOUS
  <1>2. bs # << >> => Tail(bs) \in Seq(0 .. 255) /\ Head(bs) \in 0 .. 255
    BY <1>1, TailFacts
  <1>3. x \in Symbols
    <2>1. EndOfInput \in Symbols /\ \A k \in 0 .. 255 : k \in Symbols
      BY DEF Symbols, EndOfInput
    <2>2. CASE bs # << >>
      BY <1>2, <2>1, <2>2 DEF Popped
    <2>3. CASE bs = << >>
      BY <2>1, <2>3 DEF Popped
    <2> QED BY <2>2, <2>3
  <1> HIDE DEF x
  <1>4. s \in Seq(Symbols) /\ s[1] \in Symbols
    <2>1. decoding \in Seq(Symbols)
      BY DEF Text
    <2>2. s \in Seq(Symbols) /\ Len(s) = Len(decoding) + 1 /\ Len(decoding) \in Nat
      BY <1>3, <2>1
    <2> HIDE DEF s
    <2>3. 1 \in 1 .. Len(s)
      BY <2>2
    <2> QED BY <2>2, <2>3
  <1>5. fed' \in [bytes : Seq(0 .. 255), eof : BOOLEAN]
    <2> DEFINE nb == IF bs = << >> THEN bs ELSE Tail(bs)
    <2>1. fed' = [fed EXCEPT !.bytes = nb]
      BY DEF pop_fed_byte
    <2>2. nb \in Seq(0 .. 255)
      BY <1>1, <1>2
    <2> HIDE DEF nb
    <2> QED BY <2>1, <2>2
  <1> QED BY <1>4, <1>5 DEF Text, x

LEMMA EditorInitially == ConsoleInit => EditorInv
  <1> SUFFICES ASSUME ConsoleInit PROVE EditorInv
    OBVIOUS
  <1>1. << >> \in Seq(0 .. 255) /\ << >> \in Text /\ << >> \in Seq(Text)
    BY DEF Text
  <1>2. NewEditor \in EditorRecs
    BY <1>1 DEF NewEditor, EditorRecs
  <1>3. reading # "reading"
    BY DEF ConsoleInit
  <1>4. fed = [bytes |-> << >>, eof |-> FALSE] /\ decoding = << >> /\ history = << >>
        /\ editor = NewEditor
    BY DEF ConsoleInit
  <1>5. fed \in [bytes : Seq(0 .. 255), eof : BOOLEAN]
    BY <1>1, <1>4
  <1> QED BY <1>1, <1>2, <1>3, <1>4, <1>5 DEF EditorInv

\* Agrees() is about the history too.
LEMMA AgreesNext ==
    ASSUME NEW ed, NEW pg, Agrees(ed, pg), editor' = ed, page' = pg, history' = history
    PROVE  Agrees(editor, page)'
  BY DEF Agrees

\* The text that was submitted goes to the history.
LEMMA SubmittedHistory ==
    ASSUME history \in Seq(Text), NEW line \in Text
    PROVE  Append(history, line) \in Seq(Text)
  OBVIOUS

\* A keystroke.
LEMMA KeystrokeKeeps ==
    ASSUME EditorInv, Keystroke
    PROVE  EditorInv'
  <1> DEFINE s == Append(decoding, Popped)
             key == decode_byte_stream(s)
  <1>1. reading = "reading" /\ key # "more" /\ pop_fed_byte /\ decoding' = << >>
    BY DEF Keystroke
  <1>2. /\ CASE LineOutcome(key) = "submitted" ->
                 /\ reading' = "idle"
                 /\ history' = IF editor.buffer = << >> THEN history
                               ELSE IF history # << >> /\ Last(history) = editor.buffer THEN history
                               ELSE Append(history, editor.buffer)
                 /\ UNCHANGED <<editor, page>>
            [] LineOutcome(key) = "eof" -> reading' = "over" /\ UNCHANGED <<editor, history, page>>
            [] LineOutcome(key) = "editing" ->
                 /\ editor' = apply(editor, key, s[1])
                 /\ page' = PageAfter(key, s[1])
                 /\ UNCHANGED <<reading, history>>
    BY DEF Keystroke
  <1>3. key \in Keys \cup {"enter", "more"}
    BY DecodedKeys
  <1>4. s[1] \in Symbols /\ fed' \in [bytes : Seq(0 .. 255), eof : BOOLEAN]
    BY <1>1, PoppedFacts DEF EditorInv
  <1>5. decoding' \in Text
    BY <1>1 DEF Text
  <1>6. Agrees(editor, page) /\ history \in Seq(Text) /\ editor \in EditorRecs
        /\ editor.buffer \in Text
    BY <1>1 DEF EditorInv, EditorRecs
  <1> HIDE DEF key, s
  <1>7. CASE LineOutcome(key) = "submitted"
    <2>1. reading' = "idle" /\ editor' = editor
          /\ (history' = history \/ history' = Append(history, editor.buffer))
      BY <1>2, <1>7
    <2>2. history' \in Seq(Text)
      BY <1>6, <2>1, SubmittedHistory
    <2> QED BY <1>4, <1>5, <1>6, <2>1, <2>2 DEF EditorInv
  <1>8. CASE LineOutcome(key) = "eof"
    <2>1. reading' = "over" /\ editor' = editor /\ history' = history
      BY <1>2, <1>8
    <2> QED BY <1>4, <1>5, <1>6, <2>1 DEF EditorInv
  <1>9. CASE LineOutcome(key) = "editing"
    <2>1. key \in Keys
      BY <1>1, <1>3, <1>9 DEF LineOutcome
    <2>2. Agrees(apply(editor, key, s[1]), PageAfter(key, s[1]))
      BY <1>4, <1>6, <2>1, KeyAgrees
    <2>3. editor' = apply(editor, key, s[1]) /\ page' = PageAfter(key, s[1])
          /\ history' = history
      BY <1>2, <1>9
    <2>4. Agrees(editor, page)'
      BY <2>2, <2>3, AgreesNext
    <2>5. editor' \in EditorRecs
      BY <2>4 DEF Agrees
    <2> QED BY <1>4, <1>5, <1>6, <2>3, <2>4, <2>5 DEF EditorInv
  <1> QED BY <1>7, <1>8, <1>9 DEF LineOutcome

\* A chunk that the terminal sends.
LEMMA PassthroughKeeps ==
    ASSUME EditorInv, NEW chunk \in ChunksSent, Passthrough(chunk)
    PROVE  EditorInv'
  <1>1. chunk \in Seq(0 .. 255)
    BY ConsoleAssumption DEF ChunksSent
  <1>2. fed.bytes \in Seq(0 .. 255) /\ fed.eof \in BOOLEAN
    BY DEF EditorInv
  <1>3. fed.bytes \o chunk \in Seq(0 .. 255)
    BY <1>1, <1>2, ConcatFacts
  <1>4. fed' \in [bytes : Seq(0 .. 255), eof : BOOLEAN]
    <2> DEFINE ends == fed.eof \/ chunk = << >>
    <2>1. ends \in BOOLEAN
      BY <1>2
    <2>2. fed' = [bytes |-> fed.bytes \o chunk, eof |-> ends] \/ fed' = [fed EXCEPT !.eof = ends]
      BY DEF Passthrough, feed, on_passthrough
    <2> DEFINE bytes == fed.bytes \o chunk
    <2> HIDE DEF ends
    <2>3. CASE fed' = [bytes |-> bytes, eof |-> ends]
      <3>1. bytes \in Seq(0 .. 255)
        BY <1>3
      <3> HIDE DEF bytes
      <3> QED BY <2>1, <2>3, <3>1
    <2>4. CASE fed' = [fed EXCEPT !.eof = ends]
      <3>1. fed \in [bytes : Seq(0 .. 255), eof : BOOLEAN]
        BY DEF EditorInv
      <3> QED BY <2>1, <2>4, <3>1
    <2> QED BY <2>2, <2>3, <2>4
  <1>5. UNCHANGED <<decoding, reading, editor, history, page>>
    BY DEF Passthrough, lineVars
  <1> QED BY <1>4, <1>5 DEF EditorInv, Agrees

LEMMA EditorPreserved == EditorInv /\ [ConsoleNext]_consoleVars => EditorInv'
  <1> SUFFICES ASSUME EditorInv, [ConsoleNext]_consoleVars PROVE EditorInv'
    OBVIOUS
  <1>1. CASE read_line
    <2>1. reading' = "reading" /\ editor' = NewEditor /\ page' = NewPage
          /\ UNCHANGED <<fed, decoding, history>>
      BY <1>1 DEF read_line
    <2>2. Agrees(NewEditor, NewPage)
      BY NewAgrees DEF EditorInv
    <2>3. Agrees(editor, page)'
      BY <2>1, <2>2, AgreesNext
    <2>4. editor' \in EditorRecs
      BY <2>3 DEF Agrees
    <2> QED BY <2>1, <2>3, <2>4 DEF EditorInv
  <1>2. CASE PartOfKey
    <2>1. pop_fed_byte /\ decoding' = Append(decoding, Popped)
          /\ UNCHANGED <<reading, editor, history, page>>
      BY <1>2 DEF PartOfKey
    <2>2. decoding' \in Text /\ fed' \in [bytes : Seq(0 .. 255), eof : BOOLEAN]
      BY <2>1, PoppedFacts DEF EditorInv
    <2> QED BY <2>1, <2>2 DEF EditorInv, Agrees
  <1>3. CASE Keystroke
    BY <1>3, KeystrokeKeeps
  <1>4. CASE \E chunk \in ChunksSent : Passthrough(chunk)
    BY <1>4, PassthroughKeeps
  <1>5. CASE UNCHANGED consoleVars
    BY <1>5 DEF consoleVars, lineVars, EditorInv, Agrees
  <1> QED BY <1>1, <1>2, <1>3, <1>4, <1>5 DEF ConsoleNext

\* Whatever is typed, recalled and left again, and however the bytes are cut
\* into chunks, line_edit_state has the text, the cursor and the draft that the
\* user sees (apply(), navigate_history(), decode_byte_stream()).
THEOREM LineAsTypedHolds == ConsoleSpec => []LineAsTyped
  <1>1. EditorInv => LineAsTyped
    BY DEF EditorInv, Agrees, LineAsTyped
  <1> QED BY <1>1, EditorInitially, EditorPreserved, PTL DEF ConsoleSpec
-----------------------------------------------------------------------------
(***************************************************************************)
(* The lines that on_passthrough() delivers.                               *)
(***************************************************************************)
Octet == 0 .. 255
Bytes == Seq(Octet)
LineStates == [line_buffer : Bytes, last_was_cr : BOOLEAN, out : Bytes]

\* The ends of the lines that were delivered.
Newlines(out) == {i \in DOMAIN out : out[i] = LF}

\* line_buffer, last_was_cr and everything delivered, after the bytes of input.
CookedFrom(buffer, cr, out, input) ==
    /\ buffer \in Bytes /\ cr \in BOOLEAN /\ out \in Bytes /\ input \in Bytes
    /\ \A i \in 1 .. Len(buffer) : buffer[i] \notin {CR, LF, 8, 127}
    /\ cr <=> (Len(input) > 0 /\ input[Len(input)] = CR)
    /\ IsFiniteSet(Newlines(out)) /\ IsFiniteSet(LineEnds(input))
    /\ Cardinality(Newlines(out)) = Cardinality(LineEnds(input))
    /\ \A i \in 1 .. Len(out) : out[i] \notin {CR, 8, 127}
    /\ Len(out) > 0 => out[Len(out)] = LF

\* The ends of the lines of an input with one byte more.
LEMMA LineEndsNext ==
    ASSUME NEW input \in Bytes, NEW c \in Octet
    PROVE  LET n == Len(input)
               isEnd == c = CR \/ (c = LF /\ ~(n > 0 /\ input[n] = CR))
           IN LineEnds(Append(input, c)) = IF isEnd THEN LineEnds(input) \cup {n + 1} ELSE LineEnds(input)
  <1> DEFINE n == Len(input)
             next == Append(input, c)
             isEnd == c = CR \/ (c = LF /\ ~(n > 0 /\ input[n] = CR))
             old == LineEnds(input)
             new == LineEnds(next)
  <1>1. /\ n \in Nat /\ Len(next) = n + 1 /\ next[n + 1] = c
        /\ \A k \in 1 .. n : next[k] = input[k]
        /\ DOMAIN next = 1 .. n + 1 /\ DOMAIN input = 1 .. n
    BY DEF Bytes
  <1> HIDE DEF next
  <1>2. /\ \A k \in new : k \in 1 .. n + 1
        /\ \A k \in old : k \in 1 .. n
    BY <1>1 DEF LineEnds
  <1>3. ASSUME NEW k \in 1 .. n PROVE k \in new <=> k \in old
    <2>1. k \in 1 .. n + 1 /\ (k = 1 \/ k - 1 \in 1 .. n)
      BY <1>1
    <2>2. next[k] = input[k] /\ (k = 1 \/ next[k - 1] = input[k - 1])
      BY <1>1, <2>1
    <2> QED BY <1>1, <2>1, <2>2 DEF LineEnds
  <1>4. n + 1 \in new <=> isEnd
    <2>1. n + 1 \in 1 .. n + 1 /\ (n + 1) - 1 = n
      BY <1>1
    <2>2. n + 1 \in new <=> (next[n + 1] = CR \/ (next[n + 1] = LF /\ (n + 1 = 1 \/ next[n] # CR)))
      BY <1>1, <2>1 DEF LineEnds
    <2>3. CASE n = 0
      BY <1>1, <2>2, <2>3
    <2>4. CASE n > 0
      <3>1. n \in 1 .. n /\ n + 1 # 1
        BY <1>1, <2>4
      <3>2. next[n] = input[n]
        BY <1>1, <3>1
      <3> QED BY <1>1, <2>2, <2>4, <3>1, <3>2
    <2> QED BY <1>1, <2>3, <2>4
  <1>5. \A k : k \in 1 .. n + 1 <=> (k \in 1 .. n \/ k = n + 1)
    BY <1>1
  <1> HIDE DEF new, old, isEnd, n
  <1>6. new = IF isEnd THEN old \cup {n + 1} ELSE old
    <2>1. CASE isEnd
      <3>1. \A k : k \in new <=> k \in old \/ k = n + 1
        BY <1>2, <1>3, <1>4, <1>5, <2>1
      <3> QED BY <2>1, <3>1
    <2>2. CASE ~isEnd
      <3>1. \A k : k \in new <=> k \in old
        BY <1>2, <1>3, <1>4, <1>5, <2>2
      <3> QED BY <2>2, <3>1
    <2> QED BY <2>1, <2>2
  <1> QED BY <1>6 DEF new, old, isEnd, n, next

\* The newlines of what was delivered, with one line more.
LEMMA NewlinesNext ==
    ASSUME NEW out \in Bytes, NEW buffer \in Bytes,
           \A i \in 1 .. Len(buffer) : buffer[i] # LF
    PROVE  LET next == out \o Append(buffer, LF)
           IN /\ Newlines(next) = Newlines(out) \cup {Len(next)}
              /\ Len(next) \notin Newlines(out)
              /\ next \in Bytes /\ Len(next) > 0 /\ next[Len(next)] = LF
              /\ \A i \in 1 .. Len(next) : next[i] = LF
                     \/ (\E k \in 1 .. Len(out) : next[i] = out[k])
                     \/ (\E k \in 1 .. Len(buffer) : next[i] = buffer[k])
  <1> DEFINE row == Append(buffer, LF)
             next == out \o row
             m == Len(out)
             n == Len(buffer)
  <1>1. LF \in Octet
    BY DEF LF, Octet
  <1>2. /\ n \in Nat /\ row \in Bytes /\ Len(row) = n + 1 /\ row[n + 1] = LF
        /\ \A k \in 1 .. n : row[k] = buffer[k]
    BY <1>1 DEF Bytes
  <1> HIDE DEF row
  <1>3. /\ m \in Nat /\ next \in Bytes /\ Len(next) = m + (n + 1)
        /\ \A k \in 1 .. m : next[k] = out[k]
        /\ \A k \in 1 .. n + 1 : next[m + k] = row[k]
    <2>1. out \in Seq(Octet) /\ row \in Seq(Octet)
      BY <1>2 DEF Bytes
    <2>2. /\ next \in Seq(Octet) /\ m \in Nat /\ Len(next) = m + Len(row)
          /\ \A k \in 1 .. m : next[k] = out[k]
          /\ \A k \in 1 .. Len(row) : next[m + k] = row[k]
      BY <2>1, ConcatFacts
    <2> QED BY <1>2, <2>2 DEF Bytes
  <1>4. DOMAIN next = 1 .. Len(next) /\ DOMAIN out = 1 .. m
    BY <1>3 DEF Bytes
  <1> HIDE DEF next
  <1>5. ASSUME NEW i \in 1 .. Len(next)
        PROVE  \/ i \in 1 .. m /\ next[i] = out[i]
               \/ ~(i \in 1 .. m) /\ i # Len(next) /\ i - m \in 1 .. n /\ next[i] = buffer[i - m]
               \/ ~(i \in 1 .. m) /\ i = Len(next) /\ next[i] = LF
    <2>1. CASE i \in 1 .. m
      BY <1>3, <2>1
    <2>2. CASE i = m + (n + 1)
      <3>1. n + 1 \in 1 .. n + 1 /\ ~(i \in 1 .. m)
        BY <1>2, <1>3, <2>2
      <3> QED BY <1>2, <1>3, <2>2, <3>1
    <2>3. CASE ~(i \in 1 .. m) /\ i # m + (n + 1)
      <3>0. m \in Nat /\ n \in Nat /\ i \in 1 .. m + (n + 1)
        BY <1>2, <1>3
      <3>1. i - m \in 1 .. n /\ i - m \in 1 .. n + 1 /\ m + (i - m) = i
        <4> HIDE DEF m, n
        <4> QED BY <2>3, <3>0
      <3>2. next[i] = row[i - m]
        BY <1>3, <3>1
      <3> QED BY <1>2, <1>3, <2>3, <3>1, <3>2
    <2> QED BY <2>1, <2>2, <2>3
  <1>6. /\ \A i \in 1 .. m : i \in 1 .. Len(next)
        /\ Len(next) \in 1 .. Len(next) /\ ~(Len(next) \in 1 .. m) /\ Len(next) > 0
    BY <1>2, <1>3
  <1>7. \A i \in 1 .. m : next[i] = out[i]
    BY <1>3
  <1>8. next[Len(next)] = LF
    BY <1>5, <1>6
  <1> DEFINE e == Len(next)
  <1> HIDE DEF m, n, e
  <1>9. Newlines(next) = Newlines(out) \cup {e} /\ e \notin Newlines(out)
    <2>1. ASSUME NEW i PROVE i \in Newlines(next) <=> i \in Newlines(out) \/ i = e
      <3>1. CASE i \in 1 .. m
        BY <1>4, <1>6, <1>7, <3>1, ZenonT(40) DEF Newlines, e
      <3>2. CASE i \in 1 .. e /\ ~(i \in 1 .. m)
        BY <1>4, <1>5, <1>8, <3>2 DEF Newlines, e, n
      <3>3. CASE ~(i \in 1 .. e)
        BY <1>4, <1>6, <3>3 DEF Newlines, e
      <3> QED BY <3>1, <3>2, <3>3, SMTT(40)
    <2>2. e \notin Newlines(out)
      BY <1>4, <1>6 DEF Newlines, e
    <2> QED BY <2>1, <2>2
  <1>10. ASSUME NEW i \in 1 .. Len(next)
         PROVE  \/ next[i] = LF
                \/ (\E k \in 1 .. Len(out) : next[i] = out[k])
                \/ (\E k \in 1 .. Len(buffer) : next[i] = buffer[k])
    BY <1>5 DEF m, n
  <1> QED BY <1>3, <1>6, <1>8, <1>9, <1>10 DEF next, row, e

\* All but the last element.
LEMMA FrontOf ==
    ASSUME NEW S, NEW a \in Seq(S), a # << >>
    PROVE  /\ Front(a) \in Seq(S) /\ Len(Front(a)) = Len(a) - 1
           /\ \A k \in 1 .. Len(a) - 1 : Front(a)[k] = a[k]
  <1> DEFINE m == Len(a) - 1
             f == SubSeq(a, 1, m)
  <1>1. Len(a) \in Nat /\ m \in Nat /\ m <= Len(a) /\ m = Len(a) - 1
    OBVIOUS
  <1> HIDE DEF m
  <1>2. f \in Seq(S) /\ Len(f) = m /\ \A k \in 1 .. m : f[k] = a[k]
    BY <1>1
  <1> QED BY <1>1, <1>2 DEF Front, f, m

\* One byte.  done is what was delivered before the chunk.
LEMMA CookedByte ==
    ASSUME NEW st \in LineStates, NEW done \in Bytes, NEW input \in Bytes, NEW c \in Octet,
           CookedFrom(st.line_buffer, st.last_was_cr, done \o st.out, input)
    PROVE  LET q == ProcessByte(st, c)
           IN /\ q \in LineStates
              /\ CookedFrom(q.line_buffer, q.last_was_cr, done \o q.out, Append(input, c))
  <1> DEFINE q == ProcessByte(st, c)
             n == Len(input)
             next == Append(input, c)
             buffer == st.line_buffer
  <1>1. /\ buffer \in Bytes /\ st.last_was_cr \in BOOLEAN /\ st.out \in Bytes
    BY DEF LineStates
  <1>2. /\ next \in Bytes /\ n \in Nat /\ Len(next) > 0 /\ next[Len(next)] = c
    BY DEF Bytes
  <1>3. st.last_was_cr <=> (n > 0 /\ input[n] = CR)
    BY DEF CookedFrom
  <1>4. LineEnds(next) = IF c = CR \/ (c = LF /\ ~st.last_was_cr) THEN LineEnds(input) \cup {n + 1}
                         ELSE LineEnds(input)
    <2>1. LineEnds(next) = IF c = CR \/ (c = LF /\ ~(n > 0 /\ input[n] = CR))
                           THEN LineEnds(input) \cup {n + 1} ELSE LineEnds(input)
      BY LineEndsNext
    <2> QED BY <1>3, <2>1
  <1>5. n + 1 \notin LineEnds(input)
    <2>1. DOMAIN input = 1 .. n /\ ~(n + 1 \in 1 .. n)
      BY <1>2 DEF Bytes
    <2> QED BY <2>1 DEF LineEnds
  <1>6. /\ \A i \in 1 .. Len(buffer) : buffer[i] \notin {CR, LF, 8, 127}
        /\ IsFiniteSet(Newlines(done \o st.out)) /\ IsFiniteSet(LineEnds(input))
        /\ Cardinality(Newlines(done \o st.out)) = Cardinality(LineEnds(input))
        /\ done \o st.out \in Bytes
        /\ \A i \in 1 .. Len(done \o st.out) : (done \o st.out)[i] \notin {CR, 8, 127}
        /\ Len(done \o st.out) > 0 => (done \o st.out)[Len(done \o st.out)] = LF
    BY DEF CookedFrom
  <1>7. CR # LF /\ CR \in Octet /\ LF \in Octet /\ CR = 13 /\ LF = 10
    BY DEF CR, LF, Octet
  <1> HIDE DEF next, n
  <1>8. CASE st.last_was_cr /\ c = LF
    <2>1. q = [st EXCEPT !.last_was_cr = FALSE]
      BY <1>8 DEF ProcessByte
    <2>2. q \in LineStates /\ q.line_buffer = buffer /\ q.last_was_cr = FALSE /\ q.out = st.out
      BY <2>1 DEF LineStates
    <2> HIDE DEF q
    <2>3. LineEnds(next) = LineEnds(input)
      BY <1>4, <1>7, <1>8
    <2>4. CookedFrom(buffer, FALSE, done \o st.out, next)
      BY <1>1, <1>2, <1>6, <1>7, <1>8, <2>3 DEF CookedFrom
    <2> QED BY <2>2, <2>4 DEF q, next
  <1>9. CASE ~(st.last_was_cr /\ c = LF) /\ c \in {CR, LF}
    <2> DEFINE row == Append(buffer, LF)
               isCr == c = CR
    <2>1. q = [line_buffer |-> << >>, last_was_cr |-> isCr, out |-> st.out \o row]
      BY <1>9 DEF ProcessByte
    <2>2. row \in Bytes /\ st.out \o row \in Bytes /\ << >> \in Bytes /\ Len(<< >>) = 0
      BY <1>1, <1>7 DEF Bytes
    <2>10. done \o (st.out \o row) = (done \o st.out) \o row
      <3> DEFINE w == st.out
      <3>1. done \in Seq(Octet) /\ w \in Seq(Octet) /\ row \in Seq(Octet)
        BY <1>1, <2>2 DEF Bytes
      <3> HIDE DEF row, w
      <3>2. done \o (w \o row) = (done \o w) \o row
        BY ONLY <3>1, ConcatAssoc
      <3> QED BY <3>2 DEF w
    <2> DEFINE o == st.out \o row
    <2>3. q \in LineStates /\ q.line_buffer = << >> /\ q.last_was_cr = isCr /\ q.out = o
      <3>1. o \in Bytes /\ isCr \in BOOLEAN
        BY <2>2
      <3> HIDE DEF o, isCr
      <3> QED BY <2>1, <2>2, <3>1, SMTT(40) DEF LineStates, o
    <2> HIDE DEF q
    <2>4. LineEnds(next) = LineEnds(input) \cup {n + 1}
      BY <1>4, <1>7, <1>9
    <2> DEFINE before == done \o st.out
               all == before \o row
    <2>5. /\ Newlines(all) = Newlines(before) \cup {Len(all)} /\ Len(all) \notin Newlines(before)
          /\ all \in Bytes /\ Len(all) > 0 /\ all[Len(all)] = LF
          /\ \A i \in 1 .. Len(all) : all[i] = LF
                     \/ (\E k \in 1 .. Len(before) : all[i] = before[k])
                     \/ (\E k \in 1 .. Len(buffer) : all[i] = buffer[k])
      <3>1. \A i \in 1 .. Len(buffer) : buffer[i] # LF
        BY <1>6
      <3>2. before \in Bytes
        BY <1>6
      <3> HIDE DEF before
      <3> QED BY <1>1, <3>1, <3>2, NewlinesNext
    <2>6. \A i \in 1 .. Len(all) : all[i] \notin {CR, 8, 127}
      <3>1. LF \notin {CR, 8, 127}
        BY <1>7
      <3>2. \A k \in 1 .. Len(before) : before[k] \notin {CR, 8, 127}
        BY <1>6
      <3> HIDE DEF all, before, row, buffer
      <3>3. \A k \in 1 .. Len(buffer) : buffer[k] \notin {CR, 8, 127}
        BY <1>6
      <3> HIDE DEF all, before, row, buffer
      <3>4. \A i \in 1 .. Len(all) : all[i] = LF
                     \/ (\E k \in 1 .. Len(before) : all[i] = before[k])
                     \/ (\E k \in 1 .. Len(buffer) : all[i] = buffer[k])
        BY <2>5
      <3> SUFFICES ASSUME NEW i \in 1 .. Len(all) PROVE all[i] \notin {CR, 8, 127}
        OBVIOUS
      <3>5. CASE all[i] = LF
        BY <3>1, <3>5
      <3>6. CASE \E k \in 1 .. Len(before) : all[i] = before[k]
        BY <3>2, <3>6
      <3>7. CASE \E k \in 1 .. Len(buffer) : all[i] = buffer[k]
        BY <3>3, <3>7
      <3> QED BY <3>4, <3>5, <3>6, <3>7
    <2>7. /\ IsFiniteSet(Newlines(all)) /\ IsFiniteSet(LineEnds(next))
          /\ Cardinality(Newlines(all)) = Cardinality(LineEnds(next))
      <3> DEFINE x == Newlines(before)
                 y == LineEnds(input)
                 e == Len(all)
      <3>1. IsFiniteSet(x) /\ IsFiniteSet(y) /\ Cardinality(x) = Cardinality(y)
        BY <1>6
      <3>2. e \notin x /\ n + 1 \notin y
        BY <1>5, <2>5
      <3>3. Newlines(all) = x \cup {e} /\ LineEnds(next) = y \cup {n + 1}
        BY <2>4, <2>5
      <3> HIDE DEF x, y, e
      <3>4. IsFiniteSet(x \cup {e}) /\ Cardinality(x \cup {e}) = Cardinality(x) + 1
        BY <3>1, <3>2, FS_AddElement
      <3>5. IsFiniteSet(y \cup {n + 1}) /\ Cardinality(y \cup {n + 1}) = Cardinality(y) + 1
        BY <3>1, <3>2, FS_AddElement
      <3> QED BY <3>1, <3>3, <3>4, <3>5
    <2> HIDE DEF all
    <2>8. CookedFrom(<< >>, isCr, all, next)
      <3>1. \A i \in 1 .. 0 : FALSE
        OBVIOUS
      <3> QED BY <1>2, <2>2, <2>5, <2>6, <2>7, <3>1 DEF CookedFrom
    <2>9. done \o o = all
      BY <2>10 DEF all
    <2> HIDE DEF o, isCr
    <2> QED BY <2>3, <2>8, <2>9 DEF q, next
  <1>10. CASE ~(st.last_was_cr /\ c = LF) /\ c \notin {CR, LF}
    <2> DEFINE b == IF c \notin {8, 127} THEN Append(buffer, c)
                    ELSE IF buffer = << >> THEN buffer ELSE Front(buffer)
    <2>1. q = [st EXCEPT !.last_was_cr = FALSE, !.line_buffer = b]
      BY <1>10 DEF ProcessByte
    <2>2. b \in Bytes /\ \A i \in 1 .. Len(b) : b[i] \notin {CR, LF, 8, 127}
      <3>1. CASE c \notin {8, 127}
        <4>1. /\ b \in Bytes /\ Len(b) = Len(buffer) + 1 /\ Len(buffer) \in Nat /\ b[Len(buffer) + 1] = c
              /\ \A i \in 1 .. Len(buffer) : b[i] = buffer[i]
          BY <1>1, <3>1 DEF Bytes
        <4>2. \A i \in 1 .. Len(b) : i = Len(buffer) + 1 \/ i \in 1 .. Len(buffer)
          BY <4>1
        <4>3. c \notin {CR, LF, 8, 127}
          BY <1>10, <3>1
        <4> HIDE DEF b, buffer
        <4> QED BY <1>6, <4>1, <4>2, <4>3
      <3>2. CASE ~(c \notin {8, 127}) /\ buffer = << >>
        BY <1>1, <1>6, <3>2
      <3>3. CASE ~(c \notin {8, 127}) /\ buffer # << >>
        <4>1. b = SubSeq(buffer, 1, Len(buffer) - 1)
          BY <3>3 DEF Front
        <4>2. buffer \in Seq(Octet) /\ Len(buffer) \in Nat /\ Len(buffer) > 0
          BY <1>1, <3>3 DEF Bytes
        <4> HIDE DEF b, buffer
        <4>3. /\ b \in Bytes /\ Len(b) = Len(buffer) - 1
              /\ \A i \in 1 .. Len(b) : b[i] = buffer[i] /\ i \in 1 .. Len(buffer)
          BY <4>1, <4>2, FrontOf DEF Bytes, Front
        <4> QED BY <1>6, <4>3
      <3> QED BY <3>1, <3>2, <3>3
    <2> HIDE DEF b
    <2>3. q \in LineStates /\ q.line_buffer = b /\ q.last_was_cr = FALSE /\ q.out = st.out
      BY <2>1, <2>2, ZenonT(40) DEF LineStates
    <2> HIDE DEF q
    <2>4. LineEnds(next) = LineEnds(input)
      BY <1>4, <1>7, <1>10
    <2>5. CookedFrom(b, FALSE, done \o st.out, next)
      BY <1>1, <1>2, <1>6, <1>7, <1>10, <2>2, <2>4 DEF CookedFrom
    <2> QED BY <2>3, <2>5 DEF q, next
  <1> QED BY <1>8, <1>9, <1>10

\* The types of one step.
LEMMA ProcessByteType ==
    ASSUME NEW st \in LineStates, NEW c \in Octet
    PROVE  ProcessByte(st, c) \in LineStates
  <1> DEFINE buffer == st.line_buffer
             row == Append(buffer, LF)
             o == st.out \o row
             isCr == c = CR
             b == IF c \notin {8, 127} THEN Append(buffer, c)
                  ELSE IF buffer = << >> THEN buffer ELSE Front(buffer)
  <1>1. buffer \in Seq(Octet) /\ st.out \in Seq(Octet) /\ LF \in Octet /\ isCr \in BOOLEAN
    BY DEF LineStates, Bytes, LF, Octet
  <1>2. o \in Bytes /\ << >> \in Bytes
    BY <1>1 DEF Bytes
  <1>3. b \in Bytes
    <2>1. buffer # << >> => Front(buffer) \in Seq(Octet)
      BY <1>1, FrontOf
    <2> QED BY <1>1, <2>1 DEF Bytes
  <1>4. ProcessByte(st, c) \in {[st EXCEPT !.last_was_cr = FALSE],
            [line_buffer |-> << >>, last_was_cr |-> isCr, out |-> o],
            [st EXCEPT !.last_was_cr = FALSE, !.line_buffer = b]}
    BY DEF ProcessByte
  <1> HIDE DEF o, b, isCr
  <1>5. st.out \in Bytes /\ buffer \in Bytes
    BY DEF LineStates
  <1>6. [st EXCEPT !.last_was_cr = FALSE] \in LineStates
    BY DEF LineStates
  <1>7. [line_buffer |-> << >>, last_was_cr |-> isCr, out |-> o] \in LineStates
    BY <1>1, <1>2 DEF LineStates
  <1>8. [st EXCEPT !.last_was_cr = FALSE, !.line_buffer = b] \in LineStates
    BY <1>3 DEF LineStates
  <1> QED BY <1>4, <1>6, <1>7, <1>8

\* The chunk as a whole.
LEMMA CookedChunk ==
    ASSUME NEW st, NEW done \in Bytes, NEW input \in Bytes, NEW chunk \in Bytes,
           CookedFrom(st.line_buffer, st.last_was_cr, done, input)
    PROVE  LET q == process_passthrough_chunk(st, chunk)
           IN CookedFrom(q.line_buffer, q.last_was_cr, done \o q.out, input \o chunk)
  <1> DEFINE first == [line_buffer |-> st.line_buffer, last_was_cr |-> st.last_was_cr, out |-> << >>]
             n == Len(chunk)
             f == [i \in Nat |-> [d \in LineStates |->
                      IF i \in 1 .. n THEN ProcessByte(d, chunk[i]) ELSE d]]
  <1>1. n \in Nat /\ << >> \in Bytes /\ done \o << >> = done /\ input \o << >> = input
        /\ \A i \in 1 .. n : chunk[i] \in Octet
    BY DEF Bytes
  <1>2. first \in LineStates
    BY <1>1 DEF LineStates, CookedFrom
  <1>3. ASSUME NEW d \in LineStates, NEW c \in Octet
        PROVE  ProcessByte(d, c) \in LineStates
    BY ProcessByteType
  <1> HIDE DEF n
  <1>4. f \in [Nat -> [LineStates -> LineStates]]
    BY <1>1, <1>3
  <1> HIDE DEF f, first
  <1>5. PICK g \in [0 .. n -> LineStates] : g[0] = first /\ \A i \in 1 .. n : g[i] = f[i][g[i - 1]]
    <2>1. \E g : Steps(g, LineStates, first, f, n)
      BY <1>1, <1>2, <1>4, Recursion
    <2> QED BY <2>1 DEF Steps
  <1>6. ASSUME NEW i \in 1 .. n PROVE i - 1 \in 0 .. n /\ g[i] = ProcessByte(g[i - 1], chunk[i])
    <2>1. i - 1 \in 0 .. n /\ i \in Nat
      BY <1>1
    <2>2. g[i - 1] \in LineStates
      BY <1>5, <2>1
    <2>3. f[i][g[i - 1]] = ProcessByte(g[i - 1], chunk[i])
      BY <2>1, <2>2 DEF f
    <2> QED BY <1>5, <2>1, <2>3
  <1> DEFINE Is(state) == state = [i \in 0 .. n |-> IF i = 0 THEN first ELSE ProcessByte(state[i - 1], chunk[i])]
             h == CHOOSE state : Is(state)
  <1>7. Is(g)
    <2>1. \A i \in 0 .. n : i = 0 \/ i \in 1 .. n
      BY <1>1
    <2>2. \A i \in 0 .. n : g[i] = IF i = 0 THEN first ELSE ProcessByte(g[i - 1], chunk[i])
      BY <1>5, <1>6, <2>1
    <2> QED BY <2>2
  <1>8. Is(h)
    BY <1>7
  <1>9. process_passthrough_chunk(st, chunk) = h[n]
    BY DEF process_passthrough_chunk, first, n
  <1> HIDE DEF h
  <1>10. h[0] = first /\ \A i \in 1 .. n : h[i] = ProcessByte(h[i - 1], chunk[i])
    <2>1. 0 \in 0 .. n /\ \A i \in 1 .. n : i \in 0 .. n /\ i # 0
      BY <1>1
    <2> QED BY <1>8, <2>1
  <1> DEFINE Upto(i) == SubSeq(chunk, 1, i)
             P(i) == /\ h[i] \in LineStates
                     /\ CookedFrom(h[i].line_buffer, h[i].last_was_cr, done \o h[i].out, input \o Upto(i))
             T == {i \in Nat : i <= n => P(i)}
  <1>11. 0 \in T
    <2>1. Upto(0) = << >>
      BY DEF Bytes
    <2>2. first.line_buffer = st.line_buffer /\ first.last_was_cr = st.last_was_cr /\ first.out = << >>
      BY DEF first
    <2>3. P(0)
      BY <1>1, <1>2, <1>10, <2>1, <2>2
    <2> QED BY <2>3
  <1>12. ASSUME NEW i \in T PROVE i + 1 \in T
    <2> SUFFICES ASSUME i + 1 <= n PROVE P(i + 1)
      OBVIOUS
    <2>1. i \in Nat /\ i <= n /\ i + 1 \in 1 .. n /\ (i + 1) - 1 = i
      BY <1>1
    <2>2. P(i)
      BY <2>1
    <2>3. h[i + 1] = ProcessByte(h[i], chunk[i + 1]) /\ chunk[i + 1] \in Octet
      BY <1>1, <1>10, <2>1
    <2> DEFINE a == input \o Upto(i)
               c == chunk[i + 1]
    <2>4. input \o Upto(i + 1) = Append(a, c) /\ a \in Bytes
      <3>1. /\ chunk \in Seq(Octet) /\ input \in Seq(Octet) /\ n = Len(chunk)
        BY DEF Bytes, n
      <3> DEFINE u == Upto(i)
                 v == Upto(i + 1)
      <3>2. v = Append(u, c) /\ u \in Seq(Octet)
        BY ONLY <2>1, <3>1
      <3>3. c \in Octet
        BY <2>3
      <3> HIDE DEF u, v, c
      <3>4. input \o Append(u, c) = Append(input \o u, c) /\ input \o u \in Seq(Octet)
        BY ONLY <3>1, <3>2, <3>3
      <3> QED BY <3>2, <3>4 DEF Bytes, u, v
    <2> HIDE DEF a, c
    <2>5. c \in Octet /\ h[i + 1] = ProcessByte(h[i], c)
      BY <2>3 DEF c
    <2>6. CookedFrom(h[i].line_buffer, h[i].last_was_cr, done \o h[i].out, a) /\ h[i] \in LineStates
      BY <2>2 DEF a
    <2> DEFINE d == h[i]
               e == h[i + 1]
    <2>7. /\ d \in LineStates /\ e = ProcessByte(d, c)
          /\ CookedFrom(d.line_buffer, d.last_was_cr, done \o d.out, a)
      BY <2>5, <2>6
    <2> HIDE DEF d, e
    <2>8. e \in LineStates /\ CookedFrom(e.line_buffer, e.last_was_cr, done \o e.out, Append(a, c))
      BY <2>4, <2>5, <2>7, CookedByte
    <2> QED BY <2>4, <2>8 DEF e
  <1> HIDE DEF T, P
  <1>13. T = Nat
    <2>1. T \in SUBSET Nat
      BY DEF T
    <2> QED BY <1>11, <1>12, <2>1, SetInduction
  <1>14. P(n)
    BY <1>1, <1>13 DEF T
  <1>15. Upto(n) = chunk
    BY DEF Bytes, n
  <1> QED BY <1>9, <1>14, <1>15 DEF P

\* What is known of the bytes that were fed without a sink.
CookedInv ==
    /\ raw \in BOOLEAN
    /\ CookedFrom(cooked.line_buffer, cooked.last_was_cr, delivered, cooked.input)
    /\ raw => delivered = << >>

LEMMA CookedInitially == ConsoleInit => CookedInv
  <1> SUFFICES ASSUME ConsoleInit PROVE CookedInv
    OBVIOUS
  <1>1. /\ raw \in BOOLEAN /\ delivered = << >> /\ cooked.line_buffer = << >>
        /\ cooked.last_was_cr = FALSE /\ cooked.input = << >>
    BY DEF ConsoleInit
  <1>2. << >> \in Bytes /\ Len(<< >>) = 0 /\ DOMAIN << >> = {} /\ \A i \in 1 .. 0 : FALSE
    BY DEF Bytes
  <1>3. Newlines(<< >>) = {} /\ LineEnds(<< >>) = {}
    BY <1>2 DEF Newlines, LineEnds
  <1>4. CookedFrom(<< >>, FALSE, << >>, << >>)
    <2>1. IsFiniteSet({}) /\ ~(0 > 0)
      BY FS_EmptySet
    <2> QED BY <1>2, <1>3, <2>1 DEF CookedFrom
  <1> QED BY <1>1, <1>4 DEF CookedInv

LEMMA CookedPreserved == CookedInv /\ [ConsoleNext]_consoleVars => CookedInv'
  <1> SUFFICES ASSUME CookedInv, [ConsoleNext]_consoleVars PROVE CookedInv'
    OBVIOUS
  <1>1. ASSUME UNCHANGED <<raw, cooked, delivered>> PROVE CookedInv'
    BY <1>1 DEF CookedInv, CookedFrom, Newlines, LineEnds
  <1>2. CASE read_line
    BY <1>1, <1>2 DEF read_line
  <1>3. CASE PartOfKey
    BY <1>1, <1>3 DEF PartOfKey, pop_fed_byte
  <1>4. CASE Keystroke
    BY <1>1, <1>4 DEF Keystroke, pop_fed_byte
  <1>5. ASSUME NEW chunk \in ChunksSent, Passthrough(chunk) PROVE CookedInv'
    <2>1. CASE feed(chunk)
      BY <1>1, <1>5, <2>1 DEF Passthrough, feed
    <2>2. CASE on_passthrough(chunk)
      <3>1. PICK st, done, input, bits :
                /\ st = cooked /\ done = delivered /\ input = cooked.input /\ bits = chunk
        OBVIOUS
      <3> DEFINE q == process_passthrough_chunk(st, bits)
      <3>2. bits \in Bytes /\ done \in Bytes /\ input \in Bytes
            /\ CookedFrom(st.line_buffer, st.last_was_cr, done, input)
        BY <3>1, ConsoleAssumption DEF ChunksSent, CookedInv, CookedFrom, Bytes, Octet
      <3>3. CookedFrom(q.line_buffer, q.last_was_cr, done \o q.out, input \o bits)
        BY <3>2, CookedChunk
      <3>4. /\ cooked'.line_buffer = q.line_buffer /\ cooked'.last_was_cr = q.last_was_cr
            /\ cooked'.input = input \o bits /\ delivered' = done \o q.out
            /\ raw' = raw /\ ~raw
        BY <1>5, <2>2, <3>1 DEF on_passthrough, Passthrough
      <3> HIDE DEF q
      <3>5. CookedFrom(cooked.line_buffer, cooked.last_was_cr, delivered, cooked.input)'
        <4>1. PICK newCooked, newDelivered : newCooked = cooked' /\ newDelivered = delivered'
          OBVIOUS
        <4>2. CookedFrom(newCooked.line_buffer, newCooked.last_was_cr, newDelivered, newCooked.input)
          BY <3>3, <3>4, <4>1
        <4> QED BY <4>1, <4>2 DEF CookedFrom, Newlines, LineEnds
      <3> QED BY <3>4, <3>5 DEF CookedInv
    <2> QED BY <1>5, <2>1, <2>2 DEF Passthrough
  <1>6. CASE UNCHANGED consoleVars
    BY <1>1, <1>6 DEF consoleVars
  <1> QED BY <1>2, <1>3, <1>4, <1>5, <1>6 DEF ConsoleNext

\* Without the editor, every line end of the input, \r\n being one, delivers one
\* line, wherever the chunks are cut; a line is delivered whole, with no control
\* byte that edited it (process_passthrough_chunk(), on_passthrough()).
THEOREM LinesDeliveredHolds == ConsoleSpec => []LinesDelivered
  <1>1. CookedInv => LinesDelivered
    <2> SUFFICES ASSUME CookedInv PROVE LinesDelivered
      OBVIOUS
    <2>1. /\ delivered \in Bytes /\ Cardinality(Newlines(delivered)) = Cardinality(LineEnds(cooked.input))
          /\ \A i \in 1 .. Len(delivered) : delivered[i] \notin {CR, 8, 127}
          /\ Len(delivered) > 0 => delivered[Len(delivered)] = LF
      BY DEF CookedInv, CookedFrom
    <2>2. DOMAIN delivered = 1 .. Len(delivered) /\ (delivered # << >> => Len(delivered) > 0)
      BY <2>1 DEF Bytes
    <2>3. raw => Newlines(delivered) = {}
      BY DEF CookedInv, Newlines
    <2>4. Cardinality(Newlines(delivered)) = IF raw THEN 0 ELSE Cardinality(LineEnds(cooked.input))
      BY <2>1, <2>3, FS_EmptySet
    <2>5. delivered # << >> => Last(delivered) = LF
      BY <2>1, <2>2 DEF Last
    <2> QED BY <2>1, <2>2, <2>4, <2>5 DEF LinesDelivered, Newlines
  <1> QED BY <1>1, CookedInitially, CookedPreserved, PTL DEF ConsoleSpec
=============================================================================
