------------------------------ MODULE Standalone ------------------------------
(***************************************************************************)
(* rmi::standalone: the in-process runtime.  Any thread enqueues tasks, a  *)
(* single worker runs them against the session context, disconnect() and   *)
(* the destructor stop the worker.                                         *)
(*                                                                         *)
(* queue_ is a bison::synchronized, whose wait() holds the lock from the   *)
(* predicate until it blocks: those are two steps.  What an operation does *)
(* is chosen when its task runs; hooks, factories and methods of the       *)
(* application may throw, and a method may file further objects.           *)
(***************************************************************************)
EXTENDS Naturals, Sequences, FiniteSets

CONSTANTS
    MaxReqs,   \* bound: operations requested over a behaviour
    MaxIds     \* bound: object ids generated over a behaviour

ASSUME StandaloneAssumption == MaxReqs \in Nat /\ MaxIds \in Nat

Reqs == 1 .. MaxReqs
Ids == 1 .. MaxIds

VARIABLES
    running,     \* standalone::running_
    sessionPc,   \* the thread that calls disconnect() and the destructor
    ownerNext,   \* what it does once the worker is joined
    workerPc,    \* worker_
    task,        \* the request whose task the worker runs
    tasks,       \* queue_
    reqPc,       \* how far enqueue() got, per request
    outcome,     \* what the request's future holds
    resolved,    \* history: times the request's promise was set
    objects,     \* context::objects
    nextId,      \* ids handed out by generate_id()
    destructed,  \* history: runs of __destruct, per object
    opened,      \* session_created_
    closed       \* session_destroyed_

sessionVars == <<sessionPc, ownerNext, opened, closed>>
workerVars == <<workerPc, task>>
futureVars == <<outcome, resolved>>
ctxVars == <<objects, nextId, destructed>>
standaloneVars == <<running, sessionVars, workerVars, tasks, reqPc, futureVars, ctxVars>>

\* The constructor has raised running_ and started the worker.
\* connect() has not been called; the constructor has started the worker, which
\* is at pc.
StandaloneWith(pc) ==
    /\ running = TRUE
    /\ sessionPc = "idle" /\ ownerNext = "idle"
    /\ workerPc = pc /\ task = 0
    /\ tasks = << >>
    /\ reqPc = [r \in Reqs |-> "unused"]
    /\ outcome = [r \in Reqs |-> "none"]
    /\ resolved = [r \in Reqs |-> 0]
    /\ objects = {}
    /\ nextId = 0
    /\ destructed = [i \in Ids |-> 0]
    /\ opened = FALSE /\ closed = FALSE

StandaloneInit == StandaloneWith("check")
-----------------------------------------------------------------------------
(***************************************************************************)
(* enqueue(), on any thread.                                               *)
(***************************************************************************)
\* Set the promises of the requests in S.
Resolve(S, result) ==
    /\ outcome' = [r \in Reqs |-> IF r \in S THEN result ELSE outcome[r]]
    /\ resolved' = [r \in Reqs |-> IF r \in S THEN resolved[r] + 1 ELSE resolved[r]]

Usable == sessionPc # "destroyed" /\ ownerNext # "cleanup"

\* queue_'s lock is free.
QueueUnlocked == workerPc # "blocking"

\* notify_one(), notify_all(): only a blocked worker is woken.
WakeWorker == workerPc' = IF workerPc = "blocked" THEN "check" ELSE workerPc

\* running_ is read before queue_ is locked.
EnqueueTask(r) ==
    /\ Usable
    /\ reqPc[r] = "unused"
    /\ \A q \in Reqs : q < r => reqPc[q] # "unused"
    /\ IF running
       THEN /\ reqPc' = [reqPc EXCEPT ![r] = "push"]
            /\ UNCHANGED futureVars
       ELSE /\ reqPc' = [reqPc EXCEPT ![r] = "returned"]
            /\ Resolve({r}, "error")
    /\ UNCHANGED <<running, sessionVars, workerVars, tasks, ctxVars>>

PushTask(r) ==
    /\ reqPc[r] = "push"
    /\ QueueUnlocked
    /\ tasks' = Append(tasks, r)
    /\ reqPc' = [reqPc EXCEPT ![r] = "notify"]
    /\ UNCHANGED <<running, sessionVars, workerVars, futureVars, ctxVars>>

\* Mutant of NotifyTask: the worker is not notified.
NotifyTaskSilent(r) ==
    /\ reqPc[r] = "notify"
    /\ reqPc' = [reqPc EXCEPT ![r] = "returned"]
    /\ UNCHANGED <<running, sessionVars, workerVars, tasks, futureVars, ctxVars>>

NotifyTask(r) ==
    /\ reqPc[r] = "notify"
    /\ WakeWorker
    /\ reqPc' = [reqPc EXCEPT ![r] = "returned"]
    /\ UNCHANGED <<running, sessionVars, task, tasks, futureVars, ctxVars>>
-----------------------------------------------------------------------------
(***************************************************************************)
(* The operation handlers: each says what happens to the context and what  *)
(* the task's promise is set to.                                           *)
(***************************************************************************)
\* The work is done; on_after_dispatch() may still throw.
Succeeds == \E result \in {"value", "error"} : Resolve({task}, result)

Throws == Resolve({task}, "error") /\ UNCHANGED ctxVars

HandleDescribe == Succeeds /\ UNCHANGED ctxVars

HandleDictionary == Succeeds /\ UNCHANGED ctxVars

HandleHelp == Succeeds /\ UNCHANGED ctxVars

HandleClear(oid) == oid \in objects /\ Succeeds /\ UNCHANGED ctxVars

HandleSet(oid) == oid \in objects /\ Succeeds /\ UNCHANGED ctxVars

HandleGet(oid) == oid \in objects /\ Succeeds /\ UNCHANGED ctxVars

\* File a new object, then succeed or throw.
FileObject ==
    /\ nextId < MaxIds
    /\ nextId' = nextId + 1
    /\ objects' = objects \cup {nextId'}
    /\ Succeeds
    /\ UNCHANGED destructed

\* The object is filed before __construct runs, and stays when that throws.
HandleInstantiate == FileObject

\* A method may file new objects in the context, also when it throws later.
HandleCall(oid) ==
    /\ oid \in objects
    /\ FileObject \/ (Succeeds /\ UNCHANGED ctxVars)

\* Mutant of HandleDestroy: the object stays in the table.
HandleDestroyKeeps(oid) ==
    /\ oid \in objects
    /\ destructed' = [destructed EXCEPT ![oid] = @ + 1]
    /\ Succeeds
    /\ UNCHANGED <<objects, nextId>>

HandleDestroy(oid) ==
    /\ oid \in objects
    /\ destructed' = [destructed EXCEPT ![oid] = @ + 1]
    /\ objects' = objects \ {oid}
    /\ Succeeds
    /\ UNCHANGED nextId

\* dispatch() and the choice of the handler; a missing class or object, an
\* unsupported operation, and a factory, hook or method that throws before it
\* has changed anything end in Throws.
Dispatch ==
    \/ Throws
    \/ HandleDescribe
    \/ HandleDictionary
    \/ HandleHelp
    \/ HandleInstantiate
    \/ \E oid \in Ids :
         \/ HandleClear(oid) \/ HandleSet(oid) \/ HandleGet(oid)
         \/ HandleCall(oid) \/ HandleDestroy(oid)
-----------------------------------------------------------------------------
(***************************************************************************)
(* worker_loop().                                                          *)
(***************************************************************************)
\* The predicate of wait().
TaskWaitCheck ==
    /\ workerPc = "check"
    /\ workerPc' = IF tasks # << >> \/ ~running THEN "pop" ELSE "blocking"
    /\ UNCHANGED <<running, sessionVars, task, tasks, reqPc, futureVars, ctxVars>>

TaskWaitBlock ==
    /\ workerPc = "blocking"
    /\ workerPc' = "blocked"
    /\ UNCHANGED <<running, sessionVars, task, tasks, reqPc, futureVars, ctxVars>>

SpuriousTaskWakeup ==
    /\ workerPc = "blocked"
    /\ workerPc' = "check"
    /\ UNCHANGED <<running, sessionVars, task, tasks, reqPc, futureVars, ctxVars>>

\* Mutant of Pop: the task is taken but not removed.
PopKeepsFront ==
    /\ workerPc = "pop"
    /\ IF tasks = << >>
       THEN workerPc' = "empty" /\ UNCHANGED task
       ELSE workerPc' = "task" /\ task' = Head(tasks)
    /\ UNCHANGED <<running, sessionVars, tasks, reqPc, futureVars, ctxVars>>

Pop ==
    /\ workerPc = "pop"
    /\ IF tasks = << >>
       THEN workerPc' = "empty" /\ UNCHANGED <<task, tasks>>
       ELSE workerPc' = "task" /\ task' = Head(tasks) /\ tasks' = Tail(tasks)
    /\ UNCHANGED <<running, sessionVars, reqPc, futureVars, ctxVars>>

\* Nothing to do: leave when stopped, wait again otherwise.
FoundEmpty ==
    /\ workerPc = "empty"
    /\ workerPc' = IF running THEN "check" ELSE "done"
    /\ UNCHANGED <<running, sessionVars, task, tasks, reqPc, futureVars, ctxVars>>

RunTask ==
    /\ workerPc = "task"
    /\ Dispatch
    /\ task' = 0
    /\ workerPc' = "check"
    /\ UNCHANGED <<running, sessionVars, tasks, reqPc>>

Worker == TaskWaitCheck \/ TaskWaitBlock \/ Pop \/ FoundEmpty \/ RunTask
-----------------------------------------------------------------------------
(***************************************************************************)
(* The owner's thread: connect(), disconnect(), ~standalone() and the      *)
(* stop_worker() both run.                                                 *)
(***************************************************************************)
\* Only the first call fires on_session_created().
Connect ==
    /\ sessionPc = "idle"
    /\ opened' = TRUE
    /\ UNCHANGED <<running, sessionPc, ownerNext, closed, workerVars, tasks, reqPc,
                   futureVars, ctxVars>>

\* on_session_destroyed() on the first call, then stop_worker().
Disconnect ==
    /\ sessionPc = "idle"
    /\ closed' = TRUE
    /\ sessionPc' = IF running THEN "store" ELSE "idle"
    /\ ownerNext' = "idle"
    /\ UNCHANGED <<running, opened, workerVars, tasks, reqPc, futureVars, ctxVars>>

\* The application destroys the runtime when none of its threads is in a call.
DestroySession ==
    /\ sessionPc = "idle"
    /\ \A r \in Reqs : reqPc[r] \in {"unused", "returned"}
    /\ sessionPc' = IF running THEN "store" ELSE "cleanup"
    /\ ownerNext' = "cleanup"
    /\ UNCHANGED <<running, opened, closed, workerVars, tasks, reqPc, futureVars, ctxVars>>

\* running_ is cleared under queue_'s lock, so that the worker cannot be
\* between its predicate and its wait.
StopStore ==
    /\ sessionPc = "store"
    /\ QueueUnlocked
    /\ running' = FALSE
    /\ sessionPc' = "notify"
    /\ UNCHANGED <<ownerNext, opened, closed, workerVars, tasks, reqPc, futureVars, ctxVars>>

StopNotify ==
    /\ sessionPc = "notify"
    /\ WakeWorker
    /\ sessionPc' = "join"
    /\ UNCHANGED <<running, ownerNext, opened, closed, task, tasks, reqPc, futureVars, ctxVars>>

JoinWorker ==
    /\ sessionPc = "join"
    /\ workerPc = "done"
    /\ sessionPc' = ownerNext
    /\ UNCHANGED <<running, ownerNext, opened, closed, workerVars, tasks, reqPc,
                   futureVars, ctxVars>>

\* __destruct on what is left; the promises still queued die with queue_.
Cleanup ==
    /\ sessionPc = "cleanup"
    /\ destructed' = [i \in Ids |-> IF i \in objects THEN destructed[i] + 1 ELSE destructed[i]]
    /\ objects' = {}
    /\ Resolve({tasks[k] : k \in 1 .. Len(tasks)}, "broken")
    /\ tasks' = << >>
    /\ sessionPc' = "destroyed"
    /\ UNCHANGED <<running, ownerNext, opened, closed, workerVars, reqPc, nextId>>

SessionOwnerContinues == StopStore \/ StopNotify \/ JoinWorker \/ Cleanup

SessionOwner == Connect \/ Disconnect \/ DestroySession \/ SessionOwnerContinues
-----------------------------------------------------------------------------
Caller(r) == EnqueueTask(r) \/ PushTask(r) \/ NotifyTask(r)

StandaloneNext ==
    \/ \E r \in Reqs : Caller(r)
    \/ Worker
    \/ SpuriousTaskWakeup
    \/ SessionOwner

StandaloneSpec == StandaloneInit /\ [][StandaloneNext]_standaloneVars

(***************************************************************************)
(* The worker is scheduled, a call that began goes on, and a thread that   *)
(* keeps trying gets queue_'s lock.  Nothing has to wake spuriously.       *)
(***************************************************************************)
StandaloneFairness ==
    /\ WF_standaloneVars(Worker)
    /\ WF_standaloneVars(SessionOwnerContinues)
    /\ WF_standaloneVars(\E r \in Reqs : NotifyTask(r))
    /\ SF_standaloneVars(StopStore \/ \E r \in Reqs : PushTask(r))

StandaloneFairSpec == StandaloneSpec /\ StandaloneFairness
-----------------------------------------------------------------------------
(***************************************************************************)
(* Properties.                                                             *)
(***************************************************************************)
\* Every variable keeps the shape of the member it stands for, and the context
\* is torn down, and disconnect() returns, only after the worker is gone.
StandaloneTypeOK ==
    /\ running \in BOOLEAN
    /\ sessionPc \in {"idle", "store", "notify", "join", "cleanup", "destroyed"}
    /\ ownerNext \in {"idle", "cleanup"}
    /\ workerPc \in {"check", "blocking", "blocked", "pop", "empty", "task", "done"}
    /\ task \in 0 .. MaxReqs
    /\ task # 0 <=> workerPc = "task"
    /\ tasks \in Seq(Reqs)
    /\ reqPc \in [Reqs -> {"unused", "push", "notify", "returned"}]
    /\ outcome \in [Reqs -> {"none", "value", "error", "broken"}]
    /\ resolved \in [Reqs -> Nat]
    /\ objects \in SUBSET Ids
    /\ nextId \in 0 .. MaxIds
    /\ destructed \in [Ids -> Nat]
    /\ opened \in BOOLEAN /\ closed \in BOOLEAN
    /\ workerPc = "done" => ~running
    /\ sessionPc \in {"idle", "cleanup", "destroyed"} /\ ~running => workerPc = "done"

\* A promise is set at most once, and a task is queued at most once and never
\* after it was run.
TasksRunOnce ==
    /\ \A r \in Reqs : resolved[r] = IF outcome[r] = "none" THEN 0 ELSE 1
    /\ \A k \in 1 .. Len(tasks) :
         /\ outcome[tasks[k]] = "none"
         /\ tasks[k] # task
         /\ \A j \in 1 .. Len(tasks) : tasks[j] = tasks[k] => j = k

\* Every object ever filed is in the table and was not destructed, or has left
\* it with __destruct run exactly once, by destroy or by the destructor.
DestructedOnce ==
    \A i \in Ids : destructed[i] = IF i <= nextId /\ i \notin objects THEN 1 ELSE 0

\* A task that is queued while running_ is true is run, also when disconnect()
\* comes before its turn: the worker drains the queue.
TasksRun ==
    \A r \in Reqs :
        (running /\ \E k \in 1 .. Len(tasks) : tasks[k] = r) ~> (outcome[r] # "none")

\* disconnect() and the destructor return.
StandaloneStopReturns == (sessionPc # "idle") ~> (sessionPc \in {"idle", "destroyed"})

\* What worker_loop() documents: the worker leaves no task behind, so that all
\* pending futures are resolved.
DrainedOnExit == workerPc = "done" => tasks = << >>
=============================================================================
