--------------------------- MODULE ProfilerService ---------------------------
(***************************************************************************)
(* profiler_service: the capture switched on and off over RMI, the bounded *)
(* queue of trace blocks that clients submit, and the writer thread that   *)
(* appends them to the trace file.                                         *)
(*                                                                         *)
(* Three kinds of thread: dispatch workers in submit_trace_block(), one    *)
(* per block; the writer thread; and the controller, the one thread that   *)
(* starts and stops captures and destroys the service.  The service's own  *)
(* recorder appends to the file from the time the controller activates it  *)
(* until that call's counterpart has joined its flush thread (Recorder).   *)
(* What is in a block, the file's name and failing writes are left out.    *)
(***************************************************************************)
EXTENDS Naturals, Sequences, FiniteSets

CONSTANTS
    Blocks,         \* trace blocks that clients submit
    MaxQueued,      \* kMaxQueuedTraceBlocks
    MaxCaptures     \* bound: captures started over a behaviour

ASSUME ProfilerAssumption ==
    IsFiniteSet(Blocks) /\ MaxQueued \in Nat \ {0} /\ MaxCaptures \in Nat

VARIABLES
    capture,    \* capture_active_
    local,      \* local_recorder_ may append
    file,       \* the trace file is open
    queue,      \* pending_blocks_
    stopping,   \* writer_stopping_
    writerPc,   \* writer_thread_
    held,       \* the block the writer thread and the controller took, if any
    ctlPc,      \* the controller
    submitPc,   \* how far submit_trace_block() got, per block
    fate,       \* history: what became of the block
    starts,     \* captures started
    stops,      \* history: calls of stop_capture() that ended a capture
    seen        \* history: stops when the block was found admissible

captureVars == <<capture, local, file>>
writerVars == <<stopping, writerPc>>
submitVars == <<submitPc, seen>>
countVars == <<starts, stops>>
vars == <<captureVars, queue, writerVars, held, ctlPc, submitVars, fate, countVars>>

Appenders == {"writer", "controller"}

NoBlock == << >>

\* The constructor has started the writer thread, which is at pc.
ServiceWith(pc) ==
    /\ capture = FALSE /\ local = FALSE /\ file = FALSE
    /\ queue = << >>
    /\ stopping = FALSE /\ writerPc = pc
    /\ held = [t \in Appenders |-> NoBlock]
    /\ ctlPc = "idle"
    /\ submitPc = [b \in Blocks |-> "unused"]
    /\ fate = [b \in Blocks |-> "none"]
    /\ starts = 0 /\ stops = 0
    /\ seen = [b \in Blocks |-> 0]

Init == ServiceWith("loop")

\* The writer thread holds the queue's lock from its predicate to the wait.
Unlocked == writerPc # "blocking"

Wake == writerPc' = IF writerPc = "blocked" THEN "check" ELSE writerPc
-----------------------------------------------------------------------------
(***************************************************************************)
(* submit_trace_block(), on any dispatch worker.                           *)
(***************************************************************************)
\* capture_active_ is read first; an empty block is refused as well.
Submit(b) ==
    /\ ctlPc \notin {"leave", "notify", "join", "gone"}
    /\ submitPc[b] = "unused"
    /\ \E empty \in BOOLEAN :
         submitPc' = [submitPc EXCEPT ![b] = IF capture /\ ~empty THEN "enqueue" ELSE "answered"]
    /\ seen' = [seen EXCEPT ![b] = stops]
    /\ UNCHANGED <<captureVars, queue, writerVars, held, ctlPc, fate, countVars>>

Enqueue(b) ==
    /\ submitPc[b] = "enqueue"
    /\ Unlocked
    /\ IF Len(queue) >= MaxQueued
       THEN submitPc' = [submitPc EXCEPT ![b] = "answered"] /\ UNCHANGED <<queue, fate>>
       ELSE /\ queue' = Append(queue, b)
            /\ fate' = [fate EXCEPT ![b] = "accepted"]
            /\ submitPc' = [submitPc EXCEPT ![b] = "notify"]
    /\ UNCHANGED <<captureVars, writerVars, held, ctlPc, seen, countVars>>

NotifyWriter(b) ==
    /\ submitPc[b] = "notify"
    /\ Wake
    /\ submitPc' = [submitPc EXCEPT ![b] = "answered"]
    /\ UNCHANGED <<captureVars, queue, stopping, held, ctlPc, seen, fate, countVars>>
-----------------------------------------------------------------------------
(***************************************************************************)
(* write_pending_blocks(), in two steps: thread t takes the front block,   *)
(* then appends it to the file if that is open.                            *)
(***************************************************************************)
\* Mutant of TakeBlock: the front is copied and removed only after the write.
TakeBlockKeepsFront(t) ==
    /\ held' = [held EXCEPT ![t] = <<Head(queue)>>]
    /\ queue' = IF Len(queue) > 1 THEN Tail(queue) ELSE queue

TakeBlock(t) ==
    /\ held' = [held EXCEPT ![t] = <<Head(queue)>>]
    /\ queue' = Tail(queue)

AppendToFile(t) ==
    /\ fate' = [fate EXCEPT ![held[t][1]] = IF file THEN "written" ELSE "lost"]
    /\ held' = [held EXCEPT ![t] = NoBlock]
-----------------------------------------------------------------------------
(***************************************************************************)
(* The writer thread.                                                      *)
(***************************************************************************)
WriterLoop ==
    /\ writerPc = "loop"
    /\ writerPc' = IF stopping THEN "last" ELSE "check"
    /\ UNCHANGED <<captureVars, queue, stopping, held, ctlPc, submitVars, fate, countVars>>

\* The predicate of wait() ...
WaitCheck ==
    /\ writerPc = "check"
    /\ writerPc' = IF queue # << >> \/ stopping THEN "write" ELSE "blocking"
    /\ UNCHANGED <<captureVars, queue, stopping, held, ctlPc, submitVars, fate, countVars>>

\* ... and the wait.
WaitBlock ==
    /\ writerPc = "blocking"
    /\ writerPc' = "blocked"
    /\ UNCHANGED <<captureVars, queue, stopping, held, ctlPc, submitVars, fate, countVars>>

SpuriousWakeup ==
    /\ writerPc = "blocked"
    /\ writerPc' = "check"
    /\ UNCHANGED <<captureVars, queue, stopping, held, ctlPc, submitVars, fate, countVars>>

\* "write" is the call inside the loop, "last" the one after it.
WriterTake ==
    /\ writerPc \in {"write", "last"}
    /\ queue # << >>
    /\ TakeBlock("writer")
    /\ writerPc' = IF writerPc = "write" THEN "append" ELSE "append_last"
    /\ UNCHANGED <<captureVars, stopping, ctlPc, submitVars, fate, countVars>>

WriterAppend ==
    /\ writerPc \in {"append", "append_last"}
    /\ AppendToFile("writer")
    /\ writerPc' = IF writerPc = "append" THEN "write" ELSE "last"
    /\ UNCHANGED <<captureVars, queue, stopping, ctlPc, submitVars, countVars>>

WriterDone ==
    /\ writerPc \in {"write", "last"}
    /\ queue = << >>
    /\ writerPc' = IF writerPc = "write" THEN "loop" ELSE "done"
    /\ UNCHANGED <<captureVars, queue, stopping, held, ctlPc, submitVars, fate, countVars>>

Writer == WriterLoop \/ WaitCheck \/ WaitBlock \/ WriterTake \/ WriterAppend \/ WriterDone
-----------------------------------------------------------------------------
(***************************************************************************)
(* The controller.                                                         *)
(***************************************************************************)
\* Mutant of StartCapture: the capture is active before the file is opened.
StartCaptureActiveFirst ==
    /\ ctlPc = "idle"
    /\ ~capture
    /\ starts < MaxCaptures
    /\ starts' = starts + 1
    /\ capture' = TRUE
    /\ \/ file' = TRUE /\ ctlPc' = "activate"
       \/ UNCHANGED <<file, ctlPc>>
    /\ UNCHANGED <<local, queue, writerVars, held, submitVars, fate, stops>>

\* start_capture() opens the file, or answers that it cannot.
StartCapture ==
    /\ ctlPc = "idle"
    /\ ~capture
    /\ starts < MaxCaptures
    /\ starts' = starts + 1
    /\ \/ file' = TRUE /\ ctlPc' = "activate"
       \/ UNCHANGED <<file, ctlPc>>
    /\ UNCHANGED <<capture, local, queue, writerVars, held, submitVars, fate, stops>>

ActivateCapture ==
    /\ ctlPc = "activate"
    /\ capture' = TRUE
    /\ ctlPc' = "local_on"
    /\ UNCHANGED <<local, file, queue, writerVars, held, submitVars, fate, countVars>>

ActivateLocal ==
    /\ ctlPc = "local_on"
    /\ local' = TRUE
    /\ ctlPc' = "idle"
    /\ UNCHANGED <<capture, file, queue, writerVars, held, submitVars, fate, countVars>>

StopCapture ==
    /\ ctlPc = "idle"
    /\ capture
    /\ capture' = FALSE
    /\ stops' = stops + 1
    /\ ctlPc' = "local_off"
    /\ UNCHANGED <<local, file, queue, writerVars, held, submitVars, fate, starts>>

DeactivateLocal ==
    /\ ctlPc = "local_off"
    /\ local' = FALSE
    /\ ctlPc' = "drain"
    /\ UNCHANGED <<capture, file, queue, writerVars, held, submitVars, fate, countVars>>

DrainTake ==
    /\ ctlPc = "drain"
    /\ Unlocked
    /\ queue # << >>
    /\ TakeBlock("controller")
    /\ ctlPc' = "append"
    /\ UNCHANGED <<captureVars, writerVars, submitVars, fate, countVars>>

DrainAppend ==
    /\ ctlPc = "append"
    /\ AppendToFile("controller")
    /\ ctlPc' = "drain"
    /\ UNCHANGED <<captureVars, queue, writerVars, submitVars, countVars>>

\* Nothing left to drain: the file is closed, in a step of its own.
DrainDone ==
    /\ ctlPc = "drain"
    /\ Unlocked
    /\ queue = << >>
    /\ ctlPc' = "close"
    /\ UNCHANGED <<captureVars, queue, writerVars, held, submitVars, fate, countVars>>

CloseFile ==
    /\ ctlPc = "close"
    /\ file' = FALSE
    /\ ctlPc' = "idle"
    /\ UNCHANGED <<capture, local, queue, writerVars, held, submitVars, fate, countVars>>

\* The destructor, once no dispatch worker is left in a call.
Destroy ==
    /\ ctlPc = "idle"
    /\ \A b \in Blocks : submitPc[b] \in {"unused", "answered"}
    /\ local' = FALSE
    /\ ctlPc' = "leave"
    /\ UNCHANGED <<capture, file, queue, writerVars, held, submitVars, fate, countVars>>

StopWriter ==
    /\ ctlPc = "leave"
    /\ stopping' = TRUE
    /\ ctlPc' = "notify"
    /\ UNCHANGED <<captureVars, queue, writerPc, held, submitVars, fate, countVars>>

NotifyStop ==
    /\ ctlPc = "notify"
    /\ Wake
    /\ ctlPc' = "join"
    /\ UNCHANGED <<captureVars, queue, stopping, held, submitVars, fate, countVars>>

\* Mutant of JoinWriter: the writer thread is left to itself.
JoinWriterSkipped ==
    /\ ctlPc = "join"
    /\ ctlPc' = "gone"
    /\ file' = FALSE
    /\ UNCHANGED <<capture, local, queue, writerVars, held, submitVars, fate, countVars>>

\* The members go after the join, and the file with them.
JoinWriter ==
    /\ ctlPc = "join"
    /\ writerPc = "done"
    /\ ctlPc' = "gone"
    /\ file' = FALSE
    /\ UNCHANGED <<capture, local, queue, writerVars, held, submitVars, fate, countVars>>

ControllerContinues ==
    \/ ActivateCapture \/ ActivateLocal \/ DeactivateLocal
    \/ DrainTake \/ DrainAppend \/ DrainDone \/ CloseFile
    \/ StopWriter \/ NotifyStop \/ JoinWriter

Controller == StartCapture \/ StopCapture \/ Destroy \/ ControllerContinues
-----------------------------------------------------------------------------
Next ==
    \/ \E b \in Blocks : Submit(b) \/ Enqueue(b) \/ NotifyWriter(b)
    \/ Writer \/ SpuriousWakeup
    \/ Controller

Spec == Init /\ [][Next]_vars

(***************************************************************************)
(* The writer thread and the dispatch workers, the controller's included,  *)
(* are scheduled; no call has to be made.                                  *)
(***************************************************************************)
Fairness ==
    /\ WF_vars(Writer)
    /\ WF_vars(ControllerContinues)
    /\ WF_vars(\E b \in Blocks : NotifyWriter(b))

FairSpec == Spec /\ Fairness
-----------------------------------------------------------------------------
(***************************************************************************)
(* Properties.                                                             *)
(***************************************************************************)
\* Every variable keeps the shape of the member it stands for, and the queue
\* stays within its limit whatever the dispatch workers do at once.
TypeOK ==
    /\ capture \in BOOLEAN /\ local \in BOOLEAN /\ file \in BOOLEAN
    /\ queue \in Seq(Blocks) /\ Len(queue) <= MaxQueued
    /\ stopping \in BOOLEAN
    /\ writerPc \in {"loop", "check", "blocking", "blocked", "write", "append", "last",
                     "append_last", "done"}
    /\ held \in [Appenders -> {NoBlock} \union {<<b>> : b \in Blocks}]
    /\ ctlPc \in {"idle", "activate", "local_on", "local_off", "drain", "append", "close",
                  "leave", "notify", "join", "gone"}
    /\ submitPc \in [Blocks -> {"unused", "enqueue", "notify", "answered"}]
    /\ fate \in [Blocks -> {"none", "accepted", "written", "lost"}]
    /\ starts \in 0 .. MaxCaptures /\ stops \in Nat
    /\ seen \in [Blocks -> Nat]

\* "without either dropping or duplicating a block": an accepted block that was
\* not appended yet is queued or held by the writer thread or the controller,
\* once; any other block is in none of these places.
BlocksHeldOnce ==
    LET all == queue \o held["writer"] \o held["controller"] IN
    /\ \A j, k \in 1 .. Len(all) : all[j] = all[k] => j = k
    /\ \A b \in Blocks :
          (\E k \in 1 .. Len(all) : all[k] = b) <=> fate[b] = "accepted"

\* An accepted block misses the file only if stop_capture() was called after
\* the submission found the capture active - in particular not because the
\* service is destroyed, and not because the file could not be opened.
LostOnlyByStop ==
    \A b \in Blocks : fate[b] = "lost" => stops > seen[b]

\* "a clean shutdown doesn't silently drop the trace's tail": when the
\* destructor returns, no accepted block is left unwritten; whether the file
\* was still open for it is LostOnlyByStop.
DestructorDrains ==
    ctlPc = "gone" => \A b \in Blocks : fate[b] # "accepted"

\* An accepted block is appended, by the writer thread if not by the controller.
BlocksAppended ==
    (\E b \in Blocks : fate[b] = "accepted") ~> (\A b \in Blocks : fate[b] # "accepted")
=============================================================================
