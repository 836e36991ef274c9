----------------------------- MODULE MCRuntime -----------------------------
(***************************************************************************)
(* Standalone, Recorder, ProfilerService and Console for TLC.  They share  *)
(* no state: a behaviour is of one of them, its part, while the others     *)
(* rest in a state where none of their fair actions is enabled (a worker   *)
(* is parked in its wait, nobody reads a line).                            *)
(***************************************************************************)
EXTENDS Standalone, Recorder, ProfilerService, Console

CONSTANT Parts  \* of "standalone", "recorder", "service" and "console"

VARIABLE part

\* Keystrokes, some cut in two and some with others: a, two lines at once, enter,
\* backspace, ^D, ^C, escape, the rest of an up arrow, the arrows, home, end,
\* delete, tab, and the end of the input.
Keystrokes ==
    {<<97>>, <<97, 13, 98, 13>>, <<13>>, <<127>>, <<4>>, <<3>>, <<27>>, <<91, 65>>, <<27, 91, 65>>,
     <<27, 91, 66>>, <<27, 91, 68>>, <<27, 79, 67>>, <<27, 91, 72>>, <<27, 91, 70>>,
     <<27, 91, 51, 126>>, <<9>>, <<>>}
Pasted == {<<97>>, <<13>>, <<10>>, <<127>>, <<13, 10>>, <<97, 98, 10, 97>>, <<>>}

RuntimeInit ==
    /\ part \in Parts
    /\ StandaloneWith(IF part = "standalone" THEN "check" ELSE "blocked")
    /\ RecorderInit /\ (part # "recorder" => sink = "local")
    /\ ServiceWith(IF part = "service" THEN "loop" ELSE "blocked")
    /\ ConsoleInit /\ (part # "console" => raw)

\* The next-state relations, an action at a time so that TLC reports each.
InStandalone(A) == part = "standalone" /\ A /\ UNCHANGED <<part, recorderVars, vars, consoleVars>>
InRecorder(A) == part = "recorder" /\ A /\ UNCHANGED <<part, standaloneVars, vars, consoleVars>>
InService(A) == part = "service" /\ A /\ UNCHANGED <<part, standaloneVars, recorderVars, consoleVars>>
InConsole(A) == part = "console" /\ A /\ UNCHANGED <<part, standaloneVars, recorderVars, vars>>

StandaloneSteps ==
    \/ \E r \in Reqs : \/ InStandalone(EnqueueTask(r)) \/ InStandalone(PushTask(r))
                       \/ InStandalone(NotifyTask(r))
    \/ InStandalone(TaskWaitCheck) \/ InStandalone(TaskWaitBlock) \/ InStandalone(Pop)
    \/ InStandalone(FoundEmpty) \/ InStandalone(RunTask) \/ InStandalone(SpuriousTaskWakeup)
    \/ InStandalone(Connect) \/ InStandalone(Disconnect) \/ InStandalone(DestroySession)
    \/ InStandalone(StopStore) \/ InStandalone(StopNotify) \/ InStandalone(JoinWorker)
    \/ InStandalone(Cleanup)

RecorderSteps ==
    \/ \E e \in Events : InRecorder(Record(e)) \/ InRecorder(Push(e))
    \/ InRecorder(FlushLoop) \/ InRecorder(FlushSwap) \/ InRecorder(FlushSink)
    \/ InRecorder(CorrectState) \/ InRecorder(LastSwap) \/ InRecorder(LastSink)
    \/ InRecorder(SelfJoin)
    \/ InRecorder(Activate) \/ InRecorder(Deactivate) \/ InRecorder(DestroyRecorder)
    \/ InRecorder(OwnerStore) \/ InRecorder(OwnerSwap) \/ InRecorder(OwnerSink)
    \/ InRecorder(OwnerStop) \/ InRecorder(OwnerJoin)

ServiceSteps ==
    \/ \E b \in Blocks : \/ InService(Submit(b)) \/ InService(Enqueue(b))
                         \/ InService(NotifyWriter(b))
    \/ InService(WriterLoop) \/ InService(WaitCheck) \/ InService(WaitBlock)
    \/ InService(WriterTake) \/ InService(WriterAppend) \/ InService(WriterDone)
    \/ InService(SpuriousWakeup)
    \/ InService(StartCapture) \/ InService(StopCapture) \/ InService(Destroy)
    \/ InService(ActivateCapture) \/ InService(ActivateLocal) \/ InService(DeactivateLocal)
    \/ InService(DrainTake) \/ InService(DrainAppend) \/ InService(DrainDone)
    \/ InService(CloseFile) \/ InService(StopWriter) \/ InService(NotifyStop)
    \/ InService(JoinWriter)

ConsoleSteps ==
    \/ InConsole(read_line) \/ InConsole(PartOfKey) \/ InConsole(Keystroke)
    \/ \E chunk \in Keystrokes \cup Pasted :
          InConsole(chunk \in ChunksSent /\ Passthrough(chunk))

RuntimeNext == StandaloneSteps \/ RecorderSteps \/ ServiceSteps \/ ConsoleSteps

RuntimeSpec ==
    RuntimeInit /\ [][RuntimeNext]_<<part, standaloneVars, recorderVars, vars, consoleVars>>

RuntimeFairSpec ==
    RuntimeSpec /\ StandaloneFairness /\ RecorderFairness /\ Fairness /\ ConsoleFairness

\* Nobody hangs: a task queued in time runs (standalone::run_worker()),
\* disconnect() and the destructors return, a recorded event is flushed while
\* the capture lasts, a trace block that was accepted reaches the file, and
\* the line editor reads what it is fed.
RuntimeSettles ==
    /\ TasksRun /\ StandaloneStopReturns
    /\ RecorderStopReturns /\ EventsFlushed
    /\ BlocksAppended
    /\ KeysRead
=============================================================================
