--------------------------- MODULE ProfilerProofs ---------------------------
(***************************************************************************)
(* Proofs about the profiler's two sides, which share no state: the        *)
(* recorder, for any number of events and calls, and the service, for any  *)
(* set of blocks, any limit of the queue and any number of captures.       *)
(*                                                                         *)
(* Recorder: the shape of the variables (Shape) is inductive; that a local *)
(* recorder has a flush thread exactly while its capture is active needs   *)
(* LocalInv, which follows the owner through set_capture_active(false).    *)
(* EventsFlushedOnce needs EventsInv: an event is at one place, a thread   *)
(* that swaps has no batch to overwrite, and the tail of the capture is    *)
(* where each point of the owner's call leaves it.                         *)
(*                                                                         *)
(* Service: BlocksHeldOnce needs PlacesInv, the same for blocks;           *)
(* DestructorDrains needs LeavingInv, which follows the destructor.        *)
(***************************************************************************)
EXTENDS Recorder, ProfilerService, SeqFacts

-----------------------------------------------------------------------------
(***************************************************************************)
(* The recorder.                                                           *)
(***************************************************************************)
\* RecorderTypeOK without its last conjunct.
Shape ==
    /\ sink \in {"local", "remote"}
    /\ active \in BOOLEAN /\ stopFlushing \in BOOLEAN
    /\ flushPc \in {"none", "loop", "wait", "sink", "correct", "last_swap", "last_sink",
                    "self_join", "done"}
    /\ catching \in BOOLEAN
    /\ ownerPc \in {"idle", "store", "swap", "sink", "stop", "join", "gone"}
    /\ leaving \in {"no", "derived", "base"}
    /\ calls \in 0 .. MaxCalls
    /\ tail \in SUBSET Events
    /\ recPc \in [Events -> {"unused", "push", "recorded", "dropped"}]
    /\ buffer \in Seq(Events)
    /\ batch \in [Threads -> Seq(Events)]
    /\ flushed \in Seq(Events)
    /\ dead \in BOOLEAN

\* flush_once() keeps buffer, batches and sink sequences of events.
LEMMA FlushOnceShape ==
    ASSUME Shape, NEW t \in Threads
    PROVE  /\ SwapBuffer(t) => buffer' \in Seq(Events) /\ batch' \in [Threads -> Seq(Events)]
           /\ Deliver(t) => flushed' \in Seq(Events) /\ batch' \in [Threads -> Seq(Events)]
  <1>1. << >> \in Seq(Events)
    OBVIOUS
  <1>2. flushed \o batch[t] \in Seq(Events)
    BY DEF Shape
  <1> QED
    BY <1>1, <1>2 DEF SwapBuffer, Deliver, Shape

\* Recording an event keeps the shape.
LEMMA RecordShape ==
    ASSUME Shape, NEW e \in Events, Record(e) \/ Push(e)
    PROVE  Shape'
  <1>1. CASE Record(e)
    BY <1>1 DEF Record, Shape, ctlVars, flushVars, ownerVars
  <1>2. CASE Push(e)
    <2>1. buffer' \in Seq(Events)
      BY <1>2 DEF Push, Shape
    <2> QED
      BY <1>2, <2>1 DEF Push, Shape, ctlVars, flushVars, ownerVars
  <1> QED BY <1>1, <1>2

\* So do the flush thread's steps.
LEMMA FlushThreadShape ==
    ASSUME Shape, FlushThread
    PROVE  Shape'
  <1> USE FlushOnceShape DEF Threads
  <1>1. CASE FlushLoop
    BY <1>1 DEF FlushLoop, Shape, ctlVars, ownerVars, dataVars
  <1>2. CASE FlushSwap \/ LastSwap
    <2>1. buffer' \in Seq(Events) /\ batch' \in [Threads -> Seq(Events)]
      BY <1>2 DEF FlushSwap, LastSwap
    <2> QED
      BY <1>2, <2>1 DEF FlushSwap, LastSwap, Shape, ctlVars, ownerVars
  <1>3. CASE FlushSink
    <2>1. flushed' \in Seq(Events) /\ batch' \in [Threads -> Seq(Events)]
      BY <1>3 DEF FlushSink
    <2>2. dead' \in BOOLEAN /\ catching' \in BOOLEAN /\ flushPc' \in {"sink", "loop", "correct"}
      BY <1>3 DEF FlushSink, flushVars, Shape
    <2> QED
      BY <1>3, <2>1, <2>2 DEF FlushSink, Shape, ctlVars, ownerVars
  <1>4. CASE CorrectState
    BY <1>4 DEF CorrectState, Shape, ownerVars, dataVars
  <1>5. CASE LastSink
    <2>1. flushed' \in Seq(Events) /\ batch' \in [Threads -> Seq(Events)]
      BY <1>5 DEF LastSink
    <2>2. dead' \in BOOLEAN /\ flushPc' \in {"last_sink", "self_join"}
      BY <1>5 DEF LastSink, Shape
    <2> QED
      BY <1>5, <2>1, <2>2 DEF LastSink, Shape, ctlVars, ownerVars
  <1>6. CASE SelfJoin
    BY <1>6 DEF SelfJoin, Shape, ownerVars, dataVars
  <1> QED
    BY <1>1, <1>2, <1>3, <1>4, <1>5, <1>6 DEF FlushThread

\* And the owner's.
LEMMA OwnerShape ==
    ASSUME Shape, Owner
    PROVE  Shape'
  <1> USE FlushOnceShape, RecorderAssumption DEF Threads
  <1>1. CASE Activate
    <2>1. calls' \in 0 .. MaxCalls
      BY <1>1 DEF Activate, Shape
    <2>2. dead' \in BOOLEAN /\ flushPc' \in {flushPc, "loop"}
      BY <1>1 DEF Activate, Shape
    <2> QED
      BY <1>1, <2>1, <2>2 DEF Activate, Shape, dataVars
  <1>2. CASE Deactivate
    <2>1. calls' \in 0 .. MaxCalls
      BY <1>2 DEF Deactivate, Shape
    <2> QED
      BY <1>2, <2>1 DEF Deactivate, Shape, ctlVars, flushVars, dataVars
  <1>3. CASE DestroyRecorder
    BY <1>3 DEF DestroyRecorder, Shape, ctlVars, flushVars, dataVars
  <1>4. CASE OwnerStore
    BY <1>4 DEF OwnerStore, Shape, flushVars, dataVars
  <1>5. CASE OwnerSwap
    <2>1. buffer' \in Seq(Events) /\ batch' \in [Threads -> Seq(Events)]
      BY <1>5 DEF OwnerSwap
    <2> QED
      BY <1>5, <2>1 DEF OwnerSwap, Shape, ctlVars, flushVars
  <1>6. CASE OwnerSink
    <2>1. flushed' \in Seq(Events) /\ batch' \in [Threads -> Seq(Events)]
      BY <1>6 DEF OwnerSink
    <2>2. dead' \in BOOLEAN /\ ownerPc' \in {"sink", "stop"}
      BY <1>6 DEF OwnerSink, Shape
    <2> QED
      BY <1>6, <2>1, <2>2 DEF OwnerSink, Shape, ctlVars, flushVars
  <1>7. CASE OwnerStop
    BY <1>7 DEF OwnerStop, Shape, flushVars, dataVars
  <1>8. CASE OwnerJoin
    BY <1>8 DEF OwnerJoin, Shape, ctlVars, dataVars
  <1> QED
    BY <1>1, <1>2, <1>3, <1>4, <1>5, <1>6, <1>7, <1>8 DEF Owner, OwnerContinues

\* Shape holds in every reachable state.
LEMMA ShapeCorrect == RecorderSpec => []Shape
  <1>1. RecorderInit => Shape
    <2> SUFFICES ASSUME RecorderInit PROVE Shape
      OBVIOUS
    <2>1. /\ buffer \in Seq(Events) /\ flushed \in Seq(Events)
          /\ batch \in [Threads -> Seq(Events)]
      BY DEF RecorderInit
    <2>2. calls \in 0 .. MaxCalls
      BY RecorderAssumption DEF RecorderInit
    <2> QED
      BY <2>1, <2>2 DEF RecorderInit, Shape
  <1>2. Shape /\ [RecorderNext]_recorderVars => Shape'
    <2> SUFFICES ASSUME Shape, [RecorderNext]_recorderVars PROVE Shape'
      OBVIOUS
    <2>1. CASE UNCHANGED recorderVars
      BY <2>1 DEF recorderVars, ctlVars, flushVars, ownerVars, dataVars, Shape
    <2> QED
      BY <2>1, RecordShape, FlushThreadShape, OwnerShape DEF RecorderNext
  <1> QED
    BY <1>1, <1>2, PTL DEF RecorderSpec
-----------------------------------------------------------------------------
(***************************************************************************)
(* The local recorder.  Nothing but the owner switches its capture, so the *)
(* flush thread is joinable exactly while the capture is active or being   *)
(* ended, and never runs when the sink is gone.                            *)
(***************************************************************************)
LocalInv ==
    sink = "local" =>
        /\ ~dead
        /\ flushPc \in {"none", "loop", "wait", "sink", "done"}
        /\ ownerPc \in {"idle", "store"} => (active <=> Joinable)
        /\ ownerPc \in {"swap", "sink", "stop", "join", "gone"} => ~active
        /\ leaving = "base" => ~Joinable
        /\ leaving # "no" => ownerPc # "idle"

\* No step of any thread breaks LocalInv.
LEMMA LocalStep ==
    ASSUME Shape, LocalInv, RecorderNext
    PROVE  LocalInv'
  <1> SUFFICES ASSUME sink' = "local" PROVE LocalInv'
    BY DEF LocalInv
  <1>0. sink' = sink
    BY DEF RecorderNext, Record, Push, FlushThread, FlushLoop, FlushSwap, FlushSink,
           CorrectState, LastSwap, LastSink, SelfJoin, Owner, OwnerContinues, Activate,
           Deactivate, DestroyRecorder, OwnerStore, OwnerSwap, OwnerSink, OwnerStop, OwnerJoin,
           ctlVars
  <1> USE <1>0 DEF LocalInv
  <1>1. ASSUME NEW e \in Events, Record(e) \/ Push(e) PROVE LocalInv'
    BY <1>1 DEF Record, Push, Joinable, ctlVars, flushVars, ownerVars
  <1>2. CASE FlushThread
    <2>1. FlushLoop \/ FlushSwap \/ FlushSink
      BY <1>2 DEF FlushThread, CorrectState, LastSwap, LastSink, SelfJoin
    <2>2. CASE FlushLoop \/ FlushSwap
      BY <2>2 DEF FlushLoop, FlushSwap, Joinable, ctlVars, ownerVars
    <2>3. CASE FlushSink
      <3>1. leaving # "base"
        BY <2>3 DEF FlushSink, Joinable
      <3>2. Answers \union Crashes = {"none"}
        BY <3>1 DEF Answers, Crashes
      <3>3. flushPc = "sink" /\ flushPc' = "loop" /\ dead' = dead
        BY <2>3, <3>2 DEF FlushSink
      <3>4. UNCHANGED <<active, ownerPc, leaving>>
        BY <2>3 DEF FlushSink, ctlVars, ownerVars
      <3> QED BY <3>3, <3>4 DEF Joinable
    <2> QED BY <2>1, <2>2, <2>3
  <1>3. CASE Owner
    <2>1. CASE Activate
      BY <2>1 DEF Activate, Joinable
    <2>2. CASE Deactivate \/ DestroyRecorder
      BY <2>2 DEF Deactivate, DestroyRecorder, Joinable, ctlVars, flushVars
    <2>3. CASE OwnerStore \/ OwnerSwap \/ OwnerStop
      BY <2>3 DEF OwnerStore, OwnerSwap, OwnerStop, Joinable, ctlVars, flushVars
    <2>4. CASE OwnerSink
      <3>1. ownerPc = "sink" /\ ownerPc' = "stop" /\ dead' = dead
        BY <2>4 DEF OwnerSink, Answers
      <3>2. UNCHANGED <<active, flushPc, leaving>>
        BY <2>4 DEF OwnerSink, ctlVars, flushVars
      <3> QED BY <3>1, <3>2 DEF Joinable
    <2>5. CASE OwnerJoin
      BY <2>5 DEF OwnerJoin, Joinable, Shape, ctlVars
    <2> QED
      BY <1>3, <2>1, <2>2, <2>3, <2>4, <2>5 DEF Owner, OwnerContinues
  <1> QED
    BY <1>1, <1>2, <1>3 DEF RecorderNext

\* LocalInv holds in every reachable state.
LEMMA LocalCorrect == RecorderSpec => []LocalInv
  <1>1. RecorderInit => LocalInv
    BY DEF RecorderInit, LocalInv, Joinable
  <1>2. Shape /\ LocalInv /\ [RecorderNext]_recorderVars => LocalInv'
    <2>1. LocalInv /\ UNCHANGED recorderVars => LocalInv'
      BY DEF recorderVars, ctlVars, flushVars, ownerVars, LocalInv, Joinable
    <2> QED BY <2>1, LocalStep
  <1> QED
    BY <1>1, <1>2, ShapeCorrect, PTL DEF RecorderSpec

\* Type correctness; between two calls of the owner the server's recorder has a
\* flush thread exactly while its capture is active.
THEOREM RecorderTypeCorrect == RecorderSpec => []RecorderTypeOK
  <1>1. Shape /\ LocalInv => RecorderTypeOK
    BY DEF Shape, LocalInv, RecorderTypeOK
  <1> QED
    BY <1>1, ShapeCorrect, LocalCorrect, PTL

\* The server's own recorder never terminates the process, however often the
\* capture is ended and started again and whatever the flush thread is doing.
THEOREM LocalRecorderSurvivesHolds == RecorderSpec => []LocalRecorderSurvives
  <1>1. LocalInv => LocalRecorderSurvives
    BY DEF LocalInv, LocalRecorderSurvives
  <1> QED
    BY <1>1, LocalCorrect, PTL
-----------------------------------------------------------------------------
(***************************************************************************)
(* Events.  A recorded event is at one place, once, and a thread that      *)
(* swaps the buffer out has no batch to overwrite.                         *)
(***************************************************************************)
EventOnceInv ==
    /\ Distinct(buffer) /\ Distinct(batch["flush"]) /\ Distinct(batch["owner"])
    /\ Distinct(flushed)
    /\ \A e \in Events :
         /\ Has(buffer, e) => ~Has(batch["flush"], e) /\ ~Has(batch["owner"], e)
         /\ Has(batch["flush"], e) => ~Has(batch["owner"], e)
         /\ Has(flushed, e) => /\ ~Has(buffer, e) /\ ~Has(batch["flush"], e)
                               /\ ~Has(batch["owner"], e)

RecordedInv ==
    \A e \in Events :
        (\/ Has(buffer, e) \/ Has(batch["flush"], e) \/ Has(batch["owner"], e)
         \/ Has(flushed, e)) <=> recPc[e] = "recorded"

BatchInv ==
    /\ flushPc \notin {"sink", "last_sink"} => batch["flush"] = << >>
    /\ ownerPc # "sink" => batch["owner"] = << >>

TailInv ==
    \A e \in tail :
        \/ Has(flushed, e)
        \/ ownerPc = "swap" /\ (Has(buffer, e) \/ Has(batch["flush"], e))
        \/ ownerPc = "sink" /\ (Has(batch["owner"], e) \/ Has(batch["flush"], e))
        \/ ownerPc \in {"stop", "join"} /\ Has(batch["flush"], e)

EventsInv == EventOnceInv /\ RecordedInv /\ BatchInv /\ TailInv

\* The swap moves the buffer's events into the batch of a thread that has none.
LEMMA SwapEvents ==
    ASSUME Shape, EventOnceInv, RecordedInv, NEW t \in Threads, batch[t] = << >>,
           SwapBuffer(t), UNCHANGED <<flushed, recPc>>
    PROVE  /\ EventOnceInv' /\ RecordedInv'
           /\ buffer' = << >> /\ batch'[t] = buffer
           /\ \A u \in Threads : u # t => batch'[u] = batch[u]
  <1>1. /\ buffer' = << >> /\ batch'[t] = buffer
        /\ \A u \in Threads : u # t => batch'[u] = batch[u]
    BY DEF SwapBuffer, Shape
  <1>2. CASE t = "flush"
    BY <1>1, <1>2, EmptyHas DEF EventOnceInv, RecordedInv, Threads
  <1>3. CASE t = "owner"
    BY <1>1, <1>3, EmptyHas DEF EventOnceInv, RecordedInv, Threads
  <1> QED BY <1>1, <1>2, <1>3 DEF Threads

\* flush_sink() moves the events of a thread's batch to the sink.
LEMMA DeliverEvents ==
    ASSUME Shape, EventOnceInv, RecordedInv, NEW t \in Threads,
           Deliver(t), UNCHANGED <<buffer, recPc>>
    PROVE  /\ EventOnceInv' /\ RecordedInv'
           /\ batch'[t] = << >>
           /\ \A e : Has(flushed', e) <=> Has(flushed, e) \/ Has(batch[t], e)
           /\ \A u \in Threads : u # t => batch'[u] = batch[u]
  <1>1. /\ flushed' = flushed \o batch[t] /\ batch'[t] = << >>
        /\ \A u \in Threads : u # t => batch'[u] = batch[u]
    BY DEF Deliver, Shape
  <1>2. flushed \in Seq(Events) /\ batch[t] \in Seq(Events)
    BY DEF Shape
  <1>3. /\ Distinct(flushed) /\ Distinct(batch[t])
        /\ \A e \in Events : ~(Has(flushed, e) /\ Has(batch[t], e))
    BY DEF EventOnceInv, Threads
  <1>4. Distinct(flushed') /\ \A e : Has(flushed', e) <=> Has(flushed, e) \/ Has(batch[t], e)
    BY <1>1, <1>2, <1>3, ConcatHas
  <1>5. CASE t = "flush"
    BY <1>1, <1>4, <1>5, EmptyHas DEF EventOnceInv, RecordedInv, Threads
  <1>6. CASE t = "owner"
    BY <1>1, <1>4, <1>6, EmptyHas DEF EventOnceInv, RecordedInv, Threads
  <1> QED BY <1>1, <1>4, <1>5, <1>6 DEF Threads

\* A step that moves no event and leaves the owner where it is.
LEMMA EventsFrame ==
    ASSUME EventsInv, UNCHANGED <<recPc, buffer, batch, flushed>>
    PROVE  /\ EventOnceInv' /\ RecordedInv'
           /\ UNCHANGED <<ownerPc, tail>> => TailInv'
  BY DEF EventsInv, EventOnceInv, RecordedInv, TailInv

\* record() buffers an event that is nowhere yet.
LEMMA RecordEvents ==
    ASSUME Shape, EventsInv, NEW c \in Events, Record(c) \/ Push(c)
    PROVE  EventsInv'
  <1>1. UNCHANGED <<flushPc, ownerPc, tail, batch, flushed>>
    BY DEF Record, Push, flushVars, ownerVars
  <1>2. BatchInv'
    BY <1>1 DEF EventsInv, BatchInv
  <1>3. CASE Record(c)
    <2>1. /\ buffer' = buffer /\ recPc[c] # "recorded" /\ recPc'[c] # "recorded"
          /\ \A e \in Events : e # c => recPc'[e] = recPc[e]
      BY <1>3 DEF Record, Shape
    <2>2. EventOnceInv' /\ RecordedInv' /\ TailInv'
      BY <1>1, <2>1 DEF EventsInv, EventOnceInv, RecordedInv, TailInv
    <2> QED BY <1>2, <2>2 DEF EventsInv
  <1>4. CASE Push(c)
    <2>1. /\ buffer' = Append(buffer, c) /\ recPc[c] = "push" /\ recPc'[c] = "recorded"
          /\ \A e \in Events : e # c => recPc'[e] = recPc[e]
      BY <1>4 DEF Push, Shape
    <2>2. /\ ~Has(buffer, c) /\ ~Has(batch["flush"], c) /\ ~Has(batch["owner"], c)
          /\ ~Has(flushed, c)
      BY <2>1 DEF EventsInv, RecordedInv
    <2>3. /\ \A e : Has(buffer', e) <=> Has(buffer, e) \/ e = c
          /\ Distinct(buffer')
      BY <2>1, <2>2, AppendHas DEF Shape, EventsInv, EventOnceInv
    <2>4. EventOnceInv'
      BY <1>1, <2>2, <2>3 DEF EventsInv, EventOnceInv
    <2>5. RecordedInv'
      BY <1>1, <2>1, <2>3 DEF EventsInv, RecordedInv
    <2>6. TailInv'
      BY <1>1, <2>3 DEF EventsInv, TailInv
    <2> QED BY <1>2, <2>4, <2>5, <2>6 DEF EventsInv
  <1> QED BY <1>3, <1>4

\* The flush thread's steps; what it swaps out is in its batch until the sink
\* has it, whatever the owner does meanwhile.
LEMMA FlushThreadEvents ==
    ASSUME Shape, EventsInv, FlushThread
    PROVE  EventsInv'
  <1>1. CASE FlushLoop \/ CorrectState \/ SelfJoin
    <2>1. /\ UNCHANGED <<recPc, buffer, batch, flushed, ownerPc, tail>>
          /\ flushPc \notin {"sink", "last_sink"} /\ flushPc' \notin {"sink", "last_sink"}
      BY <1>1 DEF FlushLoop, CorrectState, SelfJoin, dataVars, ownerVars
    <2>2. BatchInv'
      BY <2>1 DEF EventsInv, BatchInv
    <2> QED BY <2>1, <2>2, EventsFrame DEF EventsInv
  <1>2. CASE FlushSwap \/ LastSwap
    <2>1. /\ UNCHANGED <<recPc, flushed, ownerPc, tail>>
          /\ flushPc \notin {"sink", "last_sink"} /\ SwapBuffer("flush")
          /\ buffer = << >> \/ flushPc' \in {"sink", "last_sink"}
      BY <1>2 DEF FlushSwap, LastSwap, ownerVars
    <2>2. batch["flush"] = << >>
      BY <2>1 DEF EventsInv, BatchInv
    <2>3. /\ EventOnceInv' /\ RecordedInv' /\ buffer' = << >> /\ batch'["flush"] = buffer
          /\ batch'["owner"] = batch["owner"]
      BY <2>1, <2>2, SwapEvents DEF EventsInv, Threads
    <2>4. BatchInv'
      BY <2>1, <2>3 DEF EventsInv, BatchInv
    <2>5. TailInv'
      BY <2>1, <2>2, <2>3, EmptyHas DEF EventsInv, TailInv
    <2> QED BY <2>3, <2>4, <2>5 DEF EventsInv
  <1>3. CASE FlushSink \/ LastSink
    <2>1. UNCHANGED <<recPc, buffer, ownerPc, tail>> /\ Deliver("flush")
      BY <1>3 DEF FlushSink, LastSink, ownerVars
    <2>2. /\ EventOnceInv' /\ RecordedInv' /\ batch'["flush"] = << >>
          /\ batch'["owner"] = batch["owner"]
          /\ \A e : Has(flushed', e) <=> Has(flushed, e) \/ Has(batch["flush"], e)
      BY <2>1, DeliverEvents DEF EventsInv, Threads
    <2>3. BatchInv'
      BY <2>1, <2>2 DEF EventsInv, BatchInv
    <2>4. TailInv'
      BY <2>1, <2>2 DEF EventsInv, TailInv
    <2> QED BY <2>2, <2>3, <2>4 DEF EventsInv
  <1> QED
    BY <1>1, <1>2, <1>3 DEF FlushThread

\* The owner's steps; the tail of the capture it ends is handed on until the
\* flush thread is joined.
LEMMA OwnerEvents ==
    ASSUME Shape, EventsInv, Owner
    PROVE  EventsInv'
  <1>1. CASE Activate \/ Deactivate \/ DestroyRecorder
    <2>1. /\ UNCHANGED <<recPc, buffer, batch, flushed, tail>>
          /\ ownerPc = "idle" /\ ownerPc' \in {"idle", "store", "stop"}
          /\ flushPc' = flushPc \/ (flushPc = "none" /\ flushPc' = "loop")
      BY <1>1 DEF Activate, Deactivate, DestroyRecorder, Joinable, dataVars, flushVars
    <2>2. BatchInv' /\ TailInv'
      BY <2>1 DEF EventsInv, BatchInv, TailInv
    <2> QED BY <2>1, <2>2, EventsFrame DEF EventsInv
  <1>2. CASE OwnerStore
    <2>1. /\ UNCHANGED <<recPc, buffer, batch, flushed, flushPc>>
          /\ ownerPc = "store" /\ ownerPc' = "swap"
          /\ tail' = {e \in Events : InSeq(e, buffer)}
      BY <1>2 DEF OwnerStore, dataVars, flushVars
    <2>2. BatchInv'
      BY <2>1 DEF EventsInv, BatchInv
    <2>3. TailInv'
      BY <2>1 DEF TailInv, InSeq, Has
    <2> QED BY <2>1, <2>2, <2>3, EventsFrame DEF EventsInv
  <1>3. CASE OwnerSwap
    <2>1. /\ UNCHANGED <<recPc, flushed, flushPc, tail>> /\ SwapBuffer("owner")
          /\ ownerPc = "swap"
          /\ (buffer = << >> /\ ownerPc' = "stop") \/ ownerPc' = "sink"
      BY <1>3 DEF OwnerSwap, flushVars
    <2>2. batch["owner"] = << >>
      BY <2>1 DEF EventsInv, BatchInv
    <2>3. /\ EventOnceInv' /\ RecordedInv' /\ buffer' = << >> /\ batch'["owner"] = buffer
          /\ batch'["flush"] = batch["flush"]
      BY <2>1, <2>2, SwapEvents DEF EventsInv, Threads
    <2>4. BatchInv'
      BY <2>1, <2>3 DEF EventsInv, BatchInv
    <2>5. TailInv'
      BY <2>1, <2>3, EmptyHas DEF EventsInv, TailInv
    <2> QED BY <2>3, <2>4, <2>5 DEF EventsInv
  <1>4. CASE OwnerSink
    <2>1. /\ UNCHANGED <<recPc, buffer, flushPc, tail>> /\ Deliver("owner")
          /\ ownerPc = "sink" /\ ownerPc' \in {"sink", "stop"}
      BY <1>4 DEF OwnerSink, flushVars
    <2>2. /\ EventOnceInv' /\ RecordedInv' /\ batch'["owner"] = << >>
          /\ batch'["flush"] = batch["flush"]
          /\ \A e : Has(flushed', e) <=> Has(flushed, e) \/ Has(batch["owner"], e)
      BY <2>1, DeliverEvents DEF EventsInv, Threads
    <2>3. BatchInv'
      BY <2>1, <2>2 DEF EventsInv, BatchInv
    <2>4. TailInv'
      BY <2>1, <2>2 DEF EventsInv, TailInv
    <2> QED BY <2>2, <2>3, <2>4 DEF EventsInv
  <1>5. CASE OwnerStop
    <2>1. /\ UNCHANGED <<recPc, buffer, batch, flushed, flushPc, tail>>
          /\ ownerPc = "stop" /\ ownerPc' = "join"
      BY <1>5 DEF OwnerStop, dataVars, flushVars
    <2>2. BatchInv' /\ TailInv'
      BY <2>1 DEF EventsInv, BatchInv, TailInv
    <2> QED BY <2>1, <2>2, EventsFrame DEF EventsInv
  <1>6. CASE OwnerJoin
    <2>1. /\ UNCHANGED <<recPc, buffer, batch, flushed, tail>>
          /\ ownerPc = "join" /\ ownerPc' \in {"idle", "gone"}
          /\ flushPc \in {"done", "none"} /\ flushPc' = "none"
      BY <1>6 DEF OwnerJoin, dataVars
    <2>2. batch["flush"] = << >>
      BY <2>1 DEF EventsInv, BatchInv
    <2>3. BatchInv' /\ TailInv'
      BY <2>1, <2>2, EmptyHas DEF EventsInv, BatchInv, TailInv
    <2> QED BY <2>1, <2>3, EventsFrame DEF EventsInv
  <1> QED
    BY <1>1, <1>2, <1>3, <1>4, <1>5, <1>6 DEF Owner, OwnerContinues

\* EventsInv says what EventsFlushedOnce says of the four places put together.
LEMMA EventsInvSuffices ==
    ASSUME Shape, EventsInv
    PROVE  EventsFlushedOnce
  <1> DEFINE all == buffer \o batch["flush"] \o batch["owner"] \o flushed
  <1>1. /\ buffer \in Seq(Events) /\ batch["flush"] \in Seq(Events)
        /\ batch["owner"] \in Seq(Events) /\ flushed \in Seq(Events)
    BY DEF Shape, Threads
  <1>2. PICK s \in Seq(Events) : s = buffer \o batch["flush"]
    BY <1>1, ConcatHas
  <1>3. Distinct(s) /\ \A e : Has(s, e) <=> Has(buffer, e) \/ Has(batch["flush"], e)
    BY <1>1, <1>2, ConcatHas DEF EventsInv, EventOnceInv
  <1>4. PICK t \in Seq(Events) : t = s \o batch["owner"]
    BY <1>1, ConcatHas
  <1>5. Distinct(t) /\ \A e : Has(t, e) <=> Has(s, e) \/ Has(batch["owner"], e)
    <2>1. \A e \in Events : ~(Has(s, e) /\ Has(batch["owner"], e))
      BY <1>3 DEF EventsInv, EventOnceInv
    <2> QED BY <1>1, <1>3, <1>4, <2>1, ConcatHas DEF EventsInv, EventOnceInv
  <1>6. all = t \o flushed
    BY <1>2, <1>4
  <1> HIDE DEF all
  <1>7. Distinct(all) /\ \A e : Has(all, e) <=> Has(t, e) \/ Has(flushed, e)
    <2>1. \A e \in Events : ~(Has(t, e) /\ Has(flushed, e))
      BY <1>3, <1>5 DEF EventsInv, EventOnceInv
    <2> QED BY <1>1, <1>5, <1>6, <2>1, ConcatHas DEF EventsInv, EventOnceInv
  <1>8. \A e \in Events : Has(all, e) <=> recPc[e] = "recorded"
    BY <1>3, <1>5, <1>7 DEF EventsInv, RecordedInv
  <1>9. ownerPc \in {"idle", "gone"} => \A e \in tail : Has(flushed, e)
    BY DEF EventsInv, TailInv
  <1> QED
    BY <1>7, <1>8, <1>9 DEF EventsFlushedOnce, Has, Distinct, InSeq, all

\* Every recorded event is at exactly one place until it reaches the sink, once,
\* although the flush thread and the owner both run flush_once(); and the tail
\* of a capture has reached the sink when the call that ended it returns.
THEOREM EventsFlushedOnceHolds == RecorderSpec => []EventsFlushedOnce
  <1>1. RecorderInit => EventsInv
    <2> SUFFICES ASSUME RecorderInit PROVE EventsInv
      OBVIOUS
    <2>1. /\ buffer = << >> /\ flushed = << >> /\ tail = {}
          /\ batch["flush"] = << >> /\ batch["owner"] = << >>
          /\ \A e \in Events : recPc[e] # "recorded"
      BY DEF RecorderInit, Threads
    <2> QED
      BY <2>1, EmptyHas DEF EventsInv, EventOnceInv, RecordedInv, BatchInv, TailInv
  <1>2. Shape /\ EventsInv /\ [RecorderNext]_recorderVars => EventsInv'
    <2> SUFFICES ASSUME Shape, EventsInv, [RecorderNext]_recorderVars PROVE EventsInv'
      OBVIOUS
    <2>1. CASE UNCHANGED recorderVars
      <3>1. UNCHANGED <<recPc, buffer, batch, flushed, ownerPc, tail, flushPc>>
        BY <2>1 DEF recorderVars, flushVars, ownerVars, dataVars
      <3>2. BatchInv'
        BY <3>1 DEF EventsInv, BatchInv
      <3> QED BY <3>1, <3>2, EventsFrame DEF EventsInv
    <2> QED
      BY <2>1, RecordEvents, FlushThreadEvents, OwnerEvents DEF RecorderNext
  <1>3. Shape /\ EventsInv => EventsFlushedOnce
    BY EventsInvSuffices
  <1> QED
    BY <1>1, <1>2, <1>3, ShapeCorrect, PTL DEF RecorderSpec
-----------------------------------------------------------------------------
(***************************************************************************)
(* The service.                                                            *)
(***************************************************************************)
(***************************************************************************)
(* Type correctness.                                                       *)
(***************************************************************************)
\* What the front of a non-empty queue and its removal are.
LEMMA QueueFacts ==
    ASSUME NEW q \in Seq(Blocks), q # << >>
    PROVE  /\ Head(q) \in Blocks /\ Head(q) = q[1] /\ 1 \in 1 .. Len(q)
           /\ Tail(q) \in Seq(Blocks) /\ Len(Tail(q)) = Len(q) - 1
           /\ \A k \in 1 .. Len(Tail(q)) : Tail(q)[k] = q[k + 1] /\ k + 1 \in 1 .. Len(q)
  OBVIOUS

\* Submitting a block keeps every variable in its type; the limit is tested
\* under the lock that the push is made under.
LEMMA SubmitType ==
    ASSUME TypeOK, NEW b \in Blocks, Submit(b) \/ Enqueue(b) \/ NotifyWriter(b)
    PROVE  TypeOK'
<1>1. CASE Submit(b)
  BY <1>1 DEF Submit, TypeOK, captureVars, writerVars, countVars
<1>2. CASE Enqueue(b)
  <2>1. queue' \in Seq(Blocks) /\ Len(queue') <= MaxQueued
    <3>1. queue \in Seq(Blocks) /\ Len(queue) <= MaxQueued
      BY DEF TypeOK
    <3>2. CASE Len(queue) >= MaxQueued
      BY <1>2, <3>1, <3>2 DEF Enqueue
    <3>3. CASE ~(Len(queue) >= MaxQueued)
      <4>1. queue' = Append(queue, b)
        BY <1>2, <3>3 DEF Enqueue
      <4>2. Len(queue') = Len(queue) + 1 /\ queue' \in Seq(Blocks)
        BY <3>1, <4>1
      <4> QED BY <3>1, <3>3, <4>2, ProfilerAssumption DEF ProfilerAssumption
    <3> QED BY <3>2, <3>3
  <2>2. /\ submitPc' \in [Blocks -> {"unused", "enqueue", "notify", "answered"}]
        /\ fate' \in [Blocks -> {"none", "accepted", "written", "lost"}]
    BY <1>2 DEF Enqueue, TypeOK
  <2> QED
    BY <1>2, <2>1, <2>2 DEF Enqueue, TypeOK, captureVars, writerVars, countVars
<1>3. CASE NotifyWriter(b)
  BY <1>3 DEF NotifyWriter, Wake, TypeOK, captureVars, countVars
<1> QED BY <1>1, <1>2, <1>3

\* So do the steps of the writer thread.
LEMMA WriterType ==
    ASSUME TypeOK, Writer \/ SpuriousWakeup
    PROVE  TypeOK'
<1>1. CASE WriterLoop \/ WaitCheck \/ WaitBlock \/ WriterDone \/ SpuriousWakeup
  BY <1>1
  DEF WriterLoop, WaitCheck, WaitBlock, WriterDone, SpuriousWakeup, TypeOK, captureVars,
      submitVars, countVars
<1>2. CASE WriterTake
  <2>1. Head(queue) \in Blocks /\ Tail(queue) \in Seq(Blocks) /\ Len(Tail(queue)) = Len(queue) - 1
    BY <1>2, QueueFacts DEF WriterTake, TypeOK
  <2> QED
    BY <1>2, <2>1, ProfilerAssumption
    DEF WriterTake, TakeBlock, ProfilerAssumption, TypeOK, Appenders, captureVars,
        submitVars, countVars
<1>3. CASE WriterAppend
  BY <1>3
  DEF WriterAppend, AppendToFile, TypeOK, Appenders, captureVars, submitVars, countVars
<1> QED BY <1>1, <1>2, <1>3 DEF Writer

\* And those of the controller.
LEMMA ControllerType ==
    ASSUME TypeOK, Controller
    PROVE  TypeOK'
<1>1. CASE StartCapture
  <2>1. starts' \in 0 .. MaxCaptures
    BY <1>1, ProfilerAssumption DEF StartCapture, ProfilerAssumption, TypeOK
  <2>2. file' \in BOOLEAN /\ (ctlPc' = "activate" \/ ctlPc' = ctlPc)
    BY <1>1 DEF StartCapture, TypeOK
  <2> QED
    BY <1>1, <2>1, <2>2 DEF StartCapture, TypeOK, writerVars, submitVars
<1>2. CASE ActivateCapture \/ ActivateLocal \/ DeactivateLocal
  BY <1>2
  DEF ActivateCapture, ActivateLocal, DeactivateLocal, TypeOK, writerVars, submitVars,
      countVars
<1>3. CASE StopCapture
  <2>1. stops' \in Nat
    BY <1>3 DEF StopCapture, TypeOK
  <2> QED
    BY <1>3, <2>1, Zenon DEF StopCapture, TypeOK, writerVars, submitVars
<1>4. CASE DrainTake
  <2>1. Head(queue) \in Blocks /\ Tail(queue) \in Seq(Blocks) /\ Len(Tail(queue)) = Len(queue) - 1
    BY <1>4, QueueFacts DEF DrainTake, TypeOK
  <2> QED
    BY <1>4, <2>1, ProfilerAssumption
    DEF DrainTake, TakeBlock, ProfilerAssumption, TypeOK, Appenders, captureVars,
        writerVars, submitVars, countVars
<1>5. CASE DrainAppend
  BY <1>5
  DEF DrainAppend, AppendToFile, TypeOK, Appenders, captureVars, writerVars, submitVars,
      countVars
<1>6. CASE DrainDone \/ CloseFile \/ Destroy \/ StopWriter \/ NotifyStop \/ JoinWriter
  BY <1>6
  DEF DrainDone, CloseFile, Destroy, StopWriter, NotifyStop, JoinWriter, Wake, TypeOK,
      captureVars, writerVars, submitVars, countVars
<1> QED BY <1>1, <1>2, <1>3, <1>4, <1>5, <1>6 DEF Controller, ControllerContinues

\* Type correctness: the queue's limit holds however many dispatch workers
\* submit at once.
THEOREM ProfilerTypeCorrect == Spec => []TypeOK
<1>1. Init => TypeOK
  <2> SUFFICES ASSUME Init PROVE TypeOK
    OBVIOUS
  <2>1. queue \in Seq(Blocks) /\ Len(queue) <= MaxQueued
    BY ProfilerAssumption DEF Init, ServiceWith, ProfilerAssumption
  <2>2. held \in [Appenders -> {NoBlock} \union {<<b>> : b \in Blocks}]
    BY DEF Init, ServiceWith
  <2>3. starts \in 0 .. MaxCaptures
    BY ProfilerAssumption DEF Init, ServiceWith, ProfilerAssumption
  <2> QED BY <2>1, <2>2, <2>3 DEF Init, ServiceWith, TypeOK
<1>2. TypeOK /\ [Next]_vars => TypeOK'
  <2> SUFFICES ASSUME TypeOK, [Next]_vars PROVE TypeOK'
    OBVIOUS
  <2>1. CASE Next
    BY <2>1, SubmitType, WriterType, ControllerType DEF Next
  <2>2. CASE UNCHANGED vars
    BY <2>2
    DEF vars, captureVars, writerVars, submitVars, countVars, TypeOK
  <2> QED BY <2>1, <2>2
<1> QED BY <1>1, <1>2, PTL DEF Spec
-----------------------------------------------------------------------------
(***************************************************************************)
(* Losses.  That a block is lost only by a stop is not inductive: one has  *)
(* to follow the block from the test of capture_active_ to the append.  As *)
(* long as no stop began since the test, the capture is still active, and  *)
(* an active capture has its file open until the writer thread was joined. *)
(***************************************************************************)
Kept(b) == seen[b] <= stops /\ (seen[b] = stops => capture)

Submitted(b) == submitPc[b] \in {"notify", "answered"}

Carried(b) ==
    \/ \E k \in 1 .. Len(queue) : queue[k] = b
    \/ \E t \in Appenders : held[t] = <<b>>

PipelineInv ==
    \A b \in Blocks :
        /\ submitPc[b] = "enqueue" \/ Carried(b) => Kept(b)
        /\ fate[b] # "none" \/ Carried(b) => Submitted(b)

HeldInv ==
    /\ writerPc \in {"append", "append_last"} => held["writer"] # NoBlock
    /\ ctlPc = "append" => held["controller"] # NoBlock

FileInv ==
    /\ capture => file \/ ctlPc = "gone"
    /\ ctlPc = "activate" => file
    /\ ctlPc \in {"local_off", "drain", "append", "close"} => ~capture
    /\ ctlPc = "gone" => writerPc = "done"

LossInv == PipelineInv /\ HeldInv /\ FileInv /\ LostOnlyByStop

\* Submitting: the capture is active when the block is found admissible, and a
\* block that has just begun is in nobody's hands.
LEMMA SubmitLoss ==
    ASSUME TypeOK, LossInv, NEW c \in Blocks, Submit(c)
    PROVE  LossInv'
<1>1. /\ submitPc[c] = "unused"
      /\ submitPc'[c] \in {"enqueue", "answered"}
      /\ submitPc'[c] = "enqueue" => capture
      /\ \A b \in Blocks : b # c => submitPc'[b] = submitPc[b] /\ seen'[b] = seen[b]
      /\ seen'[c] = stops /\ stops \in Nat
  BY DEF Submit, TypeOK
<1>2. UNCHANGED <<capture, local, file, queue, stopping, writerPc, held, ctlPc, fate, stops>>
  BY DEF Submit, captureVars, writerVars, countVars
<1>3. ~Submitted(c) /\ ~Carried(c) /\ fate[c] = "none"
  BY <1>1 DEF Submitted, LossInv, PipelineInv
<1>4. \A b : Carried(b)' <=> Carried(b)
  BY <1>2 DEF Carried
<1>5. PipelineInv'
  BY <1>1, <1>2, <1>3, <1>4 DEF LossInv, PipelineInv, Kept, Submitted
<1>6. LostOnlyByStop'
  BY <1>1, <1>2, <1>3 DEF LossInv, LostOnlyByStop
<1>7. HeldInv' /\ FileInv'
  BY <1>2 DEF LossInv, HeldInv, FileInv
<1> QED BY <1>5, <1>6, <1>7 DEF LossInv

\* The push: the block that joins the queue is one that was found admissible.
LEMMA EnqueueLoss ==
    ASSUME TypeOK, LossInv, NEW c \in Blocks, Enqueue(c)
    PROVE  LossInv'
<1>1. UNCHANGED <<capture, local, file, stopping, writerPc, held, ctlPc, seen, stops>>
  BY DEF Enqueue, captureVars, writerVars, countVars
<1>2. /\ submitPc[c] = "enqueue"
      /\ submitPc'[c] \in {"notify", "answered"}
      /\ \A b \in Blocks : b # c => submitPc'[b] = submitPc[b] /\ fate'[b] = fate[b]
      /\ fate'[c] = "accepted" \/ fate' = fate
  BY DEF Enqueue, TypeOK
<1>3. \A b : Carried(b)' => Carried(b) \/ b = c
  <2>1. queue \in Seq(Blocks) /\ (queue' = queue \/ queue' = Append(queue, c))
    BY DEF Enqueue, TypeOK
  <2>2. \A k \in 1 .. Len(queue') :
           (k \in 1 .. Len(queue) /\ queue'[k] = queue[k]) \/ queue'[k] = c
    BY <2>1
  <2> QED BY <1>1, <2>2 DEF Carried
<1>4. PipelineInv'
  BY <1>1, <1>2, <1>3 DEF LossInv, PipelineInv, Kept, Submitted
<1>5. LostOnlyByStop'
  BY <1>1, <1>2 DEF LossInv, LostOnlyByStop
<1>6. HeldInv' /\ FileInv'
  BY <1>1 DEF LossInv, HeldInv, FileInv
<1> QED BY <1>4, <1>5, <1>6 DEF LossInv

\* Taking the front block moves it from the queue into a thread's hands.
LEMMA TakeLoss ==
    ASSUME TypeOK, PipelineInv, NEW t \in Appenders, queue # << >>, TakeBlock(t),
           UNCHANGED <<capture, submitPc, seen, stops, fate>>
    PROVE  PipelineInv' /\ held'[t] # NoBlock /\ \A u \in Appenders : u # t => held'[u] = held[u]
<1>1. /\ Head(queue) = queue[1] /\ 1 \in 1 .. Len(queue)
      /\ \A k \in 1 .. Len(queue') : queue'[k] = queue[k + 1] /\ k + 1 \in 1 .. Len(queue)
  BY QueueFacts DEF TakeBlock, TypeOK
<1>2. held'[t] = <<queue[1]>> /\ \A u \in Appenders : u # t => held'[u] = held[u]
  BY <1>1 DEF TakeBlock, TypeOK
<1>3. \A b : Carried(b)' => Carried(b)
  BY <1>1, <1>2 DEF Carried
<1>4. PipelineInv'
  BY <1>3 DEF PipelineInv, Kept, Submitted
<1> QED BY <1>2, <1>4 DEF NoBlock

\* Appending: a block in a thread's hands is lost only if the file is closed,
\* which it is not while the capture it was admitted to goes on.
LEMMA AppendLoss ==
    ASSUME TypeOK, LossInv, NEW t \in Appenders, held[t] # NoBlock, AppendToFile(t),
           ctlPc # "gone",
           UNCHANGED <<capture, file, queue, submitPc, seen, stops>>
    PROVE  /\ PipelineInv' /\ LostOnlyByStop'
           /\ \A u \in Appenders : u # t => held'[u] = held[u]
<1>1. PICK c \in Blocks : held[t] = <<c>>
  BY DEF TypeOK
<1>2. /\ fate' = [fate EXCEPT ![c] = IF file THEN "written" ELSE "lost"]
      /\ held'[t] = NoBlock
      /\ \A u \in Appenders : u # t => held'[u] = held[u]
  BY <1>1 DEF AppendToFile, TypeOK
<1>3. Carried(c) /\ Kept(c) /\ Submitted(c)
  BY <1>1 DEF Carried, LossInv, PipelineInv
<1>4. \A b \in Blocks : Carried(b)' => Carried(b)
  BY <1>2 DEF Carried, NoBlock
<1>5. PipelineInv'
  BY <1>2, <1>3, <1>4 DEF LossInv, PipelineInv, Kept, Submitted, TypeOK
<1>6. ~file => stops > seen[c]
  <2>1. ~file => ~capture
    BY DEF LossInv, FileInv
  <2> QED BY <1>3, <2>1 DEF Kept, TypeOK
<1>7. LostOnlyByStop'
  BY <1>2, <1>6 DEF LossInv, LostOnlyByStop, TypeOK
<1> QED BY <1>2, <1>5, <1>7

\* A step that leaves the blocks alone keeps the pipeline as it was.
LEMMA PipelineFrame ==
    ASSUME LossInv, UNCHANGED <<capture, queue, held, submitPc, seen, stops, fate>>
    PROVE  PipelineInv' /\ LostOnlyByStop'
<1>1. \A b : Carried(b)' <=> Carried(b)
  BY DEF Carried
<1> QED
  BY <1>1 DEF LossInv, PipelineInv, LostOnlyByStop, Kept, Submitted

\* The notification changes only how far the submission got.
LEMMA NotifyLoss ==
    ASSUME TypeOK, LossInv, NEW c \in Blocks, NotifyWriter(c)
    PROVE  LossInv'
<1>1. /\ UNCHANGED <<capture, file, queue, held, ctlPc, seen, stops, fate>>
      /\ submitPc[c] = "notify"
      /\ submitPc' = [submitPc EXCEPT ![c] = "answered"]
      /\ writerPc' = writerPc \/ (writerPc = "blocked" /\ writerPc' = "check")
  BY DEF NotifyWriter, Wake, captureVars, countVars
<1>2. \A b : Carried(b)' <=> Carried(b)
  BY <1>1 DEF Carried
<1>3. PipelineInv' /\ LostOnlyByStop'
  BY <1>1, <1>2 DEF LossInv, PipelineInv, LostOnlyByStop, Kept, Submitted, TypeOK
<1>4. HeldInv' /\ FileInv'
  BY <1>1 DEF LossInv, HeldInv, FileInv
<1> QED BY <1>3, <1>4 DEF LossInv

\* The writer thread takes no step once the destructor has joined it.
LEMMA WriterLoss ==
    ASSUME TypeOK, LossInv, Writer \/ SpuriousWakeup
    PROVE  LossInv'
<1>1. CASE WriterLoop \/ WaitCheck \/ WaitBlock \/ WriterDone \/ SpuriousWakeup
  <2>1. /\ UNCHANGED <<capture, file, queue, held, ctlPc, submitPc, seen, stops, fate>>
        /\ writerPc # "done" /\ writerPc' \notin {"append", "append_last"}
    BY <1>1
    DEF WriterLoop, WaitCheck, WaitBlock, WriterDone, SpuriousWakeup, captureVars,
        submitVars, countVars
  <2>2. PipelineInv' /\ LostOnlyByStop'
    BY <2>1, PipelineFrame
  <2>3. HeldInv' /\ FileInv'
    BY <2>1 DEF LossInv, HeldInv, FileInv
  <2> QED BY <2>2, <2>3 DEF LossInv
<1>2. CASE WriterTake
  <2>1. /\ UNCHANGED <<capture, file, ctlPc, submitPc, seen, stops, fate>>
        /\ queue # << >> /\ TakeBlock("writer") /\ writerPc # "done"
    BY <1>2 DEF WriterTake, captureVars, submitVars, countVars
  <2>2. PipelineInv' /\ held'["writer"] # NoBlock /\ held'["controller"] = held["controller"]
    BY <2>1, TakeLoss DEF LossInv, Appenders
  <2>3. HeldInv' /\ FileInv' /\ LostOnlyByStop'
    BY <2>1, <2>2 DEF LossInv, HeldInv, FileInv, LostOnlyByStop
  <2> QED BY <2>2, <2>3 DEF LossInv
<1>3. CASE WriterAppend
  <2>1. /\ UNCHANGED <<capture, file, queue, ctlPc, submitPc, seen, stops>>
        /\ AppendToFile("writer")
        /\ writerPc \in {"append", "append_last"} /\ writerPc' \in {"write", "last"}
    BY <1>3 DEF WriterAppend, captureVars, submitVars, countVars
  <2>2. held["writer"] # NoBlock /\ ctlPc # "gone"
    BY <2>1 DEF LossInv, HeldInv, FileInv
  <2>3. PipelineInv' /\ LostOnlyByStop' /\ held'["controller"] = held["controller"]
    BY <2>1, <2>2, AppendLoss DEF Appenders
  <2>4. HeldInv' /\ FileInv'
    BY <2>1, <2>2, <2>3 DEF LossInv, HeldInv, FileInv
  <2> QED BY <2>3, <2>4 DEF LossInv
<1> QED BY <1>1, <1>2, <1>3 DEF Writer

\* The controller: the file is opened before the capture is active and closed
\* after it is not, and a stop counts against every block under way.
LEMMA ControllerLoss ==
    ASSUME TypeOK, LossInv, Controller
    PROVE  LossInv'
<1>1. CASE \/ StartCapture \/ ActivateLocal \/ DeactivateLocal \/ DrainDone \/ CloseFile
           \/ Destroy \/ StopWriter \/ NotifyStop \/ JoinWriter
  <2>1. UNCHANGED <<capture, queue, held, submitPc, seen, stops, fate>>
    BY <1>1
    DEF StartCapture, ActivateLocal, DeactivateLocal, DrainDone, CloseFile, Destroy,
        StopWriter, NotifyStop, JoinWriter, captureVars, submitVars, countVars
  <2>2. PipelineInv' /\ LostOnlyByStop'
    BY <2>1, PipelineFrame
  <2>3. HeldInv' /\ FileInv'
    BY <1>1, <2>1
    DEF StartCapture, ActivateLocal, DeactivateLocal, DrainDone, CloseFile, Destroy,
        StopWriter, NotifyStop, JoinWriter, Wake, captureVars, writerVars, LossInv,
        HeldInv, FileInv
  <2> QED BY <2>2, <2>3 DEF LossInv
<1>2. CASE ActivateCapture
  <2>1. /\ UNCHANGED <<file, queue, writerPc, held, submitPc, seen, stops, fate>>
        /\ capture' = TRUE /\ ctlPc = "activate" /\ ctlPc' = "local_on"
    BY <1>2 DEF ActivateCapture, writerVars, submitVars, countVars
  <2>2. \A b : Carried(b)' <=> Carried(b)
    BY <2>1 DEF Carried
  <2>3. PipelineInv' /\ LostOnlyByStop'
    BY <2>1, <2>2 DEF LossInv, PipelineInv, LostOnlyByStop, Kept, Submitted
  <2>4. HeldInv' /\ FileInv'
    BY <2>1 DEF LossInv, HeldInv, FileInv
  <2> QED BY <2>3, <2>4 DEF LossInv
<1>3. CASE StopCapture
  <2>1. /\ UNCHANGED <<file, queue, writerPc, held, submitPc, seen, fate>>
        /\ capture' = FALSE /\ stops' = stops + 1 /\ ctlPc' = "local_off"
    BY <1>3 DEF StopCapture, writerVars, submitVars
  <2>2. \A b : Carried(b)' <=> Carried(b)
    BY <2>1 DEF Carried
  <2>3. \A b \in Blocks : (Kept(b) => Kept(b)') /\ (stops > seen[b] => (stops > seen[b])')
    BY <2>1 DEF Kept, TypeOK
  <2>4. PipelineInv' /\ LostOnlyByStop'
    BY <2>1, <2>2, <2>3 DEF LossInv, PipelineInv, LostOnlyByStop, Submitted
  <2>5. HeldInv' /\ FileInv'
    BY <2>1 DEF LossInv, HeldInv, FileInv
  <2> QED BY <2>4, <2>5 DEF LossInv
<1>4. CASE DrainTake
  <2>1. /\ UNCHANGED <<capture, file, writerPc, submitPc, seen, stops, fate>>
        /\ queue # << >> /\ TakeBlock("controller") /\ ctlPc = "drain" /\ ctlPc' = "append"
    BY <1>4 DEF DrainTake, captureVars, writerVars, submitVars, countVars
  <2>2. PipelineInv' /\ held'["controller"] # NoBlock /\ held'["writer"] = held["writer"]
    BY <2>1, TakeLoss DEF LossInv, Appenders
  <2>3. HeldInv' /\ FileInv' /\ LostOnlyByStop'
    BY <2>1, <2>2 DEF LossInv, HeldInv, FileInv, LostOnlyByStop
  <2> QED BY <2>2, <2>3 DEF LossInv
<1>5. CASE DrainAppend
  <2>1. /\ UNCHANGED <<capture, file, queue, writerPc, submitPc, seen, stops>>
        /\ AppendToFile("controller") /\ ctlPc = "append" /\ ctlPc' = "drain"
    BY <1>5 DEF DrainAppend, captureVars, writerVars, submitVars, countVars
  <2>2. held["controller"] # NoBlock /\ ctlPc # "gone"
    BY <2>1 DEF LossInv, HeldInv
  <2>3. PipelineInv' /\ LostOnlyByStop' /\ held'["writer"] = held["writer"]
    BY <2>1, <2>2, AppendLoss DEF Appenders
  <2>4. HeldInv' /\ FileInv'
    BY <2>1, <2>3 DEF LossInv, HeldInv, FileInv
  <2> QED BY <2>3, <2>4 DEF LossInv
<1> QED BY <1>1, <1>2, <1>3, <1>4, <1>5 DEF Controller, ControllerContinues

\* An accepted block misses the trace file only if stop_capture() was called
\* after the block was submitted: neither a file that could not be opened, nor
\* the start of a capture, nor the destructor costs a block.
THEOREM BlocksLostOnlyByStop == Spec => []LostOnlyByStop
<1>1. Init => LossInv
  BY DEF Init, ServiceWith, LossInv, PipelineInv, HeldInv, FileInv, LostOnlyByStop, Carried, Kept,
         Submitted, Appenders, NoBlock
<1>2. TypeOK /\ LossInv /\ [Next]_vars => LossInv'
  <2> SUFFICES ASSUME TypeOK, LossInv, [Next]_vars PROVE LossInv'
    OBVIOUS
  <2>1. CASE Next
    BY <2>1, SubmitLoss, EnqueueLoss, NotifyLoss, WriterLoss, ControllerLoss DEF Next
  <2>2. CASE UNCHANGED vars
    <3>1. UNCHANGED <<capture, file, queue, writerPc, held, ctlPc, submitPc, seen, stops, fate>>
      BY <2>2 DEF vars, captureVars, writerVars, submitVars, countVars
    <3>2. PipelineInv' /\ LostOnlyByStop'
      BY <3>1, PipelineFrame
    <3> QED BY <3>1, <3>2 DEF LossInv, HeldInv, FileInv
  <2> QED BY <2>1, <2>2
<1>3. LossInv => LostOnlyByStop
  BY DEF LossInv
<1> QED BY <1>1, <1>2, <1>3, ProfilerTypeCorrect, PTL DEF Spec
-----------------------------------------------------------------------------
(***************************************************************************)
(* Places.  An accepted block is in the queue or in the hands of one of    *)
(* the two threads that append, once, and a thread holds a block exactly   *)
(* between taking and appending it.                                        *)
(***************************************************************************)
OnceInv ==
    /\ Distinct(queue)
    /\ \A b \in Blocks :
         /\ Has(queue, b) => held["writer"] # <<b>> /\ held["controller"] # <<b>>
         /\ ~(held["writer"] = <<b>> /\ held["controller"] = <<b>>)

AcceptedInv ==
    \A b \in Blocks :
        (Has(queue, b) \/ held["writer"] = <<b>> \/ held["controller"] = <<b>>)
            <=> fate[b] = "accepted"

HandsInv ==
    /\ writerPc \in {"append", "append_last"} <=> held["writer"] # NoBlock
    /\ ctlPc = "append" <=> held["controller"] # NoBlock

\* A block that has not been pushed has no fate yet.
PendingInv == \A b \in Blocks : submitPc[b] \in {"unused", "enqueue"} => fate[b] = "none"

PlacesInv == OnceInv /\ AcceptedInv /\ HandsInv /\ PendingInv

\* A step that touches neither the blocks nor the hands keeps the places.
LEMMA PlacesFrame ==
    ASSUME PlacesInv, UNCHANGED <<queue, held, fate>>, HandsInv', PendingInv'
    PROVE  PlacesInv'
  BY DEF PlacesInv, OnceInv, AcceptedInv

\* A submission puts a block that is nowhere yet into the queue, or nowhere.
LEMMA SubmitPlaces ==
    ASSUME TypeOK, PlacesInv, NEW c \in Blocks, Submit(c) \/ Enqueue(c) \/ NotifyWriter(c)
    PROVE  PlacesInv'
<1>1. CASE Submit(c)
  <2>1. /\ UNCHANGED <<queue, held, fate, writerPc, ctlPc>>
        /\ submitPc[c] = "unused"
        /\ \A b \in Blocks : b # c => submitPc'[b] = submitPc[b]
    BY <1>1 DEF Submit, writerVars, TypeOK
  <2>2. HandsInv' /\ PendingInv'
    BY <2>1 DEF PlacesInv, HandsInv, PendingInv
  <2> QED BY <2>1, <2>2, PlacesFrame
<1>2. CASE Enqueue(c)
  <2>1. /\ UNCHANGED <<held, writerPc, ctlPc>>
        /\ submitPc[c] = "enqueue" /\ fate[c] = "none"
        /\ submitPc'[c] \in {"notify", "answered"}
        /\ \A b \in Blocks : b # c => submitPc'[b] = submitPc[b]
    BY <1>2 DEF Enqueue, writerVars, TypeOK, PlacesInv, PendingInv
  <2>2. CASE Len(queue) >= MaxQueued
    <3>1. UNCHANGED <<queue, fate>>
      BY <1>2, <2>2 DEF Enqueue
    <3>2. HandsInv' /\ PendingInv'
      BY <2>1, <3>1 DEF PlacesInv, HandsInv, PendingInv
    <3> QED BY <2>1, <3>1, <3>2, PlacesFrame
  <2>3. CASE ~(Len(queue) >= MaxQueued)
    <3>1. queue' = Append(queue, c) /\ fate' = [fate EXCEPT ![c] = "accepted"]
      BY <1>2, <2>3 DEF Enqueue
    <3>2. /\ \A b \in Blocks : Has(queue', b) <=> Has(queue, b) \/ b = c
          /\ Distinct(queue) /\ ~Has(queue, c) => Distinct(queue')
      BY <3>1, AppendHas DEF TypeOK
    <3>3. ~Has(queue, c) /\ held["writer"] # <<c>> /\ held["controller"] # <<c>>
      BY <2>1 DEF PlacesInv, AcceptedInv
    <3>4. fate'[c] = "accepted" /\ \A b \in Blocks : b # c => fate'[b] = fate[b]
      BY <3>1 DEF TypeOK
    <3>5. OnceInv'
      BY <2>1, <3>2, <3>3 DEF PlacesInv, OnceInv
    <3>6. AcceptedInv'
      BY <2>1, <3>2, <3>3, <3>4 DEF PlacesInv, AcceptedInv
    <3>7. HandsInv' /\ PendingInv'
      BY <2>1, <3>4 DEF PlacesInv, HandsInv, PendingInv
    <3> QED BY <3>5, <3>6, <3>7 DEF PlacesInv
  <2> QED BY <2>2, <2>3
<1>3. CASE NotifyWriter(c)
  <2>1. /\ UNCHANGED <<queue, held, fate, ctlPc>>
        /\ writerPc' = writerPc \/ (writerPc = "blocked" /\ writerPc' = "check")
        /\ submitPc'[c] = "answered"
        /\ \A b \in Blocks : b # c => submitPc'[b] = submitPc[b]
    BY <1>3 DEF NotifyWriter, Wake, TypeOK
  <2>2. HandsInv' /\ PendingInv'
    BY <2>1 DEF PlacesInv, HandsInv, PendingInv
  <2> QED BY <2>1, <2>2, PlacesFrame
<1> QED BY <1>1, <1>2, <1>3

\* Thread t, which holds nothing, takes the front block: it is in t's hands and
\* in the queue no more.
LEMMA TakePlaces ==
    ASSUME TypeOK, OnceInv, AcceptedInv, NEW t \in Appenders, queue # << >>,
           held[t] = NoBlock, TakeBlock(t), UNCHANGED fate
    PROVE  /\ OnceInv' /\ AcceptedInv' /\ held'[t] # NoBlock
           /\ \A u \in Appenders : u # t => held'[u] = held[u]
<1>1. PICK c \in Blocks : c = Head(queue)
  BY QueueFacts DEF TypeOK
<1>2. /\ \A b \in Blocks : Has(queue, b) <=> Has(queue', b) \/ b = c
      /\ Distinct(queue) => Distinct(queue') /\ ~Has(queue', c)
  BY <1>1, TailHas DEF TakeBlock, TypeOK
<1>3. /\ held'[t] = <<c>> /\ \A u \in Appenders : u # t => held'[u] = held[u]
      /\ \A b \in Blocks : <<b>> = <<c>> => b = c
      /\ \A b \in Blocks : held[t] # <<b>>
  BY <1>1 DEF TakeBlock, TypeOK, NoBlock
<1>4. CASE t = "writer"
  BY <1>2, <1>3, <1>4 DEF OnceInv, AcceptedInv, Appenders, NoBlock
<1>5. CASE t = "controller"
  BY <1>2, <1>3, <1>5 DEF OnceInv, AcceptedInv, Appenders, NoBlock
<1> QED BY <1>4, <1>5 DEF Appenders

\* Thread t appends the block in its hands, which is in no other place.
LEMMA AppendPlaces ==
    ASSUME TypeOK, OnceInv, AcceptedInv, NEW t \in Appenders, held[t] # NoBlock,
           AppendToFile(t), UNCHANGED queue
    PROVE  /\ OnceInv' /\ AcceptedInv' /\ held'[t] = NoBlock
           /\ \A u \in Appenders : u # t => held'[u] = held[u]
           /\ \A b \in Blocks : fate[b] = "none" => fate'[b] = "none"
<1>1. PICK c \in Blocks : held[t] = <<c>>
  BY DEF TypeOK
<1>2. /\ fate' = [fate EXCEPT ![c] = IF file THEN "written" ELSE "lost"]
      /\ held'[t] = NoBlock
      /\ \A u \in Appenders : u # t => held'[u] = held[u]
  BY <1>1 DEF AppendToFile, TypeOK
<1>3. /\ fate'[c] # "accepted" /\ \A b \in Blocks : b # c => fate'[b] = fate[b]
      /\ \A b \in Blocks : NoBlock # <<b>>
      /\ \A b \in Blocks : <<b>> = <<c>> => b = c
  BY <1>2 DEF TypeOK, NoBlock
<1>4. fate[c] = "accepted"
  BY <1>1 DEF AcceptedInv, Appenders
<1>5. CASE t = "writer"
  BY <1>1, <1>2, <1>3, <1>4, <1>5 DEF OnceInv, AcceptedInv, Appenders
<1>6. CASE t = "controller"
  BY <1>1, <1>2, <1>3, <1>4, <1>6 DEF OnceInv, AcceptedInv, Appenders
<1> QED BY <1>5, <1>6 DEF Appenders

\* The writer thread's steps.
LEMMA WriterPlaces ==
    ASSUME TypeOK, PlacesInv, Writer \/ SpuriousWakeup
    PROVE  PlacesInv'
<1>1. CASE WriterLoop \/ WaitCheck \/ WaitBlock \/ WriterDone \/ SpuriousWakeup
  <2>1. /\ UNCHANGED <<queue, held, fate, ctlPc, submitPc>>
        /\ writerPc \notin {"append", "append_last"}
        /\ writerPc' \notin {"append", "append_last"}
    BY <1>1
    DEF WriterLoop, WaitCheck, WaitBlock, WriterDone, SpuriousWakeup, submitVars
  <2>2. HandsInv' /\ PendingInv'
    BY <2>1 DEF PlacesInv, HandsInv, PendingInv
  <2> QED BY <2>1, <2>2, PlacesFrame
<1>2. CASE WriterTake
  <2>1. /\ UNCHANGED <<ctlPc, submitPc, fate>> /\ queue # << >> /\ TakeBlock("writer")
        /\ writerPc \in {"write", "last"} /\ writerPc' \in {"append", "append_last"}
    BY <1>2 DEF WriterTake, submitVars
  <2>2. held["writer"] = NoBlock
    BY <2>1 DEF PlacesInv, HandsInv
  <2>3. OnceInv' /\ AcceptedInv' /\ held'["writer"] # NoBlock /\ held'["controller"] = held["controller"]
    BY <2>1, <2>2, TakePlaces DEF PlacesInv, Appenders
  <2> QED BY <2>1, <2>3 DEF PlacesInv, HandsInv, PendingInv
<1>3. CASE WriterAppend
  <2>1. /\ UNCHANGED <<queue, ctlPc, submitPc>> /\ AppendToFile("writer")
        /\ writerPc \in {"append", "append_last"} /\ writerPc' \in {"write", "last"}
    BY <1>3 DEF WriterAppend, submitVars
  <2>2. held["writer"] # NoBlock
    BY <2>1 DEF PlacesInv, HandsInv
  <2>3. /\ OnceInv' /\ AcceptedInv' /\ held'["writer"] = NoBlock
        /\ held'["controller"] = held["controller"]
        /\ \A b \in Blocks : fate[b] = "none" => fate'[b] = "none"
    BY <2>1, <2>2, AppendPlaces DEF PlacesInv, Appenders
  <2> QED BY <2>1, <2>3 DEF PlacesInv, HandsInv, PendingInv
<1> QED BY <1>1, <1>2, <1>3 DEF Writer

\* The controller's steps.
LEMMA ControllerPlaces ==
    ASSUME TypeOK, PlacesInv, Controller
    PROVE  PlacesInv'
<1>1. CASE \/ StartCapture \/ ActivateCapture \/ ActivateLocal \/ StopCapture \/ DeactivateLocal
           \/ DrainDone \/ CloseFile \/ Destroy \/ StopWriter \/ NotifyStop \/ JoinWriter
  <2>1. /\ UNCHANGED <<queue, held, fate, submitPc>>
        /\ ctlPc # "append" /\ ctlPc' # "append"
        /\ writerPc' = writerPc \/ (writerPc = "blocked" /\ writerPc' = "check")
    BY <1>1
    DEF StartCapture, ActivateCapture, ActivateLocal, StopCapture, DeactivateLocal, DrainDone,
        CloseFile, Destroy, StopWriter, NotifyStop, JoinWriter, Wake, writerVars, submitVars
  <2>2. HandsInv' /\ PendingInv'
    BY <2>1 DEF PlacesInv, HandsInv, PendingInv
  <2> QED BY <2>1, <2>2, PlacesFrame
<1>2. CASE DrainTake
  <2>1. /\ UNCHANGED <<writerPc, submitPc, fate>> /\ queue # << >> /\ TakeBlock("controller")
        /\ ctlPc = "drain" /\ ctlPc' = "append"
    BY <1>2 DEF DrainTake, writerVars, submitVars
  <2>2. held["controller"] = NoBlock
    BY <2>1 DEF PlacesInv, HandsInv
  <2>3. OnceInv' /\ AcceptedInv' /\ held'["controller"] # NoBlock /\ held'["writer"] = held["writer"]
    BY <2>1, <2>2, TakePlaces DEF PlacesInv, Appenders
  <2> QED BY <2>1, <2>3 DEF PlacesInv, HandsInv, PendingInv
<1>3. CASE DrainAppend
  <2>1. /\ UNCHANGED <<queue, writerPc, submitPc>> /\ AppendToFile("controller")
        /\ ctlPc = "append" /\ ctlPc' = "drain"
    BY <1>3 DEF DrainAppend, writerVars, submitVars
  <2>2. held["controller"] # NoBlock
    BY <2>1 DEF PlacesInv, HandsInv
  <2>3. /\ OnceInv' /\ AcceptedInv' /\ held'["controller"] = NoBlock
        /\ held'["writer"] = held["writer"]
        /\ \A b \in Blocks : fate[b] = "none" => fate'[b] = "none"
    BY <2>1, <2>2, AppendPlaces DEF PlacesInv, Appenders
  <2> QED BY <2>1, <2>3 DEF PlacesInv, HandsInv, PendingInv
<1> QED BY <1>1, <1>2, <1>3 DEF Controller, ControllerContinues

\* PlacesInv holds in every reachable state.
LEMMA PlacesCorrect == Spec => []PlacesInv
<1>1. Init => PlacesInv
  <2> SUFFICES ASSUME Init PROVE PlacesInv
    OBVIOUS
  <2>1. queue = << >> /\ held["writer"] = NoBlock /\ held["controller"] = NoBlock
    BY DEF Init, ServiceWith, Appenders
  <2>2. \A b \in Blocks : NoBlock # <<b>> /\ fate[b] = "none"
    BY DEF Init, ServiceWith, NoBlock
  <2>3. writerPc = "loop" /\ ctlPc = "idle"
    BY DEF Init, ServiceWith
  <2> QED
    BY <2>1, <2>2, <2>3, EmptyHas DEF PlacesInv, OnceInv, AcceptedInv, HandsInv, PendingInv
<1>2. TypeOK /\ PlacesInv /\ [Next]_vars => PlacesInv'
  <2> SUFFICES ASSUME TypeOK, PlacesInv, [Next]_vars PROVE PlacesInv'
    OBVIOUS
  <2>1. CASE UNCHANGED vars
    BY <2>1
    DEF vars, writerVars, submitVars, PlacesInv, OnceInv, AcceptedInv, HandsInv, PendingInv
  <2> QED BY <2>1, SubmitPlaces, WriterPlaces, ControllerPlaces DEF Next
<1> QED BY <1>1, <1>2, ProfilerTypeCorrect, PTL DEF Spec

\* "without either dropping or duplicating a block": an accepted block is in the
\* queue, with the writer thread or with stop_capture()'s drain, at one place
\* only, until it is appended; for any limit and any number of submitters.
THEOREM BlocksHeldOnceHolds == Spec => []BlocksHeldOnce
<1>1. TypeOK /\ PlacesInv => BlocksHeldOnce
  <2> SUFFICES ASSUME TypeOK, PlacesInv PROVE BlocksHeldOnce
    OBVIOUS
  <2> DEFINE all == queue \o held["writer"] \o held["controller"]
  <2>1. ASSUME NEW t \in Appenders
        PROVE  /\ held[t] \in Seq(Blocks) /\ Distinct(held[t])
               /\ \A b \in Blocks : Has(held[t], b) <=> held[t] = <<b>>
    <3>1. CASE held[t] = NoBlock
      BY <3>1, EmptyHas DEF NoBlock
    <3>2. CASE held[t] # NoBlock
      <4>1. PICK c \in Blocks : held[t] = <<c>>
        BY <3>2 DEF TypeOK
      <4>2. \A b \in Blocks : <<b>> = <<c>> <=> b = c
        OBVIOUS
      <4> QED BY <4>1, <4>2, SingleHas
    <3> QED BY <3>1, <3>2
  <2>2. /\ held["writer"] \in Seq(Blocks) /\ Distinct(held["writer"])
        /\ held["controller"] \in Seq(Blocks) /\ Distinct(held["controller"])
        /\ \A b \in Blocks : /\ Has(held["writer"], b) <=> held["writer"] = <<b>>
                             /\ Has(held["controller"], b) <=> held["controller"] = <<b>>
    BY <2>1 DEF Appenders
  <2>3. queue \in Seq(Blocks)
    BY DEF TypeOK
  <2>4. PICK s \in Seq(Blocks) : s = queue \o held["writer"]
    BY <2>2, <2>3, ConcatHas
  <2>5. /\ \A b : Has(s, b) <=> Has(queue, b) \/ Has(held["writer"], b)
        /\ Distinct(s)
    BY <2>2, <2>3, <2>4, ConcatHas DEF PlacesInv, OnceInv
  <2>6. /\ \A b \in Blocks : Has(all, b) <=> Has(s, b) \/ Has(held["controller"], b)
        /\ Distinct(all)
    <3>1. \A b \in Blocks : ~(Has(s, b) /\ Has(held["controller"], b))
      BY <2>2, <2>5 DEF PlacesInv, OnceInv
    <3>2. all = s \o held["controller"]
      BY <2>4
    <3> HIDE DEF all
    <3> QED BY <2>2, <2>5, <3>1, <3>2, ConcatHas
  <2>7. \A b \in Blocks : Has(all, b) <=> fate[b] = "accepted"
    BY <2>2, <2>5, <2>6 DEF PlacesInv, AcceptedInv
  <2> QED BY <2>6, <2>7 DEF BlocksHeldOnce, Has, Distinct
<1> QED BY <1>1, ProfilerTypeCorrect, PlacesCorrect, PTL
-----------------------------------------------------------------------------
(***************************************************************************)
(* The destructor.  It starts when no dispatch worker is in a call, so     *)
(* that nothing is pushed any more when the writer thread sees             *)
(* writer_stopping_ and empties the queue for the last time.               *)
(***************************************************************************)
LeavingInv ==
    /\ ctlPc \in {"leave", "notify", "join", "gone"} =>
         \A b \in Blocks : submitPc[b] \in {"unused", "answered"}
    /\ stopping => ctlPc \in {"notify", "join", "gone"}
    /\ writerPc \in {"last", "append_last", "done"} => stopping
    /\ writerPc = "done" => queue = << >>
    /\ ctlPc = "gone" => writerPc = "done"

\* "a clean shutdown doesn't silently drop the trace's tail": when the
\* destructor returns, no accepted block is left unwritten.
THEOREM DestructorDrainsHolds == Spec => []DestructorDrains
<1>1. Init => LeavingInv
  BY DEF Init, ServiceWith, LeavingInv
<1>2. TypeOK /\ PlacesInv /\ LeavingInv /\ [Next]_vars => LeavingInv'
  <2> SUFFICES ASSUME TypeOK, PlacesInv, LeavingInv, [Next]_vars PROVE LeavingInv'
    OBVIOUS
  <2>1. CASE UNCHANGED vars
    BY <2>1 DEF vars, writerVars, submitVars, LeavingInv
  <2>2. ASSUME NEW c \in Blocks, Submit(c) \/ Enqueue(c) \/ NotifyWriter(c) PROVE LeavingInv'
    <3>1. ctlPc \notin {"leave", "notify", "join", "gone"} /\ ctlPc' = ctlPc
      BY <2>2 DEF Submit, Enqueue, NotifyWriter, LeavingInv
    <3>2. stopping' = stopping /\ ~stopping
      BY <2>2, <3>1 DEF Submit, Enqueue, NotifyWriter, LeavingInv, writerVars
    <3>3. writerPc' = writerPc \/ writerPc' = "check"
      BY <2>2 DEF Submit, Enqueue, NotifyWriter, Wake, writerVars
    <3> QED BY <3>1, <3>2, <3>3 DEF LeavingInv
  <2>3. CASE Writer \/ SpuriousWakeup
    <3>1. UNCHANGED <<ctlPc, stopping, submitPc>> /\ writerPc # "done"
      BY <2>3
      DEF Writer, WriterLoop, WaitCheck, WaitBlock, WriterTake, WriterAppend, WriterDone,
          SpuriousWakeup, submitVars
    <3>2. /\ writerPc' \in {"last", "append_last", "done"} => stopping
          /\ writerPc' = "done" => queue' = << >>
      BY <2>3
      DEF Writer, WriterLoop, WaitCheck, WaitBlock, WriterTake, WriterAppend, WriterDone,
          SpuriousWakeup, LeavingInv
    <3> QED BY <3>1, <3>2 DEF LeavingInv
  <2>4. CASE Controller
    <3>1. CASE \/ StartCapture \/ ActivateCapture \/ ActivateLocal \/ StopCapture
               \/ DeactivateLocal \/ DrainDone \/ CloseFile
      <4>1. UNCHANGED <<stopping, queue, writerPc, submitPc>>
        BY <3>1
        DEF StartCapture, ActivateCapture, ActivateLocal, StopCapture, DeactivateLocal,
            DrainDone, CloseFile, writerVars, submitVars
      <4>2. /\ ctlPc \notin {"leave", "notify", "join", "gone"}
            /\ ctlPc' \notin {"leave", "notify", "join", "gone"}
        BY <3>1
        DEF StartCapture, ActivateCapture, ActivateLocal, StopCapture, DeactivateLocal,
            DrainDone, CloseFile
      <4> QED BY <4>1, <4>2 DEF LeavingInv
    <3>2. CASE DrainTake \/ DrainAppend
      <4>1. /\ UNCHANGED <<stopping, writerPc, submitPc>>
            /\ ctlPc \in {"drain", "append"} /\ ctlPc' \in {"drain", "append"}
        BY <3>2 DEF DrainTake, DrainAppend, writerVars, submitVars
      <4> QED BY <4>1 DEF LeavingInv
    <3>3. CASE Destroy \/ StopWriter
      BY <3>3 DEF Destroy, StopWriter, LeavingInv, writerVars, submitVars
    <3>4. CASE NotifyStop \/ JoinWriter
      BY <3>4 DEF NotifyStop, JoinWriter, Wake, LeavingInv, writerVars, submitVars
    <3> QED BY <2>4, <3>1, <3>2, <3>3, <3>4 DEF Controller, ControllerContinues
  <2> QED BY <2>1, <2>2, <2>3, <2>4 DEF Next
<1>3. PlacesInv /\ LeavingInv => DestructorDrains
  <2> SUFFICES ASSUME PlacesInv, LeavingInv, ctlPc = "gone", NEW b \in Blocks
               PROVE  fate[b] # "accepted"
    BY DEF DestructorDrains
  <2>1. queue = << >> /\ held["writer"] = NoBlock /\ held["controller"] = NoBlock
    BY DEF PlacesInv, HandsInv, LeavingInv
  <2>2. NoBlock # <<b>>
    BY DEF NoBlock
  <2> QED BY <2>1, <2>2, EmptyHas DEF PlacesInv, AcceptedInv
<1> QED BY <1>1, <1>2, <1>3, ProfilerTypeCorrect, PlacesCorrect, PTL DEF Spec
=============================================================================
