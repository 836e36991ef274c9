------------------------------ MODULE Recorder ------------------------------
(***************************************************************************)
(* profiling::recorder with its two sinks: the server's own recorder       *)
(* ("local"), which appends a batch to the trace file, and client_recorder *)
(* ("remote"), which submits it over RMI and sets capture_active_ to the   *)
(* state the answer reports, on whichever thread did the flush.            *)
(*                                                                         *)
(* Three kinds of thread: those that record events, the flush thread, and  *)
(* the owner, which switches the capture on and off and destroys the       *)
(* recorder.  wait_for() ends at the latest after kFlushInterval, so that  *)
(* neither the event threshold nor a notification changes what can happen. *)
(* A std::thread that is assigned over while joinable, or an exception     *)
(* that leaves the flush thread, terminates the process.  What a batch is  *)
(* encoded to is left out, and with it the tracks and their descriptors.   *)
(***************************************************************************)
EXTENDS Naturals, Sequences, FiniteSets

CONSTANTS
    MaxEvents,   \* bound: events recorded over a behaviour
    MaxCalls     \* bound: calls of set_capture_active() by the owner

ASSUME RecorderAssumption == MaxEvents \in Nat /\ MaxCalls \in Nat

Events == 1 .. MaxEvents

VARIABLES
    sink,          \* which flush_sink() the recorder has
    active,        \* capture_active_
    stopFlushing,  \* stopping_
    flushPc,       \* flush_thread_ ("none": not joinable)
    catching,      \* the flush thread corrects the state from its catch block
    ownerPc,       \* the thread that controls the recorder
    leaving,       \* "no", "derived": in the destructor's stop(), "base": after it
    calls,         \* calls of set_capture_active() it made
    recPc,         \* how far record() got, per event
    buffer,        \* buffer_
    batch,         \* the batch the flush thread and the owner work on
    flushed,       \* history: events handed to flush_sink(), in order
    tail,          \* history: events buffered when the owner ended the capture
    dead           \* std::terminate() was called

ctlVars == <<sink, active, stopFlushing>>
flushVars == <<flushPc, catching>>
ownerVars == <<ownerPc, leaving, calls, tail>>
dataVars == <<recPc, buffer, batch, flushed>>
recorderVars == <<ctlVars, flushVars, ownerVars, dataVars, dead>>

Threads == {"flush", "owner"}

InSeq(e, s) == \E k \in 1 .. Len(s) : s[k] = e

RecorderInit ==
    /\ sink \in {"local", "remote"}
    /\ active = FALSE /\ stopFlushing = FALSE
    /\ flushPc = "none" /\ catching = FALSE
    /\ ownerPc = "idle" /\ leaving = "no" /\ calls = 0 /\ tail = {}
    /\ recPc = [e \in Events |-> "unused"]
    /\ buffer = << >>
    /\ batch = [t \in Threads |-> << >>]
    /\ flushed = << >>
    /\ dead = FALSE

Joinable == flushPc # "none"
-----------------------------------------------------------------------------
(***************************************************************************)
(* The hot path, on any thread.                                            *)
(***************************************************************************)
\* capture_active_ is read first; the event is dropped when it is false.
Record(e) ==
    /\ ~dead /\ leaving = "no"
    /\ recPc[e] = "unused"
    /\ \A d \in Events : d < e => recPc[d] # "unused"
    /\ recPc' = [recPc EXCEPT ![e] = IF active THEN "push" ELSE "dropped"]
    /\ UNCHANGED <<ctlVars, flushVars, ownerVars, buffer, batch, flushed, dead>>

Push(e) ==
    /\ ~dead
    /\ recPc[e] = "push"
    /\ buffer' = Append(buffer, e)
    /\ recPc' = [recPc EXCEPT ![e] = "recorded"]
    /\ UNCHANGED <<ctlVars, flushVars, ownerVars, batch, flushed, dead>>
-----------------------------------------------------------------------------
(***************************************************************************)
(* flush_once(), in two steps: thread t swaps the buffer out, then hands   *)
(* the batch to flush_sink().                                              *)
(***************************************************************************)
\* Mutant of SwapBuffer: the buffer is copied instead of swapped.
SwapBufferCopies(t) ==
    /\ batch' = [batch EXCEPT ![t] = buffer]
    /\ UNCHANGED buffer

SwapBuffer(t) ==
    /\ batch' = [batch EXCEPT ![t] = buffer]
    /\ buffer' = << >>

Deliver(t) ==
    /\ flushed' = flushed \o batch[t]
    /\ batch' = [batch EXCEPT ![t] = << >>]

\* stop() returned at once, because the capture was inactive: ~recorder() stops
\* a flush thread whose flush_sink() was destroyed.
Crashes == IF leaving = "base" THEN {"crash"} ELSE {}

\* The capture state that the answer of submit_trace_block() reports, or the
\* exception it ends with.
Answers == IF sink = "local" THEN {"none"} ELSE {"active", "inactive", "error"}
-----------------------------------------------------------------------------
(***************************************************************************)
(* The flush thread.                                                       *)
(***************************************************************************)
FlushLoop ==
    /\ ~dead
    /\ flushPc = "loop"
    /\ flushPc' = IF stopFlushing THEN "done" ELSE "wait"
    /\ UNCHANGED <<ctlVars, catching, ownerVars, dataVars, dead>>

\* wait_for() is over.
FlushSwap ==
    /\ ~dead
    /\ flushPc = "wait"
    /\ SwapBuffer("flush")
    /\ flushPc' = IF buffer = << >> THEN "loop" ELSE "sink"
    /\ UNCHANGED <<ctlVars, catching, ownerVars, recPc, flushed, dead>>

\* flush_sink() and, when remote, set_capture_active() with the answer: nothing
\* when the state is the same, a new flush thread when it is active, otherwise
\* one more flush before the thread is stopped.
FlushSink ==
    /\ ~dead
    /\ flushPc = "sink"
    /\ Deliver("flush")
    /\ \E a \in Answers \union Crashes :
         IF a = "crash" \/ (a = "active" /\ ~active)
         THEN dead' = TRUE /\ UNCHANGED flushVars
         ELSE IF a \in {"none", "active"} \/ ~active
         THEN flushPc' = "loop" /\ UNCHANGED <<catching, dead>>
         ELSE /\ flushPc' = "correct"
              /\ catching' = (a = "error")
              /\ UNCHANGED dead
    /\ UNCHANGED <<ctlVars, ownerVars, recPc, buffer>>

\* The owner may have stored false since the state was compared.
CorrectState ==
    /\ ~dead
    /\ flushPc = "correct"
    /\ active' = FALSE
    /\ flushPc' = "last_swap"
    /\ UNCHANGED <<sink, stopFlushing, catching, ownerVars, dataVars, dead>>

LastSwap ==
    /\ ~dead
    /\ flushPc = "last_swap"
    /\ SwapBuffer("flush")
    /\ flushPc' = IF buffer = << >> THEN "self_join" ELSE "last_sink"
    /\ UNCHANGED <<ctlVars, catching, ownerVars, recPc, flushed, dead>>

LastSink ==
    /\ ~dead
    /\ flushPc = "last_sink"
    /\ Deliver("flush")
    /\ \E a \in Answers \union Crashes :
         IF a \in {"active", "crash"}
         THEN dead' = TRUE /\ UNCHANGED flushPc
         ELSE flushPc' = "self_join" /\ UNCHANGED dead
    /\ UNCHANGED <<ctlVars, catching, ownerVars, recPc, buffer>>

\* stop_flush_thread() on the flush thread itself: join() throws, which the
\* try block of flush_sink() catches, and its catch block does not.
SelfJoin ==
    /\ ~dead
    /\ flushPc = "self_join"
    /\ stopFlushing' = TRUE
    /\ dead' = catching
    /\ catching' = FALSE
    /\ flushPc' = "loop"
    /\ UNCHANGED <<sink, active, ownerVars, dataVars>>

FlushThread ==
    \/ FlushLoop \/ FlushSwap \/ FlushSink \/ CorrectState \/ LastSwap \/ LastSink
    \/ SelfJoin
-----------------------------------------------------------------------------
(***************************************************************************)
(* The owner.  The server's recorder is switched on and off by one control *)
(* connection at a time.                                                   *)
(***************************************************************************)
\* set_capture_active(true): start_flush_thread().
Activate ==
    /\ ~dead
    /\ ownerPc = "idle"
    /\ calls < MaxCalls
    /\ ~active
    /\ calls' = calls + 1
    /\ active' = TRUE
    /\ stopFlushing' = FALSE
    /\ IF Joinable
       THEN dead' = TRUE /\ UNCHANGED flushPc
       ELSE flushPc' = "loop" /\ UNCHANGED dead
    /\ UNCHANGED <<sink, catching, ownerPc, leaving, tail, dataVars>>

\* set_capture_active(false), called directly or by stop(), reads the state ...
Deactivate ==
    /\ ~dead
    /\ ownerPc = "idle"
    /\ calls < MaxCalls
    /\ calls' = calls + 1
    /\ ownerPc' = IF active THEN "store" ELSE "idle"
    /\ UNCHANGED <<ctlVars, flushVars, leaving, tail, dataVars, dead>>

\* ... in the destructor too, once no thread is left in record().
DestroyRecorder ==
    /\ ~dead
    /\ ownerPc = "idle"
    /\ leaving = "no"
    /\ \A e \in Events : recPc[e] # "push"
    /\ leaving' = IF active THEN "derived" ELSE "base"
    /\ ownerPc' = IF active THEN "store" ELSE "stop"
    /\ UNCHANGED <<ctlVars, flushVars, calls, tail, dataVars, dead>>

OwnerStore ==
    /\ ~dead
    /\ ownerPc = "store"
    /\ active' = FALSE
    /\ tail' = {e \in Events : InSeq(e, buffer)}
    /\ ownerPc' = "swap"
    /\ UNCHANGED <<sink, stopFlushing, flushVars, leaving, calls, dataVars, dead>>

OwnerSwap ==
    /\ ~dead
    /\ ownerPc = "swap"
    /\ SwapBuffer("owner")
    /\ ownerPc' = IF buffer = << >> THEN "stop" ELSE "sink"
    /\ UNCHANGED <<ctlVars, flushVars, leaving, calls, tail, recPc, flushed, dead>>

\* An answer that reports an active capture starts a flush thread over the one
\* that is still joinable.
OwnerSink ==
    /\ ~dead
    /\ ownerPc = "sink"
    /\ Deliver("owner")
    /\ \E a \in Answers :
         IF a = "active"
         THEN dead' = TRUE /\ UNCHANGED ownerPc
         ELSE ownerPc' = "stop" /\ UNCHANGED dead
    /\ UNCHANGED <<ctlVars, flushVars, leaving, calls, tail, recPc, buffer>>

OwnerStop ==
    /\ ~dead
    /\ ownerPc = "stop"
    /\ stopFlushing' = TRUE
    /\ ownerPc' = "join"
    /\ UNCHANGED <<sink, active, flushVars, leaving, calls, tail, dataVars, dead>>

\* Mutant of OwnerJoin: the flush thread is not joined.
OwnerJoinSkipped ==
    /\ ~dead
    /\ ownerPc = "join"
    /\ ownerPc' = IF leaving = "no" THEN "idle" ELSE "gone"
    /\ UNCHANGED <<ctlVars, flushVars, leaving, calls, tail, dataVars, dead>>

OwnerJoin ==
    /\ ~dead
    /\ ownerPc = "join"
    /\ flushPc \in {"done", "none"}
    /\ flushPc' = "none"
    /\ ownerPc' = IF leaving = "no" THEN "idle" ELSE "gone"
    /\ UNCHANGED <<ctlVars, catching, leaving, calls, tail, dataVars, dead>>

OwnerContinues == OwnerStore \/ OwnerSwap \/ OwnerSink \/ OwnerStop \/ OwnerJoin

Owner == Activate \/ Deactivate \/ DestroyRecorder \/ OwnerContinues
-----------------------------------------------------------------------------
RecorderNext ==
    \/ \E e \in Events : Record(e) \/ Push(e)
    \/ FlushThread
    \/ Owner

RecorderSpec == RecorderInit /\ [][RecorderNext]_recorderVars

(***************************************************************************)
(* Both threads are scheduled, a call of the owner that began goes on, and *)
(* a submitted batch is answered or fails.                                 *)
(***************************************************************************)
RecorderFairness ==
    /\ WF_recorderVars(FlushThread)
    /\ WF_recorderVars(OwnerContinues)
    /\ WF_recorderVars(\E e \in Events : Push(e))

RecorderFairSpec == RecorderSpec /\ RecorderFairness
-----------------------------------------------------------------------------
(***************************************************************************)
(* Properties.                                                             *)
(***************************************************************************)
\* Every variable keeps the shape of the member it stands for, and between two
\* calls of the owner a local recorder has a flush thread exactly while its
\* capture is active.
RecorderTypeOK ==
    /\ sink \in {"local", "remote"}
    /\ active \in BOOLEAN /\ stopFlushing \in BOOLEAN
    /\ flushPc \in {"none", "loop", "wait", "sink", "correct", "last_swap", "last_sink",
                    "self_join", "done"}
    /\ catching \in BOOLEAN
    /\ ownerPc \in {"idle", "store", "swap", "sink", "stop", "join", "gone"}
    /\ leaving \in {"no", "derived", "base"}
    /\ calls \in 0 .. MaxCalls
    /\ tail \in SUBSET Events
    /\ recPc \in [Events -> {"unused", "push", "recorded", "dropped"}]
    /\ buffer \in Seq(Events)
    /\ batch \in [Threads -> Seq(Events)]
    /\ flushed \in Seq(Events)
    /\ dead \in BOOLEAN
    /\ sink = "local" /\ ownerPc = "idle" => (active <=> Joinable)

\* Every recorded event is in exactly one place, once: still buffered, in the
\* batch of the flush thread or of the owner, or handed to the sink - although
\* both threads run flush_once() at the same time when a capture ends; and
\* what was buffered when the owner ended the capture has reached the sink when
\* its call returns.
EventsFlushedOnce ==
    LET all == buffer \o batch["flush"] \o batch["owner"] \o flushed IN
    /\ \A j, k \in 1 .. Len(all) : all[j] = all[k] => j = k
    /\ \A e \in Events : InSeq(e, all) <=> recPc[e] = "recorded"
    /\ ownerPc \in {"idle", "gone"} => \A e \in tail : InSeq(e, flushed)

\* Ending and starting captures again never terminates the server.
LocalRecorderSurvives == sink = "local" => ~dead

\* set_capture_active(false), stop() and the destructor return.
RecorderStopReturns == (ownerPc # "idle") ~> (ownerPc \in {"idle", "gone"} \/ dead)

\* The events in the buffer, or in a batch that has not reached the sink.
Unflushed == {e \in Events : /\ ~InSeq(e, flushed)
                             /\ InSeq(e, buffer) \/ \E t \in Threads : InSeq(e, batch[t])}

\* A buffered event reaches the sink while the capture goes on, without waiting
\* for the event threshold.
EventsFlushed == (Unflushed # {}) ~> (Unflushed = {} \/ ~active \/ dead)

\* Destroying a client's recorder, or losing its connection, stops recording on
\* that client and does nothing else.
ClientRecorderSurvives == ~dead
=============================================================================
