---------------------------- MODULE TermThreads ----------------------------
(***************************************************************************)
(* The life of a terminal connection: a term_conn_state with a reader and  *)
(* a writer, each a term_pipe_thread, that may be stopped from several     *)
(* threads at once - the one that destroys the transport, another one that *)
(* shuts it down, and the reader's own loop thread, from the passthrough   *)
(* callback that end of file triggers.  Around it, the server transport    *)
(* that hands the one connection out again and again.                      *)
(***************************************************************************)
EXTENDS Naturals, FiniteSets

Pipes == {"reader", "writer"}
Callers == {"owner", "other", "loop"}

VARIABLES
    pipe,    \* the two term_pipe_threads
    conn,    \* term_conn_state::closed, recv_closed, and whether it is alive
    call,    \* where each caller is inside term_conn_state::stop()
    srv      \* term_server_transport

termThreadVars == <<pipe, conn, call, srv>>

\* A pipe thread after start(): its loop runs.
RunningPipe == [stopped |-> FALSE, async |-> FALSE, stopDone |-> FALSE, thread |-> "run",
                finished |-> FALSE]

\* term_conn_state::start().
TermThreadsInit ==
    /\ pipe = [p \in Pipes |-> RunningPipe]
    /\ conn = [closed |-> FALSE, recvClosed |-> FALSE, block |-> "alive"]
    /\ call = [a \in Callers |-> [at |-> "out", pipe |-> "reader"]]
    /\ srv = [stopped |-> FALSE, checkedOut |-> FALSE]

\* Where a caller goes when the stop() of one pipe has returned.
NextCall(a) ==
    IF call[a].pipe = "reader" THEN [at |-> "stop", pipe |-> "writer"]
    ELSE [at |-> "back", pipe |-> "writer"]

Inside(a) == call[a].at \in {"stop", "wait", "join"}
-----------------------------------------------------------------------------
(***************************************************************************)
(* term_conn_state::stop(): closed, then reader.stop(), then writer.stop() *)
(* (which first sets the writer's own flag).  shutdown() of the client and *)
(* stop() of the server call it, and both destructors.                     *)
(***************************************************************************)
\* term_client_transport::shutdown(), after before_destroy.
Shutdown(a) ==
    /\ a \in {"owner", "other"}
    /\ call[a].at = "out"
    /\ conn.block = "alive"
    /\ conn' = [conn EXCEPT !.closed = TRUE]
    /\ call' = [call EXCEPT ![a] = [at |-> "stop", pipe |-> "reader"]]
    /\ UNCHANGED <<pipe, srv>>

\* on_read() with end of file: recv_closed, then the callback, which may
\* shut the transport down on this very thread.
OnReadEof ==
    /\ pipe["reader"].thread = "run"
    /\ call["loop"].at = "out"
    /\ \/ /\ call' = [call EXCEPT !["loop"] = [at |-> "stop", pipe |-> "reader"]]
          /\ conn' = [conn EXCEPT !.closed = TRUE, !.recvClosed = TRUE]
       \/ /\ call' = [call EXCEPT !["loop"].at = "back"]
          /\ conn' = [conn EXCEPT !.recvClosed = TRUE]
    /\ UNCHANGED <<pipe, srv>>

\* Mutant of PipeThreadStop: on the loop's own thread stop_done is not set.
PipeThreadStopNotDone(a) ==
    LET p == call[a].pipe
    IN /\ call[a].at = "stop"
       /\ IF pipe[p].stopped
          THEN /\ call' = [call EXCEPT ![a].at = "wait"]
               /\ UNCHANGED pipe
          ELSE /\ pipe' = [pipe EXCEPT ![p].stopped = TRUE, ![p].async = TRUE]
               /\ call' = IF a = "loop" /\ p = "reader" THEN [call EXCEPT ![a] = NextCall(a)]
                          ELSE [call EXCEPT ![a].at = "join"]
       /\ UNCHANGED <<conn, srv>>

\* term_pipe_thread::stop(): the first caller signals the loop; on the loop's
\* own thread it detaches, elsewhere it joins.  The others wait for stop_done.
PipeThreadStop(a) ==
    LET p == call[a].pipe
    IN /\ call[a].at = "stop"
       /\ IF pipe[p].stopped
          THEN /\ call' = [call EXCEPT ![a].at = "wait"]
               /\ UNCHANGED pipe
          ELSE IF a = "loop" /\ p = "reader"
          THEN /\ pipe' = [pipe EXCEPT ![p].stopped = TRUE, ![p].async = TRUE,
                                       ![p].stopDone = TRUE]
               /\ call' = [call EXCEPT ![a] = NextCall(a)]
          ELSE /\ pipe' = [pipe EXCEPT ![p].stopped = TRUE, ![p].async = TRUE]
               /\ call' = [call EXCEPT ![a].at = "join"]
       /\ UNCHANGED <<conn, srv>>

\* loop_thread.join() returns, and stop_done is set.
PipeThreadJoined(a) ==
    /\ call[a].at = "join"
    /\ pipe[call[a].pipe].finished
    /\ pipe' = [pipe EXCEPT ![call[a].pipe].stopDone = TRUE]
    /\ call' = [call EXCEPT ![a] = NextCall(a)]
    /\ UNCHANGED <<conn, srv>>

\* stop_done.wait() returns.
StopDoneSeen(a) ==
    /\ call[a].at = "wait"
    /\ pipe[call[a].pipe].stopDone
    /\ call' = [call EXCEPT ![a] = NextCall(a)]
    /\ UNCHANGED <<pipe, conn, srv>>

\* on_stop() closes the handles, uv_run() returns and post_run() follows;
\* the reader's thread gets there when it is not in its callback.
LoopReturns(p) ==
    /\ pipe[p].thread = "run"
    /\ pipe[p].async
    /\ p = "reader" => ~Inside("loop")
    /\ pipe' = [pipe EXCEPT ![p].thread = "closing"]
    /\ conn' = IF p = "reader" THEN [conn EXCEPT !.recvClosed = TRUE] ELSE conn
    /\ UNCHANGED <<call, srv>>

\* uv_loop_close(), then thread_finished.
ThreadFinishes(p) ==
    /\ pipe[p].thread = "closing"
    /\ pipe' = [pipe EXCEPT ![p].thread = "done", ![p].finished = TRUE]
    /\ UNCHANGED <<conn, call, srv>>
-----------------------------------------------------------------------------
(***************************************************************************)
(* Destruction: ~term_client_transport() stops the connection, then the    *)
(* members go, the writer first, each with stop() and                      *)
(* wait_until_finished(); last the block itself.  A caller other than the  *)
(* reader's thread is not inside any more.                                 *)
(***************************************************************************)
\* ~term_writer().
DestroyWriter ==
    /\ call["owner"].at = "back"
    /\ ~Inside("other")
    /\ conn.block = "alive"
    /\ pipe["writer"].stopDone
    /\ pipe["writer"].finished
    /\ conn' = [conn EXCEPT !.block = "writer gone"]
    /\ UNCHANGED <<pipe, call, srv>>

\* Mutant of DestroyReader: without wait_until_finished().
DestroyReaderUnwaited ==
    /\ conn.block = "writer gone"
    /\ pipe["reader"].stopDone
    /\ conn' = [conn EXCEPT !.block = "released"]
    /\ UNCHANGED <<pipe, call, srv>>

\* ~term_reader(), then the memory of the term_conn_state.
DestroyReader ==
    /\ conn.block = "writer gone"
    /\ pipe["reader"].stopDone
    /\ pipe["reader"].finished
    /\ conn' = [conn EXCEPT !.block = "released"]
    /\ UNCHANGED <<pipe, call, srv>>
-----------------------------------------------------------------------------
(***************************************************************************)
(* term_server_transport: the connection is handed out, closed, and handed *)
(* out again.                                                              *)
(***************************************************************************)
TermAccept ==
    /\ ~srv.stopped
    /\ ~srv.checkedOut
    /\ srv' = [srv EXCEPT !.checkedOut = TRUE]
    /\ UNCHANGED <<pipe, conn, call>>

\* term_server_connection::close() and its on_close.
TermConnectionClose ==
    /\ srv.checkedOut
    /\ srv' = [srv EXCEPT !.checkedOut = FALSE]
    /\ UNCHANGED <<pipe, conn, call>>

\* term_server_transport::stop(): the flag, then the connection's stop().
TermServerStop ==
    /\ ~srv.stopped
    /\ call["owner"].at = "out"
    /\ srv' = [srv EXCEPT !.stopped = TRUE]
    /\ conn' = [conn EXCEPT !.closed = TRUE]
    /\ call' = [call EXCEPT !["owner"] = [at |-> "stop", pipe |-> "reader"]]
    /\ UNCHANGED pipe

CallerStep(a) == PipeThreadStop(a) \/ PipeThreadJoined(a) \/ StopDoneSeen(a)

TermThreadsNext ==
    \/ OnReadEof
    \/ \E a \in Callers : Shutdown(a) \/ CallerStep(a)
    \/ \E p \in Pipes : LoopReturns(p) \/ ThreadFinishes(p)
    \/ DestroyWriter \/ DestroyReader
    \/ TermAccept \/ TermConnectionClose \/ TermServerStop

\* Threads run, and so do the loops' callbacks.
TermThreadsFairness ==
    /\ WF_termThreadVars(\E a \in Callers : CallerStep(a))
    /\ WF_termThreadVars(\E p \in Pipes : LoopReturns(p) \/ ThreadFinishes(p))
    /\ WF_termThreadVars(DestroyWriter \/ DestroyReader)
-----------------------------------------------------------------------------
\* The memory of a term_conn_state goes only when both loop threads have
\* finished and nobody is inside stop() any more, whoever stopped it and in
\* whatever order: what stop_done and wait_until_finished() are for.
BlockOutlivesThreads ==
    conn.block = "released" =>
        /\ \A a \in Callers : ~Inside(a)
        /\ \A p \in Pipes : pipe[p].thread = "done"

\* The reader's thread waits for stop_done inside its own callback, while the
\* caller that will set it joins that thread.
SelfWait ==
    /\ call["loop"] = [at |-> "wait", pipe |-> "reader"]
    /\ \E a \in Callers : call[a] = [at |-> "join", pipe |-> "reader"]

\* Every term_pipe_thread::stop() returns, concurrent ones and one on the
\* loop's own thread too - except from SelfWait - and a destruction completes.
TermStopsReturn ==
    LET unfinished == \/ ~SelfWait /\ \E a \in Callers : Inside(a)
                      \/ call["owner"].at = "back" /\ conn.block # "released"
    IN unfinished ~> ~unfinished
=============================================================================
