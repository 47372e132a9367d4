------------------------------ MODULE MuxClient ------------------------------
(***************************************************************************)
(* The client worker of crates/xray-mux/src/client.rs: one carrier link    *)
(* shared by many sessions.  Its tasks are fetch_output (Loop), monitor,   *)
(* the dialling task of DialingWorkerFactory, and for every dispatched     *)
(* connection a fetch_input (app to carrier).                              *)
(*                                                                         *)
(* A session's id is the count at its allocation.  The carrier and the     *)
(* apps are the environment: the carrier takes a frame when it has room,   *)
(* brings any frames for ids it has seen in a New frame, and may end at    *)
(* any time; a read of an app's input gives a chunk, the end or nothing    *)
(* yet, a write to its output succeeds or fails.                           *)
(***************************************************************************)
EXTENDS MuxSession

CONSTANT MaxConcurrency   \* ClientStrategy.max_concurrency; 0 is no limit

ASSUME MaxConcurrencyAssumption == MaxConcurrency \in Nat

VARIABLES
    dial,       \* the dialling task: "run", "cut", "done"
    cut,        \* both pipes of the carrier are interrupted
    open,       \* ids whose New frame the carrier has taken
    late        \* history: sessions whose output was bound after its close

own  == <<dial, cut, open, late>>
vars == <<base, own>>

Init == SessionInit /\ dial = "run" /\ cut = FALSE /\ open = {} /\ late = {}

(***************************************************************************)
(* dispatch_with_source: is_full and allocate test the same limits, and    *)
(* the worker may close between the two, so the test under the lock is the *)
(* one that decides.                                                       *)
(***************************************************************************)

\* SessionManager::allocate; MaxSessions is max_connection.
Allocate ==
    /\ MaxConcurrency = 0 \/ Cardinality(live) < MaxConcurrency
    /\ count < MaxSessions
    /\ Insert(count + 1)
    /\ Goto(count + 1, "bindIn")
    /\ UNCHANGED <<mon, ses, io, obj, own>>

\* set_input; then set_output, after which fetch_input is spawned and
\* dispatch itself waits for done.
Bind(s) ==
    /\ \/ /\ pc[s] = "bindIn"
          /\ inp' = [inp EXCEPT ![s] = s]
          /\ Goto(s, "bindOut")
          /\ UNCHANGED <<outp, late>>
       \/ /\ pc[s] = "bindOut"
          /\ outp' = [outp EXCEPT ![s] = s]
          /\ Goto(s, "spawned")
          /\ late' = IF OutputPassed(s) THEN late \cup {s} ELSE late
          /\ UNCHANGED inp
    /\ UNCHANGED <<mgr, mon, ses, stopped, shut, obj, dial, cut, open>>

(***************************************************************************)
(* fetch_input.  It holds the input lock in "first", and from "read" to    *)
(* the end of "write".                                                     *)
(***************************************************************************)

InputFree(s) == pc[s] \notin {"first", "read", "write"}

\* A step of fetch_input that only moves it on.
Step(s, l) == Goto(s, l) /\ UNCHANGED <<mgr, mon, ses, io, obj, own>>

\* The input lock is taken: for the first payload, or for the next one.
LockInput(s) ==
    /\ pc[s] \in {"spawned", "top"}
    /\ Step(s, IF pc[s] = "spawned" THEN "first" ELSE "read")

\* read_multi_buffer gives what the app wrote: First::Payload, or the next chunk.
ReadChunk(s) ==
    /\ pc[s] \in {"first", "read"}
    /\ s \notin stopped
    /\ Step(s, IF pc[s] = "first" THEN "new" ELSE "write")

\* The app ended its input: First::Abort, or the end of the loop.
ReadEof(s) == pc[s] \in {"first", "read"} /\ Step(s, "end")

\* Mutant: the loop is deaf to done while it holds the lock.
ReadDeaf(s) ==
    \/ pc[s] = "first" /\ s \notin stopped /\ Step(s, "new")
    \/ pc[s] \in {"first", "read"} /\ s \in stopped /\ Step(s, "end")

\* The read ends without the app: after 100 ms without a first payload
\* (First::Probe), with done, or because the input is interrupted.
ReadStop(s) ==
    \/ pc[s] = "first" /\ s \notin stopped /\ Step(s, "new")
    \/ pc[s] \in {"first", "read"} /\ s \in flag \cup stopped /\ Step(s, "end")

\* The New frame, with or without a payload, and the Keep frames: one write
\* each, which waits until the carrier has room.
WriteFrame(s) ==
    /\ pc[s] \in {"new", "write"}
    /\ ~cut
    /\ open' = open \cup {s}
    /\ Goto(s, "top")
    /\ UNCHANGED <<mgr, mon, ses, io, obj, dial, cut, late>>

\* writer.close(): the End frame goes out before the session closes.
WriteEnd(s) == pc[s] = "end" /\ ~cut /\ Step(s, "close")

\* Writes to an interrupted carrier fail: the loop ends, and End is not sent.
WriteFails(s) ==
    /\ cut
    /\ \/ pc[s] \in {"new", "write"} /\ Step(s, "end")
       \/ pc[s] = "end" /\ Step(s, "close")

(***************************************************************************)
(* fetch_output                                                            *)
(***************************************************************************)

\* It holds the output lock while it writes to the app.
OutputFree(s) == ~(pc[Loop] = "deliver" /\ obj[Loop] = s)

\* One frame is read whole.  An End closes its session, if there is one; a Keep
\* takes the output lock of its session, or has no session.
RecvFrame(id, kind) ==
    /\ pc[Loop] = "recv"
    /\ ~cut /\ id \in open
    /\ kind = "End" => Known(id)
    /\ obj' = [obj EXCEPT ![Loop] = id]
    /\ Goto(Loop, IF kind = "End" THEN "close"
                  ELSE IF Known(id) THEN "deliver" ELSE "reply")
    /\ UNCHANGED <<mgr, mon, ses, io, own>>

\* The loop ends with worker.close().
LoopEnds ==
    /\ closed' = TRUE
    /\ Goto(Loop, "done")
    /\ UNCHANGED <<mgr, todo, snap, ses, io, obj, own>>

\* The carrier ends or brings a broken frame.
RecvError == pc[Loop] = "recv" /\ LoopEnds

\* done, or the interrupted carrier.
RecvStop == pc[Loop] = "recv" /\ (closed \/ cut) /\ LoopEnds

\* An unknown session is answered with End, when the carrier has room.
Reply ==
    /\ pc[Loop] = "reply"
    /\ ~cut
    /\ Return(Loop, "recv")
    /\ UNCHANGED <<mgr, mon, ses, io, own>>

\* If that fails the loop ends.
ReplyFails == pc[Loop] = "reply" /\ cut /\ LoopEnds

\* write_multi_buffer_impl on the session's output, when the app's pipe has
\* room; it fails, and the session is closed, once the pipe is closed.
Deliver ==
    LET s == obj[Loop] IN
    /\ pc[Loop] = "deliver"
    /\ \/ s \notin shut /\ Return(Loop, "recv")
       \/ outp[s] # 0 /\ Goto(Loop, "close") /\ UNCHANGED obj
    /\ UNCHANGED <<mgr, mon, ses, io, own>>

(***************************************************************************)
(* DialingWorkerFactory::create: the task beside the carrier.              *)
(***************************************************************************)

\* The select: underlying.dispatch returns, at any time, or the worker is done;
\* then w.close().
DialClose ==
    /\ dial = "run"
    /\ dial' = "cut"
    /\ closed' = TRUE
    /\ UNCHANGED <<mgr, todo, snap, ses, io, pc, obj, cut, open, late>>

\* Both pipes are interrupted: buffered frames are released, waiters fail.
DialCut ==
    /\ dial = "cut"
    /\ dial' = "done"
    /\ cut' = TRUE
    /\ UNCHANGED <<base, open, late>>

-----------------------------------------------------------------------------
\* Session::close in task t, which returns to what the task does next.
Close(t) ==
    /\ LET back == IF t = Loop THEN "recv" ELSE IF t = Monitor THEN "sweep" ELSE "done"
       IN  SessionClose(t, back, InputFree(obj[t]), OutputFree(obj[t]))
    /\ UNCHANGED own

\* The steps a task takes by itself; the rest waits for the carrier or the app.
FetchInput(s) == Bind(s) \/ LockInput(s) \/ ReadStop(s) \/ WriteFails(s)
FetchOutput   == RecvStop \/ ReplyFails \/ Deliver
Watching      == Watch /\ UNCHANGED own

Next ==
    \/ Allocate
    \/ \E s \in Sessions :
          \/ FetchInput(s) \/ ReadChunk(s) \/ ReadEof(s)
          \/ WriteFrame(s) \/ WriteEnd(s)
          \/ \E kind \in {"Keep", "End"} : RecvFrame(s, kind)
    \/ \E t \in Tasks : Close(t)
    \/ FetchOutput \/ RecvError \/ Reply \/ Watching \/ DialClose \/ DialCut

Spec == Init /\ [][Next]_vars

\* Spawned tasks are polled until they end, timers fire, and the select loops of
\* the monitor and of the dialling task see done.  An app reads what it is sent
\* or drops the pipe (Deliver); it need not write, end its input or dispatch, and
\* the carrier need not make progress.
Fairness ==
    /\ \A s \in Sessions : WF_vars(FetchInput(s))
    /\ \A t \in Tasks : WF_vars(Close(t))
    /\ WF_vars(FetchOutput) /\ WF_vars(Watching) /\ SF_vars(MonitorDone /\ UNCHANGED own)
    /\ WF_vars(closed /\ DialClose) /\ WF_vars(DialCut)

FairSpec == Spec /\ Fairness

-----------------------------------------------------------------------------
TaskPc ==
    {"none", "bindIn", "bindOut", "spawned", "first", "new", "top", "read",
     "write", "end", "close", "stopIn", "stopOut", "remove", "done", "recv",
     "reply", "deliver", "snap", "snap2", "wait", "idle", "sweep"}

\* Every variable holds a value of its kind, ids and links are those of
\* allocated sessions, and what Session::close has stopped or shut belongs to a
\* session whose closed_flag is set.
TypeOK ==
    /\ ManagerOK
    /\ stopped \subseteq flag /\ shut \subseteq flag /\ late \subseteq flag
    /\ dial \in {"run", "cut", "done"}
    /\ cut \in BOOLEAN /\ open \subseteq 1..count
    /\ pc \in [Tasks -> TaskPc]

\* When a connection is over its app sees the end of the downlink: whichever of
\* fetch_input, fetch_output and the manager closed the session first, close
\* shut the output (session.rs: a flush alone froze the app).  The exception is
\* a session the manager closed before dispatch_with_source gave it an output.
DownlinkShut ==
    \A s \in Sessions :
        (pc[s] = "done" /\ OutputPassed(s)) => s \in shut \cup late

\* Once the worker is closed (idle, carrier lost, error on the carrier) every
\* task of every session ends, also those that wait for an app that never
\* writes or for a carrier that never has room.
Teardown == closed ~> \A t \in Tasks : pc[t] \in {"none", "done"}

\* A worker whose sessions have all ended is closed by the monitor: no entry is
\* left behind that would keep it from being idle.
Reaped == <>[](\A s \in 1..count : pc[s] = "done") => <>closed
=============================================================================
