------------------------------ MODULE MuxSession ------------------------------
(***************************************************************************)
(* The session table of crates/xray-mux/src/session.rs and the close of a  *)
(* session, as the client and the server worker use them: MuxClient and    *)
(* MuxServer extend this module with the tasks of each end.                *)
(*                                                                         *)
(* One step is one critical section or one await.  An id names one session *)
(* of a carrier: the client takes ids from the count, and MuxBridge dials  *)
(* with a max_connection of 128, so the 16-bit count never saturates.      *)
(* Task s, for a session s, pumps what arrives on its input; Loop reads    *)
(* frames from the carrier; Monitor closes the worker.                     *)
(***************************************************************************)
EXTENDS Integers, FiniteSets

CONSTANT MaxSessions    \* sessions a carrier has in its life

ASSUME MaxSessionsAssumption == MaxSessions \in Nat \ {0}

Sessions == 1..MaxSessions
Loop     == 0
Monitor  == -1
Tasks    == Sessions \cup {Loop, Monitor}

VARIABLES
    count,      \* SessionManagerInner.count
    live,       \* SessionManagerInner.sessions, by id
    size,       \* SessionManagerShared.size
    mgrClosed,  \* SessionManagerInner.closed
    closed,     \* the worker's closed flag and done signal
    todo,       \* the sessions SessionManager::close has still to close
    snap,       \* the monitor's check_size and check_count
    flag,       \* sessions whose closed_flag and done signal are set
    xudp,       \* sessions with an XUDP extension
    inp,        \* the link a session reads from; 0 is None
    outp,       \* the link a session writes to; 0 is None
    stopped,    \* links whose reading end was interrupted
    shut,       \* links whose writing end was shut down
    pc,         \* where each task is
    obj         \* the session a task works on; 0 is none

mgr  == <<count, live, size, mgrClosed>>
mon  == <<closed, todo, snap>>
ses  == <<flag, xudp>>
io   == <<inp, outp, stopped, shut>>
base == <<mgr, mon, ses, io, pc, obj>>

Goto(t, l) == pc' = [pc EXCEPT ![t] = l]

NoSnap == [size |-> 0, count |-> 0]

SessionInit ==
    /\ count = 0 /\ live = {} /\ size = 0 /\ mgrClosed = FALSE
    /\ closed = FALSE /\ todo = {} /\ snap = NoSnap
    /\ flag = {} /\ xudp = {}
    /\ inp = [s \in Sessions |-> 0] /\ outp = [s \in Sessions |-> 0]
    /\ stopped = {} /\ shut = {}
    /\ pc = [t \in Tasks |-> IF t = Loop THEN "recv"
                             ELSE IF t = Monitor THEN "snap" ELSE "none"]
    /\ obj = [t \in Tasks |-> IF t \in Sessions THEN t ELSE 0]

(***************************************************************************)
(* SessionManager                                                          *)
(***************************************************************************)

\* Mutant: a closed manager still takes sessions.
InsertClosed(s) ==
    /\ count' = count + 1
    /\ live'  = live \cup {s}
    /\ size'  = size + 1
    /\ UNCHANGED mgrClosed

\* What allocate and add do under the write lock, unless the manager is closed.
Insert(s) ==
    /\ ~mgrClosed
    /\ count' = count + 1
    /\ live'  = live \cup {s}
    /\ size'  = size + 1
    /\ UNCHANGED mgrClosed

\* SessionManager::get finds the session.
Known(s) == ~mgrClosed /\ s \in live

(***************************************************************************)
(* Session::close, called by task t for the session obj[t]; back is where  *)
(* t goes on when it returns.                                              *)
(***************************************************************************)

\* close returns; a loop that is done with the session forgets it.
Return(t, back) ==
    /\ Goto(t, back)
    /\ obj' = [obj EXCEPT ![t] = IF back \in {"recv", "sweep"} THEN 0 ELSE @]

\* Mutant: the XUDP extension does not spare the input and the output.
CloseSwapAll(t, back) ==
    /\ pc[t] = "close"
    /\ flag' = flag \cup {obj[t]}
    /\ IF obj[t] \in flag THEN Return(t, back)
       ELSE Goto(t, "stopIn") /\ UNCHANGED obj
    /\ UNCHANGED <<mgr, mon, xudp, io>>

\* closed_flag.swap and the done signal; only the first caller goes on, and a
\* session with an XUDP extension keeps its input and output.
CloseSwap(t, back) ==
    /\ pc[t] = "close"
    /\ flag' = flag \cup {obj[t]}
    /\ IF obj[t] \in flag THEN Return(t, back)
       ELSE Goto(t, IF obj[t] \in xudp THEN "remove" ELSE "stopIn") /\ UNCHANGED obj
    /\ UNCHANGED <<mgr, mon, xudp, io>>

\* reader.interrupt(), once the input lock is free.
CloseInput(t, free) ==
    /\ pc[t] = "stopIn"
    /\ free
    /\ stopped' = stopped \cup ({inp[obj[t]]} \ {0})
    /\ Goto(t, "stopOut")
    /\ UNCHANGED <<mgr, mon, ses, inp, outp, shut, obj>>

\* Mutant: the output is flushed and left open.
CloseOutputFlush(t, free) ==
    /\ pc[t] = "stopOut"
    /\ free
    /\ Goto(t, "remove")
    /\ UNCHANGED <<mgr, mon, ses, io, obj>>

\* writer.flush() and writer.shutdown(), once the output lock is free.
CloseOutput(t, free) ==
    /\ pc[t] = "stopOut"
    /\ free
    /\ shut' = shut \cup ({outp[obj[t]]} \ {0})
    /\ Goto(t, "remove")
    /\ UNCHANGED <<mgr, mon, ses, inp, outp, stopped, obj>>

\* Mutant: a session without a parent leaves its entry behind.
CloseRemoveNot(t, back) ==
    /\ pc[t] = "remove"
    /\ Return(t, back)
    /\ UNCHANGED <<mgr, mon, ses, io>>

\* The callback to the manager: remove by id, unless the manager has closed.
CloseRemove(t, back) ==
    /\ pc[t] = "remove"
    /\ IF Known(obj[t])
       THEN live' = live \ {obj[t]} /\ size' = size - 1
       ELSE UNCHANGED <<live, size>>
    /\ Return(t, back)
    /\ UNCHANGED <<count, mgrClosed, mon, ses, io>>

\* The four steps; inFree and outFree are the session's two locks.
SessionClose(t, back, inFree, outFree) ==
    \/ CloseSwap(t, back) \/ CloseInput(t, inFree)
    \/ CloseOutput(t, outFree) \/ CloseRemove(t, back)

\* Someone has closed the session and has its output behind it.
OutputPassed(s) ==
    s \in flag /\ \A t \in Tasks : obj[t] = s => pc[t] \notin {"stopIn", "stopOut"}

(***************************************************************************)
(* The monitor task of both workers.                                       *)
(***************************************************************************)

\* The two snapshots before the wait, size first.
Snapshot ==
    /\ \/ /\ pc[Monitor] = "snap"
          /\ snap' = [snap EXCEPT !.size = size]
          /\ Goto(Monitor, "snap2")
       \/ /\ pc[Monitor] = "snap2"
          /\ snap' = [snap EXCEPT !.count = count]
          /\ Goto(Monitor, "wait")
    /\ UNCHANGED <<mgr, closed, todo, ses, io, obj>>

\* Mutant: the snapshots alone decide that the worker is idle.
IsIdleBySnapshot == snap.size = 0 /\ snap.count = count

\* The test of close_if_no_session_and_idle.
IsIdle == live = {} /\ snap.size = 0 /\ snap.count = count

\* The tick: close_if_no_session_and_idle, under the write lock.
Tick ==
    /\ pc[Monitor] = "wait"
    /\ snap' = NoSnap
    /\ \/ mgrClosed /\ Goto(Monitor, "idle") /\ UNCHANGED mgr
       \/ /\ ~mgrClosed /\ IsIdle
          /\ mgrClosed' = TRUE /\ live' = {} /\ size' = 0
          /\ Goto(Monitor, "idle")
          /\ UNCHANGED count
       \/ ~mgrClosed /\ ~IsIdle /\ Goto(Monitor, "snap") /\ UNCHANGED mgr
    /\ UNCHANGED <<closed, todo, ses, io, obj>>

\* The worker closes after an idle close; the loop goes on.
IdleClose ==
    /\ pc[Monitor] = "idle"
    /\ closed' = TRUE
    /\ Goto(Monitor, "snap")
    /\ UNCHANGED <<mgr, todo, snap, ses, io, obj>>

\* done: SessionManager::close marks the manager and collects the sessions.
MonitorDone ==
    /\ pc[Monitor] = "wait"
    /\ closed
    /\ mgrClosed' = TRUE
    /\ todo' = IF mgrClosed THEN {} ELSE live
    /\ snap' = NoSnap
    /\ Goto(Monitor, IF mgrClosed THEN "done" ELSE "sweep")
    /\ UNCHANGED <<count, live, size, closed, ses, io, obj>>

\* It closes them one by one outside the lock, then clears the table.
Sweep ==
    /\ pc[Monitor] = "sweep"
    /\ \/ \E s \in todo :
             /\ obj' = [obj EXCEPT ![Monitor] = s]
             /\ todo' = todo \ {s}
             /\ Goto(Monitor, "close")
             /\ UNCHANGED <<live, size>>
       \/ /\ todo = {}
          /\ live' = {} /\ size' = 0
          /\ Goto(Monitor, "done")
          /\ UNCHANGED <<obj, todo>>
    /\ UNCHANGED <<count, mgrClosed, closed, snap, ses, io>>

Watch == Snapshot \/ Tick \/ IdleClose \/ MonitorDone \/ Sweep

-----------------------------------------------------------------------------
\* The session table is well formed, and what is left to close is listed.
ManagerOK ==
    /\ count \in 0..MaxSessions /\ live \subseteq 1..count /\ size \in Nat
    /\ mgrClosed \in BOOLEAN /\ closed \in BOOLEAN /\ todo \subseteq live
    /\ snap \in [size : Nat, count : 0..MaxSessions]
    /\ flag \subseteq 1..count /\ xudp \subseteq 1..count
    /\ inp \in [Sessions -> 0..MaxSessions] /\ outp \in [Sessions -> 0..MaxSessions]
    /\ stopped \subseteq Sessions /\ shut \subseteq Sessions
    /\ obj \in [Tasks -> 0..MaxSessions]

\* The atomic size, which is_full and the monitor read without the lock, is the
\* number of entries, whoever allocates, closes, sweeps or clears.
SizeIsTable == size = Cardinality(live)

\* A session that is open can be found: neither the idle close nor the shutdown
\* of the manager forgets one that was handed out in the meantime.
OpenIsListed == \A s \in 1..count : s \notin flag => s \in live

\* What the manager guarantees to both workers, whichever of their tasks allocates,
\* closes, sweeps or clears at the same time.
ManagerSound == ManagerOK /\ SizeIsTable /\ OpenIsListed
=============================================================================
