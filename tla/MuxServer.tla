------------------------------ MODULE MuxServer ------------------------------
(***************************************************************************)
(* The server worker of crates/xray-mux/src/worker.rs on one carrier, as   *)
(* handle_mux_inbound_link of crates/xray-core/src/inbound.rs runs it:     *)
(* Loop reads frames, every session has a pump (handle_session_output,     *)
(* upstream to carrier), and Monitor is aborted when Loop ends.            *)
(*                                                                         *)
(* Link s is the one dispatched for session s.  A New frame with a         *)
(* GlobalID makes an XUDP session, whose link outlives it: the next New    *)
(* with the same GlobalID, under a new id, takes the link over.  One       *)
(* GlobalID stands for all, since entries never meet.  The client and the  *)
(* upstream are the environment: the client numbers its sessions upwards   *)
(* and may send any frame for a number it has used; dispatch, writes and   *)
(* reads end as they like, or never.                                       *)
(***************************************************************************)
EXTENDS MuxSession

VARIABLES
    entry,      \* the XUDPManager entry: its session, Initializing or none
    rebind,     \* Loop is in xudp_hit_rebind, with the old session in obj[Loop]
    aborted,    \* monitor_h.abort() was called
    taken,      \* the monitor has taken link_writer: writes to it fail
    lost        \* history: the session the aborted monitor was closing

own  == <<entry, rebind, aborted, taken, lost>>
vars == <<base, own>>

NoEntry      == 0
Initializing == -1

Init ==
    /\ SessionInit
    /\ entry = NoEntry /\ rebind = FALSE
    /\ aborted = FALSE /\ taken = FALSE /\ lost = {}

\* The id of the next New frame.
Fresh == count + 1

\* A step of t that only moves it on.
Step(t, l) == Goto(t, l) /\ UNCHANGED <<mgr, mon, ses, io, obj, own>>

(***************************************************************************)
(* New frames.  The labels dispatch, add are those of handle_normal_new;   *)
(* dispatchX, addX, bindX of handle_xudp_new; first, takeIn, takeOut and   *)
(* addR of xudp_hit_rebind.                                                *)
(***************************************************************************)

RecvNew == pc[Loop] = "recv" /\ Fresh \in Sessions /\ Step(Loop, "dispatch")

\* The Weak of an Active entry upgrades while the table, the pump or the
\* manager's close still holds the session.
Alive(s) == s \in live \cup todo \/ pc[s] # "done" \/ obj[Monitor] = s

\* A live Active entry is rebound; otherwise the entry is (re)initialised.  A
\* conflicting Initializing entry makes the frame a no-op.
RecvXudpNew ==
    /\ pc[Loop] = "recv" /\ Fresh \in Sessions
    /\ entry # Initializing
    /\ IF entry # NoEntry /\ Alive(entry)
       THEN /\ obj' = [obj EXCEPT ![Loop] = entry]
            /\ rebind' = TRUE
            /\ Goto(Loop, "close")
            /\ UNCHANGED entry
       ELSE /\ entry' = Initializing
            /\ Goto(Loop, "dispatchX")
            /\ UNCHANGED <<obj, rebind>>
    /\ UNCHANGED <<mgr, mon, ses, io, aborted, taken, lost>>

\* The loop ends: worker.close(), then monitor_h.abort().
LoopEnds ==
    /\ closed' = TRUE
    /\ Goto(Loop, "abort")
    /\ UNCHANGED <<mgr, todo, snap, ses, obj, rebind, aborted, taken, lost>>

Dispatch ==
    /\ pc[Loop] \in {"dispatch", "dispatchX"}
    /\ inp'  = [inp  EXCEPT ![Fresh] = Fresh]
    /\ outp' = [outp EXCEPT ![Fresh] = Fresh]
    /\ Goto(Loop, IF pc[Loop] = "dispatch" THEN "add" ELSE "addX")
    /\ UNCHANGED <<mgr, mon, ses, stopped, shut, obj, own>>

\* dispatch fails, and an XUDP entry is taken back; or the first data cannot be
\* written, and the entry stays.
DispatchFails ==
    /\ pc[Loop] \in {"dispatch", "dispatchX"}
    /\ entry' \in IF pc[Loop] = "dispatchX" THEN {NoEntry, entry} ELSE {entry}
    /\ UNCHANGED io
    /\ LoopEnds

\* Both ends of a link are there.
HasLink == inp[Fresh] # 0 /\ outp[Fresh] # 0

\* SessionManager::add; the pump of a normal session is spawned at once.
Add ==
    /\ pc[Loop] \in {"add", "addX", "addR"}
    /\ pc[Loop] = "addR" => HasLink
    /\ Insert(Fresh)
    /\ pc' = IF pc[Loop] = "add" THEN [pc EXCEPT ![Loop] = "recv", ![Fresh] = "lock"]
             ELSE [pc EXCEPT ![Loop] = "bindX"]
    /\ UNCHANGED <<mon, ses, io, obj, own>>

\* Mutant: the entry, a clone, is not written back.
BindXudpClone ==
    /\ pc[Loop] = "bindX"
    /\ xudp' = xudp \cup {count}
    /\ pc' = [pc EXCEPT ![Loop] = "recv", ![count] = "lock"]
    /\ obj' = [obj EXCEPT ![Loop] = 0] /\ rebind' = FALSE
    /\ UNCHANGED <<mgr, mon, flag, io, entry, aborted, taken, lost>>

\* set_mux, set_xudp and register; then the pump is spawned.
BindXudp ==
    /\ pc[Loop] = "bindX"
    /\ xudp' = xudp \cup {count}
    /\ entry' = count
    /\ pc' = [pc EXCEPT ![Loop] = "recv", ![count] = "lock"]
    /\ obj' = [obj EXCEPT ![Loop] = 0] /\ rebind' = FALSE
    /\ UNCHANGED <<mgr, mon, flag, io, aborted, taken, lost>>

\* The new session, and the link it had been given, are dropped.
DropLink ==
    /\ inp'  = [inp  EXCEPT ![Fresh] = 0]
    /\ outp' = [outp EXCEPT ![Fresh] = 0]
    /\ UNCHANGED <<stopped, shut>>

\* The manager is closed: SessionAddFailed.
AddFails ==
    /\ pc[Loop] \in {"add", "addX"} /\ mgrClosed
    /\ DropLink
    /\ UNCHANGED entry
    /\ LoopEnds

(***************************************************************************)
(* xudp_hit_rebind, once the old session is closed.                        *)
(***************************************************************************)

\* Mutant: the pump keeps the input lock over its write to the carrier.
InputFreeWide(s) == pc[s] \notin {"read", "write"}

InputFree(s)  == pc[s] # "read"
OutputFree(s) == ~(pc[Loop] \in {"deliver", "first"} /\ obj[Loop] = s)

\* The first data, if any, goes to the old output.
RebindFirst == pc[Loop] = "first" /\ Step(Loop, "takeIn")

\* The old input moves over, once the old pump has let go of it; then the old
\* output.
RebindTake ==
    LET old == obj[Loop] IN
    /\ \/ /\ pc[Loop] = "takeIn"
          /\ InputFree(old)
          /\ inp' = [inp EXCEPT ![old] = 0, ![Fresh] = inp[old]]
          /\ Goto(Loop, "takeOut")
          /\ UNCHANGED outp
       \/ /\ pc[Loop] = "takeOut"
          /\ outp' = [outp EXCEPT ![old] = 0, ![Fresh] = outp[old]]
          /\ Goto(Loop, "addR")
          /\ UNCHANGED inp
    /\ UNCHANGED <<mgr, mon, ses, stopped, shut, obj, own>>

\* The entry is initialised again and a new link dispatched.
Redispatch ==
    /\ entry' = Initializing
    /\ obj' = [obj EXCEPT ![Loop] = 0] /\ rebind' = FALSE
    /\ Goto(Loop, "dispatchX")
    /\ DropLink
    /\ UNCHANGED <<mgr, mon, ses, aborted, taken, lost>>

\* The write of the first data fails.
RebindFirstFails == pc[Loop] = "first" /\ Redispatch

\* There was no link to take, or the manager is closed.
RebindFails == pc[Loop] = "addR" /\ (mgrClosed \/ ~HasLink) /\ Redispatch

(***************************************************************************)
(* Keep and End frames, and the end of the loop.                           *)
(***************************************************************************)

\* An unknown id is ignored; a Keep takes the output lock of its session.
RecvFrame(id, l) ==
    /\ pc[Loop] = "recv"
    /\ Known(id)
    /\ obj' = [obj EXCEPT ![Loop] = id]
    /\ Goto(Loop, l)
    /\ UNCHANGED <<mgr, mon, ses, io, own>>

RecvKeep(id) == RecvFrame(id, "deliver")
RecvEnd(id)  == RecvFrame(id, "close")

\* The write to the upstream returns; its errors are ignored.
Deliver ==
    /\ pc[Loop] = "deliver"
    /\ Return(Loop, "recv")
    /\ UNCHANGED <<mgr, mon, ses, io, own>>

\* The carrier ends or brings a broken frame; or done, between two frames.
RecvError == pc[Loop] = "recv" /\ UNCHANGED <<entry, io>> /\ LoopEnds
RecvDone  == closed /\ RecvError

AbortMonitor ==
    /\ pc[Loop] = "abort"
    /\ aborted' = TRUE
    /\ Goto(Loop, "done")
    /\ UNCHANGED <<mgr, mon, ses, io, obj, entry, rebind, taken, lost>>

\* The aborted task ends at an await: its locks and sessions are let go.
Aborted ==
    /\ aborted /\ pc[Monitor] \notin {"done", "dead"}
    /\ Goto(Monitor, "dead")
    /\ obj' = [obj EXCEPT ![Monitor] = 0]
    /\ todo' = {} /\ snap' = NoSnap
    /\ lost' = IF pc[Monitor] \in {"stopIn", "stopOut"} THEN {obj[Monitor]} ELSE lost
    /\ UNCHANGED <<mgr, closed, ses, io, entry, rebind, aborted, taken>>

\* link_writer.lock().await.take(), when no pump is in a write.
TakeWriter ==
    /\ pc[Monitor] = "done"
    /\ ~taken /\ taken' = TRUE
    /\ UNCHANGED <<base, entry, rebind, aborted, lost>>

(***************************************************************************)
(* handle_session_output.  It holds the input lock in "read" only.         *)
(***************************************************************************)

\* The lock is taken; a session whose input was taken away ends.
LockInput(s) == pc[s] = "lock" /\ Step(s, IF inp[s] = 0 THEN "end" ELSE "read")

ReadChunk(s) == pc[s] = "read" /\ inp[s] \notin stopped /\ Step(s, "write")

\* The upstream ended or failed.
ReadEof(s) == pc[s] = "read" /\ Step(s, "end")

\* done, or the interrupted input.
ReadStop(s) ==
    /\ pc[s] = "read"
    /\ s \in flag \/ inp[s] \in stopped
    /\ Step(s, "end")

\* One Keep frame to the carrier.
WriteFrame(s) == pc[s] = "write" /\ ~taken /\ Step(s, "lock")

\* writer.close(): the End frame goes out before the session closes.
WriteEnd(s) == pc[s] = "end" /\ ~taken /\ Step(s, "close")

\* The carrier fails a frame.
WriteFails(s) ==
    \/ pc[s] = "write" /\ Step(s, "end")
    \/ pc[s] = "end" /\ Step(s, "close")

-----------------------------------------------------------------------------
\* Session::close in task t, which returns to what the task does next.
Close(t) ==
    /\ LET back == IF t = Monitor THEN "sweep" ELSE IF t # Loop THEN "done"
                   ELSE IF rebind THEN "first" ELSE "recv"
       IN  SessionClose(t, back, InputFree(obj[t]), OutputFree(obj[t]))
    /\ UNCHANGED own

\* The steps a task takes by itself; the rest waits for the client, the carrier
\* or the upstream.
Pump(s)  == LockInput(s) \/ ReadStop(s)
Frames   == Add \/ AddFails \/ BindXudp \/ RebindTake \/ RebindFails \/ RecvDone \/ AbortMonitor
Watching == Watch /\ UNCHANGED own

Next ==
    \/ RecvNew \/ RecvXudpNew \/ Dispatch \/ DispatchFails
    \/ RebindFirst \/ RebindFirstFails \/ Deliver \/ RecvError \/ Frames
    \/ \E s \in Sessions :
          \/ RecvKeep(s) \/ RecvEnd(s)
          \/ Pump(s) \/ ReadChunk(s) \/ ReadEof(s)
          \/ WriteFrame(s) \/ WriteEnd(s) \/ WriteFails(s)
    \/ \E t \in Tasks : Close(t)
    \/ Watching \/ Aborted \/ TakeWriter

Spec == Init /\ [][Next]_vars

\* Spawned tasks are polled until they end or are aborted, and tokio hands a lock
\* to those who wait for it in order, so that a pump cannot take its input lock
\* again and again before a close that waits for it.  The carrier and the
\* upstreams need not make progress, in either direction.
Fairness ==
    /\ \A s \in Sessions : WF_vars(Pump(s))
    /\ \A t \in Tasks : SF_vars(Close(t))
    /\ SF_vars(Frames) /\ WF_vars(Watching) /\ WF_vars(Aborted)

FairSpec == Spec /\ Fairness

-----------------------------------------------------------------------------
TaskPc ==
    {"none", "lock", "read", "write", "end", "close", "stopIn", "stopOut", "remove",
     "done", "recv", "dispatch", "dispatchX", "add", "addX", "addR", "bindX", "first",
     "takeIn", "takeOut", "deliver", "abort", "snap", "snap2", "wait", "idle", "sweep",
     "dead"}

\* Every variable holds a value of its kind, and a session that is being rebound
\* is one the worker has had.
TypeOK ==
    /\ ManagerOK
    /\ entry \in Initializing..count
    /\ rebind \in BOOLEAN /\ rebind => obj[Loop] \in 1..count
    /\ aborted \in BOOLEAN /\ taken \in BOOLEAN /\ lost \subseteq flag
    /\ pc \in [Tasks -> TaskPc]

\* The upstream link of an open session is its own and works: neither the close
\* of the XUDP session it was taken over from nor the end of that session's pump
\* has interrupted or shut it (xudp_hit_rebind).
LinkUsable ==
    \A s \in 1..count \ flag :
        /\ inp[s] \notin stopped \cup {0} /\ outp[s] \notin shut \cup {0}
        /\ \A t \in 1..count \ {s} : inp[t] # inp[s] /\ outp[t] # outp[s]

\* When a normal session is over its upstream sees the end of the data, whoever
\* closed it; except if it was the monitor, aborted in the middle.
UpstreamShut ==
    \A s \in 1..count \ xudp :
        (pc[s] = "done" /\ OutputPassed(s)) => s \in shut \cup lost

\* Between two frames no GlobalID is left Initializing, which would make every
\* later New frame with it a conflict that is dropped without an answer.
NoConflict == pc[Loop] = "recv" => entry # Initializing

\* One session never holds up the carrier: closing it for an End frame, or
\* taking over its link, is soon done, whatever its pump waits for.
LoopProgress ==
    /\ pc[Loop] \in {"close", "stopIn", "stopOut", "remove"} ~> pc[Loop] \in {"recv", "first"}
    /\ pc[Loop] \in {"takeIn", "takeOut", "addR", "bindX"} ~> pc[Loop] \in {"recv", "dispatchX"}

\* When the carrier ends all its sessions are closed (inbound.rs: the carrier and
\* all its sessions are torn down here).
CarrierEndsSessions == pc[Loop] = "done" ~> 1..count \subseteq flag
=============================================================================
