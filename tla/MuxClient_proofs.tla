-------------------------- MODULE MuxClient_proofs --------------------------
(***************************************************************************)
(* The session table of the client worker and the end of the downlink, for *)
(* any number of sessions and any concurrency limit.                       *)
(***************************************************************************)
EXTENDS MuxClient, MuxSession_proofs

\* A task of a session runs only once the session is allocated, fetch_input only
\* once its output is bound, and the client has no XUDP extension.
BindSound ==
    /\ xudp = {}
    /\ \A s \in Sessions : outp[s] \in {0, s}
    /\ \A s \in Sessions : pc[s] # "none" => s \in 1..count
    /\ \A s \in Sessions : pc[s] \notin {"none", "bindIn", "bindOut"} => outp[s] = s
    /\ pc[Loop] = "deliver" => obj[Loop] \in 1..count

\* Once the closing task has the output behind it, a bound output is shut, or was
\* bound after that.
DownCovered == \A s \in Sessions : OutputPassed(s) /\ outp[s] # 0 => s \in shut \cup late

\* The inductive invariant of the client.
ClientInv == MgrInv /\ BindSound /\ DownCovered

\* A step of one task that leaves the sessions as they are: it only moves on, and
\* may work on another session, known to the manager if it is to be closed.
LEMMA MoveKeeps ==
    ASSUME ClientInv, NEW t \in Tasks \ {Monitor}, NEW l, NEW o \in 0..MaxSessions,
           pc' = [pc EXCEPT ![t] = l], obj' = [obj EXCEPT ![t] = o],
           UNCHANGED <<mgr, todo, snap, ses, io, late>>, closed' \in BOOLEAN,
           t \in Sessions => o = t /\ pc[t] \notin {"none", "bindIn", "bindOut"},
           l \notin Stopping, l \in {"close", "deliver"} => o \in 1..count,
           pc[t] \notin Stopping
    PROVE  ClientInv'
<1>1. /\ DOMAIN pc = Tasks /\ DOMAIN pc' = Tasks /\ obj \in [Tasks -> 0..MaxSessions]
      /\ obj' \in [Tasks -> 0..MaxSessions]
      /\ Monitor \in Tasks /\ Loop \in Tasks /\ Sessions \subseteq Tasks /\ t \in Tasks
  BY TaskFacts DEF ClientInv, MgrInv, TasksSound, ManagerSound, ManagerOK
<1>2. \A u \in Tasks \ {t} : pc'[u] = pc[u] /\ obj'[u] = obj[u]
  BY <1>1
<1>3. pc'[t] = l /\ obj'[t] = o
  BY <1>1
<1>4. MgrInv'
  <2>1. MgrInv /\ UNCHANGED <<mgr, todo, snap, flag, stopped, shut>>
    BY DEF ClientInv, ses, io
  <2>2. /\ xudp' \subseteq 1..count
        /\ inp' \in [Sessions -> 0..MaxSessions] /\ outp' \in [Sessions -> 0..MaxSessions]
    BY DEF ClientInv, MgrInv, ManagerSound, ManagerOK, ses, io
  <2> QED
    BY <2>1, <2>2, TaskMoves
<1>5. BindSound'
  <2>1. UNCHANGED <<count, xudp, outp>>
    BY DEF mgr, ses, io
  <2>2. \A s \in Sessions : pc'[s] # "none" => s \in 1..count
    BY <1>1, <1>2 DEF ClientInv, BindSound
  <2>3. \A s \in Sessions : pc'[s] \notin {"none", "bindIn", "bindOut"} => outp[s] = s
    BY <1>1, <1>2 DEF ClientInv, BindSound
  <2>4. pc'[Loop] = "deliver" => obj'[Loop] \in 1..count
    BY <1>1, <1>2, <1>3 DEF ClientInv, BindSound
  <2> QED
    BY <2>1, <2>2, <2>3, <2>4 DEF ClientInv, BindSound
<1>6. DownCovered'
  <2>1. flag' = flag /\ UNCHANGED <<outp, shut, late>>
    BY DEF ses, io
  <2>2. \A s : OutputPassed(s)' => OutputPassed(s)
    BY <1>2, <2>1, PassedBefore DEF Stopping
  <2> QED
    BY <2>1, <2>2 DEF ClientInv, DownCovered
<1> QED
  BY <1>4, <1>5, <1>6 DEF ClientInv

\* The worker starts without sessions.
LEMMA ClientInit == Init => ClientInv
<1> SUFFICES ASSUME Init PROVE ClientInv
  OBVIOUS
<1>1. MgrInv
  BY MgrInit DEF Init
<1>2. \A s \in Sessions : pc[s] = "none" /\ outp[s] = 0
  BY TaskFacts DEF Init, SessionInit
<1>3. pc[Loop] = "recv" /\ xudp = {}
  BY TaskFacts DEF Init, SessionInit
<1> QED
  BY <1>1, <1>2, <1>3 DEF ClientInv, BindSound, DownCovered

\* dispatch_with_source: a session enters the table, then is given its ends.
LEMMA DispatchKeeps ==
    ASSUME ClientInv, Allocate \/ \E s \in Sessions : Bind(s)
    PROVE  ClientInv'
<1>0. /\ DOMAIN pc = Tasks /\ obj \in [Tasks -> 0..MaxSessions] /\ count \in 0..MaxSessions
      /\ Monitor \in Tasks /\ Loop \in Tasks /\ Sessions \subseteq Tasks
      /\ Loop \notin Sessions /\ Monitor \notin Sessions
  BY TaskFacts DEF ClientInv, MgrInv, TasksSound, ManagerSound, ManagerOK
<1>1. CASE Allocate
  <2> DEFINE n == count + 1
  <2>1. n \in Sessions /\ 1..n = 1..count \cup {n} /\ n \notin 1..count
    BY <1>0, <1>1, MaxSessionsAssumption DEF Allocate, Sessions
  <2>2. pc' = [pc EXCEPT ![n] = "bindIn"] /\ Insert(n) /\ UNCHANGED <<mon, ses, io, obj, late>>
    BY <1>1 DEF Allocate, Goto, own
  <2>3. pc[n] = "none"
    BY <2>1 DEF ClientInv, BindSound
  <2>4. /\ DOMAIN pc' = Tasks /\ pc'[n] = "bindIn"
        /\ \A t \in Tasks \ {n} : pc'[t] = pc[t]
    BY <1>0, <2>1, <2>2
  <2>5. MgrInv'
    <3>1. pc'[Monitor] = pc[Monitor]
      BY <1>0, <2>1, <2>4
    <3>2. \A t \in Tasks : pc'[t] \in {"close"} \cup Stopping => pc[t] = pc'[t]
      BY <2>4 DEF Stopping
    <3> QED
      BY <2>1, <2>2, <2>4, <3>1, <3>2, InsertKeeps DEF ClientInv
  <2>6. count' = n /\ UNCHANGED <<flag, xudp, outp, shut, late, obj>>
    BY <2>2 DEF Insert, ses, io
  <2>7. BindSound'
    <3>1. \A s \in Sessions : pc'[s] # "none" => s \in 1..n
      BY <1>0, <2>1, <2>4 DEF ClientInv, BindSound
    <3>2. \A s \in Sessions : pc'[s] \notin {"none", "bindIn", "bindOut"} => outp[s] = s
      BY <1>0, <2>4 DEF ClientInv, BindSound
    <3>3. pc'[Loop] = "deliver" => obj[Loop] \in 1..n
      BY <1>0, <2>1, <2>4 DEF ClientInv, BindSound
    <3> QED
      BY <2>6, <3>1, <3>2, <3>3 DEF ClientInv, BindSound
  <2>8. \A s : OutputPassed(s)' => OutputPassed(s)
    BY <2>3, <2>4, <2>6, PassedBefore
  <2> QED
    BY <2>5, <2>6, <2>7, <2>8 DEF ClientInv, DownCovered
<1>2. ASSUME NEW s \in Sessions, Bind(s) PROVE ClientInv'
  <2>1. /\ pc[s] \in {"bindIn", "bindOut"}
        /\ pc' = [pc EXCEPT ![s] = IF pc[s] = "bindIn" THEN "bindOut" ELSE "spawned"]
        /\ UNCHANGED <<mgr, mon, ses, stopped, shut, obj>>
    BY <1>2 DEF Bind, Goto
  <2>2. /\ DOMAIN pc' = Tasks /\ pc'[s] \in {"bindOut", "spawned"}
        /\ \A t \in Tasks \ {s} : pc'[t] = pc[t]
    BY <1>0, <2>1
  <2>3. /\ inp \in [Sessions -> 0..MaxSessions] /\ outp \in [Sessions -> 0..MaxSessions]
        /\ s \in 0..MaxSessions /\ xudp \subseteq 1..count /\ closed \in BOOLEAN
    BY MaxSessionsAssumption DEF ClientInv, MgrInv, ManagerSound, ManagerOK, Sessions
  <2>4. inp' \in [Sessions -> 0..MaxSessions] /\ outp' \in [Sessions -> 0..MaxSessions]
    BY <1>2, <2>3 DEF Bind
  <2>5. MgrInv'
    <3>1. UNCHANGED <<mgr, todo, snap, flag>> /\ UNCHANGED <<closed, xudp, stopped, shut, obj>>
      BY <2>1 DEF mon, ses
    <3>2. \A u \in Sessions : obj'[u] = u
      BY <3>1 DEF ClientInv, MgrInv, TasksSound
    <3>3. \A t \in Tasks : pc'[t] = "close" => obj'[t] \in 1..count
      BY <2>2, <3>1 DEF ClientInv, MgrInv, TasksSound
    <3>4. \A t \in Tasks : pc'[t] \in Stopping => pc[t] = pc'[t] /\ obj'[t] = obj[t]
      BY <2>2, <3>1 DEF Stopping
    <3>5. pc'[Monitor] = pc[Monitor] /\ obj'[Monitor] = obj[Monitor]
      BY <1>0, <2>2, <3>1
    <3>6. MgrInv /\ obj' \in [Tasks -> 0..MaxSessions] /\ closed' \in BOOLEAN
          /\ xudp' \subseteq 1..count
      BY <1>0, <2>3, <3>1 DEF ClientInv
    <3> QED
      BY <2>2, <2>4, <3>1, <3>2, <3>3, <3>4, <3>5, <3>6, OtherKeeps
  <2>6. /\ UNCHANGED <<count, flag, xudp, obj, shut>>
        /\ \A u \in Sessions \ {s} : outp'[u] = outp[u]
        /\ outp'[s] \in {outp[s], s} /\ (pc'[s] = "spawned" => outp'[s] = s)
    BY <1>0, <1>2, <2>1, <2>2, <2>3 DEF Bind, mgr, ses
  <2>7. BindSound'
    <3>1. \A u \in Sessions : outp'[u] \in {0, u}
      BY <2>6 DEF ClientInv, BindSound
    <3>2. \A u \in Sessions : pc'[u] # "none" => u \in 1..count
      BY <1>0, <2>1, <2>2 DEF ClientInv, BindSound
    <3>3. \A u \in Sessions : pc'[u] \notin {"none", "bindIn", "bindOut"} => outp'[u] = u
      BY <1>0, <2>2, <2>6 DEF ClientInv, BindSound
    <3>4. pc'[Loop] = "deliver" => obj[Loop] \in 1..count
      BY <1>0, <2>2 DEF ClientInv, BindSound
    <3> QED
      BY <2>6, <3>1, <3>2, <3>3, <3>4 DEF ClientInv, BindSound
  <2>8. DownCovered'
    <3>1. \A u : OutputPassed(u)' => OutputPassed(u)
      BY <2>1, <2>2, <2>6, PassedBefore
    <3>2. late \subseteq late' /\ (OutputPassed(s) => outp'[s] = outp[s] \/ s \in late')
      BY <1>2 DEF Bind
    <3> QED
      BY <2>6, <3>1, <3>2 DEF ClientInv, DownCovered
  <2> QED
    BY <2>5, <2>7, <2>8 DEF ClientInv
<1> QED
  BY <1>1, <1>2

\* fetch_input, once spawned, only moves on.
LEMMA InputKeeps ==
    ASSUME ClientInv, NEW s \in Sessions,
           \/ LockInput(s) \/ ReadStop(s) \/ WriteFails(s) \/ ReadChunk(s) \/ ReadEof(s)
           \/ WriteFrame(s) \/ WriteEnd(s)
    PROVE  ClientInv'
<1>1. /\ obj[s] = s /\ obj = [obj EXCEPT ![s] = s] /\ s \in Tasks \ {Monitor} /\ s \in 0..MaxSessions
      /\ closed \in BOOLEAN
  BY TaskFacts, MaxSessionsAssumption
     DEF ClientInv, MgrInv, TasksSound, ManagerSound, ManagerOK, Sessions
<1>2. /\ pc[s] \in {"spawned", "top", "first", "read", "new", "write", "end"}
      /\ UNCHANGED <<mgr, mon, ses, io, obj, late>>
      /\ \E l \in {"first", "read", "new", "write", "end", "top", "close"} : pc' = [pc EXCEPT ![s] = l]
  <2>1. CASE LockInput(s)
    BY <2>1 DEF LockInput, Step, Goto, own
  <2>2. CASE ReadStop(s)
    BY <2>2 DEF ReadStop, Step, Goto, own
  <2>3. CASE WriteFails(s)
    BY <2>3 DEF WriteFails, Step, Goto, own
  <2>4. CASE ReadChunk(s) \/ ReadEof(s)
    BY <2>4 DEF ReadChunk, ReadEof, Step, Goto, own
  <2>5. CASE WriteFrame(s) \/ WriteEnd(s)
    BY <2>5 DEF WriteFrame, WriteEnd, Step, Goto, own
  <2> QED
    BY <2>1, <2>2, <2>3, <2>4, <2>5
<1>3. PICK l \in {"first", "read", "new", "write", "end", "top", "close"} : pc' = [pc EXCEPT ![s] = l]
  BY <1>2
<1>4. s \in 1..count
  BY <1>2 DEF ClientInv, BindSound
<1>5. l \notin Stopping /\ pc[s] \notin Stopping
  BY <1>2, <1>3 DEF Stopping
<1>6. obj' = [obj EXCEPT ![s] = s] /\ UNCHANGED <<todo, snap>> /\ closed' \in BOOLEAN
  BY <1>1, <1>2 DEF mon
<1> QED
  BY <1>1, <1>2, <1>3, <1>4, <1>5, <1>6, MoveKeeps

\* fetch_output only moves on, too.
LEMMA OutputKeeps ==
    ASSUME ClientInv,
           \/ FetchOutput \/ RecvError \/ Reply
           \/ \E s \in Sessions, kind \in {"Keep", "End"} : RecvFrame(s, kind)
    PROVE  ClientInv'
<1>1. /\ Loop \in Tasks \ {Monitor} /\ Loop \notin Sessions /\ obj \in [Tasks -> 0..MaxSessions]
      /\ closed \in BOOLEAN /\ 0 \in 0..MaxSessions /\ live \subseteq 1..count
  BY TaskFacts, MaxSessionsAssumption DEF ClientInv, MgrInv, ManagerSound, ManagerOK
<1>2. UNCHANGED <<mgr, todo, snap, ses, io, late>> /\ closed' \in BOOLEAN
  BY <1>1 DEF FetchOutput, RecvStop, ReplyFails, Deliver, RecvError, Reply, RecvFrame, LoopEnds, mon, own
<1> DEFINE Moved(l, o) == /\ pc' = [pc EXCEPT ![Loop] = l] /\ obj' = [obj EXCEPT ![Loop] = o]
                          /\ l \in {"close", "deliver"} => o \in 1..count
<1>3. \E l \in {"close", "deliver", "reply", "recv", "done"}, o \in 0..MaxSessions : Moved(l, o)
  <2>1. CASE RecvError \/ RecvStop \/ ReplyFails
    <3>1. pc' = [pc EXCEPT ![Loop] = "done"] /\ obj' = [obj EXCEPT ![Loop] = obj[Loop]]
      BY <1>1, <2>1 DEF RecvError, RecvStop, ReplyFails, LoopEnds, Goto
    <3> QED
      BY <1>1, <3>1
  <2>2. CASE Reply
    BY <1>1, <2>2 DEF Reply, Return, Goto
  <2>3. CASE Deliver
    <3>1. obj[Loop] \in 1..count
      BY <2>3 DEF Deliver, ClientInv, BindSound
    <3>2. CASE Return(Loop, "recv")
      BY <1>1, <3>2 DEF Return, Goto
    <3>3. CASE Goto(Loop, "close") /\ UNCHANGED obj
      BY <1>1, <3>1, <3>3 DEF Goto
    <3> QED
      BY <2>3, <3>2, <3>3 DEF Deliver
  <2>4. ASSUME NEW s \in Sessions, NEW kind \in {"Keep", "End"}, RecvFrame(s, kind)
        PROVE  \E l \in {"close", "deliver", "reply", "recv", "done"}, o \in 0..MaxSessions : Moved(l, o)
    <3>1. s \in 0..MaxSessions /\ (Known(s) => s \in 1..count)
      BY <1>1, MaxSessionsAssumption DEF Sessions, Known
    <3>2. CASE Known(s)
      <4>1. PICK l \in {"close", "deliver"} : pc' = [pc EXCEPT ![Loop] = l]
        BY <2>4, <3>2 DEF RecvFrame, Goto
      <4> QED
        BY <2>4, <3>1, <3>2, <4>1 DEF RecvFrame
    <3>3. CASE ~Known(s)
      BY <2>4, <3>1, <3>3 DEF RecvFrame, Goto
    <3> QED
      BY <3>2, <3>3
  <2> QED
    BY <2>1, <2>2, <2>3, <2>4 DEF FetchOutput
<1>4. PICK l \in {"close", "deliver", "reply", "recv", "done"}, o \in 0..MaxSessions : Moved(l, o)
  BY <1>3
<1>5. pc[Loop] \in {"recv", "reply", "deliver"}
  BY DEF FetchOutput, RecvStop, ReplyFails, Deliver, RecvError, Reply, RecvFrame
<1>6. l \notin Stopping /\ pc[Loop] \notin Stopping
  BY <1>4, <1>5 DEF Stopping
<1> QED
  BY <1>1, <1>2, <1>4, <1>6, MoveKeeps

\* Session::close in the client: the winner of the swap has the output still to
\* shut, and passes it only by shutting it.
LEMMA ClientCloseKeeps == ASSUME ClientInv, NEW t \in Tasks, Close(t) PROVE ClientInv'
<1> DEFINE back == IF t = Loop THEN "recv" ELSE IF t = Monitor THEN "sweep" ELSE "done"
           inFree == InputFree(obj[t])
           outFree == OutputFree(obj[t])
           s == obj[t]
<1>0. /\ Sessions \subseteq Tasks /\ Loop \in Tasks /\ Loop \notin Sessions /\ Loop # Monitor
      /\ Monitor \notin Sessions /\ DOMAIN pc = Tasks /\ obj \in [Tasks -> 0..MaxSessions]
      /\ back \in {"recv", "first", "sweep", "done"} /\ (t = Monitor <=> back = "sweep")
      /\ (t \in Sessions => back = "done")
  BY TaskFacts DEF ClientInv, MgrInv, TasksSound, ManagerSound, ManagerOK
<1>1. SessionClose(t, back, inFree, outFree) /\ late' = late
  BY DEF Close, own
<1>2. MgrInv'
  <2> HIDE DEF back, inFree, outFree
  <2> QED
    BY <1>0, <1>1, CloseKeeps DEF ClientInv
<1>3. /\ UNCHANGED <<count, xudp, outp>> /\ pc[t] \in {"close"} \cup Stopping
      /\ \A u \in Tasks \ {t} : pc'[u] = pc[u] /\ obj'[u] = obj[u]
      /\ pc'[t] \in {back} \cup Stopping /\ (t \in Sessions => obj'[t] = obj[t])
  <2> HIDE DEF back, inFree, outFree
  <2>1. ASSUME Return(t, back)
        PROVE  /\ \A u \in Tasks \ {t} : pc'[u] = pc[u] /\ obj'[u] = obj[u]
               /\ pc'[t] = back /\ (t \in Sessions => obj'[t] = obj[t])
    BY <1>0, <2>1 DEF Return, Goto
  <2>2. CASE CloseSwap(t, back)
    BY <1>0, <2>1, <2>2 DEF CloseSwap, Goto, Stopping, mgr, io
  <2>3. CASE CloseInput(t, inFree) \/ CloseOutput(t, outFree)
    BY <1>0, <2>3 DEF CloseInput, CloseOutput, Goto, Stopping, mgr, ses
  <2>4. CASE CloseRemove(t, back)
    BY <2>1, <2>4 DEF CloseRemove, Stopping, ses, io
  <2> QED
    BY <1>1, <2>2, <2>3, <2>4 DEF SessionClose
<1>4. BindSound'
  <2>1. \A u \in Sessions : pc'[u] # "none" => u \in 1..count
    BY <1>0, <1>3 DEF ClientInv, BindSound, Stopping
  <2>2. \A u \in Sessions : pc'[u] \notin {"none", "bindIn", "bindOut"} => outp[u] = u
    BY <1>0, <1>3 DEF ClientInv, BindSound, Stopping
  <2>3. pc'[Loop] = "deliver" => obj'[Loop] \in 1..count
    BY <1>0, <1>3 DEF ClientInv, BindSound, Stopping
  <2> QED
    BY <1>3, <2>1, <2>2, <2>3 DEF ClientInv, BindSound
<1>5. DownCovered'
  <2> HIDE DEF back, inFree, outFree
  <2>1. CASE CloseSwap(t, back) /\ s \notin flag
    <3>1. flag' = flag \cup {s} /\ obj' = obj /\ pc' = [pc EXCEPT ![t] = "stopIn"]
          /\ UNCHANGED <<outp, shut>>
      BY <2>1 DEF CloseSwap, Goto, ClientInv, BindSound, io
    <3>2. ~OutputPassed(s)'
      BY <1>0, <3>1 DEF OutputPassed
    <3>3. \A u : u # s /\ OutputPassed(u)' => OutputPassed(u)
      BY <1>0, <2>1, <3>1 DEF OutputPassed, CloseSwap
    <3> QED
      BY <1>1, <3>1, <3>2, <3>3 DEF ClientInv, DownCovered
  <2>2. CASE (CloseSwap(t, back) /\ s \in flag) \/ CloseRemove(t, back)
    <3>1. flag' = flag /\ pc[t] \in {"close", "remove"} /\ UNCHANGED <<outp, shut>>
      BY <2>2 DEF CloseSwap, CloseRemove, ses, io
    <3>2. \A u : OutputPassed(u)' => OutputPassed(u)
      BY <1>3, <3>1, PassedBefore
    <3> QED
      BY <1>1, <3>1, <3>2 DEF ClientInv, DownCovered
  <2>3. CASE CloseInput(t, inFree)
    <3>1. /\ flag' = flag /\ UNCHANGED <<outp, shut, obj>>
          /\ pc' = [pc EXCEPT ![t] = "stopOut"]
      BY <2>3 DEF CloseInput, Goto, ses
    <3>2. \A u : OutputPassed(u)' => OutputPassed(u)
      BY <1>0, <3>1, PassedBefore
    <3> QED
      BY <1>1, <3>1, <3>2 DEF ClientInv, DownCovered
  <2>4. CASE CloseOutput(t, outFree)
    <3>1. /\ flag' = flag /\ UNCHANGED <<outp, obj>>
          /\ pc' = [pc EXCEPT ![t] = "remove"] /\ shut' = shut \cup ({outp[s]} \ {0})
      BY <2>4 DEF CloseOutput, Goto, ses
    <3>2. \A u : u # s /\ OutputPassed(u)' => OutputPassed(u)
      BY <1>0, <3>1 DEF OutputPassed
    <3>3. \A u \in Sessions : outp[u] \in {0, u}
      BY DEF ClientInv, BindSound
    <3>4. s \in Sessions /\ outp[s] # 0 => s \in shut'
      BY <3>1, <3>3
    <3> QED
      BY <1>1, <3>1, <3>2, <3>4 DEF ClientInv, DownCovered
  <2> QED
    BY <1>1, <2>1, <2>2, <2>3, <2>4 DEF SessionClose
<1> QED
  BY <1>2, <1>4, <1>5 DEF ClientInv

\* The monitor, the dialling task and stuttering touch no output.
LEMMA WatchingKeeps ==
    ASSUME ClientInv, Watching \/ DialClose \/ DialCut \/ UNCHANGED vars
    PROVE  ClientInv'
<1>0. /\ Sessions \subseteq Tasks /\ Loop \in Tasks /\ Loop # Monitor /\ Monitor \in Tasks
      /\ Monitor \notin Sessions /\ DOMAIN pc = Tasks /\ obj \in [Tasks -> 0..MaxSessions]
  BY TaskFacts DEF ClientInv, MgrInv, TasksSound, ManagerSound, ManagerOK
<1>1. CASE Watching
  <2>1. Watch /\ late' = late
    BY <1>1 DEF Watching, own
  <2>2. /\ UNCHANGED <<count, ses, io>> /\ pc[Monitor] \notin Stopping
        /\ \A u \in Tasks \ {Monitor} : pc'[u] = pc[u] /\ obj'[u] = obj[u]
    <3>1. CASE Snapshot
      BY <1>0, <3>1 DEF Snapshot, Goto, Stopping, mgr
    <3>2. CASE Tick
      BY <1>0, <3>2 DEF Tick, Goto, Stopping, mgr
    <3>3. CASE IdleClose \/ MonitorDone
      BY <1>0, <3>3 DEF IdleClose, MonitorDone, Goto, Stopping, mgr
    <3>4. CASE Sweep
      BY <1>0, <3>4 DEF Sweep, Goto, Stopping
    <3> QED
      BY <2>1, <3>1, <3>2, <3>3, <3>4 DEF Watch
  <2>3. MgrInv'
    BY <2>1, WatchKeeps DEF ClientInv
  <2>4. BindSound'
    BY <1>0, <2>2 DEF ClientInv, BindSound, ses, io
  <2>5. \A u : OutputPassed(u)' => OutputPassed(u)
    BY <1>0, <2>2, PassedBefore DEF Stopping, ses
  <2> QED
    BY <2>1, <2>2, <2>3, <2>4, <2>5 DEF ClientInv, DownCovered, io
<1>2. CASE DialClose \/ DialCut \/ UNCHANGED vars
  <2>1. UNCHANGED <<mgr, todo, snap, ses, io, pc, obj, late>> /\ (closed' = closed \/ closed' = TRUE)
    BY <1>2 DEF DialClose, DialCut, vars, base, mon, own
  <2>2. MgrInv'
    BY <2>1 DEF ClientInv, MgrInv, ManagerSound, ManagerOK, SizeIsTable, OpenIsListed,
                TasksSound, SweepSound, mgr, ses, io
  <2>3. BindSound'
    BY <2>1 DEF ClientInv, BindSound, mgr, ses, io
  <2>4. DownCovered'
    BY <2>1 DEF ClientInv, DownCovered, OutputPassed, ses, io
  <2> QED
    BY <2>2, <2>3, <2>4 DEF ClientInv
<1> QED
  BY <1>1, <1>2

\* ClientInv holds in every state of the client worker.
LEMMA ClientInvariant == Spec => []ClientInv
<1>1. ClientInv /\ [Next]_vars => ClientInv'
  <2> SUFFICES ASSUME ClientInv, [Next]_vars PROVE ClientInv'
    OBVIOUS
  <2>1. CASE Allocate
    BY <2>1, DispatchKeeps
  <2>2. ASSUME NEW s \in Sessions, FetchInput(s) \/ ReadChunk(s) \/ ReadEof(s) \/ WriteFrame(s) \/ WriteEnd(s)
        PROVE  ClientInv'
    BY <2>2, DispatchKeeps, InputKeeps DEF FetchInput
  <2>3. CASE \/ FetchOutput \/ RecvError \/ Reply
             \/ \E s \in Sessions, kind \in {"Keep", "End"} : RecvFrame(s, kind)
    BY <2>3, OutputKeeps
  <2>4. ASSUME NEW t \in Tasks, Close(t) PROVE ClientInv'
    BY <2>4, ClientCloseKeeps
  <2>5. CASE Watching \/ DialClose \/ DialCut \/ UNCHANGED vars
    BY <2>5, WatchingKeeps
  <2> QED
    BY <2>1, <2>2, <2>3, <2>4, <2>5 DEF Next
<1> QED
  BY <1>1, ClientInit, PTL DEF Spec

\* Whoever dispatches, closes, sweeps or clears, the table of the client is well
\* formed, size is the number of its entries, and every open session is in it.
THEOREM ClientManager == Spec => []ManagerSound
<1>1. ClientInv => ManagerSound
  BY DEF ClientInv, MgrInv
<1> QED
  BY <1>1, ClientInvariant, PTL

\* When a connection is over, and whoever closes its session is past the output,
\* the app sees the end of the downlink, unless it was bound too late.
THEOREM DownlinkEnds == Spec => []DownlinkShut
<1>1. ClientInv => DownlinkShut
  BY MaxSessionsAssumption DEF ClientInv, BindSound, DownCovered, DownlinkShut, Sessions
<1> QED
  BY <1>1, ClientInvariant, PTL
=============================================================================
