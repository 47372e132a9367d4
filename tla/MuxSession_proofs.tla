------------------------- MODULE MuxSession_proofs -------------------------
(***************************************************************************)
(* What the close of a session and the monitor do to the session table,    *)
(* for any number of sessions.  MuxClient_proofs and MuxServer_proofs add  *)
(* the steps of their own worker.                                          *)
(***************************************************************************)
EXTENDS MuxSession, FiniteSetTheorems, TLAPS

Stopping == {"stopIn", "stopOut", "remove"}

\* What a task in Session::close works on: a session the manager has handed out,
\* and past the swap one that is flagged.
TasksSound ==
    /\ DOMAIN pc = Tasks
    /\ \A s \in Sessions : obj[s] = s
    /\ \A t \in Tasks : pc[t] = "close" => obj[t] \in 1..count
    /\ \A t \in Tasks : pc[t] \in Stopping => obj[t] \in flag

\* While SessionManager::close sweeps, nothing enters or leaves the table, and
\* what is still open is what it has still to close.
SweepSound ==
    /\ ~mgrClosed => todo = {}
    /\ pc[Monitor] \in {"sweep", "close"} \cup Stopping =>
          /\ mgrClosed
          /\ \A s \in live \ flag : s \in todo \/ (pc[Monitor] = "close" /\ obj[Monitor] = s)

\* The inductive invariant behind ManagerSound.
MgrInv == ManagerSound /\ TasksSound /\ SweepSound

\* Ids, tasks and the two loops are different things.
LEMMA TaskFacts ==
    /\ Sessions \subseteq Tasks /\ Loop \in Tasks /\ Monitor \in Tasks
    /\ Loop \notin Sessions /\ Monitor \notin Sessions /\ Loop # Monitor
    /\ \A n \in 0..MaxSessions : 1..n \subseteq Sessions
    /\ Tasks \subseteq Int
BY MaxSessionsAssumption DEF Tasks, Sessions, Loop, Monitor

\* The table is a finite set, and its size moves by one with an entry.
LEMMA TableFacts ==
    ASSUME ManagerOK
    PROVE  /\ IsFiniteSet(live) /\ Cardinality(live) \in Nat
           /\ \A s : s \notin live => Cardinality(live \cup {s}) = Cardinality(live) + 1
           /\ \A s \in live : /\ Cardinality(live \ {s}) = Cardinality(live) - 1
                             /\ Cardinality(live \ {s}) \in Nat
           /\ Cardinality({}) = 0
<1>1. IsFiniteSet(1..count)
  BY FS_Interval, MaxSessionsAssumption DEF ManagerOK
<1>2. IsFiniteSet(live)
  BY <1>1, FS_Subset DEF ManagerOK
<1> QED
  BY <1>2, FS_CardinalityType, FS_AddElement, FS_RemoveElement, FS_EmptySet

\* The table is empty when the worker starts.
LEMMA MgrInit == SessionInit => MgrInv
<1> SUFFICES ASSUME SessionInit PROVE MgrInv
  OBVIOUS
<1>1. ManagerOK
  <2>1. obj \in [Tasks -> 0..MaxSessions]
    BY MaxSessionsAssumption, TaskFacts DEF SessionInit, Sessions
  <2>2. snap \in [size : Nat, count : 0..MaxSessions]
    BY MaxSessionsAssumption DEF SessionInit, NoSnap
  <2>3. inp \in [Sessions -> 0..MaxSessions] /\ outp \in [Sessions -> 0..MaxSessions]
    BY MaxSessionsAssumption DEF SessionInit
  <2>4. mgrClosed \in BOOLEAN /\ closed \in BOOLEAN
    BY DEF SessionInit
  <2> QED
    BY <2>1, <2>2, <2>3, <2>4, MaxSessionsAssumption DEF SessionInit, ManagerOK
<1>2. SizeIsTable /\ OpenIsListed
  BY FS_EmptySet DEF SessionInit, SizeIsTable, OpenIsListed
<1>3. TasksSound
  <2>1. DOMAIN pc = Tasks
    BY DEF SessionInit
  <2>2. \A t \in Tasks : pc[t] \in {"recv", "snap", "none"}
    BY Zenon DEF SessionInit
  <2>3. \A s \in Sessions : obj[s] = s
    BY TaskFacts DEF SessionInit
  <2> QED
    BY <2>1, <2>2, <2>3 DEF TasksSound, Stopping
<1>4. SweepSound
  BY TaskFacts DEF SessionInit, SweepSound, Stopping
<1> QED
  BY <1>1, <1>2, <1>3, <1>4 DEF MgrInv, ManagerSound

\* A step that leaves the table alone and starts no close but of a known session.
LEMMA OtherKeeps ==
    ASSUME MgrInv, UNCHANGED <<mgr, todo, snap, flag>>,
           closed' \in BOOLEAN, xudp' \subseteq 1..count,
           inp' \in [Sessions -> 0..MaxSessions], outp' \in [Sessions -> 0..MaxSessions],
           UNCHANGED <<stopped, shut>>,
           DOMAIN pc' = Tasks, obj' \in [Tasks -> 0..MaxSessions],
           pc'[Monitor] = pc[Monitor], obj'[Monitor] = obj[Monitor],
           \A s \in Sessions : obj'[s] = s,
           \A t \in Tasks : pc'[t] = "close" => obj'[t] \in 1..count,
           \A t \in Tasks : pc'[t] \in Stopping => pc[t] = pc'[t] /\ obj'[t] = obj[t]
    PROVE  MgrInv'
<1>1. ManagerSound'
  BY DEF MgrInv, ManagerSound, ManagerOK, SizeIsTable, OpenIsListed, mgr
<1>2. TasksSound'
  BY DEF MgrInv, TasksSound, mgr
<1>3. SweepSound'
  BY DEF MgrInv, SweepSound, mgr
<1> QED
  BY <1>1, <1>2, <1>3 DEF MgrInv

\* One task other than the monitor moves on, and may turn to another session.
LEMMA TaskMoves ==
    ASSUME MgrInv, NEW t \in Tasks \ {Monitor}, NEW l, NEW o \in 0..MaxSessions,
           pc' = [pc EXCEPT ![t] = l], obj' = [obj EXCEPT ![t] = o],
           UNCHANGED <<mgr, todo, snap, flag, stopped, shut>>,
           closed' \in BOOLEAN, xudp' \subseteq 1..count,
           inp' \in [Sessions -> 0..MaxSessions], outp' \in [Sessions -> 0..MaxSessions],
           t \in Sessions => o = t, l \notin Stopping, l = "close" => o \in 1..count
    PROVE  MgrInv'
<1>1. /\ DOMAIN pc = Tasks /\ DOMAIN pc' = Tasks /\ obj \in [Tasks -> 0..MaxSessions]
      /\ obj' \in [Tasks -> 0..MaxSessions]
      /\ Monitor \in Tasks /\ Sessions \subseteq Tasks /\ t \in Tasks
  BY TaskFacts DEF MgrInv, TasksSound, ManagerSound, ManagerOK
<1>2. /\ pc'[t] = l /\ obj'[t] = o
      /\ \A u \in Tasks \ {t} : pc'[u] = pc[u] /\ obj'[u] = obj[u]
  BY <1>1
<1>3. \A s \in Sessions : obj'[s] = s
  BY <1>1, <1>2 DEF MgrInv, TasksSound
<1>4. \A u \in Tasks : pc'[u] = "close" => obj'[u] \in 1..count
  BY <1>2 DEF MgrInv, TasksSound
<1>5. \A u \in Tasks : pc'[u] \in Stopping => pc[u] = pc'[u] /\ obj'[u] = obj[u]
  BY <1>2
<1> QED
  BY <1>1, <1>2, <1>3, <1>4, <1>5, OtherKeeps

\* allocate and add enter a session the manager has not had before.
LEMMA InsertKeeps ==
    ASSUME MgrInv, count + 1 \in Sessions, Insert(count + 1), UNCHANGED <<mon, ses, io, obj>>,
           DOMAIN pc' = Tasks, pc'[Monitor] = pc[Monitor],
           \A t \in Tasks : pc'[t] \in {"close"} \cup Stopping => pc[t] = pc'[t]
    PROVE  MgrInv'
<1>1. count' = count + 1 /\ live' = live \cup {count + 1} /\ size' = size + 1
      /\ ~mgrClosed /\ mgrClosed' = mgrClosed
  BY DEF Insert, MgrInv, ManagerSound, ManagerOK
<1>2. /\ count \in 0..MaxSessions /\ count' \in 0..MaxSessions
      /\ 1..count' = 1..count \cup {count + 1} /\ count + 1 \notin live
  <2>1. count \in Nat /\ live \subseteq 1..count /\ count \in 0..MaxSessions
    BY MaxSessionsAssumption DEF MgrInv, ManagerSound, ManagerOK
  <2>2. count + 1 \in 1..MaxSessions
    BY DEF Sessions
  <2>3. 1..(count + 1) = 1..count \cup {count + 1} /\ count + 1 \notin 1..count
    BY <2>1
  <2> QED
    BY <1>1, <2>1, <2>2, <2>3, MaxSessionsAssumption
<1>3. ManagerOK'
  <2>1. UNCHANGED <<closed, todo, snap, flag, xudp, inp, outp, stopped, shut, obj>>
    BY DEF mon, ses, io
  <2>2. live' \subseteq 1..count' /\ size' \in Nat /\ todo' \subseteq live'
    BY <1>1, <1>2, <2>1 DEF MgrInv, ManagerSound, ManagerOK
  <2>3. flag' \subseteq 1..count' /\ xudp' \subseteq 1..count'
    BY <1>2, <2>1 DEF MgrInv, ManagerSound, ManagerOK
  <2> QED
    BY <1>1, <1>2, <2>1, <2>2, <2>3 DEF MgrInv, ManagerSound, ManagerOK
<1>4. SizeIsTable'
  BY <1>1, <1>2, TableFacts DEF MgrInv, ManagerSound, SizeIsTable
<1>5. OpenIsListed'
  BY <1>1, <1>2 DEF MgrInv, ManagerSound, OpenIsListed, ses
<1>6. TasksSound'
  BY <1>1, <1>2 DEF MgrInv, TasksSound, ses
<1>7. SweepSound'
  BY <1>1 DEF MgrInv, SweepSound, mon
<1> QED
  BY <1>3, <1>4, <1>5, <1>6, <1>7 DEF MgrInv, ManagerSound

\* Session::close, in any task and against any other: the swap flags a session
\* that was handed out, and the callback removes an entry only of an open table.
LEMMA CloseKeeps ==
    ASSUME MgrInv, NEW t \in Tasks, NEW back \in {"recv", "first", "sweep", "done"},
           NEW inFree, NEW outFree,
           t = Monitor <=> back = "sweep", t \in Sessions => back = "done",
           SessionClose(t, back, inFree, outFree)
    PROVE  MgrInv'
<1> DEFINE s == obj[t]
<1>0. /\ ManagerOK /\ SizeIsTable /\ OpenIsListed /\ TasksSound /\ SweepSound
      /\ DOMAIN pc = Tasks /\ obj \in [Tasks -> 0..MaxSessions]
  BY DEF MgrInv, ManagerSound, ManagerOK, TasksSound
<1>1. ASSUME Return(t, back) PROVE
         /\ obj' \in [Tasks -> 0..MaxSessions] /\ DOMAIN pc' = Tasks /\ pc'[t] = back
         /\ \A u \in Sessions : obj'[u] = u
         /\ \A u \in Tasks \ {t} : pc'[u] = pc[u] /\ obj'[u] = obj[u]
  <2>1. obj' = [obj EXCEPT ![t] = IF back \in {"recv", "sweep"} THEN 0 ELSE s]
    BY <1>1 DEF Return
  <2>2. pc' = [pc EXCEPT ![t] = back]
    BY <1>1 DEF Return, Goto
  <2>3. obj' \in [Tasks -> 0..MaxSessions]
    BY <1>0, <2>1, MaxSessionsAssumption
  <2>4. \A u \in Sessions : obj'[u] = u
    BY <1>0, <2>1, TaskFacts DEF TasksSound
  <2> QED
    BY <1>0, <2>1, <2>2, <2>3, <2>4
<1>2. CASE CloseSwap(t, back)
  <2>1. s \in 1..count /\ flag' = flag \cup {s} /\ UNCHANGED <<mgr, mon, xudp, io>>
    BY <1>0, <1>2 DEF CloseSwap, TasksSound
  <2>2. /\ obj' \in [Tasks -> 0..MaxSessions] /\ DOMAIN pc' = Tasks
        /\ \A u \in Sessions : obj'[u] = u
        /\ pc'[t] \in {back, "remove", "stopIn"} /\ (pc'[t] # back => obj'[t] = s)
        /\ \A u \in Tasks \ {t} : pc'[u] = pc[u] /\ obj'[u] = obj[u]
    <3>1. CASE s \in flag
      BY <1>1, <1>2, <3>1 DEF CloseSwap
    <3>2. CASE s \notin flag
      <4>1. pc' = [pc EXCEPT ![t] = IF s \in xudp THEN "remove" ELSE "stopIn"] /\ obj' = obj
        BY <1>2, <3>2 DEF CloseSwap, Goto
      <4> QED
        BY <1>0, <4>1 DEF TasksSound
    <3> QED
      BY <3>1, <3>2
  <2>3. ManagerSound'
    BY <1>0, <2>1, <2>2 DEF ManagerSound, ManagerOK, SizeIsTable, OpenIsListed, mgr, mon, io
  <2>4. TasksSound'
    BY <1>0, <2>1, <2>2 DEF TasksSound, Stopping, mgr
  <2>5. SweepSound'
    BY <1>0, <1>2, <2>1, <2>2, TaskFacts DEF SweepSound, Stopping, mgr, mon, CloseSwap
  <2> QED
    BY <2>3, <2>4, <2>5 DEF MgrInv
<1>3. CASE CloseInput(t, inFree) \/ CloseOutput(t, outFree)
  <2>1. /\ UNCHANGED <<mgr, mon, ses, inp, outp, obj>>
        /\ pc[t] \in Stopping /\ \E l \in {"stopOut", "remove"} : pc' = [pc EXCEPT ![t] = l]
    BY <1>3 DEF CloseInput, CloseOutput, Goto, Stopping
  <2>2. s \in Sessions
    BY <1>0, <2>1, TaskFacts DEF TasksSound, ManagerOK
  <2>3. stopped' \subseteq Sessions /\ shut' \subseteq Sessions
    <3>1. {inp[s]} \ {0} \subseteq Sessions /\ {outp[s]} \ {0} \subseteq Sessions
      BY <1>0, <2>2, MaxSessionsAssumption DEF ManagerOK, Sessions
    <3>2. stopped \subseteq Sessions /\ shut \subseteq Sessions
      BY <1>0 DEF ManagerOK
    <3>3. stopped' \subseteq stopped \cup ({inp[s]} \ {0}) /\ shut' \subseteq shut \cup ({outp[s]} \ {0})
      BY <1>3 DEF CloseInput, CloseOutput
    <3> QED
      BY <3>1, <3>2, <3>3
  <2>4. ManagerSound'
    BY <1>0, <2>1, <2>3 DEF ManagerSound, ManagerOK, SizeIsTable, OpenIsListed, mgr, mon, ses
  <2>5. TasksSound'
    BY <1>0, <2>1 DEF TasksSound, Stopping, mgr, ses
  <2>6. SweepSound'
    BY <1>0, <2>1, TaskFacts DEF SweepSound, Stopping, mgr, mon, ses
  <2> QED
    BY <2>4, <2>5, <2>6 DEF MgrInv
<1>4. CASE CloseRemove(t, back)
  <2>1. s \in flag /\ pc[t] = "remove" /\ UNCHANGED <<count, mgrClosed, mon, ses, io>>
    BY <1>0, <1>4 DEF CloseRemove, TasksSound, Stopping
  <2>2. /\ obj' \in [Tasks -> 0..MaxSessions] /\ DOMAIN pc' = Tasks /\ pc'[t] = back
        /\ \A u \in Sessions : obj'[u] = u
        /\ \A u \in Tasks \ {t} : pc'[u] = pc[u] /\ obj'[u] = obj[u]
    BY <1>1, <1>4 DEF CloseRemove
  <2>3. TasksSound'
    BY <1>0, <2>1, <2>2 DEF TasksSound, Stopping, ses
  <2>4. CASE Known(s)
    <3>1. live' = live \ {s} /\ size' = size - 1 /\ s \in live /\ ~mgrClosed
      BY <1>4, <2>4 DEF CloseRemove, Known
    <3>2. todo = {} /\ pc[Monitor] \notin {"sweep", "close"} \cup Stopping
      BY <1>0, <3>1 DEF SweepSound
    <3>3. size' = Cardinality(live') /\ size' \in Nat
      BY <1>0, <3>1, TableFacts DEF SizeIsTable
    <3>4. ManagerOK'
      <4>1. UNCHANGED <<count, mgrClosed, closed, todo, snap, flag, xudp, inp, outp, stopped, shut>>
        BY <2>1 DEF mon, ses, io
      <4>2. live' \subseteq 1..count /\ todo' \subseteq live'
        BY <1>0, <3>1, <3>2, <4>1 DEF ManagerOK
      <4> QED
        BY <1>0, <2>2, <3>3, <4>1, <4>2 DEF ManagerOK
    <3>5. ManagerSound'
      BY <1>0, <2>1, <3>1, <3>3, <3>4 DEF ManagerSound, SizeIsTable, OpenIsListed, ses
    <3>6. pc'[Monitor] = pc[Monitor] /\ todo' = todo
      BY <2>1, <2>2, <3>2, TaskFacts DEF Stopping, mon
    <3>7. SweepSound'
      BY <2>1, <3>2, <3>6 DEF SweepSound
    <3> QED
      BY <2>3, <3>5, <3>7 DEF MgrInv
  <2>5. CASE ~Known(s)
    <3>1. UNCHANGED <<live, size>>
      BY <1>4, <2>5 DEF CloseRemove
    <3>2. ManagerSound'
      BY <1>0, <2>1, <2>2, <3>1
         DEF ManagerSound, ManagerOK, SizeIsTable, OpenIsListed, mon, ses, io
    <3>3. SweepSound'
      BY <1>0, <2>1, <2>2, <3>1, TaskFacts DEF SweepSound, mon, ses, Stopping
    <3> QED
      BY <2>3, <3>2, <3>3 DEF MgrInv
  <2> QED
    BY <2>4, <2>5
<1> QED
  BY <1>2, <1>3, <1>4 DEF SessionClose

\* A step that neither flags a session nor moves a task past its output.
LEMMA PassedBefore ==
    ASSUME flag' = flag,
           \A t \in Tasks : pc[t] \in {"stopIn", "stopOut"} =>
              pc'[t] \in {"stopIn", "stopOut"} /\ obj'[t] = obj[t]
    PROVE  \A s : OutputPassed(s)' => OutputPassed(s)
BY DEF OutputPassed

\* The monitor: an idle close only of an empty table, and a clear only when all
\* it had collected is closed.
LEMMA WatchKeeps == ASSUME MgrInv, Watch PROVE MgrInv'
<1>0. /\ ManagerOK /\ SizeIsTable /\ OpenIsListed /\ TasksSound /\ SweepSound
      /\ DOMAIN pc = Tasks /\ Monitor \in Tasks /\ Monitor \notin Sessions
  BY TaskFacts DEF MgrInv, ManagerSound, TasksSound
<1>1. CASE Snapshot
  <2>1. UNCHANGED <<mgr, closed, todo, ses, io, obj>>
        /\ \E l \in {"snap2", "wait"} : pc' = [pc EXCEPT ![Monitor] = l]
    BY <1>1 DEF Snapshot, Goto
  <2>2. snap' \in [size : Nat, count : 0..MaxSessions]
    BY <1>0, <1>1 DEF Snapshot, ManagerOK
  <2>3. ManagerSound'
    BY <1>0, <2>1, <2>2 DEF ManagerSound, ManagerOK, SizeIsTable, OpenIsListed, mgr, ses, io
  <2>4. TasksSound'
    BY <1>0, <2>1 DEF TasksSound, Stopping, mgr, ses
  <2>5. SweepSound'
    BY <1>0, <2>1 DEF SweepSound, Stopping, mgr
  <2> QED
    BY <2>3, <2>4, <2>5 DEF MgrInv
<1>2. CASE Tick
  <2>1. /\ UNCHANGED <<count, live, closed, todo, ses, io, obj>> /\ snap' = NoSnap
        /\ \E l \in {"idle", "snap"} : pc' = [pc EXCEPT ![Monitor] = l]
    BY <1>2 DEF Tick, Goto, IsIdle, mgr
  <2>2. size' = size /\ mgrClosed' \in BOOLEAN /\ (mgrClosed => mgrClosed')
    BY <1>0, <1>2, TableFacts DEF Tick, IsIdle, mgr, ManagerOK, SizeIsTable
  <2>3. NoSnap \in [size : Nat, count : 0..MaxSessions]
    BY MaxSessionsAssumption DEF NoSnap
  <2>4. ManagerSound'
    BY <1>0, <2>1, <2>2, <2>3 DEF ManagerSound, ManagerOK, SizeIsTable, OpenIsListed, ses, io
  <2>5. TasksSound'
    BY <1>0, <2>1 DEF TasksSound, Stopping, ses
  <2>6. SweepSound'
    BY <1>0, <2>1, <2>2 DEF SweepSound, Stopping
  <2> QED
    BY <2>4, <2>5, <2>6 DEF MgrInv
<1>3. CASE IdleClose
  <2>1. UNCHANGED <<mgr, todo, snap, ses, io, obj>> /\ closed' = TRUE
        /\ pc' = [pc EXCEPT ![Monitor] = "snap"]
    BY <1>3 DEF IdleClose, Goto
  <2>2. ManagerSound'
    BY <1>0, <2>1 DEF ManagerSound, ManagerOK, SizeIsTable, OpenIsListed, mgr, ses, io
  <2>3. TasksSound'
    BY <1>0, <2>1 DEF TasksSound, Stopping, mgr, ses
  <2>4. SweepSound'
    BY <1>0, <2>1 DEF SweepSound, Stopping, mgr
  <2> QED
    BY <2>2, <2>3, <2>4 DEF MgrInv
<1>4. CASE MonitorDone
  <2>1. /\ UNCHANGED <<count, live, size, closed, ses, io, obj>> /\ snap' = NoSnap
        /\ mgrClosed' = TRUE /\ todo' = (IF mgrClosed THEN {} ELSE live)
        /\ pc' = [pc EXCEPT ![Monitor] = IF mgrClosed THEN "done" ELSE "sweep"]
    BY <1>4 DEF MonitorDone, Goto
  <2>2. NoSnap \in [size : Nat, count : 0..MaxSessions]
    BY MaxSessionsAssumption DEF NoSnap
  <2>3. ManagerSound'
    BY <1>0, <2>1, <2>2 DEF ManagerSound, ManagerOK, SizeIsTable, OpenIsListed, ses, io
  <2>4. TasksSound'
    BY <1>0, <2>1 DEF TasksSound, Stopping, ses
  <2>5. SweepSound'
    BY <1>0, <2>1 DEF SweepSound, Stopping
  <2> QED
    BY <2>3, <2>4, <2>5 DEF MgrInv
<1>5. CASE Sweep
  <2>1. UNCHANGED <<count, mgrClosed, closed, snap, ses, io>> /\ pc[Monitor] = "sweep"
    BY <1>5 DEF Sweep
  <2>2. mgrClosed /\ \A s \in live \ flag : s \in todo
    BY <1>0, <2>1 DEF SweepSound
  <2>3. ASSUME NEW s \in todo, obj' = [obj EXCEPT ![Monitor] = s], todo' = todo \ {s},
               Goto(Monitor, "close"), UNCHANGED <<live, size>>
        PROVE  MgrInv'
    <3>1. s \in 1..count /\ s \in 0..MaxSessions
      BY <1>0, MaxSessionsAssumption DEF ManagerOK
    <3>2. ManagerSound'
      BY <1>0, <2>1, <2>3, <3>1 DEF ManagerSound, ManagerOK, SizeIsTable, OpenIsListed, ses, io
    <3>3. TasksSound'
      BY <1>0, <2>1, <2>3, <3>1 DEF TasksSound, Stopping, Goto, ses, ManagerOK
    <3>4. SweepSound'
      BY <1>0, <2>1, <2>2, <2>3 DEF SweepSound, Stopping, Goto, ses, ManagerOK
    <3> QED
      BY <3>2, <3>3, <3>4 DEF MgrInv
  <2>4. ASSUME todo = {}, live' = {}, size' = 0, Goto(Monitor, "done"), UNCHANGED <<obj, todo>>
        PROVE  MgrInv'
    <3>1. \A s \in 1..count : s \in flag
      BY <1>0, <2>2, <2>4 DEF OpenIsListed
    <3>2. ManagerSound'
      BY <1>0, <2>1, <2>4, <3>1, TableFacts
         DEF ManagerSound, ManagerOK, SizeIsTable, OpenIsListed, ses, io
    <3>3. TasksSound'
      BY <1>0, <2>1, <2>4 DEF TasksSound, Stopping, Goto, ses
    <3>4. SweepSound'
      BY <1>0, <2>4 DEF SweepSound, Stopping, Goto
    <3> QED
      BY <3>2, <3>3, <3>4 DEF MgrInv
  <2> QED
    BY <1>5, <2>3, <2>4 DEF Sweep
<1> QED
  BY <1>1, <1>2, <1>3, <1>4, <1>5 DEF Watch
=============================================================================
