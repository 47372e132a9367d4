-------------------------- MODULE MuxServer_proofs --------------------------
(***************************************************************************)
(* The session table of the server worker and the end of the upstream, for *)
(* any number of sessions.                                                 *)
(***************************************************************************)
EXTENDS MuxServer, MuxSession_proofs

Rebinding == {"first", "takeIn", "takeOut", "addR"}

\* What the frame loop works on: New frames use the next id, an entry is an XUDP
\* session, and a rebind keeps the session it takes the link from.
LoopSound ==
    /\ entry \in Initializing..count /\ (entry \in 1..count => entry \in xudp)
    /\ \A s \in Sessions : pc[s] # "none" => s \in 1..count
    /\ pc[Loop] = "bindX" => count \in Sessions /\ pc[count] = "none"
    /\ pc[Loop] \in {"dispatch", "dispatchX", "add", "addX"} => Fresh \in Sessions
    /\ pc[Loop] = "add" => outp[Fresh] = Fresh
    /\ rebind => pc[Loop] \in {"close", "bindX"} \cup Stopping \cup Rebinding
    /\ pc[Loop] \in Rebinding => rebind
    /\ rebind => obj[Loop] \in xudp /\ (pc[Loop] # "bindX" => Fresh \in Sessions)

\* A session the worker has had that is no XUDP session, nor about to be one.
Normal(s) == s \in 1..count \ xudp /\ ~(pc[Loop] = "bindX" /\ s = count)

\* A normal session keeps its link, and once the closing task has the output
\* behind it the link is shut, unless the monitor was aborted on it.
UpCovered ==
    /\ pc[Monitor] # "dead" => lost = {}
    /\ \A s \in 1..count : Normal(s) => outp[s] = s /\ (OutputPassed(s) => s \in shut \cup lost)

\* The inductive invariant of the server.
ServerInv == MgrInv /\ LoopSound /\ UpCovered

\* What all proofs below use of the types.
LEMMA ServerFacts ==
    ASSUME ServerInv
    PROVE  /\ DOMAIN pc = Tasks /\ obj \in [Tasks -> 0..MaxSessions]
           /\ count \in 0..MaxSessions /\ 1..count \subseteq Sessions
           /\ live \subseteq 1..count /\ flag \subseteq 1..count /\ xudp \subseteq 1..count
           /\ closed \in BOOLEAN
           /\ inp \in [Sessions -> 0..MaxSessions] /\ outp \in [Sessions -> 0..MaxSessions]
           /\ Sessions \subseteq Tasks /\ Loop \in Tasks /\ Monitor \in Tasks
           /\ Loop \notin Sessions /\ Monitor \notin Sessions /\ Loop # Monitor
           /\ Sessions \subseteq 0..MaxSessions /\ 0 \in 0..MaxSessions /\ count \in Nat
BY TaskFacts, MaxSessionsAssumption
   DEF ServerInv, MgrInv, ManagerSound, ManagerOK, TasksSound, Sessions

\* The carrier starts without sessions.
LEMMA ServerInit == Init => ServerInv
<1> SUFFICES ASSUME Init PROVE ServerInv
  OBVIOUS
<1>1. MgrInv
  BY MgrInit DEF Init
<1>2. /\ \A s \in Sessions : pc[s] = "none"
      /\ pc[Loop] = "recv" /\ count = 0 /\ entry = 0 /\ ~rebind /\ lost = {}
  BY TaskFacts DEF Init, SessionInit, NoEntry
<1>3. LoopSound
  BY <1>2 DEF LoopSound, Initializing, Rebinding, Stopping
<1>4. UpCovered
  BY <1>2 DEF UpCovered
<1> QED
  BY <1>1, <1>3, <1>4 DEF ServerInv

\* A step of the frame loop that neither adds a session nor makes one XUDP.
LEMMA LoopMoves ==
    ASSUME ServerInv, NEW l, NEW o \in 0..MaxSessions,
           pc' = [pc EXCEPT ![Loop] = l], obj' = [obj EXCEPT ![Loop] = o],
           UNCHANGED <<mgr, todo, snap, ses, stopped, shut, lost>>, closed' \in BOOLEAN,
           inp' \in [Sessions -> 0..MaxSessions], outp' \in [Sessions -> 0..MaxSessions],
           \A s \in 1..count : Normal(s) => outp'[s] = outp[s],
           pc[Loop] \notin Stopping \cup {"bindX"}, l \notin Stopping \cup {"bindX"},
           l = "close" => o \in 1..count,
           entry' \in Initializing..count, entry' \in {entry, Initializing, NoEntry},
           l \in {"dispatch", "dispatchX", "add", "addX"} => Fresh \in Sessions,
           l = "add" => outp'[Fresh] = Fresh,
           rebind' => l \in {"close"} \cup Rebinding /\ o \in xudp /\ Fresh \in Sessions,
           l \in Rebinding => rebind'
    PROVE  ServerInv'
<1>0. /\ DOMAIN pc = Tasks /\ obj \in [Tasks -> 0..MaxSessions] /\ count \in Nat
      /\ Sessions \subseteq Tasks /\ Loop \in Tasks \ {Monitor} /\ Loop \notin Sessions
      /\ Monitor \in Tasks /\ xudp \subseteq 1..count
  BY ServerFacts
<1>1. /\ pc'[Loop] = l /\ obj'[Loop] = o
      /\ \A u \in Tasks \ {Loop} : pc'[u] = pc[u] /\ obj'[u] = obj[u]
  BY <1>0
<1>2. UNCHANGED <<count, flag, xudp>> /\ Fresh' = Fresh
  BY DEF mgr, ses, Fresh
<1>3. MgrInv'
  <2>1. UNCHANGED <<mgr, todo, snap, flag, stopped, shut>>
    BY DEF ses
  <2>2. MgrInv /\ xudp' \subseteq 1..count
    BY <1>0, <1>2 DEF ServerInv
  <2> QED
    BY <1>0, <2>1, <2>2, TaskMoves
<1>4. LoopSound'
  <2>1. entry' \in Initializing..count /\ (entry' \in 1..count => entry' \in xudp)
    BY <1>0 DEF ServerInv, LoopSound, Initializing, NoEntry
  <2>2. \A s \in Sessions : pc'[s] # "none" => s \in 1..count
    BY <1>0, <1>1 DEF ServerInv, LoopSound
  <2>3. l # "bindX" /\ l \notin Stopping
    OBVIOUS
  <2> QED
    BY <1>1, <1>2, <2>1, <2>2, <2>3 DEF LoopSound
<1>5. UpCovered'
  <2>1. \A s : OutputPassed(s)' => OutputPassed(s)
    BY <1>1, <1>2, PassedBefore DEF Stopping
  <2>2. \A s \in 1..count : Normal(s)' => Normal(s)
    BY <1>1, <1>2 DEF Normal
  <2>3. pc'[Monitor] = pc[Monitor] /\ UNCHANGED <<shut, lost>>
    BY <1>0, <1>1
  <2> QED
    BY <1>2, <2>1, <2>2, <2>3 DEF ServerInv, UpCovered
<1> QED
  BY <1>3, <1>4, <1>5 DEF ServerInv

\* The pump of a session only moves on.
LEMMA PumpKeeps ==
    ASSUME ServerInv, NEW s \in Sessions,
           \/ Pump(s) \/ ReadChunk(s) \/ ReadEof(s)
           \/ WriteFrame(s) \/ WriteEnd(s) \/ WriteFails(s)
    PROVE  ServerInv'
<1>0. /\ DOMAIN pc = Tasks /\ obj \in [Tasks -> 0..MaxSessions] /\ s \in 0..MaxSessions
      /\ Sessions \subseteq Tasks /\ s \in Tasks \ {Monitor, Loop} /\ Monitor \in Tasks /\ Loop \in Tasks
  BY ServerFacts
<1>1. /\ pc[s] \in {"lock", "read", "write", "end"} /\ UNCHANGED <<mgr, mon, ses, io, obj, own>>
      /\ \E l \in {"lock", "read", "write", "end", "close"} : pc' = [pc EXCEPT ![s] = l]
  BY DEF Pump, LockInput, ReadStop, ReadChunk, ReadEof, WriteFrame, WriteEnd, WriteFails, Step, Goto
<1>2. PICK l \in {"lock", "read", "write", "end", "close"} : pc' = [pc EXCEPT ![s] = l]
  BY <1>1
<1>3. pc'[s] = l /\ \A u \in Tasks \ {s} : pc'[u] = pc[u]
  BY <1>0, <1>2
<1>4. s \in 1..count /\ l \notin Stopping
  BY <1>0, <1>1, <1>2 DEF ServerInv, LoopSound, Stopping
<1>5. MgrInv'
  <2>1. obj' = [obj EXCEPT ![s] = s] /\ UNCHANGED <<mgr, todo, snap, flag, stopped, shut>>
    BY <1>0, <1>1 DEF ServerInv, MgrInv, TasksSound, mon, ses, io
  <2>2. /\ closed' \in BOOLEAN /\ xudp' \subseteq 1..count
        /\ inp' \in [Sessions -> 0..MaxSessions] /\ outp' \in [Sessions -> 0..MaxSessions]
    BY <1>1, ServerFacts DEF mon, ses, io
  <2> QED
    BY <1>0, <1>2, <1>4, <2>1, <2>2, TaskMoves DEF ServerInv
<1>6. LoopSound'
  <2>1. \A u \in Sessions : pc'[u] # "none" => u \in 1..count
    BY <1>0, <1>3, <1>4 DEF ServerInv, LoopSound
  <2>2. pc'[Loop] = pc[Loop] /\ UNCHANGED <<count, xudp, outp, obj, entry, rebind>> /\ Fresh' = Fresh
    BY <1>0, <1>1, <1>3 DEF mgr, ses, io, own, Fresh
  <2>3. pc[Loop] = "bindX" => count \in Sessions /\ pc'[count] = "none"
    BY <1>0, <1>1, <1>3 DEF ServerInv, LoopSound
  <2> QED
    BY <2>1, <2>2, <2>3 DEF ServerInv, LoopSound
<1>7. UpCovered'
  <2>1. \A u : OutputPassed(u)' => OutputPassed(u)
    BY <1>1, <1>3, PassedBefore DEF ses
  <2>2. /\ pc'[Monitor] = pc[Monitor] /\ pc'[Loop] = pc[Loop]
        /\ UNCHANGED <<count, xudp, outp, shut, lost>>
    BY <1>0, <1>1, <1>3 DEF mgr, ses, io, own
  <2> QED
    BY <2>1, <2>2 DEF ServerInv, UpCovered, Normal
<1> QED
  BY <1>5, <1>6, <1>7 DEF ServerInv

\* New, Keep and End frames up to the point where a session is added.
LEMMA FramesKeep ==
    ASSUME ServerInv,
           \/ RecvNew \/ RecvXudpNew \/ Dispatch \/ RebindFirst \/ Deliver
           \/ RebindTake \/ \E s \in Sessions : RecvKeep(s) \/ RecvEnd(s)
    PROVE  ServerInv'
<1>0. /\ DOMAIN pc = Tasks /\ obj \in [Tasks -> 0..MaxSessions]
      /\ count \in Nat /\ 1..count \subseteq Sessions /\ live \subseteq 1..count
      /\ xudp \subseteq 1..count /\ closed \in BOOLEAN
      /\ inp \in [Sessions -> 0..MaxSessions] /\ outp \in [Sessions -> 0..MaxSessions]
      /\ Loop \in Tasks /\ Sessions \subseteq 0..MaxSessions /\ 0 \in 0..MaxSessions
      /\ obj = [obj EXCEPT ![Loop] = obj[Loop]] /\ obj[Loop] \in 0..MaxSessions
      /\ Fresh \notin 1..count /\ entry \in Initializing..count
  BY ServerFacts DEF Fresh, ServerInv, LoopSound
<1> USE DEF Rebinding, Stopping
<1>1. CASE RecvNew
  <2>1. /\ pc' = [pc EXCEPT ![Loop] = "dispatch"] /\ obj' = [obj EXCEPT ![Loop] = obj[Loop]]
        /\ UNCHANGED <<mgr, mon, ses, io, own>> /\ pc[Loop] = "recv" /\ Fresh \in Sessions
    BY <1>0, <1>1 DEF RecvNew, Step, Goto
  <2>2. ~rebind
    BY <2>1 DEF ServerInv, LoopSound
  <2> QED
    BY <1>0, <2>1, <2>2, LoopMoves DEF mon, io, own
<1>2. CASE RecvXudpNew
  <2>1. /\ pc[Loop] = "recv" /\ Fresh \in Sessions /\ UNCHANGED <<mgr, mon, ses, io, lost>>
    BY <1>2 DEF RecvXudpNew
  <2>2. ~rebind
    BY <2>1 DEF ServerInv, LoopSound
  <2>3. CASE entry # NoEntry /\ Alive(entry)
    <3>1. /\ obj' = [obj EXCEPT ![Loop] = entry] /\ rebind' = TRUE /\ entry' = entry
          /\ pc' = [pc EXCEPT ![Loop] = "close"] /\ entry # Initializing
      BY <1>2, <2>3 DEF RecvXudpNew, Goto
    <3>2. entry \in 1..count
      BY <1>0, <2>3, <3>1 DEF NoEntry, Initializing
    <3>3. entry \in xudp /\ entry \in 0..MaxSessions
      BY <1>0, <3>2 DEF ServerInv, LoopSound
    <3> QED
      BY <1>0, <2>1, <3>1, <3>2, <3>3, LoopMoves DEF mon, io
  <2>4. CASE ~(entry # NoEntry /\ Alive(entry))
    <3>1. /\ obj' = [obj EXCEPT ![Loop] = obj[Loop]] /\ rebind' = rebind /\ entry' = Initializing
          /\ pc' = [pc EXCEPT ![Loop] = "dispatchX"]
      BY <1>0, <1>2, <2>4 DEF RecvXudpNew, Goto
    <3>2. Initializing \in Initializing..count
      BY <1>0 DEF Initializing
    <3> QED
      BY <1>0, <2>1, <2>2, <3>1, <3>2, LoopMoves DEF mon, io
  <2> QED
    BY <2>3, <2>4
<1>3. CASE Dispatch
  <2>1. /\ pc[Loop] \in {"dispatch", "dispatchX"} /\ UNCHANGED <<mgr, mon, ses, stopped, shut, own>>
        /\ obj' = [obj EXCEPT ![Loop] = obj[Loop]]
        /\ inp' = [inp EXCEPT ![Fresh] = Fresh] /\ outp' = [outp EXCEPT ![Fresh] = Fresh]
    BY <1>0, <1>3 DEF Dispatch
  <2>2. PICK l \in {"add", "addX"} : pc' = [pc EXCEPT ![Loop] = l]
    BY <1>3 DEF Dispatch, Goto
  <2>3. Fresh \in Sessions /\ ~rebind
    BY <2>1 DEF ServerInv, LoopSound
  <2>4. /\ inp' \in [Sessions -> 0..MaxSessions] /\ outp' \in [Sessions -> 0..MaxSessions]
        /\ outp'[Fresh] = Fresh /\ \A s \in 1..count : outp'[s] = outp[s]
    BY <1>0, <2>1, <2>3
  <2> QED
    BY <1>0, <2>1, <2>2, <2>3, <2>4, LoopMoves DEF mon, own
<1>4. CASE RebindFirst
  <2>1. /\ pc' = [pc EXCEPT ![Loop] = "takeIn"] /\ obj' = [obj EXCEPT ![Loop] = obj[Loop]]
        /\ UNCHANGED <<mgr, mon, ses, io, own>> /\ pc[Loop] = "first"
    BY <1>0, <1>4 DEF RebindFirst, Step, Goto
  <2>2. rebind /\ obj[Loop] \in xudp /\ Fresh \in Sessions
    BY <2>1 DEF ServerInv, LoopSound
  <2> QED
    BY <1>0, <2>1, <2>2, LoopMoves DEF mon, io, own
<1>5. CASE Deliver
  <2>1. /\ pc' = [pc EXCEPT ![Loop] = "recv"] /\ obj' = [obj EXCEPT ![Loop] = 0]
        /\ UNCHANGED <<mgr, mon, ses, io, own>> /\ pc[Loop] = "deliver"
    BY <1>5 DEF Deliver, Return, Goto
  <2>2. ~rebind
    BY <2>1 DEF ServerInv, LoopSound
  <2> QED
    BY <1>0, <2>1, <2>2, LoopMoves DEF mon, io, own
<1>6. CASE RebindTake
  <2>1. pc[Loop] \in {"takeIn", "takeOut"} /\ UNCHANGED <<mgr, mon, ses, stopped, shut, own>>
        /\ obj' = [obj EXCEPT ![Loop] = obj[Loop]]
    BY <1>0, <1>6 DEF RebindTake
  <2>2. PICK l \in {"takeOut", "addR"} : pc' = [pc EXCEPT ![Loop] = l]
    BY <1>6 DEF RebindTake, Goto
  <2>3. rebind /\ obj[Loop] \in xudp /\ Fresh \in Sessions /\ obj[Loop] \in Sessions
    BY <1>0, <2>1 DEF ServerInv, LoopSound
  <2>4. /\ inp' \in [Sessions -> 0..MaxSessions] /\ outp' \in [Sessions -> 0..MaxSessions]
        /\ \A s \in 1..count : Normal(s) => outp'[s] = outp[s]
    <3>1. CASE inp' = [inp EXCEPT ![obj[Loop]] = 0, ![Fresh] = inp[obj[Loop]]] /\ outp' = outp
      BY <1>0, <2>3, <3>1
    <3>2. CASE outp' = [outp EXCEPT ![obj[Loop]] = 0, ![Fresh] = outp[obj[Loop]]] /\ inp' = inp
      BY <1>0, <2>3, <3>2 DEF Normal
    <3> QED
      BY <1>6, <3>1, <3>2 DEF RebindTake
  <2> QED
    BY <1>0, <2>1, <2>2, <2>3, <2>4, LoopMoves DEF mon, own
<1>7. ASSUME NEW s \in Sessions, RecvKeep(s) \/ RecvEnd(s) PROVE ServerInv'
  <2>1. /\ pc[Loop] = "recv" /\ Known(s) /\ obj' = [obj EXCEPT ![Loop] = s]
        /\ UNCHANGED <<mgr, mon, ses, io, own>>
    BY <1>7 DEF RecvKeep, RecvEnd, RecvFrame
  <2>2. PICK l \in {"deliver", "close"} : pc' = [pc EXCEPT ![Loop] = l]
    BY <1>7 DEF RecvKeep, RecvEnd, RecvFrame, Goto
  <2>3. s \in 1..count /\ s \in 0..MaxSessions
    BY <1>0, <2>1 DEF Known
  <2>4. ~rebind
    BY <2>1 DEF ServerInv, LoopSound
  <2> QED
    BY <1>0, <2>1, <2>2, <2>3, <2>4, LoopMoves DEF mon, io, own
<1> QED
  BY <1>1, <1>2, <1>3, <1>4, <1>5, <1>6, <1>7

\* The ends of the loop, and a rebind that starts over.
LEMMA FailuresKeep ==
    ASSUME ServerInv,
           \/ DispatchFails \/ AddFails \/ RecvError \/ AbortMonitor
           \/ RebindFirstFails \/ RebindFails
    PROVE  ServerInv'
<1>0. /\ DOMAIN pc = Tasks /\ obj \in [Tasks -> 0..MaxSessions] /\ count \in Nat /\ closed \in BOOLEAN
      /\ inp \in [Sessions -> 0..MaxSessions] /\ outp \in [Sessions -> 0..MaxSessions]
      /\ Loop \in Tasks /\ 0 \in 0..MaxSessions
      /\ obj = [obj EXCEPT ![Loop] = obj[Loop]] /\ obj[Loop] \in 0..MaxSessions
      /\ Fresh \notin 1..count /\ entry \in Initializing..count
      /\ Initializing \in Initializing..count /\ NoEntry \in Initializing..count
  BY ServerFacts DEF Fresh, ServerInv, LoopSound, Initializing, NoEntry
<1>1. ASSUME DropLink, Fresh \in Sessions
      PROVE  /\ inp' \in [Sessions -> 0..MaxSessions] /\ outp' \in [Sessions -> 0..MaxSessions]
             /\ \A s \in 1..count : Normal(s) => outp'[s] = outp[s]
             /\ UNCHANGED <<stopped, shut>>
  BY <1>0, <1>1, ServerFacts DEF DropLink
<1> USE DEF Rebinding, Stopping
<1>2. CASE DispatchFails \/ AddFails \/ RecvError
  <2>1. /\ pc' = [pc EXCEPT ![Loop] = "abort"] /\ obj' = [obj EXCEPT ![Loop] = obj[Loop]]
        /\ UNCHANGED <<mgr, todo, snap, ses, lost, rebind>> /\ closed' \in BOOLEAN
        /\ pc[Loop] \in {"dispatch", "dispatchX", "add", "addX", "recv"}
    BY <1>0, <1>2 DEF DispatchFails, AddFails, RecvError, LoopEnds, Goto
  <2>2. entry' \in {entry, NoEntry}
    BY <1>2 DEF DispatchFails, AddFails, RecvError
  <2>3. ~rebind
    BY <2>1 DEF ServerInv, LoopSound
  <2>4. /\ inp' \in [Sessions -> 0..MaxSessions] /\ outp' \in [Sessions -> 0..MaxSessions]
        /\ \A s \in 1..count : Normal(s) => outp'[s] = outp[s]
        /\ UNCHANGED <<stopped, shut>>
    <3>1. CASE AddFails
      <4>1. Fresh \in Sessions
        BY <3>1 DEF AddFails, ServerInv, LoopSound
      <4> QED
        BY <1>1, <3>1, <4>1 DEF AddFails
    <3>2. CASE DispatchFails \/ RecvError
      BY <1>0, <3>2 DEF DispatchFails, RecvError, io
    <3> QED
      BY <1>2, <3>1, <3>2
  <2> QED
    BY <1>0, <2>1, <2>2, <2>3, <2>4, LoopMoves
<1>3. CASE AbortMonitor
  <2>1. /\ pc' = [pc EXCEPT ![Loop] = "done"] /\ obj' = [obj EXCEPT ![Loop] = obj[Loop]]
        /\ UNCHANGED <<mgr, mon, ses, io, lost, rebind, entry>> /\ pc[Loop] = "abort"
    BY <1>0, <1>3 DEF AbortMonitor, Goto
  <2>2. ~rebind
    BY <2>1 DEF ServerInv, LoopSound
  <2> QED
    BY <1>0, <2>1, <2>2, LoopMoves DEF mon, io
<1>4. CASE RebindFirstFails \/ RebindFails
  <2>1. pc[Loop] \in {"first", "addR"} /\ Redispatch
    BY <1>4 DEF RebindFirstFails, RebindFails
  <2>2. Fresh \in Sessions
    BY <2>1 DEF ServerInv, LoopSound
  <2>3. /\ pc' = [pc EXCEPT ![Loop] = "dispatchX"] /\ obj' = [obj EXCEPT ![Loop] = 0]
        /\ UNCHANGED <<mgr, mon, ses, lost>> /\ rebind' = FALSE /\ entry' = Initializing /\ DropLink
    BY <2>1 DEF Redispatch, Goto
  <2> QED
    BY <1>0, <1>1, <2>1, <2>2, <2>3, LoopMoves DEF mon
<1> QED
  BY <1>2, <1>3, <1>4

\* add: the new session is open, and a normal one has the link dispatched for it.
LEMMA AddKeeps == ASSUME ServerInv, Add PROVE ServerInv'
<1> DEFINE n == count + 1
<1>0. /\ DOMAIN pc = Tasks /\ Sessions \subseteq Tasks /\ Loop \in Tasks /\ Monitor \in Tasks
      /\ Loop \notin Sessions /\ Monitor \notin Sessions /\ Loop # Monitor
      /\ count \in Nat /\ flag \subseteq 1..count /\ xudp \subseteq 1..count
  BY ServerFacts
<1>1. /\ pc[Loop] \in {"add", "addX", "addR"} /\ Insert(n)
      /\ UNCHANGED <<mon, ses, io, obj, entry, rebind, lost>>
  BY DEF Add, Fresh, own
<1>2. n \in Sessions
  BY <1>1 DEF ServerInv, LoopSound, Rebinding, Fresh
<1>3. /\ pc[Loop] = "add"  => pc' = [pc EXCEPT ![Loop] = "recv", ![n] = "lock"]
      /\ pc[Loop] # "add" => pc' = [pc EXCEPT ![Loop] = "bindX"]
  BY DEF Add, Fresh
<1>4. /\ DOMAIN pc' = Tasks /\ \A t \in Tasks \ {Loop, n} : pc'[t] = pc[t]
      /\ pc'[Loop] \in {"recv", "bindX"} /\ pc'[n] \in {pc[n], "lock"}
      /\ (pc'[Loop] = "recv" <=> pc[Loop] = "add")
  BY <1>0, <1>2, <1>3
<1>5. pc[n] = "none"
  BY <1>0, <1>2 DEF ServerInv, LoopSound
<1>6. count' = n /\ 1..n = 1..count \cup {n} /\ n \notin 1..count
  BY <1>0, <1>1 DEF Insert
<1>7. MgrInv'
  <2>1. pc'[Monitor] = pc[Monitor]
    BY <1>0, <1>2, <1>4
  <2>2. \A t \in Tasks : pc'[t] \in {"close"} \cup Stopping => pc[t] = pc'[t]
    BY <1>2, <1>4 DEF Stopping
  <2> QED
    BY <1>1, <1>2, <1>4, <2>1, <2>2, InsertKeeps DEF ServerInv
<1>8. LoopSound'
  <2>1. entry' \in Initializing..n /\ (entry' \in 1..n => entry' \in xudp)
    BY <1>0, <1>1, <1>6 DEF ServerInv, LoopSound, Initializing
  <2>2. \A s \in Sessions : pc'[s] # "none" => s \in 1..n
    BY <1>0, <1>4, <1>6 DEF ServerInv, LoopSound
  <2>3. pc[Loop] = "add" => ~rebind
    BY DEF ServerInv, LoopSound, Rebinding, Stopping
  <2>4. rebind' => pc'[Loop] = "bindX" /\ obj'[Loop] \in xudp'
    BY <1>1, <1>4, <2>3 DEF ServerInv, LoopSound, ses
  <2>5. pc'[Loop] = "bindX" => pc'[count'] = "none"
    <3>1. pc[Loop] # "add" => pc'[n] = "none"
      BY <1>0, <1>2, <1>3, <1>5
    <3> QED
      BY <1>4, <1>6, <3>1
  <2> QED
    BY <1>1, <1>2, <1>4, <1>6, <2>1, <2>2, <2>4, <2>5 DEF LoopSound, Rebinding, ses
<1>9. UpCovered'
  <2>1. UNCHANGED <<flag, xudp, outp, shut, lost, obj>> /\ pc'[Monitor] = pc[Monitor]
    BY <1>0, <1>1, <1>2, <1>4 DEF ses, io
  <2>2. \A s : OutputPassed(s)' => OutputPassed(s)
    BY <1>1, <1>2, <1>4, <1>5, <2>1, PassedBefore
  <2>3. \A s \in 1..count : Normal(s)' => Normal(s)
    BY <1>1, <2>1 DEF Normal
  <2>4. \A s \in 1..n : s = n /\ Normal(s)' => outp[s] = s /\ ~OutputPassed(s)
    BY <1>0, <1>1, <1>4, <1>6 DEF Normal, OutputPassed, ServerInv, LoopSound, Fresh
  <2>5. ASSUME NEW s \in 1..n, Normal(s)'
        PROVE  outp[s] = s /\ (OutputPassed(s)' => s \in shut \cup lost)
    BY <1>6, <2>2, <2>3, <2>4, <2>5 DEF ServerInv, UpCovered
  <2> QED
    BY <1>6, <2>1, <2>5 DEF ServerInv, UpCovered
<1> QED
  BY <1>7, <1>8, <1>9 DEF ServerInv

\* The new session becomes an XUDP session and its entry is written back.
LEMMA BindXudpKeeps == ASSUME ServerInv, BindXudp PROVE ServerInv'
<1>0. /\ DOMAIN pc = Tasks /\ Sessions \subseteq Tasks /\ Loop \in Tasks /\ Monitor \in Tasks
      /\ Loop \notin Sessions /\ Monitor \notin Sessions /\ Loop # Monitor
      /\ obj \in [Tasks -> 0..MaxSessions] /\ 0 \in 0..MaxSessions
      /\ count \in Nat /\ xudp \subseteq 1..count /\ closed \in BOOLEAN
      /\ inp \in [Sessions -> 0..MaxSessions] /\ outp \in [Sessions -> 0..MaxSessions]
  BY ServerFacts
<1>1. /\ pc[Loop] = "bindX" /\ xudp' = xudp \cup {count} /\ entry' = count /\ rebind' = FALSE
      /\ pc' = [pc EXCEPT ![Loop] = "recv", ![count] = "lock"]
      /\ obj' = [obj EXCEPT ![Loop] = 0] /\ UNCHANGED <<mgr, mon, flag, io, lost>>
  BY DEF BindXudp
<1>2. count \in Sessions /\ count \in 1..count
  BY <1>0, <1>1 DEF ServerInv, LoopSound, Sessions
<1>3. /\ DOMAIN pc' = Tasks /\ pc'[Loop] = "recv" /\ pc'[count] = "lock"
      /\ \A t \in Tasks \ {Loop, count} : pc'[t] = pc[t]
      /\ obj' \in [Tasks -> 0..MaxSessions] /\ \A t \in Tasks \ {Loop} : obj'[t] = obj[t]
  BY <1>0, <1>1, <1>2
<1>4. MgrInv'
  <2>1. UNCHANGED <<mgr, todo, snap, flag>> /\ UNCHANGED <<stopped, shut>>
    BY <1>1 DEF mon, io
  <2>2. /\ closed' \in BOOLEAN /\ xudp' \subseteq 1..count
        /\ inp' \in [Sessions -> 0..MaxSessions] /\ outp' \in [Sessions -> 0..MaxSessions]
    BY <1>0, <1>1, <1>2 DEF mon, io
  <2>3. \A s \in Sessions : obj'[s] = s
    BY <1>0, <1>3 DEF ServerInv, MgrInv, TasksSound
  <2>4. \A t \in Tasks : pc'[t] = "close" => obj'[t] \in 1..count
    BY <1>3 DEF ServerInv, MgrInv, TasksSound
  <2>5. \A t \in Tasks : pc'[t] \in Stopping => pc[t] = pc'[t] /\ obj'[t] = obj[t]
    BY <1>3 DEF Stopping
  <2>6. pc'[Monitor] = pc[Monitor] /\ obj'[Monitor] = obj[Monitor]
    BY <1>0, <1>2, <1>3
  <2> QED
    BY <1>3, <2>1, <2>2, <2>3, <2>4, <2>5, <2>6, OtherKeeps DEF ServerInv
<1>5. LoopSound'
  <2>1. \A s \in Sessions : pc'[s] # "none" => s \in 1..count
    BY <1>0, <1>2, <1>3 DEF ServerInv, LoopSound
  <2>2. count' = count /\ count \in Initializing..count
    BY <1>0, <1>1 DEF mgr, Initializing
  <2> QED
    BY <1>1, <1>3, <2>1, <2>2 DEF LoopSound, Rebinding, Stopping
<1>6. UpCovered'
  <2>1. UNCHANGED <<count, flag, outp, shut, lost>> /\ pc'[Monitor] = pc[Monitor]
    BY <1>0, <1>1, <1>2, <1>3 DEF mgr, io
  <2>2. \A s \in 1..count : Normal(s)' => Normal(s) /\ s # count
    BY <1>1, <1>3, <2>1 DEF Normal
  <2>3. \A s \in 1..count : s # count /\ OutputPassed(s)' => OutputPassed(s)
    <3>1. obj[count] = count /\ obj'[count] = count
      BY <1>0, <1>2, <1>3 DEF ServerInv, MgrInv, TasksSound
    <3> QED
      BY <1>0, <1>1, <1>3, <2>1, <3>1 DEF OutputPassed
  <2> QED
    BY <2>1, <2>2, <2>3 DEF ServerInv, UpCovered
<1> QED
  BY <1>4, <1>5, <1>6 DEF ServerInv

\* Session::close in the server: the winner of the swap has the output of a normal
\* session still to shut, and passes it only by shutting it.
LEMMA ServerCloseKeeps == ASSUME ServerInv, NEW t \in Tasks, Close(t) PROVE ServerInv'
<1> DEFINE back == IF t = Monitor THEN "sweep" ELSE IF t # Loop THEN "done"
                   ELSE IF rebind THEN "first" ELSE "recv"
           inFree == InputFree(obj[t])
           outFree == OutputFree(obj[t])
           s == obj[t]
<1>0. /\ Sessions \subseteq Tasks /\ Loop \in Tasks /\ Loop \notin Sessions /\ Loop # Monitor
      /\ Monitor \notin Sessions /\ Monitor \in Tasks /\ DOMAIN pc = Tasks
      /\ obj \in [Tasks -> 0..MaxSessions] /\ 1..count \subseteq Sessions
      /\ back \in {"recv", "first", "sweep", "done"} /\ (t = Monitor <=> back = "sweep")
      /\ (t \in Sessions => back = "done")
  BY ServerFacts
<1>1. SessionClose(t, back, inFree, outFree) /\ UNCHANGED <<entry, rebind, lost>>
  BY DEF Close, own
<1>2. t = Loop => (rebind <=> back = "first") /\ back \in {"first", "recv"}
  BY <1>0
<1> HIDE DEF back, inFree, outFree
<1>3. MgrInv'
  BY <1>0, <1>1, CloseKeeps DEF ServerInv
<1>4. /\ UNCHANGED <<count, xudp, outp>> /\ pc[t] \in {"close"} \cup Stopping
      /\ \A u \in Tasks \ {t} : pc'[u] = pc[u] /\ obj'[u] = obj[u]
      /\ pc'[t] \in {back} \cup Stopping /\ (back \notin {"recv", "sweep"} => obj'[t] = obj[t])
  <2>1. ASSUME Return(t, back)
        PROVE  /\ \A u \in Tasks \ {t} : pc'[u] = pc[u] /\ obj'[u] = obj[u]
               /\ pc'[t] = back /\ (back \notin {"recv", "sweep"} => obj'[t] = obj[t])
    BY <1>0, <2>1 DEF Return, Goto
  <2>2. CASE CloseSwap(t, back)
    BY <1>0, <2>1, <2>2 DEF CloseSwap, Goto, Stopping, mgr, io
  <2>3. CASE CloseInput(t, inFree) \/ CloseOutput(t, outFree)
    BY <1>0, <2>3 DEF CloseInput, CloseOutput, Goto, Stopping, mgr, ses
  <2>4. CASE CloseRemove(t, back)
    BY <2>1, <2>4 DEF CloseRemove, Stopping, ses, io
  <2> QED
    BY <1>1, <2>2, <2>3, <2>4 DEF SessionClose
<1>5. LoopSound'
  <2>1. \A u \in Sessions : pc'[u] # "none" => u \in 1..count
    BY <1>0, <1>4 DEF ServerInv, LoopSound, Stopping
  <2>2. Fresh' = Fresh /\ UNCHANGED <<entry, rebind, count, xudp, outp>>
    BY <1>1, <1>4 DEF Fresh
  <2>3. CASE t = Loop
    <3>1. pc[Loop] \notin Rebinding \cup {"bindX"} /\ (rebind => obj'[Loop] = obj[Loop])
      BY <1>2, <1>4, <2>3 DEF Rebinding, Stopping
    <3>2. /\ pc'[Loop] \in {"first", "recv"} \cup Stopping
          /\ pc'[Loop] = "first" => rebind
          /\ pc'[Loop] = "recv" => ~rebind
      BY <1>2, <1>4, <2>3 DEF Stopping
    <3>3. /\ rebind => pc'[Loop] \in {"close", "bindX"} \cup Stopping \cup Rebinding
          /\ pc'[Loop] \in Rebinding => rebind
          /\ rebind => obj'[Loop] \in xudp /\ Fresh \in Sessions
      BY <3>1, <3>2 DEF ServerInv, LoopSound, Rebinding, Stopping
    <3>4. pc'[Loop] \notin {"bindX", "dispatch", "dispatchX", "add", "addX"}
      BY <3>2 DEF Stopping
    <3> QED
      BY <2>1, <2>2, <3>3, <3>4 DEF ServerInv, LoopSound
  <2>4. CASE t # Loop
    <3>1. pc'[Loop] = pc[Loop] /\ obj'[Loop] = obj[Loop]
      BY <1>0, <1>4, <2>4
    <3>2. pc[Loop] = "bindX" => count \in Sessions /\ pc'[count] = "none"
      BY <1>0, <1>4 DEF ServerInv, LoopSound, Stopping
    <3> QED
      BY <2>1, <2>2, <3>1, <3>2 DEF ServerInv, LoopSound
  <2> QED
    BY <2>3, <2>4
<1>6. UpCovered'
  <2>0. pc[Monitor] # "dead" \/ t # Monitor
    BY <1>4 DEF Stopping
  <2>1. /\ pc'[Monitor] # "dead" => lost = {}
        /\ \A u \in 1..count : Normal(u)' => Normal(u)
    BY <1>0, <1>4, <2>0 DEF ServerInv, UpCovered, Normal, Stopping
  <2>2. CASE CloseSwap(t, back) /\ s \notin flag
    <3>1. flag' = flag \cup {s} /\ obj' = obj /\ UNCHANGED <<outp, shut>>
          /\ pc' = [pc EXCEPT ![t] = IF s \in xudp THEN "remove" ELSE "stopIn"]
      BY <2>2 DEF CloseSwap, Goto, io
    <3>2. \A u \in 1..count : u = s /\ Normal(u) => ~OutputPassed(u)'
      BY <1>0, <3>1 DEF OutputPassed, Normal
    <3>3. \A u : u # s /\ OutputPassed(u)' => OutputPassed(u)
      BY <1>0, <2>2, <3>1 DEF OutputPassed, CloseSwap
    <3>4. \A u \in 1..count : Normal(u)' => outp'[u] = u /\ (OutputPassed(u)' => u \in shut \cup lost)
      BY <2>1, <3>1, <3>2, <3>3 DEF ServerInv, UpCovered
    <3> QED
      BY <1>1, <1>4, <2>1, <3>1, <3>4 DEF UpCovered
  <2>3. CASE (CloseSwap(t, back) /\ s \in flag) \/ CloseRemove(t, back)
    <3>1. flag' = flag /\ pc[t] \in {"close", "remove"} /\ UNCHANGED <<outp, shut>>
      BY <2>3 DEF CloseSwap, CloseRemove, ses, io
    <3>2. \A u : OutputPassed(u)' => OutputPassed(u)
      BY <1>4, <3>1, PassedBefore
    <3> QED
      BY <1>1, <1>4, <2>1, <3>1, <3>2 DEF ServerInv, UpCovered
  <2>4. CASE CloseInput(t, inFree)
    <3>1. /\ flag' = flag /\ UNCHANGED <<outp, shut, obj>>
          /\ pc' = [pc EXCEPT ![t] = "stopOut"]
      BY <2>4 DEF CloseInput, Goto, ses
    <3>2. \A u : OutputPassed(u)' => OutputPassed(u)
      BY <1>0, <3>1, PassedBefore
    <3> QED
      BY <1>1, <1>4, <2>1, <3>1, <3>2 DEF ServerInv, UpCovered
  <2>5. CASE CloseOutput(t, outFree)
    <3>1. /\ flag' = flag /\ UNCHANGED <<outp, obj>>
          /\ pc' = [pc EXCEPT ![t] = "remove"] /\ shut' = shut \cup ({outp[s]} \ {0})
      BY <2>5 DEF CloseOutput, Goto, ses
    <3>2. \A u : u # s /\ OutputPassed(u)' => OutputPassed(u)
      BY <1>0, <3>1 DEF OutputPassed
    <3>3. \A u \in 1..count : Normal(u)' => outp'[u] = u /\ (OutputPassed(u)' => u \in shut' \cup lost)
      BY <2>1, <3>1, <3>2 DEF ServerInv, UpCovered
    <3> QED
      BY <1>1, <1>4, <2>1, <3>3 DEF UpCovered
  <2> QED
    BY <1>1, <2>2, <2>3, <2>4, <2>5 DEF SessionClose
<1> QED
  BY <1>3, <1>5, <1>6 DEF ServerInv

\* The monitor and its abort: the session it was closing is remembered in lost.
LEMMA MonitorKeeps ==
    ASSUME ServerInv, Watching \/ Aborted \/ TakeWriter \/ UNCHANGED vars
    PROVE  ServerInv'
<1>0. /\ Sessions \subseteq Tasks /\ Loop \in Tasks /\ Loop # Monitor /\ Monitor \in Tasks
      /\ Monitor \notin Sessions /\ DOMAIN pc = Tasks /\ obj \in [Tasks -> 0..MaxSessions]
      /\ 0 \in 0..MaxSessions
  BY ServerFacts
<1>1. ASSUME UNCHANGED <<count, ses, io, entry, rebind>>,
             \A u \in Tasks \ {Monitor} : pc'[u] = pc[u] /\ obj'[u] = obj[u]
      PROVE  LoopSound' /\ \A u \in 1..count : Normal(u)' => Normal(u)
  <2>1. /\ UNCHANGED <<count, xudp, outp, entry, rebind>> /\ Fresh' = Fresh
        /\ pc'[Loop] = pc[Loop] /\ obj'[Loop] = obj[Loop] /\ \A u \in Sessions : pc'[u] = pc[u]
    BY <1>0, <1>1 DEF ses, io, Fresh
  <2> QED
    BY <2>1 DEF ServerInv, LoopSound, Normal
<1>2. CASE Watching
  <2>1. Watch /\ UNCHANGED <<entry, rebind, lost>>
    BY <1>2 DEF Watching, own
  <2>2. /\ UNCHANGED <<count, ses, io>> /\ pc[Monitor] \notin Stopping \cup {"dead"}
        /\ \A u \in Tasks \ {Monitor} : pc'[u] = pc[u] /\ obj'[u] = obj[u]
    <3>1. CASE Snapshot
      BY <1>0, <3>1 DEF Snapshot, Goto, Stopping, mgr
    <3>2. CASE Tick
      BY <1>0, <3>2 DEF Tick, Goto, Stopping, mgr
    <3>3. CASE IdleClose \/ MonitorDone
      BY <1>0, <3>3 DEF IdleClose, MonitorDone, Goto, Stopping, mgr
    <3>4. CASE Sweep
      BY <1>0, <3>4 DEF Sweep, Goto, Stopping
    <3> QED
      BY <2>1, <3>1, <3>2, <3>3, <3>4 DEF Watch
  <2>3. MgrInv'
    BY <2>1, WatchKeeps DEF ServerInv
  <2>4. LoopSound' /\ \A u \in 1..count : Normal(u)' => Normal(u)
    BY <1>1, <2>1, <2>2
  <2>5. \A u : OutputPassed(u)' => OutputPassed(u)
    BY <1>0, <2>2, PassedBefore DEF Stopping, ses
  <2>6. UpCovered'
    BY <2>1, <2>2, <2>4, <2>5 DEF ServerInv, UpCovered, io
  <2> QED
    BY <2>3, <2>4, <2>6 DEF ServerInv
<1>3. CASE Aborted
  <2>1. /\ pc[Monitor] # "dead" /\ pc' = [pc EXCEPT ![Monitor] = "dead"]
        /\ obj' = [obj EXCEPT ![Monitor] = 0] /\ todo' = {} /\ snap' = NoSnap
        /\ UNCHANGED <<mgr, closed, ses, io, entry, rebind>>
        /\ lost' = IF pc[Monitor] \in {"stopIn", "stopOut"} THEN {obj[Monitor]} ELSE lost
    BY <1>3 DEF Aborted, Goto
  <2>2. /\ DOMAIN pc' = Tasks /\ pc'[Monitor] = "dead" /\ obj' \in [Tasks -> 0..MaxSessions]
        /\ \A u \in Tasks \ {Monitor} : pc'[u] = pc[u] /\ obj'[u] = obj[u]
    BY <1>0, <2>1
  <2>3. MgrInv'
    <3>1. ManagerSound'
      <4>1. NoSnap \in [size : Nat, count : 0..MaxSessions]
        BY MaxSessionsAssumption DEF NoSnap
      <4> QED
        BY <2>1, <2>2, <4>1 DEF ServerInv, MgrInv, ManagerSound, ManagerOK, SizeIsTable,
                                OpenIsListed, mgr, ses, io
    <3>2. TasksSound'
      BY <1>0, <2>1, <2>2 DEF ServerInv, MgrInv, TasksSound, Stopping, mgr, ses
    <3>3. SweepSound'
      BY <2>1, <2>2 DEF SweepSound, Stopping
    <3> QED
      BY <3>1, <3>2, <3>3 DEF MgrInv
  <2>4. LoopSound' /\ \A u \in 1..count : Normal(u)' => Normal(u)
    BY <1>1, <2>1, <2>2 DEF mgr
  <2>5. \A u : OutputPassed(u)' =>
           OutputPassed(u) \/ (pc[Monitor] \in {"stopIn", "stopOut"} /\ u = obj[Monitor])
    BY <2>1, <2>2 DEF OutputPassed, ses
  <2>6. lost = {}
    BY <2>1 DEF ServerInv, UpCovered
  <2>7. UNCHANGED <<count, outp, shut>>
    BY <2>1 DEF mgr, io
  <2>8. UpCovered'
    BY <2>1, <2>2, <2>4, <2>5, <2>6, <2>7 DEF ServerInv, UpCovered
  <2> QED
    BY <2>3, <2>4, <2>8 DEF ServerInv
<1>4. CASE TakeWriter \/ UNCHANGED vars
  <2>1. UNCHANGED <<base, entry, rebind, lost>>
    BY <1>4 DEF TakeWriter, vars, own
  <2>2. MgrInv'
    BY <2>1 DEF ServerInv, MgrInv, ManagerSound, ManagerOK, SizeIsTable, OpenIsListed,
                TasksSound, SweepSound, base, mgr, mon, ses, io
  <2>3. LoopSound' /\ UpCovered'
    BY <2>1 DEF ServerInv, LoopSound, UpCovered, Normal, OutputPassed, Fresh, base, mgr, ses, io
  <2> QED
    BY <2>2, <2>3 DEF ServerInv
<1> QED
  BY <1>2, <1>3, <1>4

\* ServerInv holds in every state of the server worker.
LEMMA ServerInvariant == Spec => []ServerInv
<1>1. ServerInv /\ [Next]_vars => ServerInv'
  <2> SUFFICES ASSUME ServerInv, [Next]_vars PROVE ServerInv'
    OBVIOUS
  <2>1. CASE \/ RecvNew \/ RecvXudpNew \/ Dispatch \/ RebindFirst \/ Deliver
             \/ RebindTake \/ \E s \in Sessions : RecvKeep(s) \/ RecvEnd(s)
    BY <2>1, FramesKeep
  <2>2. CASE \/ DispatchFails \/ AddFails \/ RecvError \/ AbortMonitor
             \/ RebindFirstFails \/ RebindFails
    BY <2>2, FailuresKeep
  <2>3. CASE Add \/ BindXudp
    BY <2>3, AddKeeps, BindXudpKeeps
  <2>4. ASSUME NEW s \in Sessions, \/ Pump(s) \/ ReadChunk(s) \/ ReadEof(s)
                                   \/ WriteFrame(s) \/ WriteEnd(s) \/ WriteFails(s)
        PROVE  ServerInv'
    BY <2>4, PumpKeeps
  <2>5. ASSUME NEW t \in Tasks, Close(t) PROVE ServerInv'
    BY <2>5, ServerCloseKeeps
  <2>6. CASE Watching \/ Aborted \/ TakeWriter \/ UNCHANGED vars
    BY <2>6, MonitorKeeps
  <2> QED
    BY <2>1, <2>2, <2>3, <2>4, <2>5, <2>6 DEF Next, Frames, RecvDone
<1> QED
  BY <1>1, ServerInit, PTL DEF Spec

\* Whoever adds, closes, sweeps, clears or is aborted, the table of the server is
\* well formed, size is the number of its entries, and every open session is in it.
THEOREM ServerManager == Spec => []ManagerSound
<1>1. ServerInv => ManagerSound
  BY DEF ServerInv, MgrInv
<1> QED
  BY <1>1, ServerInvariant, PTL

\* When a normal session is over, and whoever closes it is past the output, the
\* upstream sees the end of the data, unless the monitor was aborted on it.
THEOREM UpstreamEnds == Spec => []UpstreamShut
<1>1. ServerInv => UpstreamShut
  <2> SUFFICES ASSUME ServerInv, NEW s \in 1..count \ xudp, pc[s] = "done", OutputPassed(s)
               PROVE  s \in shut \cup lost
    BY DEF UpstreamShut
  <2>1. CASE Normal(s)
    BY <2>1 DEF ServerInv, UpCovered
  <2>2. CASE ~Normal(s)
    <3>1. pc[Loop] = "bindX" /\ s = count
      BY <2>2 DEF Normal
    <3> QED
      BY <3>1 DEF ServerInv, LoopSound
  <2> QED
    BY <2>1, <2>2
<1> QED
  BY <1>1, ServerInvariant, PTL

\* An entry is Initializing only while the loop makes the session it is for, or
\* when the loop has ended.
EntrySettled ==
    entry = Initializing => pc[Loop] \in {"dispatchX", "addX", "bindX", "abort", "done"}

\* The frame loop is the only one to write the entry.
LEMMA EntryKept == ASSUME ServerInv, EntrySettled, [Next]_vars PROVE EntrySettled'
<1>0. /\ DOMAIN pc = Tasks /\ Sessions \subseteq Tasks /\ Loop \in Tasks /\ Monitor \in Tasks
      /\ Loop \notin Sessions /\ Loop # Monitor /\ count \in Nat
  BY ServerFacts
<1>1. ASSUME entry' = entry, pc'[Loop] = pc[Loop] PROVE EntrySettled'
  BY <1>1 DEF EntrySettled
<1>2. ASSUME pc[Loop] \notin {"dispatchX", "addX", "bindX", "abort", "done"},
             entry' = entry
      PROVE  EntrySettled'
  BY <1>2 DEF EntrySettled
<1>3. CASE \/ RecvNew \/ RebindFirst \/ Deliver \/ RebindTake
           \/ \E s \in Sessions : RecvKeep(s) \/ RecvEnd(s)
  <2>1. entry' = entry /\ pc[Loop] \in {"recv", "first", "deliver", "takeIn", "takeOut"}
    BY <1>3 DEF RecvNew, RebindFirst, Deliver, RebindTake, RecvKeep, RecvEnd, RecvFrame, Step, own
  <2> QED
    BY <1>2, <2>1
<1>4. CASE RecvXudpNew
  BY <1>0, <1>4 DEF RecvXudpNew, EntrySettled, Goto
<1>5. CASE Dispatch
  <2>1. entry' = entry /\ pc[Loop] \in {"dispatch", "dispatchX"}
        /\ (pc[Loop] = "dispatchX" => pc'[Loop] = "addX")
    BY <1>0, <1>5 DEF Dispatch, Goto, own
  <2> QED
    BY <2>1 DEF EntrySettled
<1>6. CASE DispatchFails \/ AddFails \/ RecvError
  BY <1>0, <1>6 DEF DispatchFails, AddFails, RecvError, LoopEnds, Goto, EntrySettled
<1>7. CASE AbortMonitor
  BY <1>0, <1>7 DEF AbortMonitor, Goto, EntrySettled
<1>8. CASE RebindFirstFails \/ RebindFails
  BY <1>0, <1>8 DEF RebindFirstFails, RebindFails, Redispatch, Goto, EntrySettled
<1>9. CASE Add
  <2>1. /\ entry' = entry /\ pc[Loop] \in {"add", "addX", "addR"}
        /\ pc[Loop] = "addX" => pc'[Loop] = "bindX"
    BY <1>0, <1>9 DEF Add, own
  <2> QED
    BY <2>1 DEF EntrySettled
<1>10. CASE BindXudp
  BY <1>0, <1>10 DEF BindXudp, EntrySettled, Initializing
<1>11. ASSUME NEW s \in Sessions, \/ Pump(s) \/ ReadChunk(s) \/ ReadEof(s)
                                  \/ WriteFrame(s) \/ WriteEnd(s) \/ WriteFails(s)
       PROVE  EntrySettled'
  <2>1. /\ UNCHANGED own
        /\ \E l \in {"lock", "read", "write", "end", "close"} : pc' = [pc EXCEPT ![s] = l]
    BY <1>11 DEF Pump, LockInput, ReadStop, ReadChunk, ReadEof, WriteFrame, WriteEnd, WriteFails,
                 Step, Goto
  <2> QED
    BY <1>0, <1>1, <2>1 DEF own
<1>12. ASSUME NEW t \in Tasks, Close(t) PROVE EntrySettled'
  <2>1. /\ entry' = entry /\ pc[t] \in {"close"} \cup Stopping
        /\ \E l : pc' = [pc EXCEPT ![t] = l]
    BY <1>12 DEF Close, SessionClose, CloseSwap, CloseInput, CloseOutput, CloseRemove, Return,
                 Goto, Stopping, own
  <2>2. CASE t = Loop
    BY <1>2, <2>1, <2>2 DEF Stopping
  <2>3. CASE t # Loop
    BY <1>0, <1>1, <2>1, <2>3
  <2> QED
    BY <2>2, <2>3
<1>13. CASE Watching \/ Aborted \/ TakeWriter \/ UNCHANGED vars
  <2>1. entry' = entry
    BY <1>13 DEF Watching, Aborted, TakeWriter, vars, own
  <2>2. pc' = pc \/ \E l : pc' = [pc EXCEPT ![Monitor] = l]
    BY <1>13 DEF Watching, Watch, Snapshot, Tick, IdleClose, MonitorDone, Sweep, Aborted,
                 TakeWriter, Goto, vars, base
  <2> QED
    BY <1>0, <1>1, <2>1, <2>2
<1> QED
  BY <1>3, <1>4, <1>5, <1>6, <1>7, <1>8, <1>9, <1>10, <1>11, <1>12, <1>13
     DEF Next, Frames, RecvDone

\* Between two frames no GlobalID is left Initializing, whichever step of a New
\* frame or of a rebinding failed.
THEOREM EntriesSettle == Spec => []NoConflict
<1>1. Init => EntrySettled
  BY DEF Init, EntrySettled, NoEntry, Initializing
<1>2. ServerInv /\ EntrySettled /\ [Next]_vars => EntrySettled'
  BY EntryKept
<1>3. EntrySettled => NoConflict
  BY DEF EntrySettled, NoConflict
<1> QED
  BY <1>1, <1>2, <1>3, ServerInvariant, PTL DEF Spec

(***************************************************************************)
(* The links of the sessions.                                              *)
(***************************************************************************)

\* A link is held by one session at most, never by one older than the link itself,
\* and an open session has one; the next session has none but the one the loop is
\* giving it.
LinkIds ==
    /\ \A s \in Sessions : inp[s] <= s /\ outp[s] <= s
    /\ \A s \in Sessions : s > Fresh => inp[s] = 0 /\ outp[s] = 0
    /\ \A s, t \in Sessions : s # t => /\ inp[s] # 0 => inp[s] # inp[t]
                                       /\ outp[s] # 0 => outp[s] # outp[t]
    /\ pc[Loop] \in {"add", "addX"} => inp[Fresh] = Fresh /\ outp[Fresh] = Fresh
    /\ \A s \in 1..count \ flag : inp[s] # 0 /\ outp[s] # 0

\* A session whose link nobody takes over: it is normal, or the manager is closed
\* and adds no session any more.
Spared(s) == Normal(s) \/ mgrClosed

\* Only the link of a closed session that nobody takes over is interrupted or shut,
\* and a link is taken over from a closed session only.
LinkEnds ==
    /\ stopped \subseteq 1..count /\ shut \subseteq 1..count
    /\ \A s \in Sessions : inp[s] \in stopped \/ outp[s] \in shut =>
          (s \in 1..count => s \in flag) /\ Spared(s)
    /\ \A t \in Tasks : pc[t] \in {"stopIn", "stopOut"} => Spared(obj[t])
    /\ pc[Loop] \in Rebinding => obj[Loop] \in flag

LinkInv == LinkIds /\ LinkEnds

\* A step that leaves the links and the sessions alone, but may close some.
LEMMA LinksKept ==
    ASSUME ServerInv, LinkInv, UNCHANGED <<count, xudp, io>>,
           flag \subseteq flag', mgrClosed => mgrClosed',
           pc'[Loop] = "bindX" => pc[Loop] = "bindX",
           pc'[Loop] \in {"add", "addX"} => pc[Loop] \in {"add", "addX"},
           pc'[Loop] \in Rebinding => obj'[Loop] \in flag',
           \A t \in Tasks : pc'[t] \in {"stopIn", "stopOut"} => Spared(obj'[t])
    PROVE  LinkInv'
<1>1. UNCHANGED <<count, xudp, inp, outp, stopped, shut>> /\ Fresh' = Fresh
  BY DEF io, Fresh
<1>2. \A s : Spared(s) => Spared(s)'
  BY <1>1 DEF Spared, Normal
<1>3. LinkIds'
  BY <1>1 DEF LinkInv, LinkIds
<1>4. LinkEnds'
  <2>1. \A s \in Sessions : inp[s] \in stopped \/ outp[s] \in shut =>
           (s \in 1..count => s \in flag') /\ Spared(s)'
    BY <1>2 DEF LinkInv, LinkEnds
  <2>2. (\A t \in Tasks : pc[t] \in {"stopIn", "stopOut"} => Spared(obj[t]))'
    BY <1>1 DEF Spared, Normal
  <2> QED
    BY <1>1, <2>1, <2>2 DEF LinkInv, LinkEnds
<1> QED
  BY <1>3, <1>4 DEF LinkInv

\* Frames and ends of the loop that leave the links alone.
LEMMA LinksLoop ==
    ASSUME ServerInv, LinkInv,
           \/ RecvNew \/ RecvXudpNew \/ DispatchFails \/ RebindFirst \/ Deliver
           \/ RecvError \/ AbortMonitor \/ \E s \in Sessions : RecvKeep(s) \/ RecvEnd(s)
    PROVE  LinkInv'
<1>0. DOMAIN pc = Tasks /\ Loop \in Tasks /\ obj \in [Tasks -> 0..MaxSessions]
  BY ServerFacts
<1>1. UNCHANGED <<mgr, ses, io>>
  BY DEF RecvNew, RecvXudpNew, DispatchFails, RebindFirst, Deliver, RecvError, AbortMonitor,
         RecvKeep, RecvEnd, RecvFrame, Step, LoopEnds
<1>2. \E l \in {"dispatch", "dispatchX", "close", "abort", "takeIn", "recv", "done", "deliver"} :
         pc' = [pc EXCEPT ![Loop] = l] /\ (l = "takeIn" => pc[Loop] = "first" /\ obj' = obj)
  BY DEF RecvNew, RecvXudpNew, DispatchFails, RebindFirst, Deliver, RecvError, AbortMonitor,
         RecvKeep, RecvEnd, RecvFrame, Step, Return, LoopEnds, Goto
<1>3. \A t \in Tasks \ {Loop} : pc'[t] = pc[t] /\ obj'[t] = obj[t]
  <2>1. obj' = obj \/ \E o : obj' = [obj EXCEPT ![Loop] = o]
    BY DEF RecvNew, RecvXudpNew, DispatchFails, RebindFirst, Deliver, RecvError, AbortMonitor,
           RecvKeep, RecvEnd, RecvFrame, Step, Return, LoopEnds
  <2> QED
    BY <1>0, <1>2, <2>1
<1>4. /\ pc'[Loop] \notin {"bindX", "add", "addX", "stopIn", "stopOut"}
      /\ pc'[Loop] \in Rebinding => obj'[Loop] \in flag
  BY <1>0, <1>2 DEF LinkInv, LinkEnds, Rebinding
<1>5. \A t \in Tasks : pc'[t] \in {"stopIn", "stopOut"} => Spared(obj'[t])
  BY <1>3, <1>4 DEF LinkInv, LinkEnds
<1> QED
  BY <1>1, <1>4, <1>5, LinksKept DEF mgr, ses

\* The pumps, and the monitor: what it closes, it closes when the manager is closed.
LEMMA LinksOthers ==
    ASSUME ServerInv, LinkInv,
           \/ \E s \in Sessions : \/ Pump(s) \/ ReadChunk(s) \/ ReadEof(s)
                                  \/ WriteFrame(s) \/ WriteEnd(s) \/ WriteFails(s)
           \/ Watching \/ Aborted \/ TakeWriter \/ UNCHANGED vars
    PROVE  LinkInv'
<1>0. /\ DOMAIN pc = Tasks /\ Loop \in Tasks /\ Monitor \in Tasks /\ Sessions \subseteq Tasks
      /\ Loop \notin Sessions /\ Monitor \notin Sessions /\ Loop # Monitor
      /\ obj \in [Tasks -> 0..MaxSessions]
  BY ServerFacts
<1>1. ASSUME NEW s \in Sessions, \/ Pump(s) \/ ReadChunk(s) \/ ReadEof(s)
                                 \/ WriteFrame(s) \/ WriteEnd(s) \/ WriteFails(s)
      PROVE  LinkInv'
  <2>1. /\ UNCHANGED <<mgr, ses, io, obj>>
        /\ \E l \in {"lock", "read", "write", "end", "close"} : pc' = [pc EXCEPT ![s] = l]
    BY <1>1 DEF Pump, LockInput, ReadStop, ReadChunk, ReadEof, WriteFrame, WriteEnd, WriteFails,
                Step, Goto
  <2>2. /\ pc'[Loop] = pc[Loop]
        /\ \A t \in Tasks : pc'[t] \in {"stopIn", "stopOut"} => pc[t] = pc'[t]
    BY <1>0, <2>1
  <2> QED
    BY <2>1, <2>2, LinksKept DEF mgr, ses, LinkInv, LinkEnds
<1>2. CASE Watching \/ Aborted \/ TakeWriter \/ UNCHANGED vars
  <2>1. UNCHANGED <<count, ses, io>> /\ (mgrClosed => mgrClosed')
    BY <1>2 DEF Watching, Watch, Snapshot, Tick, IdleClose, MonitorDone, Sweep, Aborted,
                TakeWriter, vars, base, mgr
  <2>2. /\ \A t \in Tasks \ {Monitor} : pc'[t] = pc[t] /\ obj'[t] = obj[t]
        /\ pc'[Monitor] \in {"stopIn", "stopOut"} => pc' = pc /\ obj' = obj
    <3>1. CASE Snapshot \/ Tick \/ IdleClose \/ MonitorDone
      BY <1>0, <3>1 DEF Snapshot, Tick, IdleClose, MonitorDone, Goto
    <3>2. CASE Sweep \/ Aborted
      BY <1>0, <3>2 DEF Sweep, Aborted, Goto
    <3>3. CASE TakeWriter \/ UNCHANGED vars
      BY <3>3 DEF TakeWriter, vars, base
    <3> QED
      BY <1>2, <3>1, <3>2, <3>3 DEF Watching, Watch
  <2>3. \A t \in Tasks : pc'[t] \in {"stopIn", "stopOut"} => Spared(obj'[t])
    BY <2>2 DEF LinkInv, LinkEnds
  <2>4. pc'[Loop] = pc[Loop] /\ obj'[Loop] = obj[Loop]
    BY <1>0, <2>2
  <2> QED
    BY <2>1, <2>3, <2>4, LinksKept DEF ses, LinkInv, LinkEnds
<1> QED
  BY <1>1, <1>2

\* A step of the loop that only changes the link of the next session: the new
\* link, if any, is nobody else's and works, or the manager is closed.
LEMMA LinksGiven ==
    ASSUME ServerInv, LinkInv, Fresh \in Sessions, NEW i, NEW o,
           UNCHANGED <<mgr, ses, stopped, shut>>,
           inp'[Fresh] = i, outp'[Fresh] = o, i \in 0..Fresh, o \in 0..Fresh,
           \A s \in Sessions \ {Fresh} : /\ inp'[s] \in {inp[s], 0} /\ outp'[s] \in {outp[s], 0}
                                         /\ i # 0 => inp'[s] # i
                                         /\ o # 0 => outp'[s] # o,
           \A s \in 1..count \ flag : inp'[s] = inp[s] /\ outp'[s] = outp[s],
           i \in stopped \/ o \in shut => mgrClosed,
           \A t \in Tasks \ {Loop} : pc'[t] = pc[t] /\ obj'[t] = obj[t],
           pc'[Loop] \notin {"bindX", "stopIn", "stopOut"},
           pc'[Loop] \in {"add", "addX"} => i = Fresh /\ o = Fresh,
           pc'[Loop] \in Rebinding => obj'[Loop] \in flag
    PROVE  LinkInv'
<1>1. /\ UNCHANGED <<count, mgrClosed, flag, xudp>> /\ Fresh' = Fresh
      /\ count \in Nat /\ 1..count \subseteq Sessions /\ Sessions \subseteq Nat \ {0}
      /\ stopped \subseteq Sessions /\ shut \subseteq Sessions
      /\ Fresh \notin 1..count /\ Fresh \in Nat
      /\ inp \in [Sessions -> 0..MaxSessions] /\ outp \in [Sessions -> 0..MaxSessions]
  BY ServerFacts DEF Fresh, mgr, ses, Sessions, ServerInv, MgrInv, ManagerSound, ManagerOK
<1>2. \A s : Spared(s) => Spared(s)'
  BY <1>1 DEF Spared, Normal
<1>3. LinkIds'
  <2>1. \A s \in Sessions : inp'[s] <= s /\ outp'[s] <= s
    BY <1>1 DEF LinkInv, LinkIds
  <2>2. \A s \in Sessions : s > Fresh => inp'[s] = 0 /\ outp'[s] = 0
    BY <1>1 DEF LinkInv, LinkIds
  <2>3. \A s, t \in Sessions : s # t => /\ inp'[s] # 0 => inp'[s] # inp'[t]
                                        /\ outp'[s] # 0 => outp'[s] # outp'[t]
    BY DEF LinkInv, LinkIds
  <2>4. \A s \in 1..count \ flag : inp'[s] # 0 /\ outp'[s] # 0
    BY DEF LinkInv, LinkIds
  <2> QED
    BY <1>1, <2>1, <2>2, <2>3, <2>4 DEF LinkIds
<1>4. LinkEnds'
  <2>1. \A s \in Sessions : inp'[s] \in stopped \/ outp'[s] \in shut =>
           (s \in 1..count => s \in flag) /\ Spared(s)
    BY <1>1 DEF LinkInv, LinkEnds, Spared
  <2>2. (\A t \in Tasks : pc[t] \in {"stopIn", "stopOut"} => Spared(obj[t]))'
    <3>1. \A t \in Tasks : pc'[t] \in {"stopIn", "stopOut"} => Spared(obj'[t])
      BY DEF LinkInv, LinkEnds
    <3> QED
      BY <1>1, <3>1 DEF Spared, Normal
  <2> QED
    BY <1>1, <1>2, <2>1, <2>2 DEF LinkInv, LinkEnds
<1> QED
  BY <1>3, <1>4 DEF LinkInv

\* dispatch, the drop of a link, and the two halves of taking one over.
LEMMA LinksMoved ==
    ASSUME ServerInv, LinkInv,
           Dispatch \/ AddFails \/ RebindFirstFails \/ RebindFails \/ RebindTake
    PROVE  LinkInv'
<1>0. /\ DOMAIN pc = Tasks /\ Loop \in Tasks /\ obj \in [Tasks -> 0..MaxSessions]
      /\ inp \in [Sessions -> 0..MaxSessions] /\ outp \in [Sessions -> 0..MaxSessions]
      /\ count \in Nat /\ 1..count \subseteq Sessions /\ Sessions \subseteq Nat \ {0}
      /\ Fresh = count + 1 /\ Fresh \notin 1..count
      /\ stopped \subseteq 1..count /\ shut \subseteq 1..count
      /\ flag \subseteq 1..count /\ xudp \subseteq 1..count
  BY ServerFacts DEF Fresh, Sessions, LinkInv, LinkEnds
<1>1. Fresh \in Sessions
  BY DEF Dispatch, AddFails, RebindFirstFails, RebindFails, RebindTake, ServerInv, LoopSound,
         Rebinding
<1>2. \A s \in Sessions \ {Fresh} : /\ inp[s] # Fresh /\ outp[s] # Fresh
                                    /\ s \in 1..count \/ (inp[s] = 0 /\ outp[s] = 0)
  BY <1>0, <1>1 DEF LinkInv, LinkIds
<1> USE DEF Rebinding
<1>3. CASE Dispatch
  <2>1. /\ inp' = [inp EXCEPT ![Fresh] = Fresh] /\ outp' = [outp EXCEPT ![Fresh] = Fresh]
        /\ obj' = obj /\ UNCHANGED <<mgr, ses, stopped, shut>>
        /\ \E l \in {"add", "addX"} : pc' = [pc EXCEPT ![Loop] = l]
    BY <1>3 DEF Dispatch, Goto
  <2>2. /\ inp'[Fresh] = Fresh /\ outp'[Fresh] = Fresh
        /\ \A s \in Sessions \ {Fresh} : inp'[s] = inp[s] /\ outp'[s] = outp[s]
    BY <1>0, <1>1, <2>1
  <2>3. /\ pc'[Loop] \in {"add", "addX"} /\ \A t \in Tasks \ {Loop} : pc'[t] = pc[t]
        /\ Fresh \in 0..Fresh /\ Fresh \notin stopped \cup shut
    BY <1>0, <2>1
  <2> QED
    BY <1>0, <1>1, <1>2, <2>1, <2>2, <2>3, LinksGiven
<1>4. CASE AddFails \/ RebindFirstFails \/ RebindFails
  <2>1. /\ inp' = [inp EXCEPT ![Fresh] = 0] /\ outp' = [outp EXCEPT ![Fresh] = 0]
        /\ UNCHANGED <<mgr, ses, stopped, shut>>
        /\ obj' = obj \/ obj' = [obj EXCEPT ![Loop] = 0]
        /\ \E l \in {"abort", "dispatchX"} : pc' = [pc EXCEPT ![Loop] = l]
    BY <1>4 DEF AddFails, RebindFirstFails, RebindFails, Redispatch, LoopEnds, DropLink, Goto
  <2>2. /\ inp'[Fresh] = 0 /\ outp'[Fresh] = 0
        /\ \A s \in Sessions \ {Fresh} : inp'[s] = inp[s] /\ outp'[s] = outp[s]
    BY <1>0, <1>1, <2>1
  <2>3. /\ pc'[Loop] \in {"abort", "dispatchX"}
        /\ \A t \in Tasks \ {Loop} : pc'[t] = pc[t] /\ obj'[t] = obj[t]
        /\ 0 \in 0..Fresh /\ 0 \notin stopped \cup shut
    BY <1>0, <2>1
  <2> QED
    BY <1>0, <1>1, <2>1, <2>2, <2>3, LinksGiven
<1>5. CASE RebindTake
  <2> DEFINE old == obj[Loop]
  <2>1. /\ pc[Loop] \in {"takeIn", "takeOut"} /\ obj' = obj /\ UNCHANGED <<mgr, ses, stopped, shut>>
        /\ \E l \in {"takeOut", "addR"} : pc' = [pc EXCEPT ![Loop] = l]
    BY <1>5 DEF RebindTake, Goto
  <2>2. old \in xudp /\ old \in flag /\ old \in Sessions /\ old # Fresh /\ old \in 1..count
    BY <1>0, <2>1 DEF ServerInv, LoopSound, LinkInv, LinkEnds
  <2>3. ~Normal(old)
    BY <2>2 DEF Normal
  <2>4. inp[old] \in stopped \/ outp[old] \in shut => mgrClosed
    BY <2>2, <2>3 DEF LinkInv, LinkEnds, Spared
  <2>5. inp[Fresh] \in stopped \/ outp[Fresh] \in shut => mgrClosed
    BY <1>0, <1>1 DEF LinkInv, LinkEnds, Spared, Normal
  <2>6. pc'[Loop] \in {"takeOut", "addR"} /\ \A t \in Tasks \ {Loop} : pc'[t] = pc[t]
    BY <1>0, <2>1
  <2> HIDE DEF old
  <2>7. CASE inp' = [inp EXCEPT ![old] = 0, ![Fresh] = inp[old]] /\ outp' = outp
    <3>1. /\ inp'[Fresh] = inp[old] /\ outp'[Fresh] = outp[Fresh] /\ inp'[old] = 0
          /\ \A s \in Sessions \ {Fresh, old} : inp'[s] = inp[s]
      BY <1>0, <1>1, <2>2, <2>7
    <3>2. inp[old] \in 0..Fresh /\ outp[Fresh] \in 0..Fresh
      BY <1>0, <1>1, <2>2 DEF LinkInv, LinkIds
    <3>3. \A s \in Sessions \ {Fresh} : /\ inp[old] # 0 => inp'[s] # inp[old]
                                        /\ outp[Fresh] # 0 => outp'[s] # outp[Fresh]
      BY <1>1, <2>2, <2>7, <3>1 DEF LinkInv, LinkIds
    <3> QED
      BY <1>0, <1>1, <2>1, <2>2, <2>4, <2>5, <2>6, <2>7, <3>1, <3>2, <3>3, LinksGiven DEF old
  <2>8. CASE outp' = [outp EXCEPT ![old] = 0, ![Fresh] = outp[old]] /\ inp' = inp
    <3>1. /\ outp'[Fresh] = outp[old] /\ inp'[Fresh] = inp[Fresh] /\ outp'[old] = 0
          /\ \A s \in Sessions \ {Fresh, old} : outp'[s] = outp[s]
      BY <1>0, <1>1, <2>2, <2>8
    <3>2. outp[old] \in 0..Fresh /\ inp[Fresh] \in 0..Fresh
      BY <1>0, <1>1, <2>2 DEF LinkInv, LinkIds
    <3>3. \A s \in Sessions \ {Fresh} : /\ outp[old] # 0 => outp'[s] # outp[old]
                                        /\ inp[Fresh] # 0 => inp'[s] # inp[Fresh]
      BY <1>1, <2>2, <2>8, <3>1 DEF LinkInv, LinkIds
    <3> QED
      BY <1>0, <1>1, <2>1, <2>2, <2>4, <2>5, <2>6, <2>8, <3>1, <3>2, <3>3, LinksGiven DEF old
  <2> QED
    BY <1>5, <2>7, <2>8 DEF RebindTake, old
<1> QED
  BY <1>3, <1>4, <1>5

\* add: the new session has a link, and it works, since the manager is not closed.
LEMMA LinksAdd == ASSUME ServerInv, LinkInv, Add PROVE LinkInv'
<1> DEFINE n == count + 1
<1>0. /\ DOMAIN pc = Tasks /\ Sessions \subseteq Tasks /\ Loop \in Tasks /\ Loop \notin Sessions
      /\ count \in Nat /\ xudp \subseteq 1..count /\ Sessions \subseteq Nat \ {0}
      /\ Fresh = n /\ 1..n = 1..count \cup {n} /\ n \notin 1..count
  BY ServerFacts DEF Fresh, Sessions
<1>1. /\ pc[Loop] \in {"add", "addX", "addR"} /\ Insert(n)
      /\ pc[Loop] = "addR" => HasLink
      /\ UNCHANGED <<ses, io, obj>>
  BY DEF Add, Fresh
<1>2. n \in Sessions
  BY <1>0, <1>1 DEF ServerInv, LoopSound, Rebinding
<1>3. /\ \A t \in Tasks \ {Loop, n} : pc'[t] = pc[t]
      /\ pc'[Loop] \in {"recv", "bindX"} /\ pc'[n] \in {pc[n], "lock"}
  BY <1>0, <1>2 DEF Add
<1>4. /\ ~mgrClosed /\ ~mgrClosed' /\ count' = n /\ Fresh' = n + 1
      /\ UNCHANGED <<flag, xudp, inp, outp, stopped, shut, obj>>
  BY <1>1 DEF Insert, ses, io, Fresh
<1>5. \A s : Spared(s) => Spared(s)' /\ s # n
  BY <1>0, <1>1, <1>3, <1>4 DEF Spared, Normal
<1>6. inp[n] # 0 /\ outp[n] # 0
  BY <1>0, <1>1, <1>2 DEF HasLink, LinkInv, LinkIds
<1> HIDE DEF n
<1>7. LinkIds'
  <2>1. \A s \in Sessions : s > n + 1 => inp[s] = 0 /\ outp[s] = 0
    BY <1>0, <1>2 DEF LinkInv, LinkIds
  <2>2. \A s \in 1..n \ flag : inp[s] # 0 /\ outp[s] # 0
    BY <1>0, <1>6 DEF LinkInv, LinkIds
  <2> QED
    BY <1>3, <1>4, <2>1, <2>2 DEF LinkInv, LinkIds
<1>8. LinkEnds'
  <2>1. stopped \subseteq 1..n /\ shut \subseteq 1..n
    BY <1>0 DEF LinkInv, LinkEnds
  <2>2. \A s \in Sessions : inp[s] \in stopped \/ outp[s] \in shut =>
           (s \in 1..n => s \in flag) /\ Spared(s)'
    BY <1>0, <1>5 DEF LinkInv, LinkEnds
  <2>3. (\A t \in Tasks : pc[t] \in {"stopIn", "stopOut"} => Spared(obj[t]))'
    <3>1. \A t \in Tasks : pc'[t] \in {"stopIn", "stopOut"} => pc'[t] = pc[t]
      BY <1>3
    <3>2. \A t \in Tasks : pc'[t] \in {"stopIn", "stopOut"} => Spared(obj[t])'
      BY <1>4, <1>5, <3>1 DEF LinkInv, LinkEnds
    <3> QED
      BY <1>4, <3>2
  <2>4. pc'[Loop] \notin Rebinding
    BY <1>3 DEF Rebinding
  <2> QED
    BY <1>4, <2>1, <2>2, <2>3, <2>4 DEF LinkEnds
<1> QED
  BY <1>7, <1>8 DEF LinkInv

\* The new session becomes an XUDP session; whoever closed it before that did so
\* with the manager.
LEMMA LinksBind == ASSUME ServerInv, LinkInv, BindXudp PROVE LinkInv'
<1>0. /\ DOMAIN pc = Tasks /\ Sessions \subseteq Tasks /\ Loop \in Tasks /\ Loop \notin Sessions
      /\ obj \in [Tasks -> 0..MaxSessions]
  BY ServerFacts
<1>1. /\ pc[Loop] = "bindX" /\ xudp' = xudp \cup {count}
      /\ pc' = [pc EXCEPT ![Loop] = "recv", ![count] = "lock"]
      /\ obj' = [obj EXCEPT ![Loop] = 0] /\ UNCHANGED <<mgr, flag, io>>
  BY DEF BindXudp
<1>2. count \in Sessions
  BY <1>1 DEF ServerInv, LoopSound
<1>3. /\ pc'[Loop] = "recv" /\ pc'[count] = "lock"
      /\ \A t \in Tasks \ {Loop, count} : pc'[t] = pc[t] /\ obj'[t] = obj[t]
  BY <1>0, <1>1, <1>2
<1>4. UNCHANGED <<count, mgrClosed, flag, inp, outp, stopped, shut>> /\ Fresh' = Fresh
  BY <1>1 DEF mgr, io, Fresh
<1>5. \A s : Spared(s) => Spared(s)'
  BY <1>1, <1>3, <1>4 DEF Spared, Normal
<1>6. LinkIds'
  BY <1>3, <1>4 DEF LinkInv, LinkIds
<1>7. LinkEnds'
  <2>1. (\A t \in Tasks : pc[t] \in {"stopIn", "stopOut"} => Spared(obj[t]))'
    <3>1. \A t \in Tasks : pc'[t] \in {"stopIn", "stopOut"} => Spared(obj'[t])
      BY <1>3 DEF LinkInv, LinkEnds
    <3>2. pc[Loop] = "bindX" /\ pc'[Loop] = "recv" /\ xudp' = xudp \cup {count}
      BY <1>1, <1>3
    <3> QED
      BY <1>4, <3>1, <3>2 DEF Spared, Normal
  <2>2. pc'[Loop] \notin Rebinding
    BY <1>3 DEF Rebinding
  <2> QED
    BY <1>4, <1>5, <2>1, <2>2 DEF LinkInv, LinkEnds
<1> QED
  BY <1>6, <1>7 DEF LinkInv

\* Session::close ends only the link of a session that is normal or whose manager
\* is closed: while a session waits to become XUDP, only the manager closes it.
LEMMA LinksClose == ASSUME ServerInv, LinkInv, NEW t \in Tasks, Close(t) PROVE LinkInv'
<1> DEFINE back == IF t = Monitor THEN "sweep" ELSE IF t # Loop THEN "done"
                   ELSE IF rebind THEN "first" ELSE "recv"
           s == obj[t]
<1>0. /\ DOMAIN pc = Tasks /\ Loop \in Tasks /\ Monitor \in Tasks /\ Sessions \subseteq Tasks
      /\ Loop \notin Sessions /\ Monitor \notin Sessions /\ Loop # Monitor
      /\ obj \in [Tasks -> 0..MaxSessions] /\ 1..count \subseteq Sessions /\ flag \subseteq 1..count
      /\ inp \in [Sessions -> 0..MaxSessions] /\ outp \in [Sessions -> 0..MaxSessions]
      /\ count \in Nat /\ Sessions \subseteq Nat \ {0} /\ Tasks = Sessions \cup {Loop, Monitor}
  BY ServerFacts DEF Sessions, Tasks
<1>1. SessionClose(t, back, InputFree(s), OutputFree(s))
  BY DEF Close
<1>2. back \in {"sweep", "done", "first", "recv"} /\ (back = "first" => t = Loop)
  BY <1>0
<1>3. ASSUME pc[t] = "close", s \notin xudp PROVE Spared(s)
  <2>1. s \in 1..count
    BY <1>3 DEF ServerInv, MgrInv, TasksSound
  <2>2. CASE t = Monitor
    BY <1>3, <2>2 DEF ServerInv, MgrInv, SweepSound, Spared
  <2>3. CASE t = Loop
    BY <1>3, <2>1, <2>3 DEF Spared, Normal
  <2>4. CASE t \in Sessions
    <3>1. s = t /\ pc[t] # "none"
      BY <1>3, <2>4 DEF ServerInv, MgrInv, TasksSound
    <3>2. ~(pc[Loop] = "bindX" /\ s = count)
      BY <3>1 DEF ServerInv, LoopSound
    <3> QED
      BY <1>3, <2>1, <3>2 DEF Spared, Normal
  <2> QED
    BY <1>0, <2>2, <2>3, <2>4
<1>4. pc[t] \in Stopping => s \in flag
  BY DEF ServerInv, MgrInv, TasksSound
<1>5. ASSUME Return(t, back), s \in flag', UNCHANGED <<count, xudp, io, mgrClosed>>, flag \subseteq flag',
             pc[t] \in {"close", "remove"}
      PROVE  LinkInv'
  <2>1. pc'[t] = back /\ \A u \in Tasks \ {t} : pc'[u] = pc[u] /\ obj'[u] = obj[u]
    BY <1>0, <1>5 DEF Return, Goto
  <2>2. back = "first" => obj'[t] = s
    BY <1>0, <1>5 DEF Return
  <2> HIDE DEF back, s
  <2>3. /\ \A u \in Tasks : pc'[u] \in {"stopIn", "stopOut"} => Spared(obj'[u])
        /\ pc'[Loop] = "bindX" => pc[Loop] = "bindX"
        /\ pc'[Loop] \in {"add", "addX"} => pc[Loop] \in {"add", "addX"}
        /\ pc'[Loop] \in Rebinding => obj'[Loop] \in flag'
    BY <1>0, <1>2, <1>5, <2>1, <2>2 DEF LinkInv, LinkEnds, Rebinding
  <2> QED
    BY <1>5, <2>3, LinksKept
<1>6. CASE CloseSwap(t, back)
  <2>1. CASE s \in flag
    BY <1>5, <1>6, <2>1 DEF CloseSwap, mgr
  <2>2. CASE s \notin flag
    <3>1. /\ UNCHANGED <<mgr, xudp, io, obj>> /\ flag \subseteq flag'
          /\ pc' = [pc EXCEPT ![t] = IF s \in xudp THEN "remove" ELSE "stopIn"]
          /\ pc[t] = "close"
      BY <1>6, <2>2 DEF CloseSwap, Goto
    <3>2. /\ pc'[t] \in {"remove", "stopIn"} /\ (pc'[t] = "stopIn" => s \notin xudp)
          /\ \A u \in Tasks \ {t} : pc'[u] = pc[u]
      BY <1>0, <3>1
    <3>3. \A u \in Tasks : pc'[u] \in {"stopIn", "stopOut"} => Spared(obj'[u])
      BY <1>3, <3>1, <3>2 DEF LinkInv, LinkEnds
    <3>4. /\ pc'[Loop] = "bindX" => pc[Loop] = "bindX"
          /\ pc'[Loop] \in {"add", "addX"} => pc[Loop] \in {"add", "addX"}
          /\ pc'[Loop] \in Rebinding => obj'[Loop] \in flag'
      BY <1>0, <3>1, <3>2 DEF LinkInv, LinkEnds, Rebinding
    <3> QED
      BY <3>1, <3>3, <3>4, LinksKept DEF mgr
  <2> QED
    BY <2>1, <2>2
<1>7. CASE CloseRemove(t, back)
  BY <1>4, <1>5, <1>7 DEF CloseRemove, Stopping, ses
<1>8. CASE CloseInput(t, InputFree(s)) \/ CloseOutput(t, OutputFree(s))
  <2>1. /\ pc[t] \in {"stopIn", "stopOut"} /\ UNCHANGED <<mgr, ses, inp, outp, obj>>
        /\ \E l \in {"stopOut", "remove"} : pc' = [pc EXCEPT ![t] = l]
        /\ \/ stopped' = stopped \cup ({inp[s]} \ {0}) /\ shut' = shut
           \/ shut' = shut \cup ({outp[s]} \ {0}) /\ stopped' = stopped
    BY <1>8 DEF CloseInput, CloseOutput, Goto
  <2>2. s \in flag /\ Spared(s) /\ s \in Sessions /\ s \in 1..count
    BY <1>0, <1>4, <2>1 DEF Stopping, LinkInv, LinkEnds
  <2>3. UNCHANGED <<count, mgrClosed, flag, xudp, inp, outp, obj>> /\ Fresh' = Fresh
    BY <2>1 DEF mgr, ses, Fresh
  <2>4. /\ pc'[t] \in {"stopOut", "remove"} /\ \A u \in Tasks \ {t} : pc'[u] = pc[u]
    BY <1>0, <2>1
  <2>5. /\ pc'[Loop] \in {"bindX", "add", "addX"} \cup Rebinding => pc'[Loop] = pc[Loop]
        /\ pc[Loop] = "bindX" => pc'[Loop] = "bindX"
    BY <1>0, <2>1, <2>4 DEF Rebinding
  <2>6. \A u : Spared(u) => Spared(u)'
    BY <2>3, <2>5 DEF Spared, Normal
  <2> HIDE DEF s
  <2>7. LinkIds'
    BY <2>3, <2>5 DEF LinkInv, LinkIds
  <2>8. \A u \in Sessions : /\ inp[u] \in stopped' => inp[u] \in stopped \/ u = s
                            /\ outp[u] \in shut' => outp[u] \in shut \/ u = s
    BY <2>1, <2>2 DEF LinkInv, LinkIds
  <2>9. stopped' \subseteq 1..count /\ shut' \subseteq 1..count
    <3>1. inp[s] \in 0..count /\ outp[s] \in 0..count
      BY <1>0, <2>2 DEF LinkInv, LinkIds
    <3>2. {inp[s]} \ {0} \subseteq 1..count /\ {outp[s]} \ {0} \subseteq 1..count
      BY <1>0, <3>1
    <3>3. stopped \subseteq 1..count /\ shut \subseteq 1..count
      BY DEF LinkInv, LinkEnds
    <3> QED
      BY <2>1, <3>2, <3>3
  <2>10. \A u \in Sessions : inp[u] \in stopped' \/ outp[u] \in shut' =>
            (u \in 1..count => u \in flag) /\ Spared(u)'
    BY <2>2, <2>6, <2>8 DEF LinkInv, LinkEnds
  <2>11. \A u \in Tasks : pc'[u] \in {"stopIn", "stopOut"} => Spared(obj[u])'
    BY <2>1, <2>4, <2>6 DEF LinkInv, LinkEnds
  <2>12. (\A u \in Tasks : pc[u] \in {"stopIn", "stopOut"} => Spared(obj[u]))'
    BY <2>3, <2>11
  <2>13. LinkEnds'
    BY <2>3, <2>5, <2>9, <2>10, <2>12 DEF LinkInv, LinkEnds, Rebinding
  <2> QED
    BY <2>7, <2>13 DEF LinkInv
<1> QED
  BY <1>1, <1>6, <1>7, <1>8 DEF SessionClose

\* LinkInv holds in every state of the server worker.
LEMMA LinkInvariant == Spec => []LinkInv
<1>1. Init => LinkInv
  <2> SUFFICES ASSUME Init PROVE LinkInv
    OBVIOUS
  <2>1. /\ \A s \in Sessions : inp[s] = 0 /\ outp[s] = 0 /\ s \in Nat
        /\ count = 0 /\ stopped = {} /\ shut = {} /\ \A t \in Tasks : pc[t] \in {"recv", "snap", "none"}
        /\ pc[Loop] = "recv"
    BY TaskFacts DEF Init, SessionInit, Sessions
  <2>2. LinkIds
    BY <2>1 DEF LinkIds
  <2>3. LinkEnds
    BY <2>1 DEF LinkEnds, Rebinding
  <2> QED
    BY <2>2, <2>3 DEF LinkInv
<1>2. ServerInv /\ LinkInv /\ [Next]_vars => LinkInv'
  BY LinksLoop, LinksOthers, LinksMoved, LinksAdd, LinksBind, LinksClose DEF Next, Frames, RecvDone
<1> QED
  BY <1>1, <1>2, ServerInvariant, PTL DEF Spec

\* The upstream link of an open session is its own and works, although the link of
\* an XUDP session is handed on while its old pump and its close still run.
THEOREM LinksWork == Spec => []LinkUsable
<1>1. ServerInv /\ LinkInv => LinkUsable
  <2> SUFFICES ASSUME ServerInv, LinkInv, NEW s \in 1..count \ flag
               PROVE  /\ inp[s] \notin stopped \cup {0} /\ outp[s] \notin shut \cup {0}
                      /\ \A t \in 1..count \ {s} : inp[t] # inp[s] /\ outp[t] # outp[s]
    BY DEF LinkUsable
  <2>1. 1..count \subseteq Sessions
    BY ServerFacts
  <2>2. inp[s] # 0 /\ outp[s] # 0
    BY DEF LinkInv, LinkIds
  <2> QED
    BY <2>1, <2>2 DEF LinkInv, LinkIds, LinkEnds
<1> QED
  BY <1>1, LinkInvariant, ServerInvariant, PTL
=============================================================================
