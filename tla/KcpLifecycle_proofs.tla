------------------------ MODULE KcpLifecycle_proofs ------------------------
(***************************************************************************)
(* Safety of the life of an mKCP connection: of the connection itself, for *)
(* every window size and every set of tasks that run flush_inner; of its   *)
(* place in the listener's table, for every set of ids and every number of *)
(* connections; and of its data updater, for any number of wakers.         *)
(***************************************************************************)
EXTENDS KcpConnection, KcpListener, KcpUpdater, TLAPS

(***************************************************************************)
(* The connection                                                          *)
(***************************************************************************)

\* The tasks, named.
LEMMA TaskNames ==
    /\ {"app", "input", "ping"} \subseteq Tasks
    /\ AllFlushers \subseteq Tasks
    /\ "app" \notin AllFlushers /\ "input" \notin AllFlushers
BY FlushersAssumption DEF Tasks, AllFlushers

\* Every task's load, store and side effects keep the types: the sending window
\* never exceeds one segment more than its size.
LEMMA TypeStep == TypeOK /\ [Next]_vars => TypeOK'
<1> SUFFICES ASSUME TypeOK, [Next]_vars PROVE TypeOK'
  OBVIOUS
<1> USE WindowSizeAssumption, TaskNames DEF TypeOK, conn, history, Ages, Labels, States,
        ReadyToCloseTimeout, TerminatingTimeout, PeerTerminatingTimeout
<1>1. CASE Write
  BY <1>1, TypeOK DEF Write, Goto, Kinds
<1>2. CASE Push
  BY <1>2, TypeOK DEF Push, CanPush, Goto, Kinds
<1>3. CASE Close
  BY <1>3, TypeOK DEF Close, Decide, Kinds
<1>4. CASE Terminate
  BY <1>4, TypeOK DEF Terminate, Kinds
<1>5. CASE Listen
  BY <1>5, TypeOK DEF Listen, Goto, Kinds
<1>6. CASE Receive
  <2>1. late' \in [AllFlushers -> SUBSET Clocks]
    BY <1>6 DEF Receive, Clocks
  <2>2. excused' \in BOOLEAN
    BY <1>6, Zenon DEF Receive
  <2>3. pc' \in [Tasks -> Labels] /\ to' \in [Tasks -> States] /\ cont' \in [Tasks -> Labels]
    BY <1>6 DEF Receive, Decide, Goto
  <2>4. stale' = FALSE /\ segment' \in Kinds
          /\ UNCHANGED <<state, age, unacked, sendClosed, socketClosed, pinging, lost, told>>
    BY <1>6 DEF Receive
  <2>5. QED
    BY <2>1, <2>2, <2>3, <2>4
<1>7. CASE Process
  BY <1>7, TypeOK DEF Process, OnTerminate, Decide, Goto, Kinds
<1>8. CASE Acknowledge
  BY <1>8, TypeOK DEF Acknowledge, Goto, Kinds
<1>9. CASE PingExit
  BY <1>9, TypeOK DEF PingExit, Kinds
<1>10. CASE AgeOn
  BY <1>10, TypeOK DEF AgeOn, Kinds
<1>11. CASE BecomeStale
  BY <1>11, TypeOK DEF BecomeStale, Kinds
<1>12. ASSUME NEW t \in AllFlushers, Flush(t)
      PROVE  TypeOK'
  BY <1>12, TypeOK DEF Flush, Goto, Kinds
<1>13. ASSUME NEW t \in AllFlushers, CheckStale(t)
      PROVE  TypeOK'
  <2>1. late' \in [AllFlushers -> SUBSET Clocks]
    BY <1>13 DEF CheckStale, Keep, Clocks
  <2>2. pc' \in [Tasks -> Labels] /\ to' \in [Tasks -> States] /\ cont' \in [Tasks -> Labels]
    BY <1>13 DEF CheckStale, Silent, Decide, Goto
  <2>3. excused' \in BOOLEAN /\ UNCHANGED <<conn, segment, lost, told>>
    BY <1>13 DEF CheckStale, Silent
  <2>4. QED
    BY <2>1, <2>2, <2>3
<1>14. ASSUME NEW t \in AllFlushers, CheckDrained(t)
      PROVE  TypeOK'
  BY <1>14, TypeOK DEF CheckDrained, Keep, Decide, Goto, Kinds
<1>15. ASSUME NEW t \in AllFlushers, CheckTerminating(t)
      PROVE  TypeOK'
  <2>1. late' \in [AllFlushers -> SUBSET Clocks]
    BY <1>15 DEF CheckTerminating, Keep, Clocks
  <2>2. pc' \in [Tasks -> Labels] /\ to' \in [Tasks -> States] /\ cont' \in [Tasks -> Labels]
    BY <1>15 DEF CheckTerminating, Elapsed, Decide, Goto
  <2>3. told' \in BOOLEAN /\ UNCHANGED <<conn, segment, excused, lost>>
    BY <1>15 DEF CheckTerminating, Elapsed
  <2>4. QED
    BY <2>1, <2>2, <2>3
<1>16. ASSUME NEW t \in AllFlushers, CheckClosing(t)
      PROVE  TypeOK'
  BY <1>16, TypeOK DEF CheckClosing, Elapsed, Keep, Decide, Goto, Kinds
<1>17. ASSUME NEW t \in Tasks, Store(t)
      PROVE  TypeOK'
  BY <1>17, TypeOK DEF Store, Kinds
<1>18. ASSUME NEW t \in Tasks, Effects(t)
      PROVE  TypeOK'
  <2>1. lost' \in BOOLEAN /\ sendClosed' \in BOOLEAN /\ socketClosed' \in BOOLEAN
          /\ pinging' \in BOOLEAN
    <3>1. CASE to[t] = "ReadyToClose"
      BY <1>18, <3>1, Zenon DEF Effects
    <3>2. CASE to[t] # "ReadyToClose"
      BY <1>18, <3>2, Zenon DEF Effects
    <3>3. QED  BY <3>1, <3>2
  <2>2. unacked' \in 0 .. WindowSize + 1 /\ age' \in Ages
    BY <1>18 DEF Effects
  <2>3. pc' \in [Tasks -> Labels] /\ to' \in [Tasks -> States] /\ cont' \in [Tasks -> Labels]
    BY <1>18 DEF Effects, Return
  <2>4. UNCHANGED <<state, stale, segment, excused, told>>
    BY <1>18 DEF Effects
  <2>5. late' \in [AllFlushers -> SUBSET Clocks]
    BY <1>18 DEF Effects, Stamp, Clocks
  <2>6. QED
    BY <2>1, <2>2, <2>3, <2>4, <2>5
<1>19. CASE UNCHANGED vars
  BY <1>19, TypeOK DEF Kinds, vars, conn, history
<1>20. QED
  BY <1>1, <1>2, <1>3, <1>4, <1>5, <1>6, <1>7, <1>8, <1>9, <1>10, <1>11,
     <1>12, <1>13, <1>14, <1>15, <1>16, <1>17, <1>18, <1>19 DEF Next, InputStep, FlushStep

\* A connection's state, clocks and tasks keep their types.
THEOREM TypeCorrect == Spec => []TypeOK
<1>1. Init => TypeOK
  <2> SUFFICES ASSUME Init PROVE TypeOK
    OBVIOUS
  <2>1. unacked \in 0 .. WindowSize + 1 /\ age \in Ages
    BY WindowSizeAssumption DEF Init, Ages, ReadyToCloseTimeout
  <2>2. pc \in [Tasks -> Labels] /\ to \in [Tasks -> States] /\ cont \in [Tasks -> Labels]
    BY DEF Init, Labels, States
  <2>3. state \in States /\ segment \in Kinds
    BY DEF Init, States, Kinds
  <2>4. late \in [AllFlushers -> SUBSET Clocks]
    BY DEF Init
  <2>5. QED
    BY <2>1, <2>2, <2>3, <2>4 DEF Init, TypeOK
<1>2. TypeOK /\ [Next]_vars => TypeOK'
  BY TypeStep
<1>3. QED
  BY <1>1, <1>2, PTL DEF Spec

\* Whoever stores Terminated is still to run its side effects, or has.
LEMMA ReleaseStep == TypeOK /\ TerminatedReleases /\ [Next]_vars => TerminatedReleases'
<1> SUFFICES ASSUME TypeOK, TerminatedReleases, [Next]_vars PROVE TerminatedReleases'
  OBVIOUS
<1> USE TaskNames DEF TypeOK, TerminatedReleases, conn, history
<1>1. CASE Write
  BY <1>1, TaskNames DEF Write, Goto, Labels
<1>2. CASE Push
  BY <1>2, TaskNames DEF Push, CanPush, Goto, Labels
<1>3. CASE Close
  BY <1>3, TaskNames DEF Close, Decide, Labels
<1>4. CASE Terminate
  BY <1>4, TaskNames DEF Terminate, Labels
<1>5. CASE Listen
  BY <1>5, TaskNames DEF Listen, Goto, Labels
<1>6. CASE Receive
  BY <1>6, TaskNames DEF Receive, Decide, Goto, Kinds, Labels
<1>7. CASE Process
  BY <1>7, TaskNames DEF Process, OnTerminate, Decide, Goto, Labels
<1>8. CASE Acknowledge
  BY <1>8, TaskNames DEF Acknowledge, Goto, Kinds, Labels
<1>9. CASE PingExit
  BY <1>9, TaskNames DEF PingExit, Labels
<1>10. CASE AgeOn
  BY <1>10, TaskNames DEF AgeOn, Labels
<1>11. CASE BecomeStale
  BY <1>11, TaskNames DEF BecomeStale, Labels
<1>12. ASSUME NEW t \in AllFlushers, Flush(t)
      PROVE  TerminatedReleases'
  BY <1>12, TaskNames DEF Flush, Goto, Labels
<1>13. ASSUME NEW t \in AllFlushers, CheckStale(t)
      PROVE  TerminatedReleases'
  BY <1>13, TaskNames DEF CheckStale, Silent, Keep, Decide, Goto, Labels
<1>14. ASSUME NEW t \in AllFlushers, CheckDrained(t)
      PROVE  TerminatedReleases'
  BY <1>14, TaskNames DEF CheckDrained, Keep, Decide, Goto, Labels
<1>15. ASSUME NEW t \in AllFlushers, CheckTerminating(t)
      PROVE  TerminatedReleases'
  BY <1>15, TaskNames DEF CheckTerminating, Elapsed, Keep, Decide, Goto, Labels
<1>16. ASSUME NEW t \in AllFlushers, CheckClosing(t)
      PROVE  TerminatedReleases'
  BY <1>16, TaskNames DEF CheckClosing, Elapsed, Keep, Decide, Goto, Labels
<1>17. ASSUME NEW t \in Tasks, Store(t)
      PROVE  TerminatedReleases'
  BY <1>17, TaskNames DEF Store, Labels
<1>18. ASSUME NEW t \in Tasks, Effects(t)
      PROVE  TerminatedReleases'
  BY <1>18, TaskNames DEF Effects, Stamp, Return, Labels
<1>19. CASE UNCHANGED vars
  BY <1>19, TaskNames DEF Labels, vars, conn, history
<1>20. QED
  BY <1>1, <1>2, <1>3, <1>4, <1>5, <1>6, <1>7, <1>8, <1>9, <1>10, <1>11,
     <1>12, <1>13, <1>14, <1>15, <1>16, <1>17, <1>18, <1>19 DEF Next, InputStep, FlushStep

\* A connection whose state is Terminated has closed its socket and released its
\* workers, or the task that terminated it is about to.
THEOREM Released == Spec => []TerminatedReleases
<1>1. Init => TerminatedReleases
  BY DEF Init, TerminatedReleases
<1>2. TypeOK /\ TerminatedReleases /\ [Next]_vars => TerminatedReleases'
  BY ReleaseStep
<1>3. QED
  BY <1>1, <1>2, TypeCorrect, PTL DEF Spec

\* Every path to Terminated goes through a Terminate sent or received.
LEMMA ToldStep == TypeOK /\ ToldInv /\ [Next]_vars => ToldInv'
<1> SUFFICES ASSUME TypeOK, ToldInv, [Next]_vars PROVE ToldInv'
  OBVIOUS
<1> USE TaskNames DEF TypeOK, ToldInv, PeerTold, Pending, conn, history
<1>1. CASE Write
  BY <1>1, TaskNames DEF Write, Goto, Labels
<1>2. CASE Push
  BY <1>2, TaskNames DEF Push, CanPush, Goto, Labels
<1>3. CASE Close
  BY <1>3, TaskNames DEF Close, Decide, Labels
<1>4. CASE Terminate
  BY <1>4, TaskNames DEF Terminate, Labels
<1>5. CASE Listen
  BY <1>5, TaskNames DEF Listen, Goto, Labels
<1>6. CASE Receive
  BY <1>6, TaskNames DEF Receive, Decide, Goto, Kinds, Labels
<1>7. CASE Process
  BY <1>7, TaskNames DEF Process, OnTerminate, Decide, Goto, Labels
<1>8. CASE Acknowledge
  BY <1>8, TaskNames DEF Acknowledge, Goto, Kinds, Labels
<1>9. CASE PingExit
  BY <1>9, TaskNames DEF PingExit, Labels
<1>10. CASE AgeOn
  BY <1>10, TaskNames DEF AgeOn, Labels
<1>11. CASE BecomeStale
  BY <1>11, TaskNames DEF BecomeStale, Labels
<1>12. ASSUME NEW t \in AllFlushers, Flush(t)
      PROVE  ToldInv'
  BY <1>12, TaskNames DEF Flush, Goto, Labels
<1>13. ASSUME NEW t \in AllFlushers, CheckStale(t)
      PROVE  ToldInv'
  BY <1>13, TaskNames DEF CheckStale, Silent, Keep, Decide, Goto, Labels
<1>14. ASSUME NEW t \in AllFlushers, CheckDrained(t)
      PROVE  ToldInv'
  BY <1>14, TaskNames DEF CheckDrained, Keep, Decide, Goto, Labels
<1>15. ASSUME NEW t \in AllFlushers, CheckTerminating(t)
      PROVE  ToldInv'
  BY <1>15, TaskNames DEF CheckTerminating, Elapsed, Keep, Decide, Goto, Labels
<1>16. ASSUME NEW t \in AllFlushers, CheckClosing(t)
      PROVE  ToldInv'
  BY <1>16, TaskNames DEF CheckClosing, Elapsed, Keep, Decide, Goto, Labels
<1>17. ASSUME NEW t \in Tasks, Store(t)
      PROVE  ToldInv'
  BY <1>17, TaskNames DEF Store, Labels
<1>18. ASSUME NEW t \in Tasks, Effects(t)
      PROVE  ToldInv'
  BY <1>18, TaskNames DEF Effects, Stamp, Return, Labels
<1>19. CASE UNCHANGED vars
  BY <1>19, TaskNames DEF Labels, vars, conn, history
<1>20. QED
  BY <1>1, <1>2, <1>3, <1>4, <1>5, <1>6, <1>7, <1>8, <1>9, <1>10, <1>11,
     <1>12, <1>13, <1>14, <1>15, <1>16, <1>17, <1>18, <1>19 DEF Next, InputStep, FlushStep

\* No connection terminates before a Terminate has been exchanged.
THEOREM Told == Spec => []PeerTold
<1>1. Init => ToldInv
  BY DEF Init, ToldInv, PeerTold, Pending
<1>2. TypeOK /\ ToldInv /\ [Next]_vars => ToldInv'
  BY ToldStep
<1>3. ToldInv => PeerTold
  BY DEF ToldInv
<1>4. QED
  BY <1>1, <1>2, <1>3, TypeCorrect, PTL DEF Spec

\* What makes a local close lossless survives every step of every task.
LEMMA DataStep == TypeOK /\ DataInv /\ [Next]_vars => DataInv'
<1> SUFFICES ASSUME TypeOK, DataInv, [Next]_vars PROVE DataInv'
  OBVIOUS
<1> USE TaskNames DEF TypeOK, DataInv, LocalCloseKeepsData, Pending, conn, history
<1>1. CASE Write
  BY <1>1, TaskNames DEF Write, Goto, Labels
<1>2. CASE Push
  BY <1>2, TaskNames DEF Push, CanPush, Goto, Labels
<1>3. CASE Close
  BY <1>3, TaskNames DEF Close, Decide, Labels
<1>4. CASE Terminate
  BY <1>4, TaskNames DEF Terminate, Labels
<1>5. CASE Listen
  BY <1>5, TaskNames DEF Listen, Goto, Labels
<1>6. CASE Receive
  <2>1. LocalCloseKeepsData' /\ UNCHANGED <<state, unacked>> /\ pc["input"] = "recv"
    BY <1>6 DEF Receive
  <2>2. \A u \in Tasks \ {"input"} : pc'[u] = pc[u] /\ to'[u] = to[u] /\ cont'[u] = cont[u]
    BY <1>6 DEF Receive, Decide, Goto
  <2>3. PICK close \in BOOLEAN :
          /\ \/ close /\ state = "ReadyToClose" /\ Decide("input", "Terminating", "process")
             \/ close /\ state = "Active" /\ Decide("input", "PeerClosed", "process")
             \/ ~(close /\ state \in {"Active", "ReadyToClose"}) /\ Goto("input", "process")
          /\ excused' = (excused \/ close \/ segment' = "terminate")
    BY <1>6 DEF Receive
  <2>4. excused => excused'
    BY <2>3, Zenon
  <2>5. segment' = "terminate" => excused'
    BY <2>3, Zenon
  <2>6. CASE close
    <3>1. excused'
      BY <2>3, <2>6, Zenon
    <3>2. /\ Pending("input")' => to'["input"] # "Active"
          /\ cont'["input"] \in {cont["input"], "process"}
      BY <2>1, <2>3 DEF Decide, Goto
    <3>3. QED
      BY <2>1, <2>2, <3>1, <3>2
  <2>7. CASE ~close
    <3>1. Goto("input", "process")
      BY <2>3, <2>7
    <3>2. ~Pending("input")' /\ cont' = cont
      BY <3>1 DEF Goto
    <3>3. QED
      BY <2>1, <2>2, <2>4, <2>5, <3>2
  <2>8. QED
    BY <2>6, <2>7
<1>7. CASE Process
  <2>1. LocalCloseKeepsData' /\ UNCHANGED <<state, unacked, segment, excused>>
    BY <1>7 DEF Process
  <2>2. /\ pc["input"] = "process" /\ pc'["input"] # "process"
        /\ cont'["input"] \in {cont["input"], "next"}
    BY <1>7 DEF Process, Decide, Goto
  <2>3. \A u \in Tasks \ {"input"} : pc'[u] = pc[u] /\ to'[u] = to[u] /\ cont'[u] = cont[u]
    BY <1>7 DEF Process, Decide, Goto
  <2>4. CASE segment = "terminate"
    <3>1. excused'
      BY <2>1, <2>2, <2>4
    <3>2. Pending("input")' => to'["input"] # "Active"
      BY <1>7 DEF Process, OnTerminate, Decide, Goto
    <3>3. QED
      BY <2>1, <2>2, <2>3, <3>1, <3>2
  <2>5. CASE segment # "terminate"
    <3>1. ~Pending("input")'
      BY <1>7, <2>5 DEF Process, Goto
    <3>2. QED
      BY <2>1, <2>2, <2>3, <2>5, <3>1
  <2>6. QED
    BY <2>4, <2>5
<1>8. CASE Acknowledge
  BY <1>8, TaskNames DEF Acknowledge, Goto, Kinds, Labels
<1>9. CASE PingExit
  BY <1>9, TaskNames DEF PingExit, Labels
<1>10. CASE AgeOn
  BY <1>10, TaskNames DEF AgeOn, Labels
<1>11. CASE BecomeStale
  BY <1>11, TaskNames DEF BecomeStale, Labels
<1>12. ASSUME NEW t \in AllFlushers, Flush(t)
      PROVE  DataInv'
  BY <1>12, TaskNames DEF Flush, Goto, Labels
<1>13. ASSUME NEW t \in AllFlushers, CheckStale(t)
      PROVE  DataInv'
  BY <1>13, TaskNames DEF CheckStale, Silent, Keep, Decide, Goto, Labels
<1>14. ASSUME NEW t \in AllFlushers, CheckDrained(t)
      PROVE  DataInv'
  BY <1>14, TaskNames DEF CheckDrained, Keep, Decide, Goto, Labels
<1>15. ASSUME NEW t \in AllFlushers, CheckTerminating(t)
      PROVE  DataInv'
  BY <1>15, TaskNames DEF CheckTerminating, Elapsed, Keep, Decide, Goto, Labels
<1>16. ASSUME NEW t \in AllFlushers, CheckClosing(t)
      PROVE  DataInv'
  BY <1>16, TaskNames DEF CheckClosing, Elapsed, Keep, Decide, Goto, Labels
<1>17. ASSUME NEW t \in Tasks, Store(t)
      PROVE  DataInv'
  BY <1>17, TaskNames DEF Store, Labels
<1>18. ASSUME NEW t \in Tasks, Effects(t)
      PROVE  DataInv'
  <2>1. pc[t] = "effects" /\ UNCHANGED <<state, segment, excused, told>>
    BY <1>18 DEF Effects
  <2>2. pc'[t] = cont[t] /\ \A u \in Tasks \ {t} :
          pc'[u] = pc[u] /\ to'[u] = to[u] /\ cont'[u] = cont[u]
    BY <1>18 DEF Effects, Return
  <2>3. to'[t] = "Active" /\ cont'[t] = "idle"
    BY <1>18 DEF Effects, Return
  <2>4. LocalCloseKeepsData'
    <3>1. CASE to[t] = "ReadyToClose"
      BY <1>18, <3>1 DEF Effects
    <3>2. CASE to[t] # "ReadyToClose" /\ ~excused
      <4>1. unacked = 0 /\ ~lost
        BY <2>1, <3>2
      <4>2. ~(unacked > 0)
        BY <4>1
      <4>3. ~lost'
        BY <1>18, <3>2, <4>1, <4>2, Zenon DEF Effects
      <4>4. QED  BY <4>3
    <3>3. CASE to[t] # "ReadyToClose" /\ excused
      BY <1>18, <3>3, Zenon DEF Effects
    <3>4. QED  BY <3>1, <3>2, <3>3
  <2>5. unacked' \in {unacked, 0}
    BY <1>18 DEF Effects
  <2>6. QED
    BY <2>1, <2>2, <2>3, <2>4, <2>5 DEF Labels
<1>19. CASE UNCHANGED vars
  BY <1>19, TaskNames DEF Labels, vars, conn, history
<1>20. QED
  BY <1>1, <1>2, <1>3, <1>4, <1>5, <1>6, <1>7, <1>8, <1>9, <1>10, <1>11,
     <1>12, <1>13, <1>14, <1>15, <1>16, <1>17, <1>18, <1>19 DEF Next, InputStep, FlushStep

\* A segment that write() accepted is discarded unacknowledged only after the
\* remote end closed, a timeout or a shutdown.
THEOREM DataKept == Spec => []LocalCloseKeepsData
<1>1. Init => DataInv
  BY DEF Init, DataInv, LocalCloseKeepsData, Pending
<1>2. TypeOK /\ DataInv /\ [Next]_vars => DataInv'
  BY DataStep
<1>3. DataInv => LocalCloseKeepsData
  BY DEF DataInv
<1>4. QED
  BY <1>1, <1>2, <1>3, TypeCorrect, PTL DEF Spec

(***************************************************************************)
(* The session table of the listener                                       *)
(***************************************************************************)

\* Every operation of the listener and of its connections keeps the types.
LEMMA ListenerTypeStep == ListenerTypeOK /\ [ListenerNext]_listenerVars => ListenerTypeOK'
<1> SUFFICES ASSUME ListenerTypeOK, [ListenerNext]_listenerVars PROVE ListenerTypeOK'
  OBVIOUS
<1> USE MaxConnsAssumption DEF ListenerTypeOK, Made, Conns, None, Callers
<1>1. CASE HubReceive
  BY <1>1 DEF HubReceive, Listed
<1>2. CASE InputDone
  BY <1>2 DEF InputDone, Listed
<1>3. CASE CloseListener
  BY <1>3 DEF CloseListener, Listed
<1>4. ASSUME NEW i \in Ids, OnReceive(i)
      PROVE  ListenerTypeOK'
  <2>1. CASE Found(i)
    BY <1>4, <2>1 DEF OnReceive, Found, Listed
  <2>2. CASE Create(i)
    <3>1. made' = made + 1 /\ made' \in 0 .. MaxConns /\ Made \subseteq Made'
      BY <2>2 DEF Create
    <3>2. made' \in Conns /\ made' \in Made'
      BY <3>1
    <3>3. idOf' \in [Conns -> Ids \cup {None}]
      BY <2>2, <3>2 DEF Create
    <3>4. table' \in [Ids -> Made' \cup {None}]
      BY <2>2, <3>1, <3>2 DEF Create
    <3>5. held' \subseteq Made' /\ input' \in Made'
      BY <2>2, <3>1, <3>2 DEF Create
    <3>6. UNCHANGED <<drained, closed, ended, peerClosed, freed, calls, served, stuck>> /\ packet' = FALSE
      BY <1>4 DEF OnReceive
    <3>7. calls' \subseteq Made' \X Callers
      BY <3>1, <3>6
    <3>8. QED
      BY <3>1, <3>3, <3>4, <3>5, <3>6, <3>7
  <2>3. CASE Ignore(i)
    BY <1>4, <2>3 DEF OnReceive, Ignore, Listed
  <2>4. QED
    BY <1>4, <2>1, <2>2, <2>3 DEF OnReceive
<1>5. ASSUME NEW c \in Conns, Shutdown(c)
      PROVE  ListenerTypeOK'
  BY <1>5 DEF Shutdown, Call, Listed
<1>6. ASSUME NEW c \in Conns, AppDrop(c)
      PROVE  ListenerTypeOK'
  BY <1>6 DEF AppDrop, Listed
<1>7. ASSUME NEW c \in Conns, Terminated(c)
      PROVE  ListenerTypeOK'
  BY <1>7 DEF Terminated, Call, Listed
<1>8. ASSUME NEW c \in Conns, Free(c)
      PROVE  ListenerTypeOK'
  BY <1>8 DEF Free, Call, Listed
<1>9. ASSUME NEW c \in Conns, TerminateDrained(c)
      PROVE  ListenerTypeOK'
  BY <1>9 DEF TerminateDrained, Call, Listed
<1>10. ASSUME NEW c \in Conns, NEW who \in Callers, Remove(c, who)
      PROVE  ListenerTypeOK'
  BY <1>10 DEF Remove, Listed
<1>11. CASE UNCHANGED listenerVars
  BY <1>11 DEF listenerVars, Listed
<1>12. QED
  BY <1>1, <1>2, <1>3, <1>4, <1>5, <1>6, <1>7, <1>8, <1>9, <1>10, <1>11 DEF ListenerNext

\* The table, the references and the calls under way keep their types.
THEOREM ListenerTypeCorrect == ListenerSpec => []ListenerTypeOK
<1>1. ListenerInit => ListenerTypeOK
  <2> SUFFICES ASSUME ListenerInit PROVE ListenerTypeOK
    OBVIOUS
  <2>1. made \in 0 .. MaxConns /\ Made = {}
    BY MaxConnsAssumption DEF ListenerInit, Made
  <2>2. idOf \in [Conns -> Ids \cup {None}] /\ table \in [Ids -> Made \cup {None}]
    BY DEF ListenerInit
  <2>3. QED
    BY <2>1, <2>2 DEF ListenerInit, ListenerTypeOK
<1>2. QED
  BY <1>1, ListenerTypeStep, PTL DEF ListenerSpec

\* A session is listed under its own id alone, so that Remove finds it there.
OwnId == \A c \in Made, i \in Ids : table[i] = c => idOf[c] = i

LEMMA OwnIdStep == ListenerTypeOK /\ OwnId /\ [ListenerNext]_listenerVars => OwnId'
<1> SUFFICES ASSUME ListenerTypeOK, OwnId, [ListenerNext]_listenerVars PROVE OwnId'
  OBVIOUS
<1> USE MaxConnsAssumption DEF ListenerTypeOK, OwnId, Listed, Made, Conns, None
<1>1. CASE HubReceive
  BY <1>1 DEF HubReceive
<1>2. CASE InputDone
  BY <1>2 DEF InputDone
<1>3. CASE CloseListener
  BY <1>3 DEF CloseListener
<1>4. ASSUME NEW i \in Ids, OnReceive(i)
      PROVE  OwnId'
  <2>1. CASE Found(i)
    BY <1>4, <2>1 DEF OnReceive, Found
  <2>2. CASE Create(i)
    BY <1>4, <2>2 DEF OnReceive, Create
  <2>3. CASE Ignore(i)
    BY <1>4, <2>3 DEF OnReceive, Ignore
  <2>4. QED
    BY <1>4, <2>1, <2>2, <2>3 DEF OnReceive
<1>5. ASSUME NEW c \in Conns, Shutdown(c)
      PROVE  OwnId'
  BY <1>5 DEF Shutdown, Call
<1>6. ASSUME NEW c \in Conns, AppDrop(c)
      PROVE  OwnId'
  BY <1>6 DEF AppDrop
<1>7. ASSUME NEW c \in Conns, Terminated(c)
      PROVE  OwnId'
  BY <1>7 DEF Terminated, Call
<1>8. ASSUME NEW c \in Conns, Free(c)
      PROVE  OwnId'
  BY <1>8 DEF Free, Call
<1>9. ASSUME NEW c \in Conns, TerminateDrained(c)
      PROVE  OwnId'
  BY <1>9 DEF TerminateDrained, Call
<1>10. ASSUME NEW c \in Conns, NEW who \in Callers, Remove(c, who)
      PROVE  OwnId'
  BY <1>10 DEF Remove
<1>11. CASE UNCHANGED listenerVars
  BY <1>11 DEF listenerVars
<1>12. QED
  BY <1>1, <1>2, <1>3, <1>4, <1>5, <1>6, <1>7, <1>8, <1>9, <1>10, <1>11 DEF ListenerNext

\* A closer that has run has unlisted its connection, and nothing lists it again.
LEMMA UnlistedStep ==
    ListenerTypeOK /\ OwnId /\ ClosedUnlisted /\ [ListenerNext]_listenerVars => ClosedUnlisted'
<1> SUFFICES ASSUME ListenerTypeOK, OwnId, ClosedUnlisted, [ListenerNext]_listenerVars PROVE ClosedUnlisted'
  OBVIOUS
<1> USE MaxConnsAssumption DEF ListenerTypeOK, OwnId, ClosedUnlisted, Listed, Made, Conns, None
<1>1. CASE HubReceive
  BY <1>1 DEF HubReceive
<1>2. CASE InputDone
  BY <1>2 DEF InputDone
<1>3. CASE CloseListener
  BY <1>3 DEF CloseListener
<1>4. ASSUME NEW i \in Ids, OnReceive(i)
      PROVE  ClosedUnlisted'
  <2>1. CASE Found(i)
    BY <1>4, <2>1 DEF OnReceive, Found
  <2>2. CASE Create(i)
    BY <1>4, <2>2 DEF OnReceive, Create
  <2>3. CASE Ignore(i)
    BY <1>4, <2>3 DEF OnReceive, Ignore
  <2>4. QED
    BY <1>4, <2>1, <2>2, <2>3 DEF OnReceive
<1>5. ASSUME NEW c \in Conns, Shutdown(c)
      PROVE  ClosedUnlisted'
  BY <1>5 DEF Shutdown, Call
<1>6. ASSUME NEW c \in Conns, AppDrop(c)
      PROVE  ClosedUnlisted'
  BY <1>6 DEF AppDrop
<1>7. ASSUME NEW c \in Conns, Terminated(c)
      PROVE  ClosedUnlisted'
  BY <1>7 DEF Terminated, Call
<1>8. ASSUME NEW c \in Conns, Free(c)
      PROVE  ClosedUnlisted'
  BY <1>8 DEF Free, Call
<1>9. ASSUME NEW c \in Conns, TerminateDrained(c)
      PROVE  ClosedUnlisted'
  BY <1>9 DEF TerminateDrained, Call
<1>10. ASSUME NEW c \in Conns, NEW who \in Callers, Remove(c, who)
      PROVE  ClosedUnlisted'
  BY <1>10 DEF Remove
<1>11. CASE UNCHANGED listenerVars
  BY <1>11 DEF listenerVars
<1>12. QED
  BY <1>1, <1>2, <1>3, <1>4, <1>5, <1>6, <1>7, <1>8, <1>9, <1>10, <1>11 DEF ListenerNext

\* No packet is routed to a connection whose closer has run.
THEOREM Unlisted == ListenerSpec => []ClosedUnlisted
<1>1. ListenerInit => OwnId /\ ClosedUnlisted
  BY DEF ListenerInit, OwnId, ClosedUnlisted, Made
<1>2. QED
  BY <1>1, OwnIdStep, UnlistedStep, ListenerTypeCorrect, PTL DEF ListenerSpec

(***************************************************************************)
(* The data updater.  OneTask is inductive with the types: a waker that saw *)
(* running clear looks again when it swaps the flag.                       *)
(***************************************************************************)

\* One step keeps the types: only Produce makes anything fresh, and only what
\* is not fresh is acknowledged.
LEMMA UpdaterTypeStep == UpdaterTypeOK /\ [UpdaterNext]_updaterVars => UpdaterTypeOK'
<1> SUFFICES ASSUME UpdaterTypeOK, [UpdaterNext]_updaterVars PROVE UpdaterTypeOK'
  OBVIOUS
<1> USE DEF UpdaterTypeOK
<1>1. ASSUME NEW w \in Wakers, Produce(w) \/ WakeUpArc(w) \/ TrySpawn(w) PROVE UpdaterTypeOK'
  <2>1. CASE Produce(w)
    BY <2>1 DEF Produce
  <2>2. CASE WakeUpArc(w)
    <3>1. waker' \in [Wakers -> {"idle", "wake", "spawn"}] /\ UNCHANGED <<work, fresh, closing, running, task>>
      BY <2>2 DEF WakeUpArc
    <3>2. missed' \in BOOLEAN
      BY <2>2 DEF WakeUpArc, LeaveToTask
    <3> QED
      BY <3>1, <3>2
  <2>3. CASE TrySpawn(w)
    <3>1. waker' \in [Wakers -> {"idle", "wake", "spawn"}]
      BY <2>3 DEF TrySpawn
    <3>2. running' \in BOOLEAN
      BY <2>3 DEF TrySpawn
    <3>3. task' \in [Slots -> {"none", "start", "check", "update", "tick", "exit"}]
      BY <2>3 DEF TrySpawn, Spawn
    <3>4. missed' \in BOOLEAN
      BY <2>3 DEF TrySpawn, LeaveToTask
    <3>5. UNCHANGED <<work, fresh, closing>>
      BY <2>3 DEF TrySpawn
    <3> QED
      BY <3>1, <3>2, <3>3, <3>4, <3>5
  <2> QED
    BY <1>1, <2>1, <2>2, <2>3
<1>2. ASSUME NEW k \in Slots, TaskStep(k) PROVE UpdaterTypeOK'
  <2>1. task' \in [Slots -> {"none", "start", "check", "update", "tick", "exit"}]
    BY <1>2 DEF TaskStep, TaskStart, TaskCheck, TaskUpdate, TaskTick, TaskExit, Step
  <2>2. UNCHANGED <<work, closing, waker>>
    BY <1>2 DEF TaskStep, TaskStart, TaskCheck, TaskUpdate, TaskTick, TaskExit
  <2>3. running' \in BOOLEAN /\ missed' \in BOOLEAN
    BY <1>2 DEF TaskStep, TaskStart, TaskCheck, TaskUpdate, TaskTick, TaskExit
  <2>4. fresh' = FALSE \/ fresh' = fresh
    BY <1>2 DEF TaskStep, TaskStart, TaskCheck, TaskUpdate, TaskTick, TaskExit
  <2>5. fresh' \in BOOLEAN /\ work' \in BOOLEAN /\ closing' \in BOOLEAN
    BY <2>2, <2>4
  <2>6. CASE fresh' = FALSE
    BY <2>1, <2>2, <2>3, <2>5, <2>6
  <2>7. CASE fresh' = fresh
    BY <2>1, <2>2, <2>3, <2>5, <2>7
  <2> QED
    BY <2>4, <2>6, <2>7
<1>3. CASE PingFlush \/ Acknowledged \/ BeginClosing
  <2>1. UNCHANGED <<running, waker, task>>
    BY <1>3 DEF PingFlush, Acknowledged, BeginClosing
  <2>2. work' \in BOOLEAN /\ fresh' \in BOOLEAN /\ closing' \in BOOLEAN /\ missed' \in BOOLEAN
    BY <1>3 DEF PingFlush, Acknowledged, BeginClosing
  <2>3. fresh' => work'
    BY <1>3 DEF PingFlush, Acknowledged, BeginClosing
  <2> QED
    BY <2>1, <2>2, <2>3
<1>4. CASE UNCHANGED updaterVars
  BY <1>4 DEF updaterVars
<1> QED
  BY <1>1, <1>2, <1>3, <1>4 DEF UpdaterNext

\* The state of the updater keeps its types, and what was never flushed is seen
\* by update_necessary, for every number of wakers.
THEOREM UpdaterTypeCorrect == UpdaterSpec => []UpdaterTypeOK
<1>1. UpdaterInit => UpdaterTypeOK
  BY DEF UpdaterInit, UpdaterTypeOK
<1> QED
  BY <1>1, UpdaterTypeStep, PTL DEF UpdaterSpec

\* However many wakers race for try_spawn, one task runs at most, and running
\* is set exactly while it does.
THEOREM SingleTask == UpdaterSpec => []OneTask
<1>1. UpdaterInit => OneTask
  BY DEF UpdaterInit, OneTask
<1>2. UpdaterTypeOK /\ OneTask /\ [UpdaterNext]_updaterVars => OneTask'
  <2> SUFFICES ASSUME UpdaterTypeOK, OneTask, [UpdaterNext]_updaterVars PROVE OneTask'
    OBVIOUS
  <2> USE DEF UpdaterTypeOK, OneTask
  <2>1. ASSUME NEW w \in Wakers, TrySpawn(w), ~running PROVE OneTask'
    <3>1. PICK k \in Slots : task[k] = "none" /\ Spawn(k)
      BY <2>1 DEF TrySpawn
    <3>2. running' /\ \A j \in Slots : task[j] = "none"
      BY <2>1 DEF TrySpawn
    <3>3. \A j \in Slots : task'[j] # "none" <=> j = k
      BY <3>1, <3>2 DEF Spawn
    <3> QED
      BY <3>2, <3>3
  <2>2. ASSUME NEW w \in Wakers, Produce(w) \/ WakeUpArc(w) \/ (TrySpawn(w) /\ running)
        PROVE OneTask'
    BY <2>2 DEF Produce, WakeUpArc, TrySpawn
  <2>3. ASSUME NEW k \in Slots, TaskExit(k) PROVE OneTask'
    <3>1. \A j \in Slots : task'[j] = "none"
      BY <2>3 DEF TaskExit, Step
    <3> QED
      BY <2>3, <3>1 DEF TaskExit
  <2>4. ASSUME NEW k \in Slots, TaskStart(k) \/ TaskCheck(k) \/ TaskUpdate(k) \/ TaskTick(k)
        PROVE OneTask'
    <3>1. \A j \in Slots : task'[j] # "none" <=> task[j] # "none"
      BY <2>4 DEF TaskStart, TaskCheck, TaskUpdate, TaskTick, Step
    <3>2. running' = running
      BY <2>4 DEF TaskStart, TaskCheck, TaskUpdate, TaskTick
    <3> QED
      BY <3>1, <3>2
  <2>5. CASE PingFlush \/ Acknowledged \/ BeginClosing \/ UNCHANGED updaterVars
    BY <2>5 DEF PingFlush, Acknowledged, BeginClosing, updaterVars
  <2> QED
    BY <2>1, <2>2, <2>3, <2>4, <2>5 DEF UpdaterNext, TaskStep
<1> QED
  BY <1>1, <1>2, UpdaterTypeCorrect, PTL DEF UpdaterSpec

\* The invariant also while a wake-up is under way.
WakeInv ==
    fresh /\ ~closing =>
        \/ missed \/ \E w \in Wakers : waker[w] # "idle"
        \/ \E k \in Slots : task[k] \in Live

\* A wake-up is lost only if it meets a task between its last should_continue and
\* running.store(false), for every number of wakers.
THEOREM LateWakesOnly == UpdaterSpec => []OnlyLateWakesLost
<1>1. UpdaterInit => WakeInv
  BY DEF UpdaterInit, WakeInv
<1>2. UpdaterTypeOK /\ OneTask /\ WakeInv /\ [UpdaterNext]_updaterVars => WakeInv'
  <2> SUFFICES ASSUME UpdaterTypeOK, OneTask, WakeInv, [UpdaterNext]_updaterVars, fresh', ~closing'
               PROVE  \/ missed' \/ \E w \in Wakers : waker'[w] # "idle"
                      \/ \E k \in Slots : task'[k] \in Live
    BY DEF WakeInv
  <2> USE DEF UpdaterTypeOK
  <2>1. ASSUME NEW w \in Wakers, Produce(w) PROVE waker'[w] # "idle"
    BY <2>1 DEF Produce
  <2>2. running => \E k \in Slots : task[k] \in Live \cup {"exit"}
    BY DEF OneTask, Live
  <2>3. ASSUME NEW w \in Wakers, running, LeaveToTask, UNCHANGED task
        PROVE  missed' \/ \E k \in Slots : task'[k] \in Live
    BY <2>2, <2>3 DEF LeaveToTask
  <2>4. ASSUME NEW w \in Wakers, WakeUpArc(w), ~running PROVE waker'[w] # "idle"
    BY <2>4 DEF WakeUpArc
  <2>5. ASSUME NEW w \in Wakers, TrySpawn(w), ~running PROVE \E k \in Slots : task'[k] \in Live
    BY <2>5 DEF TrySpawn, Spawn, Live
  <2>6. ASSUME NEW k \in Slots, TaskStep(k)
        PROVE  /\ UNCHANGED <<waker, closing, fresh, missed>>
               /\ task[k] \in Live => task'[k] \in Live
               /\ \A j \in Slots : j # k => task'[j] = task[j]
    <3>1. ~TaskUpdate(k) /\ ~closing /\ fresh /\ work
      BY <2>6 DEF TaskUpdate, TaskStep, TaskStart, TaskCheck, TaskTick, TaskExit
    <3>2. UNCHANGED <<waker, closing, fresh, missed>> /\ \A j \in Slots : j # k => task'[j] = task[j]
      BY <2>6, <3>1 DEF TaskStep, TaskStart, TaskCheck, TaskTick, TaskExit, Step
    <3>3. task[k] \in Live => task'[k] \in Live
      BY <2>6, <3>1 DEF TaskStep, TaskStart, TaskCheck, TaskTick, TaskExit, Step, ShouldContinue, Live
    <3> QED
      BY <3>2, <3>3
  <2>7. ASSUME NEW k \in Slots, TaskStep(k)
        PROVE  \/ missed' \/ \E w \in Wakers : waker'[w] # "idle"
               \/ \E j \in Slots : task'[j] \in Live
    BY <2>6, <2>7 DEF WakeInv
  <2>8. CASE PingFlush
    BY <2>8 DEF PingFlush
  <2>9. CASE Acknowledged \/ BeginClosing \/ UNCHANGED updaterVars
    BY <2>9 DEF Acknowledged, BeginClosing, updaterVars, WakeInv
  <2>10. ASSUME NEW w \in Wakers, WakeUpArc(w) \/ TrySpawn(w), running
         PROVE  missed' \/ \E k \in Slots : task'[k] \in Live
    <3>1. LeaveToTask /\ UNCHANGED task
      BY <2>10 DEF WakeUpArc, TrySpawn
    <3> QED
      BY <2>3, <2>10, <3>1
  <2> QED
    BY <2>1, <2>4, <2>5, <2>7, <2>8, <2>9, <2>10 DEF UpdaterNext
<1>3. WakeInv => OnlyLateWakesLost
  BY DEF WakeInv, OnlyLateWakesLost
<1> QED
  BY <1>1, <1>2, <1>3, UpdaterTypeCorrect, SingleTask, PTL DEF UpdaterSpec
=============================================================================
