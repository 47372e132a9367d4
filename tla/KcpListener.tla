---------------------------- MODULE KcpListener ----------------------------
(***************************************************************************)
(* The session table of the mKCP listener (listener.rs): which connection  *)
(* receives the packets of a remote address and conversation, and who      *)
(* keeps a connection alive.                                               *)
(*                                                                         *)
(* A connection is referenced by the table, by the KcpConn handed to the   *)
(* inbound handler, by the receive loop while it calls input and by        *)
(* Listener::close while it terminates what it drained.  Its updaters hold *)
(* it only while they flush.  closer.close() removes whatever the table    *)
(* holds under the connection's id, and is called when the application     *)
(* shuts the connection down, when it reaches Terminated, when the         *)
(* listener closes and, once more, when its memory is freed.               *)
(*                                                                         *)
(* A call of closer.close() and the critical section it leads to are two   *)
(* steps; the table's mutex is not reentrant.                              *)
(***************************************************************************)
EXTENDS Naturals, FiniteSets

CONSTANTS
    Ids,        \* ConnectionId: remote address and conversation
    MaxConns    \* bound: connections created in a behaviour

ASSUME MaxConnsAssumption == MaxConns \in Nat

Conns == 1 .. MaxConns
None  == 0

VARIABLES
    made,     \* connections created so far, numbered 1 .. made
    idOf,     \* ListenerWriter.id of a connection
    table,    \* ListenerInner.sessions
    held,     \* connections whose KcpConn the application still has
    input,    \* the connection the receive loop is calling, or None
    packet,   \* a packet has been read from the hub and not yet handled
    drained,  \* connections Listener::close still has to terminate
    closed,   \* ListenerInner.closed, and the hub's flag
    ended,    \* connections whose state is Terminated
    peerClosed, \* connections whose state is PeerClosed
    freed,    \* connections whose ConnectionInner has been dropped
    calls,    \* closer.close() calls under way: <<connection, caller>>
    served,   \* connections a finished closer.close() was for
    stuck     \* a task waits for the mutex it holds

listenerVars == <<made, idOf, table, held, input, packet, drained, closed, ended,
                  peerClosed, freed, calls, served, stuck>>

Callers == {"app", "updater", "listener", "drop"}
Made == 1 .. made

\* The connection is referenced from outside the table.
Referenced(c) == c \in held \/ input = c \/ c \in drained
Listed(c) == \E i \in Ids : table[i] = c

ListenerInit ==
    /\ made = 0 /\ idOf = [c \in Conns |-> None]
    /\ table = [i \in Ids |-> None]
    /\ held = {} /\ input = None /\ packet = FALSE /\ drained = {} /\ closed = FALSE
    /\ ended = {} /\ peerClosed = {} /\ freed = {} /\ calls = {} /\ served = {} /\ stuck = FALSE

----------------------------------------------------------------------------
(* The receive loop                                                        *)

HubReceive ==
    /\ ~packet /\ input = None /\ ~closed
    /\ packet' = TRUE
    /\ UNCHANGED <<made, idOf, table, held, input, drained, closed, ended, peerClosed,
                   freed, calls, served, stuck>>

\* on_receive does not look at closed: a packet read before the hub was closed
\* is handled after.
Found(i) ==
    /\ table[i] # None
    /\ input' = table[i]
    /\ UNCHANGED <<made, idOf, table, held>>

Create(i) ==
    /\ table[i] = None
    /\ made < MaxConns
    /\ made' = made + 1
    /\ idOf' = [idOf EXCEPT ![made'] = i]
    /\ table' = [table EXCEPT ![i] = made']
    /\ held' = held \cup {made'}
    /\ input' = made'

\* A Terminate, or a packet without segments, opens no session.
Ignore(i) ==
    /\ table[i] = None
    /\ UNCHANGED <<made, idOf, table, held, input>>

OnReceive(i) ==
    /\ packet /\ ~stuck
    /\ packet' = FALSE
    /\ Found(i) \/ Create(i) \/ Ignore(i)
    /\ UNCHANGED <<drained, closed, ended, peerClosed, freed, calls, served, stuck>>

\* A segment with CLOSE puts an active connection in PeerClosed, and one with
\* Terminate takes it out again.  A store of on_peer_closed may come late.
InputDone ==
    /\ input # None
    /\ input' = None
    /\ \E s \in SUBSET ({input} \ ended) : peerClosed' = (peerClosed \ {input}) \cup s
    /\ UNCHANGED <<made, idOf, table, held, packet, drained, closed, ended, freed,
                   calls, served, stuck>>

----------------------------------------------------------------------------
(* Calls of closer.close()                                                 *)

Call(c, who) == calls' = calls \cup {<<c, who>>}

\* KcpConn::poll_shutdown
Shutdown(c) ==
    /\ c \in held /\ <<c, "app">> \notin calls
    /\ Call(c, "app")
    /\ UNCHANGED <<made, idOf, table, held, input, packet, drained, closed, ended,
                   peerClosed, freed, served, stuck>>

AppDrop(c) ==
    /\ c \in held /\ <<c, "app">> \notin calls
    /\ held' = held \ {c}
    /\ UNCHANGED <<made, idOf, table, input, packet, drained, closed, ended,
                   peerClosed, freed, calls, served, stuck>>

\* Mutant: a connection that times out keeps its place in the table.
TerminatedQuietly(c) ==
    /\ c \in Made \ (ended \cup freed \cup peerClosed)
    /\ ended' = ended \cup {c}
    /\ UNCHANGED <<made, idOf, table, held, input, packet, drained, closed,
                   peerClosed, freed, calls, served, stuck>>

\* flush_inner reaches Terminated through its timeouts, of which PeerClosed has
\* none; poll_shutdown leaves the state alone.
Terminated(c) ==
    /\ c \in Made \ (ended \cup freed \cup peerClosed)
    /\ ended' = ended \cup {c}
    /\ Call(c, "updater")
    /\ UNCHANGED <<made, idOf, table, held, input, packet, drained, closed,
                   peerClosed, freed, served, stuck>>

\* ConnectionInner::drop, run by whoever gave up the last reference.
Free(c) ==
    /\ c \in Made \ freed
    /\ ~Referenced(c) /\ ~Listed(c) /\ <<c, "updater">> \notin calls
    /\ freed' = freed \cup {c}
    /\ Call(c, "drop")
    /\ UNCHANGED <<made, idOf, table, held, input, packet, drained, closed, ended,
                   peerClosed, served, stuck>>

----------------------------------------------------------------------------
(* Listener::remove and Listener::close                                    *)

\* The table's reference is dropped before the mutex is released.  If it was
\* the last one, ConnectionInner::drop calls Listener::remove again, and waits
\* for the mutex its own task holds; an updater in the middle of a flush defers
\* the drop.
LastReference(c) ==
    /\ c # None
    /\ ~Referenced(c)
    /\ <<c, "updater">> \notin calls

\* Mutant: the entry goes only once the application has dropped its KcpConn.
RemoveUnlessHeld(c, who) ==
    /\ <<c, who>> \in calls /\ ~stuck
    /\ calls' = calls \ {<<c, who>>}
    /\ drained' = IF who = "listener" THEN drained \ {c} ELSE drained
    /\ served' = served \cup {c}
    /\ table' = IF c \in held THEN table ELSE [table EXCEPT ![idOf[c]] = None]
    /\ UNCHANGED <<made, idOf, held, input, packet, closed, ended, peerClosed, freed, stuck>>

Remove(c, who) ==
    /\ <<c, who>> \in calls /\ ~stuck
    /\ calls' = calls \ {<<c, who>>}
    /\ drained' = IF who = "listener" THEN drained \ {c} ELSE drained
    /\ served' = served \cup {c}
    /\ table' = [table EXCEPT ![idOf[c]] = None]
    /\ stuck' \in IF LastReference(table[idOf[c]]) THEN BOOLEAN ELSE {FALSE}
    /\ UNCHANGED <<made, idOf, held, input, packet, closed, ended, peerClosed, freed>>

\* The sessions are drained under the mutex and terminated after it, one by one.
CloseListener ==
    /\ ~closed /\ ~stuck
    /\ closed' = TRUE
    /\ drained' = {c \in Made : Listed(c)}
    /\ table' = [i \in Ids |-> None]
    /\ UNCHANGED <<made, idOf, held, input, packet, ended, peerClosed, freed, calls, served, stuck>>

TerminateDrained(c) ==
    /\ c \in drained
    /\ \A d \in Conns : <<d, "listener">> \notin calls
    /\ Call(c, "listener")
    /\ UNCHANGED <<made, idOf, table, held, input, packet, drained, closed, ended,
                   peerClosed, freed, served, stuck>>

----------------------------------------------------------------------------

ListenerNext ==
    \/ HubReceive
    \/ \E i \in Ids : OnReceive(i)
    \/ InputDone
    \/ CloseListener
    \/ \E c \in Conns :
         \/ Shutdown(c) \/ AppDrop(c) \/ Terminated(c) \/ Free(c) \/ TerminateDrained(c)
         \/ \E who \in Callers : Remove(c, who)

ListenerSpec == ListenerInit /\ [][ListenerNext]_listenerVars

\* Tasks finish what they began.  Once the hub is closed nothing arrives, so every
\* connection that a timeout applies to goes stale and reaches Terminated.
ListenerFairSpec ==
    /\ ListenerSpec
    /\ WF_listenerVars(\E i \in Ids : OnReceive(i))
    /\ WF_listenerVars(InputDone)
    /\ \A c \in Conns :
         /\ WF_listenerVars(TerminateDrained(c)) /\ WF_listenerVars(Free(c))
         /\ WF_listenerVars(closed /\ Terminated(c))
         /\ \A who \in Callers : WF_listenerVars(Remove(c, who))

----------------------------------------------------------------------------
(* Properties                                                              *)

\* The type invariant of the session table: it lists connections that exist
\* (ListenerInner.sessions, on_receive).
ListenerTypeOK ==
    /\ made \in 0 .. MaxConns
    /\ idOf \in [Conns -> Ids \cup {None}]
    /\ table \in [Ids -> Made \cup {None}]
    /\ held \subseteq Made /\ drained \subseteq Made
    /\ ended \subseteq Made /\ peerClosed \subseteq Made
    /\ freed \subseteq Made /\ served \subseteq Made
    /\ input \in Made \cup {None}
    /\ packet \in BOOLEAN /\ closed \in BOOLEAN /\ stuck \in BOOLEAN
    /\ calls \subseteq Made \X Callers

\* No packet is routed to a connection whose closer has run: shut down,
\* terminated or freed, it has left the table for good, whoever calls first.
ClosedUnlisted == \A c \in served : ~Listed(c)

\* A packet read before the hub was closed may open a session after Listener::close
\* has drained the table, and no one terminates that session: it goes stale, and in
\* the end a closed listener lists none but those the peer has closed.  The one
\* exception is a task stuck on the mutex.
CloseEmpties ==
    closed ~> (stuck \/ [](\A i \in Ids : table[i] \in {None} \cup peerClosed))

\* Listener::close says that it terminates all sessions.  A late packet that opens
\* a session and carries CLOSE leaves it in PeerClosed, listed until the application
\* shuts it down.
CloseTerminatesAll == closed ~> (stuck \/ [](\A i \in Ids : table[i] = None))

\* ListenerWriter::close calls itself safe to repeat.  It removes whatever the
\* table holds under the id, which after the first call may be a successor; if
\* the table has the last reference to that one, its destructor waits for the
\* mutex the task holds.
NoSelfDeadlock == ~stuck

============================================================================
