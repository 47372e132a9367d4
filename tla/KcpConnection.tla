--------------------------- MODULE KcpConnection ---------------------------
(***************************************************************************)
(* The life of one mKCP connection (connection.rs, state.rs): six states   *)
(* kept in an atomic that every task loads and later stores without a      *)
(* compare-and-swap, and a clock, state_begin_time, kept in a second one.  *)
(*                                                                         *)
(* The tasks of a connection are the application (write, close), the task  *)
(* that reads the socket and calls input, the two updaters and poll_flush, *)
(* which all run flush_inner.  A load of the state, the store it leads to  *)
(* and the side effects that follow the store are separate steps, so the   *)
(* tasks interleave between them as the code lets them.  flush_inner reads *)
(* the time first and the clocks it compares it with later.  The remote    *)
(* end is arbitrary: any segment may arrive at any time, or none ever.     *)
(*                                                                         *)
(* What the windows do is the subject of KcpWindow; here the sending       *)
(* window is the number of segments in it.                                 *)
(***************************************************************************)
EXTENDS Naturals, FiniteSets

CONSTANTS
    WindowSize,   \* SendingWorker.window_size
    Flushers      \* the tasks that run flush_inner beside the ping updater

ASSUME WindowSizeAssumption == WindowSize \in Nat
ASSUME FlushersAssumption == Flushers \subseteq {"data", "poll"}

States == {"Active", "ReadyToClose", "PeerClosed", "Terminating",
           "PeerTerminating", "Terminated"}

AllFlushers == Flushers \cup {"ping"}
Tasks == {"app", "input"} \cup AllFlushers

\* The time since state_begin_time, as far as the timeouts tell it apart:
\* age n means that the first n of 4 s, 8 s and 15 s have passed.
PeerTerminatingTimeout == 1
TerminatingTimeout     == 2
ReadyToCloseTimeout    == 3
Ages == 0 .. ReadyToCloseTimeout

\* Ack and Ping segments both tell how far the peer has received.
Kinds == {"data", "ack", "terminate"}

Clocks == {"begin", "incoming"}   \* state_begin_time, last_incoming_time

Labels == {"idle", "push", "recv", "process", "next",
           "f1", "f2", "f3", "f4", "store", "effects"}

VARIABLES
    state,        \* ConnectionInner.state
    age,          \* now - state_begin_time
    stale,        \* now - last_incoming_time >= 30 s
    unacked,      \* segments in the sending window
    sendClosed,   \* SendingWorker.closed
    socketClosed, \* closer.close() has been called
    pinging,      \* the ping updater's task is running
    late,         \* the clocks set since a flush read the time it compares them with
    pc,           \* where each task is
    to,           \* the state a task at "store" or "effects" is setting
    cont,         \* where that task goes on afterwards
    segment,      \* the kind of the segment the input task is handling
    \* What happened so far:
    excused,      \* the peer closed, a timeout fired or the connection was shut down
    lost,         \* an unacknowledged segment was discarded with no such excuse
    told          \* a Terminate has been sent or handled

vars == <<state, age, stale, unacked, sendClosed, socketClosed, pinging, late, pc,
          to, cont, segment, excused, lost, told>>

history == <<excused, lost, told>>
conn    == <<state, age, stale, unacked, sendClosed, socketClosed, pinging>>

Init ==
    /\ state = "Active" /\ age = 0 /\ stale = FALSE
    /\ unacked = 0 /\ sendClosed = FALSE /\ socketClosed = FALSE
    /\ pinging = TRUE
    /\ late = [t \in AllFlushers |-> {}]
    /\ pc = [t \in Tasks |-> "idle"]
    /\ to = [t \in Tasks |-> "Active"]
    /\ cont = [t \in Tasks |-> "idle"]
    /\ segment = "data"
    /\ excused = FALSE /\ lost = FALSE /\ told = FALSE

----------------------------------------------------------------------------
(* Loading the state and setting it                                        *)

Goto(t, label) ==
    /\ pc' = [pc EXCEPT ![t] = label]
    /\ UNCHANGED <<to, cont>>

\* The load told task t to set state s and to go on at label l.
Decide(t, s, l) ==
    /\ pc' = [pc EXCEPT ![t] = "store"]
    /\ to' = [to EXCEPT ![t] = s]
    /\ cont' = [cont EXCEPT ![t] = l]

Return(t) ==
    /\ pc' = [pc EXCEPT ![t] = cont[t]]
    /\ to' = [to EXCEPT ![t] = "Active"]
    /\ cont' = [cont EXCEPT ![t] = "idle"]

\* The atomic store: whatever the state has become since the load is lost.
Store(t) ==
    /\ pc[t] = "store"
    /\ state' = to[t]
    /\ pc' = [pc EXCEPT ![t] = "effects"]
    /\ UNCHANGED <<age, stale, unacked, sendClosed, socketClosed, pinging, late,
                   to, cont, segment, history>>

\* Task t sets state_begin_time to the time it has read; a flush of another task
\* that is under way may have read an earlier one.
Stamp(t) ==
    late' = [u \in AllFlushers |->
               IF u = t THEN {}
               ELSE IF pc[u] \in {"f1", "f2", "f3", "f4"} THEN late[u] \cup {"begin"}
               ELSE late[u]]

\* Mutant: the socket of a terminated connection is left open.
EffectsForgotten(t) ==
    /\ pc[t] = "effects"
    /\ age' = 0
    /\ IF to[t] = "ReadyToClose"
         THEN UNCHANGED <<unacked, lost>>
         ELSE unacked' = 0 /\ lost' = (lost \/ (unacked > 0 /\ ~excused))
    /\ Stamp(t)
    /\ Return(t)
    /\ UNCHANGED <<state, stale, sendClosed, socketClosed, pinging, segment,
                   excused, told>>

\* close_write clears the window, terminate() closes the socket and releases
\* the workers.  set_state also wakes the updaters, which flush_inner does not.
Effects(t) ==
    /\ pc[t] = "effects"
    /\ age' = 0
    /\ IF to[t] = "ReadyToClose"
         THEN UNCHANGED <<unacked, lost>>
         ELSE unacked' = 0 /\ lost' = (lost \/ (unacked > 0 /\ ~excused))
    /\ sendClosed' = (sendClosed \/ to[t] = "Terminated")
    /\ socketClosed' = (socketClosed \/ to[t] = "Terminated")
    /\ pinging' = (pinging \/ (to[t] = "Terminated" /\ t \in {"app", "input"}))
    /\ Stamp(t)
    /\ Return(t)
    /\ UNCHANGED <<state, stale, segment, excused, told>>

----------------------------------------------------------------------------
(* The application                                                         *)

\* write() loads the state once, then pushes one chunk after another.
Write ==
    /\ pc["app"] = "idle"
    /\ state = "Active"
    /\ Goto("app", "push")
    /\ UNCHANGED <<conn, late, segment, history>>

\* Mutant: the window has no limit.
CanPushAlways == ~sendClosed

CanPush == ~sendClosed /\ ~(unacked > WindowSize)

Push ==
    /\ pc["app"] = "push"
    /\ IF CanPush
         THEN unacked' = unacked + 1 /\ \E l \in {"push", "idle"} : Goto("app", l)
         ELSE UNCHANGED unacked /\ Goto("app", "idle")
    /\ UNCHANGED <<state, age, stale, sendClosed, socketClosed, pinging, late,
                   segment, history>>

Close ==
    /\ pc["app"] = "idle"
    /\ \/ state = "Active" /\ Decide("app", "ReadyToClose", "idle")
       \/ state = "PeerClosed" /\ Decide("app", "Terminating", "idle")
       \/ state = "PeerTerminating" /\ Decide("app", "Terminated", "idle")
    /\ UNCHANGED <<conn, late, segment, history>>

\* terminate() without a change of state: poll_shutdown, and Listener::close
\* from a task of its own.
Terminate ==
    /\ socketClosed' = TRUE /\ sendClosed' = TRUE
    /\ unacked' = 0
    /\ excused' = TRUE
    /\ UNCHANGED <<state, age, stale, pinging, late, pc, to, cont, segment, lost, told>>

----------------------------------------------------------------------------
(* The socket's reader: input()                                            *)

\* The loop looks at the closed flag before it waits for a packet.
Listen ==
    /\ pc["input"] = "idle"
    /\ ~socketClosed
    /\ Goto("input", "recv")
    /\ UNCHANGED <<conn, late, segment, history>>

\* A segment with its CLOSE option: input() stamps last_incoming_time and
\* handle_option loads the state.
Receive ==
    /\ pc["input"] = "recv"
    /\ stale' = FALSE
    /\ late' = [t \in AllFlushers |->
                  IF pc[t] = "f1" THEN late[t] \cup {"incoming"} ELSE late[t]]
    /\ segment' \in Kinds
    /\ \E close \in BOOLEAN :
         /\ \/ close /\ state = "ReadyToClose"
                 /\ Decide("input", "Terminating", "process")
            \/ close /\ state = "Active"
                 /\ Decide("input", "PeerClosed", "process")
            \/ ~(close /\ state \in {"Active", "ReadyToClose"})
                 /\ Goto("input", "process")
         /\ excused' = (excused \/ close \/ segment' = "terminate")
    /\ UNCHANGED <<state, age, unacked, sendClosed, socketClosed, pinging,
                   lost, told>>

\* The state a Terminate leads to from state s, if any.
OnTerminate(s) ==
    IF s \in {"Active", "PeerClosed"} THEN {"PeerTerminating"}
    ELSE IF s = "ReadyToClose" THEN {"Terminating"}
    ELSE IF s = "Terminating" THEN {"Terminated"}
    ELSE {}

\* A Terminate loads the state a second time; every kind but data then
\* acknowledges some prefix of the window.
Process ==
    /\ pc["input"] = "process"
    /\ IF segment = "terminate" /\ OnTerminate(state) # {}
         THEN \E s \in OnTerminate(state) : Decide("input", s, "next")
         ELSE Goto("input", "next")
    /\ told' = (told \/ segment = "terminate")
    /\ UNCHANGED <<conn, late, segment, excused, lost>>

Acknowledge ==
    /\ pc["input"] = "next"
    /\ unacked' \in IF segment = "data" THEN {unacked} ELSE 0 .. unacked
    /\ segment' = "data"
    /\ \E l \in {"recv", "idle"} : Goto("input", l)
    /\ UNCHANGED <<state, age, stale, sendClosed, socketClosed, pinging, late, history>>

----------------------------------------------------------------------------
(* flush_inner, one step per load of the state                             *)

\* Mutant: both updaters stop at Terminating.
ShouldFlushUntilTerminating(t) ==
    (t = "ping" => pinging) /\ state \notin {"Terminating", "Terminated"}

\* An updater goes on as long as its should_continue says so; poll_flush is
\* called whenever the application likes.
ShouldFlush(t) ==
    CASE t = "ping" -> pinging /\ state # "Terminated"
      [] t = "data" -> state \notin {"Terminating", "Terminated"}
      [] t = "poll" -> TRUE

Flush(t) ==
    /\ pc[t] = "idle"
    /\ ShouldFlush(t)
    /\ Goto(t, "f1")
    /\ UNCHANGED <<conn, late, segment, history>>

PingExit ==
    /\ pc["ping"] = "idle"
    /\ pinging /\ state = "Terminated"
    /\ pinging' = FALSE
    /\ UNCHANGED <<state, age, stale, unacked, sendClosed, socketClosed, late, pc, to,
                   cont, segment, history>>

\* current.wrapping_sub(clock) > timeout.  A clock that was set after the flush
\* read the time may be ahead of it, and then the difference wraps around.
Elapsed(t, timeout) == IF "begin" \in late[t] THEN BOOLEAN ELSE {age >= timeout}
Silent(t) == IF "incoming" \in late[t] THEN BOOLEAN ELSE {stale}

\* The flush of task t moves on, or returns and forgets the time it read.
Keep(t, clocks) == late' = [late EXCEPT ![t] = @ \cap clocks]

CheckStale(t) ==
    /\ pc[t] = "f1"
    /\ \E silent \in Silent(t) :
         IF state = "Terminated"
           THEN Goto(t, "idle") /\ Keep(t, {}) /\ UNCHANGED excused
         ELSE IF state = "Active" /\ silent
           THEN Decide(t, "ReadyToClose", "f2") /\ Keep(t, {}) /\ excused' = TRUE
           ELSE Goto(t, "f2") /\ Keep(t, {"begin"}) /\ UNCHANGED excused
    /\ UNCHANGED <<conn, segment, lost, told>>

\* Mutant: a closed connection does not wait for its window to drain.
CheckDrainedNever(t) ==
    /\ pc[t] = "f2"
    /\ IF state = "ReadyToClose"
         THEN Decide(t, "Terminating", "f1") /\ Keep(t, {})
         ELSE Goto(t, "f3") /\ UNCHANGED late
    /\ UNCHANGED <<conn, segment, history>>

CheckDrained(t) ==
    /\ pc[t] = "f2"
    /\ IF state = "ReadyToClose" /\ unacked = 0
         THEN Decide(t, "Terminating", "f1") /\ Keep(t, {})
         ELSE Goto(t, "f3") /\ UNCHANGED late
    /\ UNCHANGED <<conn, segment, history>>

\* Mutant: Terminating only waits.
CheckTerminatingSilent(t) ==
    /\ pc[t] = "f3"
    /\ IF state = "Terminating"
         THEN /\ Keep(t, {})
              /\ \E over \in Elapsed(t, TerminatingTimeout) :
                   IF over THEN Decide(t, "Terminated", "idle") ELSE Goto(t, "idle")
         ELSE Goto(t, "f4") /\ UNCHANGED late
    /\ UNCHANGED <<conn, segment, history>>

CheckTerminating(t) ==
    /\ pc[t] = "f3"
    /\ IF state = "Terminating"
         THEN /\ told' = TRUE
              /\ Keep(t, {})
              /\ \E over \in Elapsed(t, TerminatingTimeout) :
                   IF over THEN Decide(t, "Terminated", "idle") ELSE Goto(t, "idle")
         ELSE /\ UNCHANGED told
              /\ \E over \in Elapsed(t, PeerTerminatingTimeout) :
                   IF state = "PeerTerminating" /\ over
                     THEN Decide(t, "Terminating", "f1") /\ Keep(t, {})
                     ELSE Goto(t, "f4") /\ UNCHANGED late
    /\ UNCHANGED <<conn, segment, excused, lost>>

CheckClosing(t) ==
    /\ pc[t] = "f4"
    /\ Keep(t, {})
    /\ \E over \in Elapsed(t, ReadyToCloseTimeout) :
         IF state = "ReadyToClose" /\ over
           THEN Decide(t, "Terminating", "f1") /\ excused' = TRUE
           ELSE Goto(t, "idle") /\ UNCHANGED excused
    /\ UNCHANGED <<conn, segment, lost, told>>

----------------------------------------------------------------------------
(* Time                                                                    *)

AgeOn ==
    /\ age < ReadyToCloseTimeout
    /\ age' = age + 1
    /\ UNCHANGED <<state, stale, unacked, sendClosed, socketClosed, pinging, late, pc,
                   to, cont, segment, history>>

BecomeStale ==
    /\ ~stale
    /\ stale' = TRUE
    /\ UNCHANGED <<state, age, unacked, sendClosed, socketClosed, pinging, late, pc,
                   to, cont, segment, history>>

----------------------------------------------------------------------------

FlushStep(t) == CheckStale(t) \/ CheckDrained(t) \/ CheckTerminating(t) \/ CheckClosing(t)
InputStep == Process \/ Acknowledge

Next ==
    \/ Write \/ Push \/ Close \/ Terminate
    \/ Listen \/ Receive \/ InputStep
    \/ PingExit
    \/ \E t \in AllFlushers : Flush(t) \/ FlushStep(t)
    \/ \E t \in Tasks : Store(t) \/ Effects(t)
    \/ AgeOn \/ BecomeStale

Spec == Init /\ [][Next]_vars

\* A task that runs goes on, the ping updater ticks and time passes.  Neither
\* the application nor the remote end owes the connection anything.
FairSpec ==
    /\ Spec
    /\ \A t \in Tasks : WF_vars(Store(t)) /\ WF_vars(Effects(t))
    /\ \A t \in AllFlushers : WF_vars(FlushStep(t))
    /\ WF_vars(InputStep)
    /\ WF_vars(Flush("ping"))
    /\ WF_vars(AgeOn)

----------------------------------------------------------------------------
(* Properties                                                              *)

\* The type invariant of the connection: push admits at most one segment more
\* than window_size (ConnectionInner, SendingWorker::push).
TypeOK ==
    /\ state \in States /\ age \in Ages /\ stale \in BOOLEAN
    /\ unacked \in 0 .. WindowSize + 1
    /\ sendClosed \in BOOLEAN /\ socketClosed \in BOOLEAN /\ pinging \in BOOLEAN
    /\ late \in [AllFlushers -> SUBSET Clocks]
    /\ pc \in [Tasks -> Labels] /\ to \in [Tasks -> States] /\ cont \in [Tasks -> Labels]
    /\ segment \in Kinds
    /\ excused \in BOOLEAN /\ lost \in BOOLEAN /\ told \in BOOLEAN

\* A local close loses nothing: a segment write() accepted is discarded before
\* its acknowledgement only when the remote end closed or terminated, a timeout
\* ran out, or the connection was shut down.  The emptiness test of flush_inner
\* and close_write are steps apart, and write() loads the state only once.
LocalCloseKeepsData == ~lost

\* A connection that terminates has exchanged a Terminate: it has sent one or
\* received one, on every path and whichever task gets there first.
PeerTold == state = "Terminated" => told

\* Whoever stores Terminated also closes the socket and releases the workers,
\* even when other tasks overwrite the state in between.
TerminatedReleases ==
    state = "Terminated" =>
        socketClosed \/ \E t \in Tasks : pc[t] = "effects" /\ to[t] = "Terminated"

\* A task between its load and the end of its side effects.
Pending(t) == pc[t] \in {"store", "effects"}

\* Why PeerTold holds: a task about to terminate the connection knows it.
ToldInv ==
    /\ PeerTold
    /\ state = "PeerTerminating" => told
    /\ \A t \in Tasks :
         /\ Pending(t) /\ to[t] = "PeerTerminating" => told
         /\ Pending(t) /\ to[t] = "Terminated" => told

\* Why LocalCloseKeepsData holds: as long as nothing but close() has happened,
\* write() pushes only while the connection is Active and no one is about to
\* change that, and whoever is about to clear the window has seen it empty.
DataInv ==
    /\ LocalCloseKeepsData
    /\ \A t \in Tasks : Pending(t) => to[t] # "Active"
    /\ \A t \in Tasks : cont[t] \notin {"push", "store", "effects"}
    /\ pc["input"] = "process" /\ segment = "terminate" => excused
    /\ cont["input"] = "process" /\ segment = "terminate" => excused
    /\ ~excused =>
         /\ state \notin {"PeerClosed", "PeerTerminating"}
         /\ state \in {"Terminating", "Terminated"} => unacked = 0
         /\ state = "Active" => \A t \in Tasks \ {"app"} : ~Pending(t)
         /\ pc["app"] = "push" => state = "Active"
         /\ \A t \in Tasks : Pending(t) =>
              /\ to[t] \in {"ReadyToClose", "Terminating", "Terminated"}
              /\ to[t] # "ReadyToClose" => unacked = 0

\* connection.rs closes a connection after 30 seconds without an incoming segment.
\* The flush reads the time before it loads last_incoming_time: a packet that
\* arrives in between makes the unsigned difference wrap around, and the busiest
\* connection is closed as a silent one.
StaleMeansSilent ==
    [][\A t \in AllFlushers : CheckStale(t) /\ pc'[t] = "store" => stale]_vars

\* The diagram of state.rs has one edge out of ReadyToClose, to Terminating, and
\* none out of Terminated, the final state: whichever side closes second, the
\* connection terminates and stays so.  The tasks load the state and store it
\* separately.  A CLOSE option that loaded Active before a flush stored
\* ReadyToClose stores PeerClosed over it; a flush that loaded PeerTerminating
\* stores Terminating over Terminated.
FollowsDiagram ==
    [][/\ state = "ReadyToClose" => state' = "Terminating"
       /\ state # "Terminated"]_state

\* A connection that has begun to close gives its socket back, whatever the
\* remote end does, through the timeouts of flush_inner alone.  PeerClosed is
\* the one state without a timeout: there the connection waits for a close().
ClosingReleases ==
    state \in {"ReadyToClose", "Terminating", "PeerTerminating", "Terminated"}
        ~> (socketClosed \/ state = "PeerClosed")

============================================================================
