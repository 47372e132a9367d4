----------------------------- MODULE KcpUpdater -----------------------------
(***************************************************************************)
(* The on-demand updater of a connection (updater.rs) and the data it has  *)
(* to send.  Tasks that push a segment or receive one call wake_up_arc on  *)
(* the data updater, which spawns a task unless one is running; the task   *)
(* flushes as long as there is something to flush, then ends.  The ping    *)
(* updater is woken once, at birth, and flushes until the connection has   *)
(* terminated (connection.rs).                                             *)
(*                                                                         *)
(* Every atomic access of running, every evaluation of should_continue and *)
(* every flush is a step of its own.                                       *)
(***************************************************************************)
EXTENDS Naturals, FiniteSets

CONSTANTS
    Wakers,     \* tasks that produce work and wake the data updater
    Slots       \* bound: updater tasks that may exist at the same time

VARIABLES
    work,       \* something is unacknowledged or an ACK is owed
    fresh,      \* some of it has never been flushed
    closing,    \* the state is Terminating or Terminated
    running,    \* TokioUpdater.running of the data updater
    waker,      \* where each waker is
    task,       \* where the task in each slot is, "none" if the slot is free
    missed      \* history: since the last spawn or flush, a wake-up was left to a
                \* task that had evaluated should_continue for the last time

updaterVars == <<work, fresh, closing, running, waker, task, missed>>

UpdaterInit ==
    /\ work = FALSE /\ fresh = FALSE /\ closing = FALSE
    /\ running = FALSE
    /\ waker = [w \in Wakers |-> "idle"]
    /\ task = [k \in Slots |-> "none"]
    /\ missed = FALSE

----------------------------------------------------------------------------
(* write(), read() and input()                                             *)

Produce(w) ==
    /\ waker[w] = "idle" /\ ~closing
    /\ work' = TRUE /\ fresh' = TRUE
    /\ waker' = [waker EXCEPT ![w] = "wake"]
    /\ UNCHANGED <<closing, running, task, missed>>

\* The wake-up is left to the task that has set running: it is notified, but no one
\* waits on that Notify, and a task about to end does not look again.
LeaveToTask == missed' = (missed \/ \E k \in Slots : task[k] = "exit")

WakeUpArc(w) ==
    /\ waker[w] = "wake"
    /\ \/ /\ running
          /\ waker' = [waker EXCEPT ![w] = "idle"]
          /\ LeaveToTask
       \/ /\ ~running
          /\ waker' = [waker EXCEPT ![w] = "spawn"]
          /\ UNCHANGED missed
    /\ UNCHANGED <<work, fresh, closing, running, task>>

Spawn(k) == task' = [task EXCEPT ![k] = "start"]

TrySpawn(w) ==
    /\ waker[w] = "spawn"
    /\ waker' = [waker EXCEPT ![w] = "idle"]
    /\ \/ running /\ LeaveToTask /\ UNCHANGED <<running, task>>
       \/ /\ ~running
          /\ running' = TRUE
          /\ \E k \in Slots : task[k] = "none" /\ Spawn(k)
          /\ missed' = FALSE
    /\ UNCHANGED <<work, fresh, closing>>

----------------------------------------------------------------------------
(* The task of the data updater                                            *)

Step(k, from, into) ==
    /\ task[k] = from
    /\ task' = [task EXCEPT ![k] = into]

TaskStart(k) ==
    /\ Step(k, "start", IF closing THEN "exit" ELSE "check")
    /\ UNCHANGED <<work, fresh, closing, running, waker, missed>>

ShouldContinue == work /\ ~closing

TaskCheck(k) ==
    /\ Step(k, "check", IF ShouldContinue THEN "update" ELSE "exit")
    /\ UNCHANGED <<work, fresh, closing, running, waker, missed>>

\* flush_inner, then interval.tick().
TaskUpdate(k) ==
    /\ Step(k, "update", "tick")
    /\ fresh' = FALSE /\ missed' = FALSE
    /\ UNCHANGED <<work, closing, running, waker>>

\* Mutant: the task flushes once and ends.
TaskTickOnce(k) ==
    /\ Step(k, "tick", "exit")
    /\ UNCHANGED <<work, fresh, closing, running, waker, missed>>

TaskTick(k) ==
    /\ Step(k, "tick", "check")
    /\ UNCHANGED <<work, fresh, closing, running, waker, missed>>

\* Mutant: a task that finds nothing to do leaves running set.
TaskExitRunning(k) ==
    /\ Step(k, "exit", "none")
    /\ UNCHANGED <<work, fresh, closing, running, waker, missed>>

TaskExit(k) ==
    /\ Step(k, "exit", "none")
    /\ running' = FALSE
    /\ UNCHANGED <<work, fresh, closing, waker, missed>>

----------------------------------------------------------------------------
(* The rest of the connection                                              *)

\* A tick of the ping updater runs the same flush_inner.
PingFlush ==
    /\ ~closing
    /\ fresh' = FALSE /\ missed' = FALSE
    /\ UNCHANGED <<work, closing, running, waker, task>>

\* The peer acknowledges what was sent.
Acknowledged ==
    /\ work /\ ~fresh
    /\ work' = FALSE
    /\ UNCHANGED <<fresh, closing, running, waker, task, missed>>

BeginClosing ==
    /\ ~closing
    /\ closing' = TRUE
    /\ UNCHANGED <<work, fresh, running, waker, task, missed>>

----------------------------------------------------------------------------

TaskStep(k) == TaskStart(k) \/ TaskCheck(k) \/ TaskUpdate(k) \/ TaskTick(k) \/ TaskExit(k)

UpdaterNext ==
    \/ \E w \in Wakers : Produce(w) \/ WakeUpArc(w) \/ TrySpawn(w)
    \/ \E k \in Slots : TaskStep(k)
    \/ PingFlush \/ Acknowledged \/ BeginClosing

UpdaterSpec == UpdaterInit /\ [][UpdaterNext]_updaterVars

\* Spawned tasks run and wakers finish their calls.  Nothing is asked of the ping
\* updater, whose ticks would flush everything by themselves.
UpdaterFairSpec ==
    /\ UpdaterSpec
    /\ \A w \in Wakers : WF_updaterVars(WakeUpArc(w)) /\ WF_updaterVars(TrySpawn(w))
    /\ \A k \in Slots : WF_updaterVars(TaskStep(k))

----------------------------------------------------------------------------
(* Properties                                                              *)

\* The type invariant of the updater: what has never been flushed is something
\* update_necessary sees (TokioUpdater, SendingWorker::update_necessary).
UpdaterTypeOK ==
    /\ work \in BOOLEAN /\ fresh \in BOOLEAN /\ closing \in BOOLEAN
    /\ running \in BOOLEAN /\ missed \in BOOLEAN
    /\ waker \in [Wakers -> {"idle", "wake", "spawn"}]
    /\ task \in [Slots -> {"none", "start", "check", "update", "tick", "exit"}]
    /\ fresh => work

\* However many wakers race, at most one task runs, and running is set exactly
\* while it does: the flag is neither taken twice nor left behind.
OneTask ==
    /\ \A j, k \in Slots : task[j] # "none" /\ task[k] # "none" => j = k
    /\ running <=> \E k \in Slots : task[k] # "none"

\* Where a task will evaluate should_continue, or flush, once more.
Live == {"start", "check", "update", "tick"}

\* The data updater flushes what was produced, without the ping updater, unless a
\* wake-up came when its task had already decided to end.
FreshIsFlushed == fresh ~> (~fresh \/ closing \/ missed)

\* Once the wakers have returned, whatever was never flushed has a task that will
\* look at it.  The one way to lose a wake-up is between a task's last
\* should_continue and running.store(false), however wakers and flushes interleave.
OnlyLateWakesLost ==
    fresh /\ ~closing /\ (\A w \in Wakers : waker[w] = "idle") =>
        missed \/ \E k \in Slots : task[k] \in Live

\* wake_up_arc says that it spawns a task or notifies the one there is.  A task
\* that has evaluated should_continue for the last time does not notice, and
\* the work waits for the ping updater.
WakeHeeded ==
    fresh /\ ~closing /\ (\A w \in Wakers : waker[w] = "idle") =>
        \E k \in Slots : task[k] \in Live

=============================================================================
