-------------------------------- MODULE Pipe --------------------------------
(***************************************************************************)
(* The in-memory pipe of crates/xray-buf/src/pipe.rs: one reading task,    *)
(* any number of writing tasks (Writer is Clone), and tasks that close or  *)
(* interrupt it through another handle.                                    *)
(*                                                                         *)
(* One step of the model is one critical section or one atomic operation   *)
(* of the code, so every interleaving of the tasks on a multi-threaded     *)
(* runtime is a behaviour.  A poll is never cut short: a future is lost    *)
(* only while it is suspended.  The chunks of a MultiBuffer are the units  *)
(* its length is counted in.                                               *)
(***************************************************************************)
EXTENDS Integers, Sequences, FiniteSets

CONSTANTS
    Reader,         \* the reading task
    Writers,        \* the writing tasks
    Closers,        \* tasks calling close() or interrupt() on a cloned handle
    Options,        \* the PipeOption values a pipe may be created with
    MaxChunks,      \* bound: chunks the writers produce in all
    MaxBatch        \* bound: chunks in the MultiBuffer of one write call

Waiters == {Reader} \cup Writers
Tasks   == Waiters \cup Closers

\* limit = -1 is "no limit"; idle: an idle_timeout is configured.
OptionType == [limit : Int, discard : BOOLEAN, idle : BOOLEAN]

ASSUME TasksAssumption ==
    /\ Reader \notin Writers \cup Closers
    /\ Writers \cap Closers = {}
ASSUME OptionsAssumption ==
    Options \subseteq {o \in OptionType : o.limit >= -1}
ASSUME BoundsAssumption ==
    /\ MaxChunks \in Nat
    /\ MaxBatch \in Nat

VARIABLES
    option,     \* PipeInner.option, fixed at creation
    data,       \* PipeInner.data: the buffered chunks
    state,      \* PipeInner.state
    closed,     \* PipeShared.closed
    errSlot,    \* PipeShared.err_slot is Some
    count,      \* CountingNotify.count of read_signal and of write_signal
    wakers,     \* CountingNotify.wakers of both signals, as sets of tasks
    pc,         \* where each task is; "idle" is outside every call
    woken,      \* the task's waker fired since its last poll began
    sig,        \* the task's sig_fired local
    mb,         \* the MultiBuffer of each writer's write call
    made,       \* chunks the writers have produced so far, numbered from 1
    res,        \* what the last finished read returned
    accepted,   \* history: the chunks merged into data, in order
    delivered,  \* history: the chunks reads returned, in order
    lost        \* history: the buffered chunks interrupt released

shared == <<data, state, closed, errSlot>>
hist   == <<accepted, delivered, lost>>
vars   == <<option, shared, count, wakers, pc, woken, sig, mb, made, res, hist>>

Chunk == Nat \ {0}

\* PipeOption::is_full: a write that starts at or below the limit goes through.
IsFull(o, size) == o.limit >= 0 /\ size > o.limit

\* The signal a waiting task sleeps on, and the one it raises for its peer.
OwnSignal(t)  == IF t = Reader THEN "read" ELSE "write"
PeerSignal(t) == IF t = Reader THEN "write" ELSE "read"

\* Where a poll (re)starts: the top of the loop of poll_read / poll_write.
LoopTop(t) == IF t = Reader THEN "take" ELSE "put"

Goto(t, l) == pc' = [pc EXCEPT ![t] = l]

\* k fresh chunks, as the MultiBuffer of one write call.
Batch(k) == [i \in 1..k |-> made + i]

\* new_with_option
Init ==
    /\ option \in Options
    /\ data = <<>> /\ state = "Open" /\ closed = FALSE /\ errSlot = FALSE
    /\ count  = [s \in {"read", "write"} |-> 0]
    /\ wakers = [s \in {"read", "write"} |-> {}]
    /\ pc     = [t \in Tasks |-> "idle"]
    /\ woken  = [t \in Waiters |-> FALSE]
    /\ sig    = [t \in Waiters |-> FALSE]
    /\ mb     = [w \in Writers |-> <<>>]
    /\ made = 0 /\ res = "none"
    /\ accepted = <<>> /\ delivered = <<>> /\ lost = <<>>

(***************************************************************************)
(* CountingNotify                                                          *)
(***************************************************************************)

\* wake_all: take the registered wakers of signal s and wake them.
WakeAll(s) ==
    /\ woken'  = [t \in Waiters |-> woken[t] \/ t \in wakers[s]]
    /\ wakers' = [wakers EXCEPT ![s] = {}]

\* signal, first half: count.fetch_add(1); only the first permit wakes.
SignalAdd(t) ==
    /\ pc[t] = "signal"
    /\ count' = [count EXCEPT ![PeerSignal(t)] = @ + 1]
    /\ Goto(t, IF count[PeerSignal(t)] = 0 THEN "wake" ELSE "idle")
    /\ UNCHANGED <<option, shared, wakers, woken, sig, mb, made, res, hist>>

\* signal, second half: wake_all, then the call returns.
SignalWake(t) ==
    /\ pc[t] = "wake"
    /\ WakeAll(PeerSignal(t))
    /\ Goto(t, "idle")
    /\ UNCHANGED <<option, shared, count, sig, mb, made, res, hist>>

\* Mutant: a wait takes one permit, whether or not there is one.
SwapDecrement(t, here, miss) ==
    /\ pc[t] = here
    /\ sig'   = [sig EXCEPT ![t] = count[OwnSignal(t)] > 0]
    /\ count' = [count EXCEPT ![OwnSignal(t)] = @ - 1]
    /\ Goto(t, IF count[OwnSignal(t)] > 0 THEN "check" ELSE miss)
    /\ UNCHANGED <<option, shared, wakers, woken, mb, made, res, hist>>

\* poll_wait's two count.swap(0): a permit found ends the wait.
Swap(t, here, miss) ==
    /\ pc[t] = here
    /\ sig'   = [sig EXCEPT ![t] = count[OwnSignal(t)] > 0]
    /\ count' = [count EXCEPT ![OwnSignal(t)] = 0]
    /\ Goto(t, IF count[OwnSignal(t)] > 0 THEN "check" ELSE miss)
    /\ UNCHANGED <<option, shared, wakers, woken, mb, made, res, hist>>

FirstSwap(t)  == Swap(t, "swap1", "register")
\* Mutant: no second look at the permits after registering.
SingleCheck(t) ==
    /\ pc[t] = "swap2"
    /\ Goto(t, "check")
    /\ UNCHANGED <<option, shared, count, wakers, woken, sig, mb, made, res, hist>>

SecondSwap(t) == Swap(t, "swap2", "check")

\* register: at most one waker per task.
Register(t) ==
    /\ pc[t] = "register"
    /\ wakers' = [wakers EXCEPT ![OwnSignal(t)] = @ \cup {t}]
    /\ Goto(t, "swap2")
    /\ UNCHANGED <<option, shared, count, woken, sig, mb, made, res, hist>>

\* closed_now = is_closed(), then loop again or return Pending; sig_fired goes
\* out of scope.
CheckClosed(t) ==
    /\ pc[t] = "check"
    /\ Goto(t, IF sig[t] \/ closed THEN LoopTop(t) ELSE "parked")
    /\ sig' = [sig EXCEPT ![t] = FALSE]
    /\ UNCHANGED <<option, shared, count, wakers, woken, mb, made, res, hist>>

\* The runtime polls a woken task again.
Repoll(t) ==
    /\ pc[t] = "parked" /\ woken[t]
    /\ woken' = [woken EXCEPT ![t] = FALSE]
    /\ Goto(t, LoopTop(t))
    /\ UNCHANGED <<option, shared, count, wakers, sig, mb, made, res, hist>>

(***************************************************************************)
(* Reader                                                                  *)
(***************************************************************************)

ReadStart ==
    /\ pc[Reader] = "idle"
    /\ Goto(Reader, "take")
    /\ woken' = [woken EXCEPT ![Reader] = FALSE]
    /\ res' = "none"
    /\ UNCHANGED <<option, shared, count, wakers, sig, mb, made, hist>>

\* Mutant: the read does not tell the writers about the room it made.
TakeSilently ==
    /\ pc[Reader] = "take"
    /\ data' = <<>>
    /\ delivered' = delivered \o data
    /\ \/ data # <<>> /\ Goto(Reader, "idle") /\ res' = "Ok"
       \/ data = <<>> /\ Goto(Reader, "state") /\ UNCHANGED res
    /\ UNCHANGED <<option, state, closed, errSlot, count, wakers, woken, sig,
                   mb, made, accepted, lost>>

\* First critical section of poll_read: take everything that is buffered.
\* The chunks are in the call's hands from here on; it returns them after
\* it has signalled the writers.
Take ==
    /\ pc[Reader] = "take"
    /\ data' = <<>>
    /\ delivered' = delivered \o data
    /\ \/ data # <<>> /\ Goto(Reader, "signal") /\ res' = "Ok"
       \/ data = <<>> /\ Goto(Reader, "state") /\ UNCHANGED res
    /\ UNCHANGED <<option, state, closed, errSlot, count, wakers, woken, sig,
                   mb, made, accepted, lost>>

ReadReturn(r) ==
    /\ res' = r
    /\ Goto(Reader, "idle")

\* Second critical section of poll_read: the state, under a new lock.
CheckState ==
    /\ pc[Reader] = "state"
    /\ \/ state = "Open"   /\ Goto(Reader, "slot") /\ UNCHANGED res
       \/ state = "Closed" /\ ReadReturn("Eof")
       \/ state = "Errord" /\ ReadReturn("WriteError")
    /\ UNCHANGED <<option, shared, count, wakers, woken, sig, mb, made, hist>>

\* err_slot.take()
CheckSlot ==
    /\ pc[Reader] = "slot"
    /\ errSlot' = FALSE
    /\ \/ errSlot  /\ ReadReturn("Injected")
       \/ ~errSlot /\ Goto(Reader, "swap1") /\ UNCHANGED res
    /\ UNCHANGED <<option, data, state, closed, count, wakers, woken, sig, mb,
                   made, hist>>

\* The idle timer is due when poll_read polls it, just before it would loop
\* or return Pending.
IdleExpired ==
    /\ option.idle
    /\ pc[Reader] = "check"
    /\ ReadReturn("IdleEof")
    /\ sig' = [sig EXCEPT ![Reader] = FALSE]
    /\ UNCHANGED <<option, shared, count, wakers, woken, mb, made, hist>>

\* The idle timer wakes the suspended reader.
IdleWake ==
    /\ option.idle
    /\ pc[Reader] = "parked"
    /\ woken' = [woken EXCEPT ![Reader] = TRUE]
    /\ UNCHANGED <<option, shared, count, wakers, pc, sig, mb, made, res, hist>>

\* read_multi_buffer_timeout: the deadline drops the suspended read.
ReadTimeout ==
    /\ pc[Reader] = "parked"
    /\ ReadReturn("TimeoutError")
    /\ UNCHANGED <<option, shared, count, wakers, woken, sig, mb, made, hist>>

\* return_an_error and recover, from any task: neither raises a signal.
ReturnAnError ==
    /\ ~errSlot
    /\ errSlot' = TRUE
    /\ UNCHANGED <<option, data, state, closed, count, wakers, pc, woken, sig,
                   mb, made, res, hist>>

Recover ==
    /\ errSlot
    /\ errSlot' = FALSE
    /\ UNCHANGED <<option, data, state, closed, count, wakers, pc, woken, sig,
                   mb, made, res, hist>>

(***************************************************************************)
(* Writer                                                                  *)
(***************************************************************************)

\* write_multi_buffer with k chunks (an empty MultiBuffer returns at once).
WriteStart(w) ==
    /\ pc[w] = "idle"
    /\ \E k \in 1..MaxBatch :
          /\ made + k <= MaxChunks
          /\ mb'   = [mb EXCEPT ![w] = Batch(k)]
          /\ made' = made + k
    /\ woken' = [woken EXCEPT ![w] = FALSE]
    /\ Goto(w, "put")
    /\ UNCHANGED <<option, shared, count, wakers, sig, res, hist>>

\* Mutant: a write does not look at the state, and goes into a closed pipe.
PutUnchecked(w) ==
    /\ ~IsFull(option, Len(data))
    /\ data' = data \o mb[w]
    /\ accepted' = accepted \o mb[w]
    /\ mb' = [mb EXCEPT ![w] = <<>>]
    /\ Goto(w, "signal")

\* WriteAction::Done
PutDone(w) ==
    /\ state = "Open" /\ ~IsFull(option, Len(data))
    /\ data' = data \o mb[w]
    /\ accepted' = accepted \o mb[w]
    /\ mb' = [mb EXCEPT ![w] = <<>>]
    /\ Goto(w, "signal")

\* WriteAction::Wait: the chunks stay in mb.
PutWait(w) ==
    /\ state = "Open" /\ IsFull(option, Len(data)) /\ ~option.discard
    /\ Goto(w, "swap1")
    /\ UNCHANGED <<data, accepted, mb>>

\* WriteAction::Discard (an Ok for the caller) and WriteAction::Err.
PutRelease(w) ==
    /\ \/ state = "Open" /\ IsFull(option, Len(data)) /\ option.discard
       \/ state \in {"Closed", "Errord"}
    /\ mb' = [mb EXCEPT ![w] = <<>>]
    /\ Goto(w, "idle")
    /\ UNCHANGED <<data, accepted>>

\* The critical section of poll_write.
Put(w) ==
    /\ pc[w] = "put"
    /\ PutDone(w) \/ PutWait(w) \/ PutRelease(w)
    /\ UNCHANGED <<option, state, closed, errSlot, count, wakers, woken, sig,
                   made, res, delivered, lost>>

\* The caller drops a suspended write (select!, timeout, abort).
WriteCancel(w) ==
    /\ pc[w] = "parked"
    /\ mb' = [mb EXCEPT ![w] = <<>>]
    /\ Goto(w, "idle")
    /\ UNCHANGED <<option, shared, count, wakers, woken, sig, made, res, hist>>

(***************************************************************************)
(* close, interrupt, mark_closed                                           *)
(***************************************************************************)

\* Writer::close: only the call that finds the pipe open goes on.
Close(c) ==
    /\ pc[c] = "idle"
    /\ \/ state = "Open" /\ state' = "Closed" /\ Goto(c, "mark")
       \/ state # "Open" /\ UNCHANGED <<pc, state>>
    /\ UNCHANGED <<option, data, closed, errSlot, count, wakers, woken, sig, mb,
                   made, res, hist>>

\* interrupt_shared: release what is buffered; a pipe that was closed and
\* already drained stays Closed.
Interrupt(c) ==
    /\ pc[c] = "idle"
    /\ data' = <<>>
    /\ lost' = lost \o data
    /\ state' = IF state = "Open" \/ data # <<>> THEN "Errord" ELSE state
    /\ Goto(c, "mark")
    /\ UNCHANGED <<option, closed, errSlot, count, wakers, woken, sig, mb, made,
                   res, accepted, delivered>>

\* Mutant: the close flag is raised and nobody is woken.
MarkSilently(c) ==
    /\ pc[c] = "mark"
    /\ closed' = TRUE
    /\ Goto(c, "idle")
    /\ UNCHANGED <<option, data, state, errSlot, count, wakers, woken, sig, mb,
                   made, res, hist>>

\* mark_closed: the closed.swap(true), then both wake_all by the first caller.
MarkClosed(c) ==
    /\ pc[c] = "mark"
    /\ closed' = TRUE
    /\ Goto(c, IF closed THEN "idle" ELSE "wakeReader")
    /\ UNCHANGED <<option, data, state, errSlot, count, wakers, woken, sig, mb,
                   made, res, hist>>

MarkWake(c, here, s, next) ==
    /\ pc[c] = here
    /\ WakeAll(s)
    /\ Goto(c, next)
    /\ UNCHANGED <<option, shared, count, sig, mb, made, res, hist>>

WakeReader(c)  == MarkWake(c, "wakeReader", "read", "wakeWriters")
WakeWriters(c) == MarkWake(c, "wakeWriters", "write", "idle")

(***************************************************************************)
(* Specification                                                           *)
(***************************************************************************)

\* Steps a waiting task takes inside a poll that has begun.
PollStep(t) ==
    \/ SignalAdd(t) \/ SignalWake(t)
    \/ FirstSwap(t) \/ Register(t) \/ SecondSwap(t) \/ CheckClosed(t)
    \/ Repoll(t)

ReaderPoll == PollStep(Reader) \/ Take \/ CheckState \/ CheckSlot
WriterPoll(w) == PollStep(w) \/ Put(w)

CloserStep(c) == MarkClosed(c) \/ WakeReader(c) \/ WakeWriters(c)

Next ==
    \/ ReadStart \/ ReaderPoll \/ IdleExpired \/ IdleWake \/ ReadTimeout
    \/ ReturnAnError \/ Recover
    \/ \E w \in Writers : WriteStart(w) \/ WriterPoll(w) \/ WriteCancel(w)
    \/ \E c \in Closers : Close(c) \/ Interrupt(c) \/ CloserStep(c)

Spec == Init /\ [][Next]_vars

(***************************************************************************)
(* The runtime polls every woken task and runs every poll, close() and     *)
(* interrupt() that has begun to its end.  The reader's caller is a copy   *)
(* loop: it reads again after every read except one that ended the stream. *)
(***************************************************************************)
ReadAgain == res \notin {"Eof", "WriteError"} /\ ReadStart

Fairness ==
    /\ WF_vars(ReaderPoll) /\ WF_vars(ReadAgain)
    /\ \A w \in Writers : WF_vars(WriterPoll(w))
    /\ \A c \in Closers : WF_vars(CloserStep(c))

FairSpec == Spec /\ Fairness

(***************************************************************************)
(* Properties                                                              *)
(***************************************************************************)

ReaderPC == {"idle", "take", "signal", "wake", "state", "slot", "swap1",
             "register", "swap2", "check", "parked"}
WriterPC == {"idle", "put", "signal", "wake", "swap1", "register", "swap2",
             "check", "parked"}
CloserPC == {"idle", "mark", "wakeReader", "wakeWriters"}

\* The type invariant of the pipe: permit counters are naturals, only tasks
\* that wait on a signal are in its waker list, and each task is at a program
\* point of the function it runs (struct CountingNotify, PipeInner, PipeShared).
TypeOK ==
    /\ option \in Options
    /\ data \in Seq(Chunk)
    /\ state \in {"Open", "Closed", "Errord"}
    /\ closed \in BOOLEAN /\ errSlot \in BOOLEAN
    /\ count \in [{"read", "write"} -> Nat]
    /\ wakers \in [{"read", "write"} -> SUBSET Waiters]
    /\ wakers["read"] \subseteq {Reader} /\ wakers["write"] \subseteq Writers
    /\ pc \in [Tasks -> ReaderPC \cup WriterPC \cup CloserPC]
    /\ pc[Reader] \in ReaderPC
    /\ \A w \in Writers : pc[w] \in WriterPC
    /\ \A c \in Closers : pc[c] \in CloserPC
    /\ woken \in [Waiters -> BOOLEAN]
    /\ sig \in [Waiters -> BOOLEAN]
    /\ mb \in [Writers -> Seq(Chunk)]
    /\ \A w \in Writers : Len(mb[w]) <= MaxBatch
    /\ made \in Nat
    /\ res \in {"none", "Ok", "Eof", "WriteError", "Injected", "IdleEof",
                "TimeoutError"}
    /\ accepted \in Seq(Chunk) /\ delivered \in Seq(Chunk)
    /\ lost \in Seq(Chunk)

\* Whatever the interleaving of several writers, reads, timeouts, cancelled
\* calls and a close, the reader receives exactly the accepted chunks, once
\* and in the order of their acceptance; only interrupt() loses any, and then
\* the reader has a prefix and nothing follows it (poll_read, poll_write).
Fifo ==
    /\ accepted = (delivered \o data) \o lost
    /\ lost # <<>> => data = <<>> /\ state = "Errord"

\* Backpressure: the buffer passes its limit by at most the one write that
\* was admitted at or below it, however many writers race (is_full).
BufferBound ==
    option.limit >= 0 => Len(data) <= option.limit + MaxBatch

\* Suspended, and no waker of the task has fired since.
Asleep(t) == pc[t] = "parked" /\ ~woken[t]

\* Nothing is under way: every task is outside a call or asleep inside one.
Quiet ==
    /\ \A t \in Waiters : pc[t] = "idle" \/ Asleep(t)
    /\ \A c \in Closers : pc[c] = "idle"

\* No wake-up is lost (CountingNotify's double check, signal on every take
\* and put, mark_closed): when nothing is under way any more, a reader asleep
\* has nothing to read and no close to see, and a writer asleep waits for a
\* read that will find chunks, on a pipe that is still open.
NoLostWakeup ==
    Quiet => /\ Asleep(Reader) => data = <<>> /\ state = "Open"
             /\ \A w \in Writers :
                   Asleep(w) => data # <<>> /\ state = "Open"

\* Past the second swap without a permit, and no waker fired since: a permit
\* that arrives now has to come with a wake-up.
Committed(t) == pc[t] \in {"check", "parked"} /\ ~sig[t] /\ ~woken[t]

\* About to run the critical section of poll_write again or for the first time.
Retrying(w) == pc[w] = "put" \/ (pc[w] = "check" /\ sig[w])

\* From register on, a task that found no permit is in the waker list, or its
\* waker has already fired.
Registered ==
    \A t \in Waiters :
        pc[t] = "swap2" \/ (pc[t] \in {"check", "parked"} /\ ~sig[t])
            => t \in wakers[OwnSignal(t)] \/ woken[t]

\* What accounts for a reader that goes to sleep: chunks it did not see are
\* still to be signalled, or their permit is still to be found.
ReaderCovered ==
    /\ pc[Reader] \in {"state", "slot", "swap1", "register", "swap2"} /\ data # <<>>
           => count["read"] > 0 \/ \E w \in Writers : pc[w] = "signal"
    /\ Committed(Reader) /\ (data # <<>> \/ count["read"] > 0)
           => \E w \in Writers :
                 pc[w] = "wake" \/ (count["read"] = 0 /\ pc[w] = "signal")

\* What accounts for a writer that goes to sleep: when the buffer is empty the
\* reader is about to signal, the permit is still there, or another writer
\* holds it and is about to fill the buffer.
WriterCovered ==
    \A w \in Writers :
        /\ state = "Open" /\ data = <<>> /\ pc[w] \in {"swap1", "register", "swap2"}
              => \/ pc[Reader] = "signal" \/ count["write"] > 0
                 \/ \E v \in Writers : Retrying(v)
        /\ Committed(w) /\ count["write"] > 0 => pc[Reader] = "wake"
        /\ state = "Open" /\ data = <<>> /\ Committed(w)
              => \/ pc[Reader] \in {"signal", "wake"}
                 \/ \E v \in Writers : Retrying(v)

\* What accounts for the close flag: it is raised only on a pipe that is not
\* open, by the task that will wake whoever did not see it.
CloseCovered ==
    /\ closed \/ (\E c \in Closers : pc[c] = "mark") <=> state # "Open"
    /\ closed /\ Asleep(Reader) => \E c \in Closers : pc[c] = "wakeReader"
    /\ \A w \in Writers :
          closed /\ Asleep(w) =>
              \E c \in Closers : pc[c] \in {"wakeReader", "wakeWriters"}

\* A write call that waits still holds its chunks (Pending loses no data), and
\* sig_fired lives from poll_wait to the test that follows it.
Locals ==
    /\ \A w \in Writers : pc[w] \notin {"idle", "signal", "wake"} => mb[w] # <<>>
    /\ \A t \in Waiters : sig[t] => pc[t] = "check"

\* The strengthening of NoLostWakeup that every step preserves: at each point
\* of poll_read, poll_write, signal and mark_closed, whatever a waiting task
\* has missed is still in the hands of a task that is under way.
WakeInv == Registered /\ ReaderCovered /\ WriterCovered /\ CloseCovered /\ Locals

\* The pipe at the level of its callers.
PipeStream == INSTANCE Stream WITH ended <- (state # "Open")

\* The pipe implements the stream its callers rely on: a write merges into the
\* stream only before the close, and the reads return its chunks from the first
\* one on, in order, whole and once, through every lock and wake-up between.
ImplementsStream == PipeStream!Spec

\* "close 后 buffered 读完返回 EOF": a read that reports EOF after close()
\* leaves no accepted chunk behind in the buffer.
EofMeansDrained == res = "Eof" => data = <<>>

\* Under a reader that keeps reading, every write call comes back: accepted,
\* discarded, refused or lost by its caller, never suspended for good.
WritesReturn == \A w \in Writers : pc[w] = "put" ~> pc[w] = "idle"

\* close() and interrupt() reach the reader wherever it is, asleep included:
\* a read ends with EOF or with the interruption.
CloseReachesReader == state # "Open" ~> res \in {"Eof", "WriteError"}
=============================================================================
