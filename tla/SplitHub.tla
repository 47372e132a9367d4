------------------------------ MODULE SplitHub ------------------------------
(***************************************************************************)
(* The server side of crates/xray-transport-splithttp: the session table of*)
(* hub/session.rs and the request handlers of hub/handler.rs, for the      *)
(* requests that carry one session id.                                     *)
(*                                                                         *)
(* Tasks: a handler per POST (packet-up), or one task that pushes the      *)
(* chunks of a single POST (stream-up); per GET its handler, the forward   *)
(* task that reads the queue, and the task its drop guard spawns; per      *)
(* session its reaper.  Session q owns queue q.                            *)
(***************************************************************************)
EXTENDS UploadQueue

CONSTANT MaxGets     \* GET requests in the life of the system

ASSUME MaxGetsAssumption == MaxGets \in Nat

Gets     == 1..MaxGets
Post(p)  == <<"post", p>>
Get(g)   == <<"get", g>>
Fwd(g)   == <<"fwd", g>>
Guard(g) == <<"guard", g>>
Reap(q)  == <<"reap", q>>
StreamUp == <<"up", 1>>
Fwds     == {Fwd(g) : g \in Gets}
Removers == Fwds \cup {Guard(g) : g \in Gets} \cup {Reap(q) : q \in Queues}
Closers  == Removers \cup {StreamUp}
Tasks    == Closers \cup {Post(p) : p \in Posts} \cup {Get(g) : g \in Gets}

VARIABLES
    mode,    \* how the client uploads: "packet" or "stream"
    map,     \* SessionMap.inner: the session of the id, or None
    made,    \* sessions made so far
    limit,   \* the bound on made
    conn     \* the permit of HttpSession.fully_connected

hub  == <<mode, map, made, limit, conn>>
vars == <<queues, tasks, hub>>

Init ==
    /\ QueueInit
    /\ \E w \in Workloads : seq = w.seq /\ limit = w.sessions
    /\ mode \in {"packet", "stream"}
    /\ mode = "stream" => \A p \in Posts : seq[p] \in {p - 1, Unsent}
    /\ map = None /\ made = 0
    /\ conn = [q \in Queues |-> FALSE]
    /\ pc   = [t \in Tasks |-> "idle"]
    /\ obj  = [t \in Tasks |-> None]
    /\ held = [t \in Tasks |-> None]

(***************************************************************************)
(* SessionMap                                                              *)
(***************************************************************************)

\* upsert: the session of the id, made with its reaper if there is none.
Upsert(t, l) ==
    /\ UNCHANGED <<queues, held, mode, limit, conn>>
    /\ \/ /\ map # None
          /\ Goto(t, l)
          /\ obj' = [obj EXCEPT ![t] = map]
          /\ UNCHANGED <<map, made>>
       \/ /\ map = None /\ made < limit
          /\ made' = made + 1 /\ map' = made + 1
          /\ pc'  = [pc EXCEPT ![t] = l, ![Reap(made + 1)] = "timer"]
          /\ obj' = [obj EXCEPT ![t] = made + 1, ![Reap(made + 1)] = made + 1]

\* Mutant: a removed session keeps its queue open.
RemoveOnly(t) ==
    /\ pc[t] = "remove"
    /\ map' = None
    /\ Leave(t, "done")
    /\ UNCHANGED <<queues, held, mode, made, limit, conn>>

\* remove: whatever session the id has now is taken out, then its queue closed.
Remove(t) ==
    /\ pc[t] = "remove"
    /\ map' = None
    /\ IF map = None THEN Leave(t, "done")
       ELSE Goto(t, "close") /\ obj' = [obj EXCEPT ![t] = map]
    /\ UNCHANGED <<queues, held, mode, made, limit, conn>>

\* The reaper: the GET came, or 30 seconds are over, whichever it sees first.
ReapConnected(q) ==
    /\ pc[Reap(q)] = "timer" /\ conn[q]
    /\ conn' = [conn EXCEPT ![q] = FALSE]
    /\ Leave(Reap(q), "done")
    /\ UNCHANGED <<queues, held, mode, map, made, limit>>

ReapTimeout(q) ==
    /\ pc[Reap(q)] = "timer"
    /\ Goto(Reap(q), "remove")
    /\ UNCHANGED <<queues, obj, held, hub>>

(***************************************************************************)
(* Requests                                                                *)
(***************************************************************************)

\* handle_packet_up: upsert, then push, given up after a timeout.
PacketUp(p) ==
    /\ mode = "packet" /\ pc[Post(p)] = "idle" /\ seq[p] # Unsent
    /\ Upsert(Post(p), "push")

PushTimeout(p) ==
    /\ mode = "packet" /\ pc[Post(p)] = "push"
    /\ Leave(Post(p), "failed")
    /\ UNCHANGED <<queues, held, hub>>

Push(p) == (PushSend(Post(p), p) \/ Notify(Post(p), "ok")) /\ UNCHANGED hub

\* handle_stream_up: the chunks of the body are pushed one after the other.
StreamStart == mode = "stream" /\ pc[StreamUp] = "idle" /\ Upsert(StreamUp, "chunk")

StreamChunk(p) ==
    /\ pc[StreamUp] = "chunk" /\ pc[Post(p)] = "idle" /\ seq[p] # Unsent
    /\ \A r \in 1..(p - 1) : pc[Post(r)] = "ok"
    /\ Goto(Post(p), "push")
    /\ obj' = [obj EXCEPT ![Post(p)] = obj[StreamUp]]
    /\ UNCHANGED <<queues, held, hub>>

\* The body ends, or a push has failed: the queue is closed.
StreamEnd ==
    /\ pc[StreamUp] = "chunk"
    /\ \A p \in Posts : pc[Post(p)] \notin {"push", "notify"}
    /\ Goto(StreamUp, "close")
    /\ UNCHANGED <<queues, obj, held, hub>>

\* handle_stream_down: upsert, then mark_fully_connected and the forward task.
StreamDown(g) == pc[Get(g)] = "idle" /\ Upsert(Get(g), "mark")

Mark(g) ==
    LET q == obj[Get(g)] IN
    /\ pc[Get(g)] = "mark"
    /\ conn' = [conn EXCEPT ![q] = TRUE]
    /\ pc' = [pc EXCEPT ![Get(g)] = "open", ![Fwd(g)] = "read"]
    /\ obj' = [obj EXCEPT ![Fwd(g)] = q]
    /\ UNCHANGED <<queues, held, mode, map, made, limit>>

\* The response ends or the client disconnects: the guard spawns a removal.
GetEnds(g) ==
    /\ pc[Get(g)] = "open"
    /\ pc' = [pc EXCEPT ![Get(g)] = "ended", ![Guard(g)] = "remove"]
    /\ obj' = [obj EXCEPT ![Get(g)] = None]
    /\ UNCHANGED <<queues, held, hub>>

\* forward_queue_to_writer: what was read is written to the dispatcher, which
\* takes it or has dropped the connection; at the end the session is removed.
Forward(g) ==
    LET t == Fwd(g) IN
    /\ \/ Read(t)
       \/ /\ \/ pc[t] = "write" /\ (Goto(t, "read") \/ Goto(t, "ended"))
             \/ pc[t] = "ended" /\ Goto(t, "remove")
          /\ UNCHANGED <<queues, obj, held>>
    /\ UNCHANGED hub

Close(t) == (CloseDrain(t) \/ CloseDrop(t) \/ Notify(t, "done")) /\ UNCHANGED hub

-----------------------------------------------------------------------------
\* What a task does by itself.
Removal(t) == Remove(t) \/ Close(t)
Reaper(q)  == ReapConnected(q) \/ ReapTimeout(q)

Next ==
    \/ \E p \in Posts : PacketUp(p) \/ PushTimeout(p) \/ Push(p) \/ StreamChunk(p)
    \/ StreamStart \/ StreamEnd
    \/ \E g \in Gets : StreamDown(g) \/ Mark(g) \/ GetEnds(g) \/ Forward(g)
    \/ \E t \in Removers : Removal(t)
    \/ Close(StreamUp)
    \/ \E q \in Queues : Reaper(q)

Spec == Init /\ [][Next]_vars

\* Tasks run until they end and timers fire; a lock is granted to who waits.  The
\* dispatcher reads or drops what is forwarded to it.  Requests need not come,
\* responses and bodies need not end.
Fairness ==
    /\ \A p \in Posts : WF_vars(Push(p))
    /\ \A g \in Gets : WF_vars(Mark(g)) /\ WF_vars(Forward(g))
    /\ \A t \in Removers : WF_vars(Removal(t))
    /\ WF_vars(Close(StreamUp))
    /\ \A q \in Queues : WF_vars(Reaper(q))

FairSpec == Spec /\ Fairness

-----------------------------------------------------------------------------
TaskPc ==
    {"idle", "push", "notify", "ok", "failed", "chunk", "mark", "open", "ended",
     "read", "heap", "set", "chan", "wait", "write", "timer", "remove", "close",
     "drop", "done"}

\* Every variable holds a value of its kind; a session in the table is one that
\* was made, and whoever works on a queue works on one that was made.
TypeOK ==
    /\ seq \in [Posts -> Unsent..MaxPosts] /\ limit \in 0..MaxQueues
    /\ chan \in [Queues -> Seq(Posts)] /\ heap \in [Queues -> SUBSET Posts]
    /\ nextSeq \in [Queues -> Nat]
    /\ current \in [Queues -> 0..MaxPosts] /\ left \in [Queues -> Nat]
    /\ closed \in [Queues -> BOOLEAN] /\ drained \in [Queues -> BOOLEAN]
    /\ permit \in [Queues -> BOOLEAN] /\ conn \in [Queues -> BOOLEAN]
    /\ mode \in {"packet", "stream"}
    /\ made \in 0..limit /\ map \in 0..made
    /\ pc \in [Tasks -> TaskPc] /\ obj \in [Tasks -> 0..made]
    /\ held \in [Tasks -> 0..MaxPosts]

\* The reader is given the packets by number, each once and none left out,
\* however the posts overtake each other and whichever of read and close takes
\* a packet out of the channel: what is current is what comes next.
InOrder ==
    /\ \A q \in Queues : current[q] # None => seq[current[q]] = nextSeq[q]
    /\ \A t \in Fwds : pc[t] = "set" => seq[held[t]] = nextSeq[obj[t]]

\* A packet the queue has accepted is in it until it is read, or an equal one
\* was, as long as the queue is not closed.
NothingLost ==
    \A p \in Posts :
        LET q == obj[Post(p)] IN
        (pc[Post(p)] \in {"notify", "ok"} /\ ~closed[q]) =>
            \/ p \in heap[q] \cup {current[q]} \cup {held[t] : t \in Fwds}
            \/ \E i \in DOMAIN chan[q] : chan[q][i] = p
            \/ seq[p] < nextSeq[q]

\* Where a forward task reads its queue.
Reading == {"read", "heap", "set", "chan", "wait", "write"}

\* One forward task reads a queue at a time.  Two GETs on one session break it.
OneReader ==
    \A s, t \in Fwds : s # t /\ pc[s] \in Reading /\ pc[t] \in Reading => obj[s] # obj[t]

\* A reader that sleeps while a packet is in the channel, or the queue is closed, is
\* about to be woken: no interleaving of push, close and the reader's last look at
\* the channel loses the permit.
ReaderWoken ==
    \A t \in Fwds :
        LET q == obj[t] IN
        pc[t] = "wait" /\ (closed[q] \/ chan[q] # <<>>) =>
            permit[q] \/ \E u \in Tasks : pc[u] = "notify" /\ obj[u] = q

\* A reader goes on only while the heap is within max_packets: gaps in the
\* numbers never make an open queue hold more than that and the channel.
HeapBound ==
    \A t \in Fwds :
        LET q == obj[t] IN
        pc[t] \in Reading /\ ~closed[q] /\ ~drained[q]
            => Cardinality(heap[q]) <= MaxPackets

\* Packets 0 to n were all accepted by queue q.
Arrived(q, n) ==
    \A k \in 0..n : \E p \in Posts : seq[p] = k /\ obj[Post(p)] = q /\ pc[Post(p)] = "ok"

\* A packet has been accepted, with all before it, and is not read.
Backlog(q) == ~closed[q] /\ \E n \in 0..MaxPosts : Arrived(q, n) /\ nextSeq[q] <= n

NoDuplicates == \A p, r \in Posts : seq[p] = seq[r] => p = r \/ seq[p] = Unsent

\* A packet that is accepted, with all before it, is soon read, unless the queue
\* is closed: no wake-up is lost between push, close and read.
Delivery == []<>(NoDuplicates => \A q \in Queues : ~Backlog(q))

\* A reader sleeps only when the packet that comes next is not there, repeated
\* packets or not: upload_queue.rs calls its treatment of these self-healing.
SelfHealing ==
    \A t \in Fwds :
        LET q == obj[t] IN
        pc[t] = "wait" /\ ~closed[q] /\ ~drained[q] => \A p \in heap[q] : seq[p] # nextSeq[q]

\* No session is left behind: its queue is closed, by the reaper or a removal,
\* unless a GET on it is still open.
Released ==
    []<>(\A q \in 1..made : closed[q] \/ \E g \in Gets : obj[Get(g)] = q /\ pc[Get(g)] = "open")

\* When a GET has ended its forward task ends too, also if the table holds
\* another session under the id by then.
ForwardEnds == \A g \in Gets : pc[Get(g)] = "ended" ~> pc[Fwd(g)] = "done"
=============================================================================
