---------------------------- MODULE UploadQueue ----------------------------
(***************************************************************************)
(* The reordering queue of crates/xray-transport-splithttp, upload_queue.rs:*)
(* POST handlers push numbered packets into a channel, one task reads them *)
(* in the order of their numbers, and the queue is closed once.  SplitHub  *)
(* extends this module with the sessions that own the queues.              *)
(*                                                                         *)
(* A packet is the post that brought it: two posts may carry the same      *)
(* number.  A packet is read in one or more pieces, as the reader's buffer *)
(* allows.  A step is one critical section of inner, or one await.         *)
(***************************************************************************)
EXTENDS Integers, Sequences, FiniteSets

CONSTANTS
    MaxPosts,     \* posts in the life of the system
    MaxQueues,    \* queues in the life of the system
    ChanCap,      \* capacity of the channel: 64 in the code
    MaxPackets,   \* max_packets, the limit of the heap
    Pieces,       \* pieces of each packet, by number
    Workloads     \* the numbers the posts carry, and the sessions there may be

ASSUME UploadQueueAssumption ==
    /\ MaxPosts \in Nat /\ MaxQueues \in Nat \ {0}
    /\ ChanCap \in Nat \ {0} /\ MaxPackets \in Nat
    /\ Pieces \in [0..MaxPosts -> Nat \ {0}]
    /\ Workloads \subseteq [seq : [1..MaxPosts -> -1..MaxPosts], sessions : 0..MaxQueues]

Posts  == 1..MaxPosts
Queues == 1..MaxQueues
None   == 0
Unsent == -1    \* the number of a post that is never sent

VARIABLES
    seq,       \* the number of each post's packet
    chan,      \* the mpsc channel of each queue
    heap,      \* Inner.heap
    nextSeq,   \* Inner.next_seq
    current,   \* Inner.current, and the pieces of it left to read
    left,
    closed,    \* Inner.closed, with Inner.pushed gone
    drained,   \* close() holds inner: the channel is drained, not yet dropped
    permit,    \* the permit of notify
    pc,        \* where each task is
    obj,       \* the queue a task works on
    held       \* the packet a reader holds between two critical sections

queues == <<seq, chan, heap, nextSeq, current, left, closed, drained, permit>>
tasks  == <<pc, obj, held>>

Goto(t, l) == pc' = [pc EXCEPT ![t] = l]

\* A task that ends forgets its queue.
Leave(t, l) == Goto(t, l) /\ obj' = [obj EXCEPT ![t] = None]

Unlocked(q) == ~drained[q]

QueueInit ==
    /\ chan    = [q \in Queues |-> <<>>]
    /\ heap    = [q \in Queues |-> {}]
    /\ nextSeq = [q \in Queues |-> 0]
    /\ current = [q \in Queues |-> None]
    /\ left    = [q \in Queues |-> 0]
    /\ closed  = [q \in Queues |-> FALSE]
    /\ drained = [q \in Queues |-> FALSE]
    /\ permit  = [q \in Queues |-> FALSE]

(***************************************************************************)
(* push                                                                    *)
(***************************************************************************)

\* push_tx.send: it waits for room, and fails once the receiver is gone.
PushSend(t, p) ==
    LET q == obj[t] IN
    /\ pc[t] = "push"
    /\ \/ /\ closed[q]
          /\ Leave(t, "failed")
          /\ UNCHANGED chan
       \/ /\ ~closed[q] /\ Len(chan[q]) < ChanCap
          /\ chan' = [chan EXCEPT ![q] = Append(@, p)]
          /\ Goto(t, "notify")
          /\ UNCHANGED obj
    /\ UNCHANGED <<seq, heap, nextSeq, current, left, closed, drained, permit, held>>

\* Mutants: push, or close, wakes nobody.
NotifyClose(t, l) ==
    /\ pc[t] = "notify"
    /\ permit' = [permit EXCEPT ![obj[t]] = @ \/ l = "done"]
    /\ IF l = "done" THEN Leave(t, l) ELSE Goto(t, l) /\ UNCHANGED obj
    /\ UNCHANGED <<seq, chan, heap, nextSeq, current, left, closed, drained, held>>

NotifyPush(t, l) ==
    /\ pc[t] = "notify"
    /\ permit' = [permit EXCEPT ![obj[t]] = @ \/ l = "ok"]
    /\ IF l = "done" THEN Leave(t, l) ELSE Goto(t, l) /\ UNCHANGED obj
    /\ UNCHANGED <<seq, chan, heap, nextSeq, current, left, closed, drained, held>>

\* notify_one
Notify(t, l) ==
    /\ pc[t] = "notify"
    /\ permit' = [permit EXCEPT ![obj[t]] = TRUE]
    /\ IF l = "done" THEN Leave(t, l) ELSE Goto(t, l) /\ UNCHANGED obj
    /\ UNCHANGED <<seq, chan, heap, nextSeq, current, left, closed, drained, held>>

(***************************************************************************)
(* close                                                                   *)
(***************************************************************************)

\* Mutant: the first packet of the channel becomes current whatever its number.
DrainedAny(q) ==
    LET in == {chan[q][i] : i \in DOMAIN chan[q]}
    IN  IF current[q] # None \/ in = {} THEN [cur |-> current[q], rest |-> in]
        ELSE [cur |-> Head(chan[q]), rest |-> in \ {Head(chan[q])}]

\* A packet of the channel becomes the current one if it is next and there is
\* none, and goes into the heap otherwise.
Drained(q) ==
    LET in == {chan[q][i] : i \in DOMAIN chan[q]}
        hit == {i \in DOMAIN chan[q] : seq[chan[q][i]] = nextSeq[q]}
    IN  IF current[q] # None \/ hit = {} THEN [cur |-> current[q], rest |-> in]
        ELSE LET p == chan[q][CHOOSE i \in hit : \A j \in hit : i <= j]
             IN  [cur |-> p, rest |-> in \ {p}]

\* inner.lock(), and the channel drained.
CloseDrain(t) ==
    LET q == obj[t] IN
    /\ pc[t] = "close" /\ Unlocked(q)
    /\ current' = [current EXCEPT ![q] = Drained(q).cur]
    /\ left'    = [left EXCEPT ![q] = IF current[q] = None /\ Drained(q).cur # None
                                      THEN Pieces[nextSeq[q]] ELSE @]
    /\ heap'    = [heap EXCEPT ![q] = @ \cup Drained(q).rest]
    /\ chan'    = [chan EXCEPT ![q] = <<>>]
    /\ drained' = [drained EXCEPT ![q] = TRUE]
    /\ Goto(t, "drop")
    /\ UNCHANGED <<seq, nextSeq, closed, permit, obj, held>>

\* The receiver is dropped with what was sent since; inner is unlocked.
CloseDrop(t) ==
    LET q == obj[t] IN
    /\ pc[t] = "drop"
    /\ closed'  = [closed EXCEPT ![q] = TRUE]
    /\ chan'    = [chan EXCEPT ![q] = <<>>]
    /\ drained' = [drained EXCEPT ![q] = FALSE]
    /\ Goto(t, "notify")
    /\ UNCHANGED <<seq, heap, nextSeq, current, left, permit, obj, held>>

(***************************************************************************)
(* read, called by task t                                                  *)
(***************************************************************************)

\* 1. A piece of the current packet; after the last one next_seq goes up.
ReadCurrent(t) ==
    LET q == obj[t] IN
    /\ pc[t] = "read" /\ Unlocked(q)
    /\ IF current[q] = None THEN Goto(t, "heap") /\ UNCHANGED <<nextSeq, current, left>>
       ELSE /\ left' = [left EXCEPT ![q] = @ - 1]
            /\ IF left[q] > 1 THEN UNCHANGED <<nextSeq, current>>
               ELSE /\ current' = [current EXCEPT ![q] = None]
                    /\ nextSeq' = [nextSeq EXCEPT ![q] = @ + 1]
            /\ Goto(t, "write")
    /\ UNCHANGED <<seq, chan, heap, closed, drained, permit, obj, held>>

\* The packets at the top of the heap.
Top(q) == {p \in heap[q] : \A r \in heap[q] : seq[p] <= seq[r]}

\* 2. The top of the heap is next and is popped; or the heap is too large.
ReadHeap(t) ==
    LET q == obj[t] IN
    /\ pc[t] = "heap" /\ Unlocked(q)
    /\ \/ \E p \in Top(q) :
             /\ seq[p] = nextSeq[q]
             /\ heap' = [heap EXCEPT ![q] = @ \ {p}]
             /\ held' = [held EXCEPT ![t] = p]
             /\ Goto(t, "set")
       \/ /\ \A p \in Top(q) : seq[p] # nextSeq[q]
          /\ Goto(t, IF Cardinality(heap[q]) > MaxPackets THEN "ended" ELSE "chan")
          /\ UNCHANGED <<heap, held>>
    /\ UNCHANGED <<seq, chan, nextSeq, current, left, closed, drained, permit, obj>>

\* The popped packet becomes the current one, under the lock again.
ReadSet(t) ==
    LET q == obj[t] IN
    /\ pc[t] = "set" /\ Unlocked(q)
    /\ current' = [current EXCEPT ![q] = held[t]]
    /\ left'    = [left EXCEPT ![q] = Pieces[seq[held[t]]]]
    /\ held'    = [held EXCEPT ![t] = None]
    /\ Goto(t, "read")
    /\ UNCHANGED <<seq, chan, heap, nextSeq, closed, drained, permit, obj>>

\* Mutant: a packet that comes early is dropped.
ReadChanEarly(t) ==
    LET q == obj[t] IN
    /\ pc[t] = "chan" /\ Unlocked(q) /\ ~closed[q] /\ chan[q] # <<>>
    /\ chan' = [chan EXCEPT ![q] = Tail(@)]
    /\ LET p == Head(chan[q]) IN
       \/ /\ seq[p] = nextSeq[q]
          /\ current' = [current EXCEPT ![q] = p]
          /\ left' = [left EXCEPT ![q] = Pieces[seq[p]]]
          /\ UNCHANGED heap
       \/ /\ seq[p] > nextSeq[q]
          /\ UNCHANGED <<heap, current, left>>
       \/ /\ seq[p] < nextSeq[q]
          /\ heap' = [heap EXCEPT ![q] = @ \cup {p}]
          /\ UNCHANGED <<current, left>>
    /\ Goto(t, IF Cardinality(heap'[q]) > MaxPackets THEN "ended" ELSE "read")
    /\ UNCHANGED <<seq, nextSeq, closed, drained, permit, obj, held>>

\* 3. A packet of the channel: the next one becomes current, one that comes late
\* is dropped, any other goes into the heap, which may then be too large.
ReadChan(t) ==
    LET q == obj[t] IN
    /\ pc[t] = "chan" /\ Unlocked(q) /\ ~closed[q] /\ chan[q] # <<>>
    /\ chan' = [chan EXCEPT ![q] = Tail(@)]
    /\ LET p == Head(chan[q]) IN
       \/ /\ seq[p] = nextSeq[q]
          /\ current' = [current EXCEPT ![q] = p]
          /\ left' = [left EXCEPT ![q] = Pieces[seq[p]]]
          /\ Goto(t, "read")
          /\ UNCHANGED heap
       \/ /\ seq[p] < nextSeq[q]
          /\ Goto(t, "read")
          /\ UNCHANGED <<heap, current, left>>
       \/ /\ seq[p] > nextSeq[q]
          /\ heap' = [heap EXCEPT ![q] = @ \cup {p}]
          /\ Goto(t, IF Cardinality(heap'[q]) > MaxPackets THEN "ended" ELSE "read")
          /\ UNCHANGED <<current, left>>
    /\ UNCHANGED <<seq, nextSeq, closed, drained, permit, obj, held>>

\* Nothing there: the end once the queue is closed, otherwise wait.
ReadEmpty(t) ==
    LET q == obj[t] IN
    /\ pc[t] = "chan" /\ Unlocked(q)
    /\ closed[q] \/ chan[q] = <<>>
    /\ Goto(t, IF closed[q] THEN "ended" ELSE "wait")
    /\ UNCHANGED <<queues, obj, held>>

\* notified()
ReadWake(t) ==
    /\ pc[t] = "wait" /\ permit[obj[t]]
    /\ permit' = [permit EXCEPT ![obj[t]] = FALSE]
    /\ Goto(t, "read")
    /\ UNCHANGED <<seq, chan, heap, nextSeq, current, left, closed, drained, obj, held>>

Read(t) ==
    \/ ReadCurrent(t) \/ ReadHeap(t) \/ ReadSet(t) \/ ReadChan(t) \/ ReadEmpty(t)
    \/ ReadWake(t)
=============================================================================
