----------------------------- MODULE KcpWindow -----------------------------
(***************************************************************************)
(* One direction of an mKCP connection: the SendingWorker of one peer      *)
(* (crates/xray-transport-kcp/src/sending.rs), the ReceivingWorker and     *)
(* AckList of the other (receiving.rs), and the UDP path between them,     *)
(* which loses, duplicates and reorders.                                   *)
(*                                                                         *)
(* A segment is its number: pushing gives payloads consecutive numbers and *)
(* a retransmission carries the same payload.  Which segments are due for  *)
(* (re)transmission and which acknowledgements are due is a choice of the  *)
(* clock.  Numbers do not wrap (2^32 segments).                            *)
(***************************************************************************)
EXTENDS Integers, FiniteSets

CONSTANTS
    SendWindow,     \* SendingWorker window_size
    RecvWindow,     \* ReceivingWorker window_size
    InFlight,       \* segments one flush may send (in_flight_size * cwnd_multiplier)
    RemoteNext0,    \* initial remote_next_number
    AckLimit,       \* numbers one ACK segment holds
    MaxNumber,      \* bound: segments pushed
    MaxNet          \* bound: segments on the path at a time

ASSUME WindowAssumption ==
    /\ SendWindow \in Nat /\ RecvWindow \in Nat /\ InFlight \in Nat
    /\ RemoteNext0 \in Nat /\ AckLimit \in Nat
    /\ MaxNumber \in Nat /\ MaxNet \in Nat

VARIABLES
    window,     \* sender: numbers in SendingWindow.cache
    unsent,     \* sender: first number never transmitted (transmit = 0)
    firstUna,   \* sender: first_unacknowledged
    nextNumber, \* sender: next_number
    remoteNext, \* sender: remote_next_number
    sclosed,    \* sender: closed
    buf,        \* receiver: numbers in ReceivingWindow.cache
    recvNext,   \* receiver: next_number
    acklist,    \* receiver: AckList.numbers
    dirty,      \* receiver: AckList.dirty
    net,        \* the path: the segments in flight
    cut         \* history: numbers close_write or release dropped

sender   == <<window, unsent, firstUna, nextNumber, remoteNext, sclosed, cut>>
receiver == <<buf, recvNext, acklist, dirty>>
vars     == <<sender, receiver, net>>

\* DataSegment, AckSegment, and the two halves of a CmdOnlySegment that
\* concern this direction (sending_next from the sender, receiving_next from
\* the receiver).
DataSegment(n, una) == [cmd |-> "data", number |-> n, sendingNext |-> una]
AckSegment(S, next) == [cmd |-> "ack", numbers |-> S, receivingNext |-> next]
SenderPing(una)     == [cmd |-> "una", sendingNext |-> una]
ReceiverPing(next)  == [cmd |-> "next", receivingNext |-> next]

Init ==
    /\ window = {} /\ unsent = 0 /\ firstUna = 0 /\ nextNumber = 0
    /\ remoteNext = RemoteNext0 /\ sclosed = FALSE
    /\ buf = {} /\ recvNext = 0 /\ acklist = {} /\ dirty = FALSE
    /\ net = {} /\ cut = {}

(***************************************************************************)
(* The path.  Sending to a full path evicts what was in flight.            *)
(***************************************************************************)
Send(new) ==
    \E kept \in SUBSET net :
        /\ kept = net \/ Cardinality(net \cup new) > MaxNet
        /\ Cardinality(kept \cup new) <= MaxNet
        /\ net' = kept \cup new

\* A received segment may be seen again: the path duplicates.
Consume(m) == net' = net \/ net' = net \ {m}

Lose(m) == m \in net /\ net' = net \ {m} /\ UNCHANGED <<sender, receiver>>

(***************************************************************************)
(* SendingWorker                                                           *)
(***************************************************************************)

\* push
Push ==
    /\ nextNumber < MaxNumber
    /\ ~sclosed /\ Cardinality(window) <= SendWindow
    /\ window' = window \cup {nextNumber}
    /\ nextNumber' = nextNumber + 1
    /\ UNCHANGED <<unsent, firstUna, remoteNext, sclosed, cut, receiver, net>>

\* remote_next_number - first_unacknowledged wraps when an advertised window
\* lags behind, which leaves only the in-flight size as a limit.  At least
\* one due segment is always sent.
Cwnd ==
    IF remoteNext >= firstUna /\ remoteNext - firstUna < InFlight
    THEN remoteNext - firstUna ELSE InFlight

\* Mutant: nothing is retransmitted.
FlushOnce(again, upto) ==
    LET fresh == {n \in window : unsent <= n /\ n < upto}
    IN  /\ ~sclosed
        /\ again = {} /\ fresh # {}
        /\ Cardinality(fresh) <= Cwnd \/ Cardinality(fresh) = 1
        /\ unsent' = upto
        /\ Send({DataSegment(n, firstUna) : n \in fresh})
        /\ UNCHANGED <<window, firstUna, nextNumber, remoteNext, sclosed, cut, receiver>>

\* flush_with_writer: segments that timed out, and then segments never sent
\* so far in order, up to the congestion window.
Flush(again, upto) ==
    LET fresh == {n \in window : unsent <= n /\ n < upto}
        batch == again \cup fresh
    IN  /\ ~sclosed
        /\ again \subseteq {n \in window : n < unsent}
        /\ batch # {}
        /\ Cardinality(batch) <= Cwnd \/ Cardinality(batch) = 1
        /\ unsent' = upto
        /\ Send({DataSegment(n, firstUna) : n \in batch})
        /\ UNCHANGED <<window, firstUna, nextNumber, remoteNext, sclosed, cut, receiver>>

\* Mutant: first_unacknowledged jumps to next_number whatever the window holds.
ClearToEnd(w) == window' = w /\ firstUna' = nextNumber

\* clear_before and remove leave w; then find_first_unacknowledged: the number
\* at the front of the window, next_number if there is none.
ClearTo(w) ==
    /\ window' = w
    /\ firstUna' \in IF w = {} THEN {nextNumber} ELSE {n \in w : \A k \in w : n <= k}

\* Mutant: receiving_next itself is taken for received.
RecvAckOffByOne(m) ==
    /\ m \in net /\ m.cmd = "ack"
    /\ Consume(m)
    /\ IF sclosed
       THEN UNCHANGED <<window, firstUna, remoteNext>>
       ELSE /\ remoteNext' = IF remoteNext < m.receivingNext + RecvWindow
                             THEN m.receivingNext + RecvWindow ELSE remoteNext
            /\ ClearTo({n \in window : n > m.receivingNext} \ m.numbers)
    /\ UNCHANGED <<unsent, nextNumber, sclosed, cut, receiver>>

\* Mutant: the advertised window of an old ACK is believed.
RecvAckLatest(m) ==
    /\ m \in net /\ m.cmd = "ack"
    /\ Consume(m)
    /\ IF sclosed
       THEN UNCHANGED <<window, firstUna, remoteNext>>
       ELSE /\ remoteNext' = m.receivingNext + RecvWindow
            /\ ClearTo({n \in window : n >= m.receivingNext} \ m.numbers)
    /\ UNCHANGED <<unsent, nextNumber, sclosed, cut, receiver>>

\* process_ack_segment
RecvAck(m) ==
    /\ m \in net /\ m.cmd = "ack"
    /\ Consume(m)
    /\ IF sclosed
       THEN UNCHANGED <<window, firstUna, remoteNext>>
       ELSE /\ remoteNext' = IF remoteNext < m.receivingNext + RecvWindow
                             THEN m.receivingNext + RecvWindow ELSE remoteNext
            /\ ClearTo({n \in window : n >= m.receivingNext} \ m.numbers)
    /\ UNCHANGED <<unsent, nextNumber, sclosed, cut, receiver>>

\* process_receiving_next, for the receiving_next of a CmdOnlySegment
RecvReceiverPing(m) ==
    /\ m \in net /\ m.cmd = "next"
    /\ Consume(m)
    /\ ClearTo({n \in window : n >= m.receivingNext})
    /\ UNCHANGED <<unsent, nextNumber, remoteNext, sclosed, cut, receiver>>

\* Connection::ping, sending_next = first_unacknowledged
PingPeer ==
    /\ Send({SenderPing(firstUna)})
    /\ UNCHANGED <<sender, receiver>>

\* close_write (the connection left the states in which it sends) and
\* release (terminate): the window is dropped, first_unacknowledged stays.
CloseWrite ==
    /\ window' = {} /\ cut' = cut \cup window
    /\ UNCHANGED <<unsent, firstUna, nextNumber, remoteNext, sclosed, receiver, net>>

Release ==
    /\ sclosed' = TRUE
    /\ window' = {} /\ cut' = cut \cup window
    /\ UNCHANGED <<unsent, firstUna, nextNumber, remoteNext, receiver, net>>

(***************************************************************************)
(* ReceivingWorker                                                         *)
(***************************************************************************)

\* Mutant: sending_next itself is taken for acknowledged.
AckClearOffByOne(una) == {n \in acklist : n > una}

\* AckList::clear
AckClear(una) == {n \in acklist : n >= una}

\* process_segment: a segment outside the window, one already read included,
\* is dropped and not acknowledged again.
RecvData(m) ==
    /\ m \in net /\ m.cmd = "data"
    /\ Consume(m)
    /\ IF m.number >= recvNext /\ m.number - recvNext < RecvWindow
       THEN /\ acklist' = AckClear(m.sendingNext) \cup {m.number}
            /\ dirty' = TRUE
            /\ buf' = buf \cup {m.number}
       ELSE UNCHANGED <<acklist, dirty, buf>>
    /\ UNCHANGED <<recvNext, sender>>

\* process_sending_next, for the sending_next of a CmdOnlySegment
RecvSenderPing(m) ==
    /\ m \in net /\ m.cmd = "una"
    /\ Consume(m)
    /\ acklist' = AckClear(m.sendingNext)
    /\ dirty' = (dirty \/ acklist' # acklist)
    /\ UNCHANGED <<buf, recvNext, sender>>

\* read_multi_buffer: everything consecutive from next_number.
Read ==
    /\ recvNext \in buf
    /\ \E m \in recvNext..(MaxNumber + 1) :
          /\ \A n \in recvNext..(m - 1) : n \in buf
          /\ m \notin buf
          /\ recvNext' = m
          /\ buf' = {n \in buf : n >= m}
    /\ UNCHANGED <<acklist, dirty, sender, net>>

\* Mutant: an acknowledgement is sent once and forgotten.
AckFlushOnce(S) ==
    /\ S \subseteq acklist /\ Cardinality(S) <= AckLimit
    /\ S # {} \/ dirty
    /\ dirty' = FALSE
    /\ acklist' = acklist \ S
    /\ Send({AckSegment(S, recvNext)})
    /\ UNCHANGED <<buf, recvNext, sender>>

\* AckList::flush: the numbers that are due, and an empty ACK if only dirty.
AckFlush(S) ==
    /\ S \subseteq acklist /\ Cardinality(S) <= AckLimit
    /\ S # {} \/ dirty
    /\ dirty' = FALSE
    /\ Send({AckSegment(S, recvNext)})
    /\ UNCHANGED <<buf, recvNext, acklist, sender>>

\* Connection::ping, receiving_next = next_number
PingBack ==
    /\ Send({ReceiverPing(recvNext)})
    /\ UNCHANGED <<sender, receiver>>

(***************************************************************************)
(* Specification                                                           *)
(***************************************************************************)
Next ==
    \/ Push \/ PingPeer \/ CloseWrite \/ Release
    \/ \E again \in SUBSET window, upto \in unsent..nextNumber : Flush(again, upto)
    \/ Read \/ PingBack
    \/ \E S \in SUBSET acklist : AckFlush(S)
    \/ \E m \in net : \/ Lose(m) \/ RecvData(m) \/ RecvSenderPing(m)
                      \/ RecvAck(m) \/ RecvReceiverPing(m)

Spec == Init /\ [][Next]_vars

(***************************************************************************)
(* The data updater flushes as long as segments or acknowledgements are    *)
(* pending, every segment times out again and again until it is removed,   *)
(* the application reads what is available, and the path, lossy as it is,  *)
(* delivers a segment that is sent over and over.                          *)
(***************************************************************************)
FlushOf(n) ==
    \E again \in SUBSET window, upto \in unsent..nextNumber :
        /\ n \in again \/ (unsent <= n /\ n < upto)
        /\ Flush(again, upto)
AckOf(n)      == \E S \in SUBSET acklist : n \in S /\ AckFlush(S)
RecvDataOf(n) == \E m \in net : m.cmd = "data" /\ m.number = n /\ RecvData(m)
RecvAckOf(n)  == \E m \in net : m.cmd = "ack" /\ n \in m.numbers /\ RecvAck(m)

Fairness ==
    /\ WF_vars(Read)
    /\ \A n \in 0..(MaxNumber - 1) :
          /\ WF_vars(FlushOf(n)) /\ WF_vars(AckOf(n))
          /\ SF_vars(RecvDataOf(n)) /\ SF_vars(RecvAckOf(n))

FairSpec == Spec /\ Fairness

(***************************************************************************)
(* Properties                                                              *)
(***************************************************************************)

\* The receiver has read the segment or holds it.
Received(n) == n < recvNext \/ n \in buf

\* The type invariant of both workers and the path; the sending window spans
\* first_unacknowledged to next_number (struct SendingWorker::Inner,
\* ReceivingWorker::Inner).
TypeOK ==
    /\ nextNumber \in Nat /\ unsent \in Nat /\ firstUna \in Nat
    /\ remoteNext \in Nat /\ recvNext \in Nat
    /\ window \subseteq firstUna..(nextNumber - 1)
    /\ cut \subseteq Nat /\ buf \subseteq Nat /\ acklist \subseteq Nat
    /\ sclosed \in BOOLEAN /\ dirty \in BOOLEAN
    /\ \A m \in net :
          \/ m.cmd = "data" /\ m = DataSegment(m.number, m.sendingNext)
             /\ m.number \in Nat /\ m.sendingNext \in Nat
          \/ m.cmd = "ack" /\ m = AckSegment(m.numbers, m.receivingNext)
             /\ m.numbers \subseteq Nat /\ m.receivingNext \in Nat
          \/ m.cmd = "una" /\ m = SenderPing(m.sendingNext) /\ m.sendingNext \in Nat
          \/ m.cmd = "next" /\ m = ReceiverPing(m.receivingNext) /\ m.receivingNext \in Nat

\* Reliability: whatever the path loses, duplicates or reorders, stale ACKs and
\* pings included, a pushed segment leaves the sending window only after the
\* receiver has it, unless the connection cut the window on purpose
\* (process_ack_segment, process_receiving_next, close_write).
NoPrematureRelease ==
    \A n \in 0..(nextNumber - 1) : n \in window \cup cut \/ Received(n)

\* The receiver never forgets an acknowledgement it still owes: a segment it
\* has and the sender still retransmits is in the AckList.  This matters since
\* a retransmission of a segment already read is dropped without a new entry
\* (process_segment, AckList::clear with sending_next).
AckOwed == \A n \in window : Received(n) => n \in acklist

\* The receiver buffers only what it may: unread numbers of its own window,
\* which the sender has pushed (process_segment's index test).
ReceiveWindowBound ==
    /\ buf \subseteq recvNext..(recvNext + RecvWindow - 1)
    /\ \A n \in buf : n < nextNumber
    /\ recvNext <= nextNumber

\* What is on the path, however old, is still true: no segment claims more
\* than its sender knows, so acting on it late or twice is harmless.
PathTruthful ==
    /\ firstUna <= nextNumber
    /\ \A n \in acklist : Received(n)
    /\ \A m \in net :
          /\ m.cmd \in {"data", "una"} => m.sendingNext <= firstUna
          /\ m.cmd = "data" => m.number < nextNumber
          /\ m.cmd \in {"ack", "next"} => m.receivingNext <= recvNext
          /\ m.cmd = "ack" => \A n \in m.numbers : Received(n)

\* Stale and duplicated acknowledgements never move a window back.
WindowsAdvance ==
    [][firstUna' >= firstUna /\ recvNext' >= recvNext /\ remoteNext' >= remoteNext]_vars

\* Every pushed segment is read in the end, unless a close cuts the window.
SegmentsArrive ==
    \A n \in 0..(MaxNumber - 1) : n < nextNumber ~> (n < recvNext \/ cut # {})

\* The sending window drains: acknowledgements get through in the end, so a
\* connection that waits for an empty window to close can close.
WindowDrains ==
    \A n \in 0..(MaxNumber - 1) : n \in window ~> (n \notin window \/ cut # {})
=============================================================================
