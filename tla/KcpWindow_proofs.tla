-------------------------- MODULE KcpWindow_proofs --------------------------
(***************************************************************************)
(* Proofs about KcpWindow, for windows of every size, any number of        *)
(* segments and a path of any capacity.                                    *)
(***************************************************************************)
EXTENDS KcpWindow, TLAPS

USE WindowAssumption DEF DataSegment, AckSegment, SenderPing, ReceiverPing

\* The inductive invariant: reliability needs the acknowledgements in flight
\* to be true, and those come from an AckList that is only cleared by what
\* the sender has really passed.
IInv == TypeOK /\ PathTruthful /\ ReceiveWindowBound /\ NoPrematureRelease /\ AckOwed

\* What a step may put on the path.
LEMMA SendSubset ==
    ASSUME NEW new, Send(new)
    PROVE  net' \subseteq net \cup new
BY DEF Send

\* A step of the receiver keeps everything it has.
LEMMA ReceivedGrows ==
    ASSUME TypeOK, [Next]_vars
    PROVE  recvNext' >= recvNext /\ \A n \in Nat : Received(n) => Received(n)'
<1>1. CASE UNCHANGED <<buf, recvNext>>
    BY <1>1 DEF Received, TypeOK
<1>2. CASE Read
    BY <1>2 DEF Read, Received, TypeOK
<1>3. ASSUME NEW m \in net, RecvData(m)
      PROVE recvNext' >= recvNext /\ \A n \in Nat : Received(n) => Received(n)'
    BY <1>3 DEF RecvData, Received, TypeOK
<1> QED
    BY <1>1, <1>2, <1>3
    DEF Next, Push, PingPeer, CloseWrite, Release, Flush, PingBack, AckFlush, Lose,
        RecvSenderPing, RecvAck, RecvReceiverPing, vars, sender, receiver

\* Nothing moves first_unacknowledged back: an acknowledgement only shrinks
\* the window, which already lies above it.
LEMMA FirstUnaGrows ==
    ASSUME TypeOK, PathTruthful, [Next]_vars
    PROVE  firstUna' >= firstUna /\ nextNumber' >= nextNumber
<1>1. ASSUME NEW w \in SUBSET window, ClearTo(w) PROVE firstUna' >= firstUna
    BY <1>1 DEF ClearTo, TypeOK, PathTruthful
<1>2. ASSUME NEW m \in net, RecvAck(m) PROVE firstUna' >= firstUna /\ nextNumber' >= nextNumber
    BY <1>1, <1>2 DEF RecvAck, TypeOK
<1>3. ASSUME NEW m \in net, RecvReceiverPing(m)
      PROVE firstUna' >= firstUna /\ nextNumber' >= nextNumber
    BY <1>1, <1>3 DEF RecvReceiverPing, TypeOK
<1>4. CASE UNCHANGED <<firstUna, nextNumber>>
    BY <1>4 DEF TypeOK
<1>5. CASE Push
    BY <1>5 DEF Push, TypeOK
<1> QED
    BY <1>2, <1>3, <1>4, <1>5
    DEF Next, PingPeer, CloseWrite, Release, Flush, Read, PingBack, AckFlush, Lose,
        RecvData, RecvSenderPing, vars, sender, receiver

\* Every step preserves the inductive invariant.
LEMMA IInvStep == IInv /\ [Next]_vars => IInv'
<1> SUFFICES ASSUME IInv, [Next]_vars PROVE IInv'
    OBVIOUS
<1> USE DEF IInv
<1>r. recvNext' >= recvNext /\ \A n \in Nat : Received(n) => Received(n)'
    BY ReceivedGrows
<1>f. firstUna' >= firstUna /\ nextNumber' >= nextNumber
    BY FirstUnaGrows
<1>1. CASE UNCHANGED vars
    BY <1>1 DEF vars, sender, receiver, TypeOK, PathTruthful, ReceiveWindowBound,
                NoPrematureRelease, AckOwed, Received
<1>2. CASE Push
    <2>1. TypeOK'
        BY <1>2 DEF Push, TypeOK, PathTruthful, receiver
    <2>2. PathTruthful'
        BY <1>2, <1>r, <1>f, <2>1 DEF Push, TypeOK, PathTruthful, receiver
    <2>3. ReceiveWindowBound'
        BY <1>2 DEF Push, TypeOK, ReceiveWindowBound, receiver
    <2>4. NoPrematureRelease'
        BY <1>2, <1>r DEF Push, TypeOK, NoPrematureRelease
    <2>5. AckOwed'
        <3>1. ~Received(nextNumber)
            BY DEF ReceiveWindowBound, Received, TypeOK
        <3> QED BY <1>2, <3>1 DEF Push, TypeOK, AckOwed, Received, receiver
    <2> QED BY <2>1, <2>2, <2>3, <2>4, <2>5
<1>3. CASE CloseWrite \/ Release
    <2>1. TypeOK'
        <3>1. window \subseteq Nat
            BY DEF TypeOK
        <3> QED BY <1>3, <3>1 DEF CloseWrite, Release, TypeOK, receiver
    <2>2. PathTruthful'
        BY <1>3, <1>r DEF CloseWrite, Release, TypeOK, PathTruthful, Received, receiver
    <2>3. ReceiveWindowBound'
        BY <1>3 DEF CloseWrite, Release, ReceiveWindowBound, receiver
    <2>4. NoPrematureRelease'
        BY <1>3 DEF CloseWrite, Release, NoPrematureRelease, Received, receiver
    <2>5. AckOwed'
        BY <1>3 DEF CloseWrite, Release, AckOwed
    <2> QED BY <2>1, <2>2, <2>3, <2>4, <2>5
<1>4. ASSUME NEW new, Send(new), UNCHANGED <<window, firstUna, nextNumber, remoteNext,
                                             sclosed, cut, buf, recvNext, acklist>>,
             unsent' \in Nat, dirty' \in BOOLEAN,
             \A m \in new :
                \/ \E n \in window : m = DataSegment(n, firstUna)
                \/ \E S \in SUBSET acklist : m = AckSegment(S, recvNext)
                \/ m = SenderPing(firstUna) \/ m = ReceiverPing(recvNext)
      PROVE IInv'
    <2>1. net' \subseteq net \cup new
        BY <1>4, SendSubset
    <2>2. TypeOK'
        BY <1>4, <2>1 DEF TypeOK
    <2>3. PathTruthful'
        BY <1>4, <2>1 DEF TypeOK, PathTruthful, Received
    <2>4. ReceiveWindowBound' /\ NoPrematureRelease' /\ AckOwed'
        BY <1>4 DEF ReceiveWindowBound, NoPrematureRelease, AckOwed, Received
    <2> QED BY <2>2, <2>3, <2>4
<1>5. ASSUME NEW again \in SUBSET window, NEW upto \in unsent..nextNumber, Flush(again, upto)
      PROVE IInv'
    BY <1>4, <1>5 DEF Flush, TypeOK, receiver
<1>6. CASE PingPeer \/ PingBack
    BY <1>4, <1>6 DEF PingPeer, PingBack, TypeOK, sender, receiver
<1>7. ASSUME NEW S \in SUBSET acklist, AckFlush(S) PROVE IInv'
    BY <1>4, <1>7 DEF AckFlush, TypeOK, sender
<1>8. ASSUME NEW m \in net, NEW w \in SUBSET window, ClearTo(w), net' \subseteq net,
             remoteNext' \in Nat,
             \A n \in window \ w : Received(n),
             UNCHANGED <<unsent, nextNumber, sclosed, cut, receiver>>
      PROVE IInv'
    <2>1. TypeOK'
        BY <1>8 DEF ClearTo, TypeOK, receiver
    <2>2. PathTruthful'
        BY <1>8, <1>f DEF ClearTo, TypeOK, PathTruthful, Received, receiver
    <2>3. ReceiveWindowBound'
        BY <1>8 DEF ReceiveWindowBound, receiver
    <2>4. NoPrematureRelease'
        BY <1>8 DEF ClearTo, NoPrematureRelease, Received, receiver
    <2>5. AckOwed'
        BY <1>8 DEF ClearTo, AckOwed, Received, receiver
    <2> QED BY <2>1, <2>2, <2>3, <2>4, <2>5
<1>9. ASSUME NEW m \in net, RecvAck(m) PROVE IInv'
    <2>1. net' \subseteq net /\ UNCHANGED <<unsent, nextNumber, sclosed, cut, receiver>>
        BY <1>9 DEF RecvAck, Consume
    <2>2. CASE sclosed
        BY <1>9, <2>1, <2>2 DEF RecvAck, receiver, TypeOK, PathTruthful, ReceiveWindowBound,
                NoPrematureRelease, AckOwed, Received
    <2>3. CASE ~sclosed
        <3>1. remoteNext' \in Nat
            BY <1>9, <2>3 DEF RecvAck, TypeOK
        <3>2. \A n \in window \ ({k \in window : k >= m.receivingNext} \ m.numbers) : Received(n)
            BY <1>9 DEF RecvAck, TypeOK, PathTruthful, Received
        <3> QED BY <1>8, <1>9, <2>1, <2>3, <3>1, <3>2 DEF RecvAck
    <2> QED BY <2>2, <2>3
<1>10. ASSUME NEW m \in net, RecvReceiverPing(m) PROVE IInv'
    <2>1. net' \subseteq net
        BY <1>10 DEF RecvReceiverPing, Consume
    <2>2. \A n \in window \ {k \in window : k >= m.receivingNext} : Received(n)
        BY <1>10 DEF RecvReceiverPing, TypeOK, PathTruthful, Received
    <2> QED BY <1>8, <1>10, <2>1, <2>2 DEF RecvReceiverPing, TypeOK
<1>11. CASE Read
    <2>1. PICK k \in recvNext..(MaxNumber + 1) :
              /\ \A n \in recvNext..(k - 1) : n \in buf
              /\ recvNext' = k /\ buf' = {n \in buf : n >= k}
        BY <1>11 DEF Read
    <2>2. UNCHANGED <<acklist, dirty, sender, net>>
        BY <1>11 DEF Read
    <2>3. TypeOK'
        BY <2>1, <2>2 DEF TypeOK, sender
    <2>4. PathTruthful'
        BY <1>r, <2>2, <2>3 DEF TypeOK, PathTruthful, sender
    <2>5. ReceiveWindowBound'
        BY <2>1, <2>2 DEF TypeOK, ReceiveWindowBound, sender
    <2>6. NoPrematureRelease'
        BY <1>r, <2>2 DEF TypeOK, NoPrematureRelease, sender
    <2>7. \A n \in Nat : Received(n)' => Received(n)
        BY <2>1 DEF TypeOK, Received
    <2>8. AckOwed'
        BY <2>2, <2>7 DEF TypeOK, AckOwed, sender
    <2> QED BY <2>3, <2>4, <2>5, <2>6, <2>8
<1>12. ASSUME NEW m \in net, RecvData(m) PROVE IInv'
    <2>1. /\ net' \subseteq net /\ UNCHANGED <<recvNext, sender>>
          /\ m.number \in Nat /\ m.number < nextNumber
          /\ m.sendingNext \in Nat /\ m.sendingNext <= firstUna
        BY <1>12 DEF RecvData, Consume, TypeOK, PathTruthful
    <2>2. CASE UNCHANGED <<acklist, dirty, buf>>
        BY <2>1, <2>2 DEF sender, TypeOK, PathTruthful, ReceiveWindowBound,
                NoPrematureRelease, AckOwed, Received
    <2>3. CASE /\ m.number >= recvNext /\ m.number - recvNext < RecvWindow
               /\ acklist' = AckClear(m.sendingNext) \cup {m.number}
               /\ dirty' = TRUE
               /\ buf' = buf \cup {m.number}
        <3>1. TypeOK'
            BY <2>1, <2>3 DEF TypeOK, AckClear, sender
        <3>2. PathTruthful'
            BY <1>r, <2>1, <2>3, <3>1 DEF TypeOK, PathTruthful, AckClear, Received, sender
        <3>3. ReceiveWindowBound'
            BY <2>1, <2>3 DEF TypeOK, ReceiveWindowBound, sender
        <3>4. NoPrematureRelease'
            BY <1>r, <2>1 DEF TypeOK, NoPrematureRelease, sender
        <3>5. AckOwed'
            BY <2>1, <2>3 DEF TypeOK, AckOwed, AckClear, Received, sender
        <3> QED BY <3>1, <3>2, <3>3, <3>4, <3>5
    <2> QED BY <1>12, <2>2, <2>3 DEF RecvData
<1>13. ASSUME NEW m \in net, RecvSenderPing(m) PROVE IInv'
    <2>1. /\ net' \subseteq net /\ UNCHANGED <<buf, recvNext, sender>>
          /\ m.sendingNext \in Nat /\ m.sendingNext <= firstUna
          /\ acklist' = AckClear(m.sendingNext) /\ dirty' \in BOOLEAN
        BY <1>13 DEF RecvSenderPing, Consume, TypeOK, PathTruthful
    <2>2. TypeOK' /\ PathTruthful'
        BY <2>1 DEF TypeOK, PathTruthful, AckClear, Received, sender
    <2>3. ReceiveWindowBound' /\ NoPrematureRelease'
        BY <2>1 DEF ReceiveWindowBound, NoPrematureRelease, Received, sender
    <2>4. AckOwed'
        BY <2>1 DEF TypeOK, AckOwed, AckClear, Received, sender
    <2> QED BY <2>2, <2>3, <2>4
<1>14. ASSUME NEW m \in net, Lose(m) PROVE IInv'
    BY <1>14 DEF Lose, sender, receiver, TypeOK, PathTruthful, ReceiveWindowBound,
                NoPrematureRelease, AckOwed, Received
<1> QED
    BY <1>1, <1>2, <1>3, <1>5, <1>6, <1>7, <1>9, <1>10, <1>11, <1>12, <1>13, <1>14 DEF Next

\* The inductive invariant holds in every behaviour.
LEMMA IInvHolds == Spec => []IInv
<1>1. Init => IInv
    <2> SUFFICES ASSUME Init PROVE IInv
        OBVIOUS
    <2>1. TypeOK
        BY DEF Init, TypeOK
    <2>2. PathTruthful /\ ReceiveWindowBound /\ NoPrematureRelease /\ AckOwed
        BY DEF Init, PathTruthful, ReceiveWindowBound, NoPrematureRelease, AckOwed
    <2> QED BY <2>1, <2>2 DEF IInv
<1> QED BY <1>1, IInvStep, PTL DEF Spec

\* The workers and the path keep their types.
THEOREM TypeCorrect == Spec => []TypeOK
BY IInvHolds, PTL DEF IInv

\* Reliability over any path: process_ack_segment and process_receiving_next
\* release a segment only when the receiver has it.
THEOREM Reliable == Spec => []NoPrematureRelease
BY IInvHolds, PTL DEF IInv

\* AckList::clear never forgets an acknowledgement the sender still waits for.
THEOREM AcksKept == Spec => []AckOwed
BY IInvHolds, PTL DEF IInv

\* process_segment never buffers outside the receive window.
THEOREM ReceiverBounded == Spec => []ReceiveWindowBound
BY IInvHolds, PTL DEF IInv

\* Old and duplicated segments never move a window back.
THEOREM Advance == Spec => WindowsAdvance
<1>1. IInv /\ [Next]_vars
        => [firstUna' >= firstUna /\ recvNext' >= recvNext /\ remoteNext' >= remoteNext]_vars
    <2> SUFFICES ASSUME IInv, [Next]_vars
                 PROVE  firstUna' >= firstUna /\ recvNext' >= recvNext /\ remoteNext' >= remoteNext
        OBVIOUS
    <2>1. firstUna' >= firstUna /\ recvNext' >= recvNext
        BY FirstUnaGrows, ReceivedGrows DEF IInv
    <2>2. ASSUME NEW m \in net, RecvAck(m) PROVE remoteNext' >= remoteNext
        BY <2>2 DEF RecvAck, IInv, TypeOK
    <2>3. CASE UNCHANGED remoteNext
        BY <2>1, <2>3 DEF IInv, TypeOK
    <2> QED
        BY <2>1, <2>2, <2>3
        DEF Next, Push, PingPeer, CloseWrite, Release, Flush, Read, PingBack, AckFlush, Lose,
            RecvData, RecvSenderPing, RecvReceiverPing, vars, sender, receiver
<1> QED BY <1>1, IInvHolds, PTL DEF Spec, WindowsAdvance
=============================================================================
