---------------------------- MODULE Pipe_proofs ----------------------------
(***************************************************************************)
(* Proofs about Pipe for every set of writers and closers, every set of    *)
(* options and every bound.                                                *)
(***************************************************************************)
EXTENDS Pipe, TLAPS, SequenceTheorems

USE DEF Waiters, Tasks

\* The MultiBuffer of a write call: at most MaxBatch fresh chunks.
LEMMA BatchType ==
    ASSUME made \in Nat, NEW k \in 1..MaxBatch
    PROVE  Batch(k) \in Seq(Chunk) /\ Len(Batch(k)) <= MaxBatch /\ Batch(k) # <<>>
<1>1. Batch(k) \in Seq(Chunk) /\ Len(Batch(k)) = k
    BY BoundsAssumption DEF Batch, Chunk
<1> QED BY <1>1, BoundsAssumption, EmptySeq

\* Every step of the pipe preserves its type invariant.
LEMMA TypeStep == TypeOK /\ [Next]_vars => TypeOK'
<1> SUFFICES ASSUME TypeOK, [Next]_vars PROVE TypeOK'
    OBVIOUS
<1> USE TasksAssumption, BoundsAssumption DEF TypeOK
<1>1. CASE UNCHANGED vars
    BY <1>1 DEF vars, shared, hist
<1>2. ASSUME NEW t \in Waiters, PollStep(t) PROVE TypeOK'
    <2>1. CASE SignalAdd(t)
        BY <2>1 DEF SignalAdd, PeerSignal, Goto, shared, hist, ReaderPC, WriterPC
    <2>2. CASE SignalWake(t)
        BY <2>2 DEF SignalWake, WakeAll, PeerSignal, Goto, shared, hist, ReaderPC, WriterPC
    <2>3. CASE FirstSwap(t)
        BY <2>3 DEF FirstSwap, Swap, OwnSignal, Goto, shared, hist, ReaderPC, WriterPC
    <2>4. CASE Register(t)
        BY <2>4 DEF Register, OwnSignal, Goto, shared, hist, ReaderPC, WriterPC
    <2>5. CASE SecondSwap(t)
        BY <2>5 DEF SecondSwap, Swap, OwnSignal, Goto, shared, hist, ReaderPC, WriterPC
    <2>6. CASE CheckClosed(t)
        BY <2>6 DEF CheckClosed, LoopTop, Goto, shared, hist, ReaderPC, WriterPC
    <2>7. CASE Repoll(t)
        BY <2>7 DEF Repoll, LoopTop, Goto, shared, hist, ReaderPC, WriterPC
    <2> QED BY <1>2, <2>1, <2>2, <2>3, <2>4, <2>5, <2>6, <2>7 DEF PollStep
<1>3. CASE ReadStart
    BY <1>3 DEF ReadStart, Goto, shared, hist, ReaderPC
<1>4. CASE Take
    <2>1. data' \in Seq(Chunk) /\ delivered' \in Seq(Chunk)
        BY <1>4, EmptySeq, ConcatProperties DEF Take
    <2> QED BY <1>4, <2>1 DEF Take, Goto, ReaderPC
<1>5. CASE CheckState
    BY <1>5 DEF CheckState, ReadReturn, Goto, shared, hist, ReaderPC
<1>6. CASE CheckSlot
    BY <1>6 DEF CheckSlot, ReadReturn, Goto, hist, ReaderPC
<1>7. CASE IdleExpired
    BY <1>7 DEF IdleExpired, ReadReturn, Goto, shared, hist, ReaderPC
<1>8. CASE IdleWake
    BY <1>8 DEF IdleWake, shared, hist
<1>9. CASE ReadTimeout
    BY <1>9 DEF ReadTimeout, ReadReturn, Goto, shared, hist, ReaderPC
<1>10. CASE ReturnAnError \/ Recover
    BY <1>10 DEF ReturnAnError, Recover, hist
<1>11. ASSUME NEW w \in Writers, WriteStart(w) PROVE TypeOK'
    <2>1. PICK k \in 1..MaxBatch : mb' = [mb EXCEPT ![w] = Batch(k)] /\ made' = made + k
        BY <1>11 DEF WriteStart
    <2>2. Batch(k) \in Seq(Chunk) /\ Len(Batch(k)) <= MaxBatch
        BY BatchType
    <2> QED BY <1>11, <2>1, <2>2 DEF WriteStart, Goto, shared, hist, WriterPC
<1>12. ASSUME NEW w \in Writers, Put(w) PROVE TypeOK'
    <2>1. CASE PutDone(w)
        BY <1>12, <2>1 DEF Put, PutDone, Goto, WriterPC
    <2>2. CASE PutWait(w)
        BY <1>12, <2>2 DEF Put, PutWait, Goto, WriterPC
    <2>3. CASE PutRelease(w)
        BY <1>12, <2>3 DEF Put, PutRelease, Goto, WriterPC
    <2> QED BY <1>12, <2>1, <2>2, <2>3 DEF Put
<1>13. ASSUME NEW w \in Writers, WriteCancel(w) PROVE TypeOK'
    BY <1>13 DEF WriteCancel, Goto, shared, hist, WriterPC
<1>14. ASSUME NEW c \in Closers, Close(c) PROVE TypeOK'
    BY <1>14 DEF Close, Goto, hist, CloserPC
<1>15. ASSUME NEW c \in Closers, Interrupt(c) PROVE TypeOK'
    <2>1. data' \in Seq(Chunk) /\ lost' \in Seq(Chunk)
        BY <1>15, EmptySeq, ConcatProperties DEF Interrupt
    <2> QED BY <1>15, <2>1 DEF Interrupt, Goto, CloserPC
<1>16. ASSUME NEW c \in Closers, MarkClosed(c) PROVE TypeOK'
    BY <1>16 DEF MarkClosed, Goto, hist, CloserPC
<1>17. ASSUME NEW c \in Closers, WakeReader(c) \/ WakeWriters(c) PROVE TypeOK'
    <2>1. CASE WakeReader(c)
        BY <2>1 DEF WakeReader, MarkWake, WakeAll, Goto, shared, hist, CloserPC
    <2>2. CASE WakeWriters(c)
        BY <2>2 DEF WakeWriters, MarkWake, WakeAll, Goto, shared, hist, CloserPC
    <2> QED BY <1>17, <2>1, <2>2
<1> QED
    BY <1>1, <1>2, <1>3, <1>4, <1>5, <1>6, <1>7, <1>8, <1>9, <1>10, <1>11, <1>12,
       <1>13, <1>14, <1>15, <1>16, <1>17
    DEF Next, ReaderPoll, WriterPoll, CloserStep

\* The pipe's state keeps its type in every behaviour.
THEOREM TypeCorrect == Spec => []TypeOK
<1>1. Init => TypeOK
    <2> SUFFICES ASSUME Init PROVE TypeOK
        OBVIOUS
    <2>1. <<>> \in Seq(Chunk) /\ Len(<<>>) <= MaxBatch
        BY BoundsAssumption, EmptySeq
    <2>2. /\ mb \in [Writers -> Seq(Chunk)]
          /\ \A w \in Writers : Len(mb[w]) <= MaxBatch
        BY <2>1 DEF Init
    <2>3. data \in Seq(Chunk) /\ accepted \in Seq(Chunk)
          /\ delivered \in Seq(Chunk) /\ lost \in Seq(Chunk)
        BY <2>1 DEF Init
    <2>4. /\ pc \in [Tasks -> ReaderPC \cup WriterPC \cup CloserPC]
          /\ pc[Reader] \in ReaderPC
          /\ \A w \in Writers : pc[w] \in WriterPC
          /\ \A c \in Closers : pc[c] \in CloserPC
        BY DEF Init, ReaderPC, WriterPC, CloserPC
    <2> QED BY <2>2, <2>3, <2>4 DEF Init, TypeOK
<1> QED BY <1>1, TypeStep, PTL DEF Spec

\* Only five kinds of step touch the buffer, its state or the histories.
LEMMA BufferSteps ==
    ASSUME [Next]_vars
    PROVE  \/ UNCHANGED <<option, data, state, hist>>
           \/ Take
           \/ \E w \in Writers : Put(w)
           \/ \E c \in Closers : Close(c) \/ Interrupt(c)
<1>1. CASE UNCHANGED vars
    BY <1>1 DEF vars, shared
<1>2. ASSUME NEW t \in Waiters, PollStep(t) PROVE UNCHANGED <<option, data, state, hist>>
    BY <1>2 DEF PollStep, SignalAdd, SignalWake, FirstSwap, SecondSwap, Swap, Register,
                CheckClosed, Repoll, shared
<1>3. CASE ReadStart \/ IdleExpired \/ IdleWake \/ ReadTimeout \/ ReturnAnError \/ Recover
    BY <1>3 DEF ReadStart, IdleExpired, IdleWake, ReadTimeout, ReturnAnError, Recover, shared
<1>4. CASE CheckState \/ CheckSlot
    BY <1>4 DEF CheckState, CheckSlot, shared
<1>5. ASSUME NEW w \in Writers, WriteStart(w) \/ WriteCancel(w)
      PROVE UNCHANGED <<option, data, state, hist>>
    BY <1>5 DEF WriteStart, WriteCancel, shared
<1>6. ASSUME NEW c \in Closers, CloserStep(c) PROVE UNCHANGED <<option, data, state, hist>>
    BY <1>6 DEF CloserStep, MarkClosed, WakeReader, WakeWriters, MarkWake, shared
<1> QED
    BY <1>1, <1>2, <1>3, <1>4, <1>5, <1>6 DEF Next, ReaderPoll, WriterPoll

\* Concatenation of chunk sequences, as the next proof uses it.
LEMMA ChunkSeqs ==
    /\ <<>> \in Seq(Chunk)
    /\ \A s, t \in Seq(Chunk) : s \o t \in Seq(Chunk)
    /\ \A s \in Seq(Chunk) : s \o <<>> = s /\ <<>> \o s = s
BY EmptySeq, ConcatProperties, ConcatEmptySeq

\* Appending m to the buffer q appends it to what has passed through.
LEMMA AppendFifo ==
    ASSUME NEW a, NEW d \in Seq(Chunk), NEW q \in Seq(Chunk), NEW m \in Seq(Chunk),
           a = (d \o q) \o <<>>
    PROVE  a \o m = (d \o (q \o m)) \o <<>>
<1>1. d \o q \in Seq(Chunk) /\ q \o m \in Seq(Chunk)
    BY ChunkSeqs
<1>2. a = d \o q /\ d \o (q \o m) \in Seq(Chunk)
    BY <1>1, ChunkSeqs
<1>3. (d \o q) \o m = d \o (q \o m)
    BY ConcatAssociative
<1> QED BY <1>2, <1>3, ChunkSeqs

\* The reader receives exactly the accepted chunks, in order, except those an
\* interrupt released: poll_read and poll_write lose and reorder nothing.
THEOREM FifoCorrect == Spec => []Fifo
<1>1. Init => Fifo
    BY ChunkSeqs DEF Init, Fifo
<1>2. TypeOK /\ Fifo /\ [Next]_vars => Fifo'
    <2> SUFFICES ASSUME TypeOK, Fifo, [Next]_vars PROVE Fifo'
        OBVIOUS
    <2> USE DEF TypeOK, Fifo
    <2>1. CASE UNCHANGED <<option, data, state, hist>>
        BY <2>1 DEF hist
    <2>2. CASE Take
        <3>1. data' = <<>> /\ delivered' = delivered \o data /\ state' = state
              /\ lost' = lost /\ accepted' = accepted
            BY <2>2 DEF Take
        <3>2. (delivered \o data) \o <<>> = delivered \o data
            BY ChunkSeqs
        <3> QED BY <3>1, <3>2
    <2>3. ASSUME NEW w \in Writers, Put(w) PROVE Fifo'
        <3>1. CASE PutDone(w)
            <4>1. data' = data \o mb[w] /\ accepted' = accepted \o mb[w] /\ state' = state
                  /\ state = "Open" /\ lost' = lost /\ delivered' = delivered
                BY <2>3, <3>1 DEF Put, PutDone
            <4>2. lost = <<>>
                BY <4>1
            <4>3. mb[w] \in Seq(Chunk) /\ delivered \in Seq(Chunk) /\ data \in Seq(Chunk)
                OBVIOUS
            <4>4. accepted \o mb[w] = (delivered \o (data \o mb[w])) \o <<>>
                BY <4>2, <4>3, AppendFifo
            <4> QED BY <4>1, <4>2, <4>4
        <3>2. CASE PutWait(w) \/ PutRelease(w)
            BY <2>3, <3>2 DEF Put, PutWait, PutRelease
        <3> QED BY <2>3, <3>1, <3>2 DEF Put
    <2>4. ASSUME NEW c \in Closers, Close(c) PROVE Fifo'
        BY <2>4 DEF Close, hist
    <2>5. ASSUME NEW c \in Closers, Interrupt(c) PROVE Fifo'
        <3>1. data' = <<>> /\ lost' = lost \o data /\ accepted' = accepted
              /\ delivered' = delivered
              /\ state' = IF state = "Open" \/ data # <<>> THEN "Errord" ELSE state
            BY <2>5 DEF Interrupt
        <3>2. (delivered \o data) \o lost = (delivered \o <<>>) \o (lost \o data)
            <4>1. CASE data = <<>>
                BY <4>1, ChunkSeqs
            <4>2. CASE lost = <<>>
                BY <4>2, ChunkSeqs
            <4> QED BY <4>1, <4>2
        <3> QED BY <3>1, <3>2, ChunkSeqs
    <2> QED BY BufferSteps, <2>1, <2>2, <2>3, <2>4, <2>5
<1> QED BY <1>1, <1>2, TypeCorrect, PTL DEF Spec

\* However many writers race, the buffer never exceeds the limit by more than
\* the one MultiBuffer that was admitted at or below it.
THEOREM BufferBounded == Spec => []BufferBound
<1>1. Init => BufferBound
    BY BoundsAssumption, OptionsAssumption, EmptySeq DEF Init, BufferBound, OptionType
<1>2. TypeOK /\ BufferBound /\ [Next]_vars => BufferBound'
    <2> SUFFICES ASSUME TypeOK, BufferBound, [Next]_vars PROVE BufferBound'
        OBVIOUS
    <2> USE BoundsAssumption, OptionsAssumption, EmptySeq
        DEF TypeOK, BufferBound, OptionType
    <2>1. CASE UNCHANGED <<option, data, state, hist>>
        BY <2>1
    <2>2. CASE Take
        BY <2>2 DEF Take
    <2>3. ASSUME NEW w \in Writers, Put(w) PROVE BufferBound'
        <3>1. CASE PutDone(w)
            <4>1. /\ data' = data \o mb[w] /\ option' = option
                  /\ ~(option.limit >= 0 /\ Len(data) > option.limit)
                BY <2>3, <3>1 DEF Put, PutDone, IsFull
            <4>2. Len(data') = Len(data) + Len(mb[w]) /\ Len(mb[w]) <= MaxBatch
                BY <4>1, ConcatProperties
            <4>3. Len(data) \in Nat /\ Len(mb[w]) \in Nat /\ option.limit \in Int
                OBVIOUS
            <4> QED BY <4>1, <4>2, <4>3
        <3>2. CASE PutWait(w) \/ PutRelease(w)
            BY <2>3, <3>2 DEF Put, PutWait, PutRelease
        <3> QED BY <2>3, <3>1, <3>2 DEF Put
    <2>4. ASSUME NEW c \in Closers, Close(c) \/ Interrupt(c) PROVE BufferBound'
        BY <2>4 DEF Close, Interrupt
    <2> QED BY BufferSteps, <2>1, <2>2, <2>3, <2>4
<1> QED BY <1>1, <1>2, TypeCorrect, PTL DEF Spec

\* Every step keeps each waiting task's wake-up in somebody's hands.
LEMMA WakeStep == TypeOK /\ WakeInv /\ [Next]_vars => WakeInv'
<1> SUFFICES ASSUME TypeOK, WakeInv, [Next]_vars PROVE WakeInv'
    OBVIOUS
<1> USE TasksAssumption DEF WakeInv, Asleep, Committed, Retrying
<1>0. CASE UNCHANGED vars
    BY <1>0 DEF vars, shared, hist, Registered, ReaderCovered, WriterCovered, CloseCovered,
                Locals
<1>1. ASSUME NEW t \in Waiters, SignalAdd(t) PROVE WakeInv'
    <2>1. Registered'
        BY <1>1 DEF TypeOK, Registered, SignalAdd, OwnSignal, PeerSignal, Goto, shared
    <2>2. ReaderCovered'
        BY <1>1 DEF TypeOK, ReaderCovered, SignalAdd, OwnSignal, PeerSignal, Goto, shared
    <2>3. WriterCovered'
        BY <1>1 DEF TypeOK, WriterCovered, SignalAdd, OwnSignal, PeerSignal, Goto, shared
    <2>4. CloseCovered'
        BY <1>1 DEF TypeOK, CloseCovered, SignalAdd, OwnSignal, PeerSignal, Goto, shared
    <2>5. Locals'
        BY <1>1 DEF TypeOK, Locals, SignalAdd, PeerSignal, Goto, shared
    <2> QED BY <2>1, <2>2, <2>3, <2>4, <2>5
<1>2. ASSUME NEW t \in Waiters, SignalWake(t) PROVE WakeInv'
    <2>1. Registered'
        BY <1>2 DEF TypeOK, Registered, SignalWake, WakeAll, OwnSignal, PeerSignal, Goto, shared
    <2>2. ReaderCovered'
        BY <1>2 DEF TypeOK, Registered, ReaderCovered, SignalWake, WakeAll, OwnSignal, PeerSignal, Goto, shared
    <2>3. WriterCovered'
        BY <1>2 DEF TypeOK, Registered, WriterCovered, SignalWake, WakeAll, OwnSignal, PeerSignal, Goto, shared
    <2>4. CloseCovered'
        BY <1>2 DEF TypeOK, Registered, CloseCovered, SignalWake, WakeAll, OwnSignal, PeerSignal, Goto, shared
    <2>5. Locals'
        BY <1>2 DEF TypeOK, Locals, SignalWake, WakeAll, PeerSignal, Goto, shared
    <2> QED BY <2>1, <2>2, <2>3, <2>4, <2>5
<1>3. ASSUME NEW t \in Waiters, FirstSwap(t) PROVE WakeInv'
    <2>1. Registered'
        BY <1>3 DEF TypeOK, Registered, FirstSwap, Swap, OwnSignal, Goto, shared
    <2>2. ReaderCovered'
        BY <1>3 DEF TypeOK, ReaderCovered, FirstSwap, Swap, OwnSignal, Goto, shared
    <2>3. WriterCovered'
        <3>1. CASE t = Reader
            BY <1>3, <3>1 DEF TypeOK, WriterCovered, FirstSwap, Swap, OwnSignal, Goto, shared
        <3>2. CASE t \in Writers /\ count["write"] > 0
            <4>1. Retrying(t)' /\ count'["write"] = 0
                BY <1>3, <3>2 DEF TypeOK, FirstSwap, Swap, OwnSignal, Goto
            <4> QED BY <3>2, <4>1 DEF WriterCovered
        <3>3. CASE t \in Writers /\ ~(count["write"] > 0)
            <4>1. \A v \in Writers : Retrying(v) => Retrying(v)'
                BY <1>3, <3>3 DEF TypeOK, FirstSwap, Swap, OwnSignal, Goto
            <4>2. count'["write"] = count["write"] /\ ~sig'[t] /\ pc'[Reader] = pc[Reader]
                <5>1. count["write"] = 0
                    BY <3>3 DEF TypeOK
                <5>2. OwnSignal(t) = "write" /\ t # Reader
                    BY <3>3 DEF OwnSignal
                <5>3. count'["write"] = 0 /\ pc'[Reader] = pc[Reader]
                    BY <1>3, <5>1, <5>2 DEF TypeOK, FirstSwap, Swap, Goto
                <5>4. sig'[t] = (count["write"] > 0)
                    BY <1>3, <5>2 DEF TypeOK, FirstSwap, Swap
                <5> QED BY <3>3, <5>1, <5>3, <5>4
            <4>3. \A v \in Writers \ {t} : pc'[v] = pc[v] /\ sig'[v] = sig[v]
                BY <1>3, <3>3 DEF TypeOK, FirstSwap, Swap, OwnSignal, Goto
            <4>4. data' = data /\ state' = state /\ woken' = woken
                BY <1>3 DEF FirstSwap, Swap, shared
            <4>5. ASSUME NEW v \in Writers \ {t}
                  PROVE  /\ Committed(v)' <=> Committed(v)
                         /\ pc'[v] = pc[v]
                BY <4>3, <4>4
            <4> QED
                BY <1>3, <3>3, <4>1, <4>2, <4>4, <4>5
                DEF TypeOK, WriterCovered, FirstSwap, Swap, OwnSignal, Goto
        <3> QED BY <3>1, <3>2, <3>3
    <2>4. CloseCovered'
        BY <1>3 DEF TypeOK, CloseCovered, FirstSwap, Swap, OwnSignal, Goto, shared
    <2>5. Locals'
        BY <1>3 DEF TypeOK, Locals, FirstSwap, Swap, Goto, shared
    <2> QED BY <2>1, <2>2, <2>3, <2>4, <2>5
<1>4. ASSUME NEW t \in Waiters, Register(t) PROVE WakeInv'
    <2>1. Registered'
        BY <1>4 DEF TypeOK, Registered, Register, OwnSignal, Goto, shared
    <2>2. ReaderCovered'
        BY <1>4 DEF TypeOK, ReaderCovered, Register, OwnSignal, Goto, shared
    <2>3. WriterCovered'
        BY <1>4 DEF TypeOK, WriterCovered, Register, OwnSignal, Goto, shared
    <2>4. CloseCovered'
        BY <1>4 DEF TypeOK, CloseCovered, Register, OwnSignal, Goto, shared
    <2>5. Locals'
        BY <1>4 DEF TypeOK, Locals, Register, Goto, shared
    <2> QED BY <2>1, <2>2, <2>3, <2>4, <2>5
<1>5. ASSUME NEW t \in Waiters, SecondSwap(t) PROVE WakeInv'
    <2>1. Registered'
        BY <1>5 DEF TypeOK, Registered, SecondSwap, Swap, OwnSignal, Goto, shared
    <2>2. ReaderCovered'
        <3>1. CASE t = Reader
            <4>1. /\ data' = data /\ woken' = woken /\ count'["read"] = 0
                  /\ pc'[Reader] = "check" /\ (count["read"] > 0 => sig'[Reader])
                  /\ \A w \in Writers : pc'[w] = pc[w]
                BY <1>5, <3>1 DEF TypeOK, SecondSwap, Swap, OwnSignal, Goto, shared
            <4>2. count["read"] = 0 /\ data # <<>> => \E w \in Writers : pc[w] = "signal"
                BY <1>5, <3>1 DEF TypeOK, ReaderCovered, SecondSwap, Swap
            <4>3. count["read"] \in Nat
                BY DEF TypeOK
            <4> QED BY <4>1, <4>2, <4>3 DEF ReaderCovered
        <3>2. CASE t \in Writers
            BY <1>5, <3>2 DEF TypeOK, ReaderCovered, SecondSwap, Swap, OwnSignal, Goto, shared
        <3> QED BY <3>1, <3>2
    <2>3. WriterCovered'
        <3>1. CASE t = Reader
            BY <1>5, <3>1 DEF TypeOK, WriterCovered, SecondSwap, Swap, OwnSignal, Goto, shared
        <3>2. CASE t \in Writers /\ count["write"] > 0
            <4>1. Retrying(t)' /\ count'["write"] = 0
                BY <1>5, <3>2 DEF TypeOK, SecondSwap, Swap, OwnSignal, Goto
            <4> QED BY <3>2, <4>1 DEF WriterCovered
        <3>3. CASE t \in Writers /\ ~(count["write"] > 0)
            <4>1. \A v \in Writers : Retrying(v) => Retrying(v)'
                BY <1>5, <3>3 DEF TypeOK, SecondSwap, Swap, OwnSignal, Goto
            <4>2. count'["write"] = count["write"] /\ ~sig'[t] /\ pc'[Reader] = pc[Reader]
                <5>1. count["write"] = 0
                    BY <3>3 DEF TypeOK
                <5>2. OwnSignal(t) = "write" /\ t # Reader
                    BY <3>3 DEF OwnSignal
                <5>3. count'["write"] = 0 /\ pc'[Reader] = pc[Reader]
                    BY <1>5, <5>1, <5>2 DEF TypeOK, SecondSwap, Swap, Goto
                <5>4. sig'[t] = (count["write"] > 0)
                    BY <1>5, <5>2 DEF TypeOK, SecondSwap, Swap
                <5> QED BY <3>3, <5>1, <5>3, <5>4
            <4>3. \A v \in Writers \ {t} : pc'[v] = pc[v] /\ sig'[v] = sig[v]
                BY <1>5, <3>3 DEF TypeOK, SecondSwap, Swap, OwnSignal, Goto
            <4>4. data' = data /\ state' = state /\ woken' = woken
                BY <1>5 DEF SecondSwap, Swap, shared
            <4>5. ASSUME NEW v \in Writers \ {t}
                  PROVE  /\ Committed(v)' <=> Committed(v)
                         /\ pc'[v] = pc[v]
                BY <4>3, <4>4
            <4> QED
                BY <1>5, <3>3, <4>1, <4>2, <4>4, <4>5
                DEF TypeOK, WriterCovered, SecondSwap, Swap, OwnSignal, Goto
        <3> QED BY <3>1, <3>2, <3>3
    <2>4. CloseCovered'
        BY <1>5 DEF TypeOK, CloseCovered, SecondSwap, Swap, OwnSignal, Goto, shared
    <2>5. Locals'
        BY <1>5 DEF TypeOK, Locals, SecondSwap, Swap, Goto, shared
    <2> QED BY <2>1, <2>2, <2>3, <2>4, <2>5
<1>6. ASSUME NEW t \in Waiters, CheckClosed(t) PROVE WakeInv'
    <2>1. Registered'
        BY <1>6 DEF TypeOK, Registered, CheckClosed, LoopTop, OwnSignal, Goto, shared
    <2>2. ReaderCovered'
        BY <1>6 DEF TypeOK, ReaderCovered, CheckClosed, LoopTop, OwnSignal, Goto, shared
    <2>3. WriterCovered'
        BY <1>6 DEF TypeOK, WriterCovered, CheckClosed, LoopTop, OwnSignal, Goto, shared
    <2>4. CloseCovered'
        BY <1>6 DEF TypeOK, CloseCovered, CheckClosed, LoopTop, OwnSignal, Goto, shared
    <2>5. Locals'
        BY <1>6 DEF TypeOK, Locals, CheckClosed, LoopTop, Goto, shared
    <2> QED BY <2>1, <2>2, <2>3, <2>4, <2>5
<1>7. ASSUME NEW t \in Waiters, Repoll(t) PROVE WakeInv'
    <2>1. Registered'
        BY <1>7 DEF TypeOK, Registered, Repoll, LoopTop, OwnSignal, Goto, shared
    <2>2. ReaderCovered'
        BY <1>7 DEF TypeOK, ReaderCovered, Repoll, LoopTop, OwnSignal, Goto, shared
    <2>3. WriterCovered'
        BY <1>7 DEF TypeOK, WriterCovered, Repoll, LoopTop, OwnSignal, Goto, shared
    <2>4. CloseCovered'
        BY <1>7 DEF TypeOK, CloseCovered, Repoll, LoopTop, OwnSignal, Goto, shared
    <2>5. Locals'
        BY <1>7 DEF TypeOK, Locals, Repoll, LoopTop, Goto, shared
    <2> QED BY <2>1, <2>2, <2>3, <2>4, <2>5
<1>8. CASE ReadStart
    <2>1. Registered'
        BY <1>8 DEF TypeOK, Registered, ReadStart, OwnSignal, Goto, shared
    <2>2. ReaderCovered'
        BY <1>8 DEF TypeOK, ReaderCovered, ReadStart, OwnSignal, Goto, shared
    <2>3. WriterCovered'
        BY <1>8 DEF TypeOK, WriterCovered, ReadStart, OwnSignal, Goto, shared
    <2>4. CloseCovered'
        BY <1>8 DEF TypeOK, CloseCovered, ReadStart, OwnSignal, Goto, shared
    <2>5. Locals'
        BY <1>8 DEF TypeOK, Locals, ReadStart, Goto, shared
    <2> QED BY <2>1, <2>2, <2>3, <2>4, <2>5
<1>9. CASE Take
    <2>1. Registered'
        BY <1>9 DEF TypeOK, Registered, Take, OwnSignal, Goto
    <2>2. ReaderCovered'
        BY <1>9 DEF TypeOK, ReaderCovered, Take, OwnSignal, Goto
    <2>3. WriterCovered'
        BY <1>9 DEF TypeOK, WriterCovered, Take, OwnSignal, Goto
    <2>4. CloseCovered'
        BY <1>9 DEF TypeOK, CloseCovered, Take, OwnSignal, Goto
    <2>5. Locals'
        BY <1>9 DEF TypeOK, Locals, Take, Goto
    <2> QED BY <2>1, <2>2, <2>3, <2>4, <2>5
<1>10. CASE CheckState
    <2>1. Registered'
        BY <1>10 DEF TypeOK, Registered, CheckState, ReadReturn, OwnSignal, Goto, shared
    <2>2. ReaderCovered'
        BY <1>10 DEF TypeOK, ReaderCovered, CheckState, ReadReturn, OwnSignal, Goto, shared
    <2>3. WriterCovered'
        BY <1>10 DEF TypeOK, WriterCovered, CheckState, ReadReturn, OwnSignal, Goto, shared
    <2>4. CloseCovered'
        BY <1>10 DEF TypeOK, CloseCovered, CheckState, ReadReturn, OwnSignal, Goto, shared
    <2>5. Locals'
        BY <1>10 DEF TypeOK, Locals, CheckState, ReadReturn, Goto, shared
    <2> QED BY <2>1, <2>2, <2>3, <2>4, <2>5
<1>11. CASE CheckSlot
    <2>1. Registered'
        BY <1>11 DEF TypeOK, Registered, CheckSlot, ReadReturn, OwnSignal, Goto
    <2>2. ReaderCovered'
        BY <1>11 DEF TypeOK, ReaderCovered, CheckSlot, ReadReturn, OwnSignal, Goto
    <2>3. WriterCovered'
        BY <1>11 DEF TypeOK, WriterCovered, CheckSlot, ReadReturn, OwnSignal, Goto
    <2>4. CloseCovered'
        BY <1>11 DEF TypeOK, CloseCovered, CheckSlot, ReadReturn, OwnSignal, Goto
    <2>5. Locals'
        BY <1>11 DEF TypeOK, Locals, CheckSlot, ReadReturn, Goto
    <2> QED BY <2>1, <2>2, <2>3, <2>4, <2>5
<1>12. CASE IdleExpired
    <2>1. Registered'
        BY <1>12 DEF TypeOK, Registered, IdleExpired, ReadReturn, OwnSignal, Goto, shared
    <2>2. ReaderCovered'
        BY <1>12 DEF TypeOK, ReaderCovered, IdleExpired, ReadReturn, OwnSignal, Goto, shared
    <2>3. WriterCovered'
        BY <1>12 DEF TypeOK, WriterCovered, IdleExpired, ReadReturn, OwnSignal, Goto, shared
    <2>4. CloseCovered'
        BY <1>12 DEF TypeOK, CloseCovered, IdleExpired, ReadReturn, OwnSignal, Goto, shared
    <2>5. Locals'
        BY <1>12 DEF TypeOK, Locals, IdleExpired, ReadReturn, Goto, shared
    <2> QED BY <2>1, <2>2, <2>3, <2>4, <2>5
<1>13. CASE IdleWake
    <2>1. Registered'
        BY <1>13 DEF TypeOK, Registered, IdleWake, OwnSignal, shared
    <2>2. ReaderCovered'
        BY <1>13 DEF TypeOK, ReaderCovered, IdleWake, OwnSignal, shared
    <2>3. WriterCovered'
        BY <1>13 DEF TypeOK, WriterCovered, IdleWake, OwnSignal, shared
    <2>4. CloseCovered'
        BY <1>13 DEF TypeOK, CloseCovered, IdleWake, OwnSignal, shared
    <2>5. Locals'
        BY <1>13 DEF TypeOK, Locals, IdleWake, shared
    <2> QED BY <2>1, <2>2, <2>3, <2>4, <2>5
<1>14. CASE ReadTimeout
    <2>1. Registered'
        BY <1>14 DEF TypeOK, Registered, ReadTimeout, ReadReturn, OwnSignal, Goto, shared
    <2>2. ReaderCovered'
        BY <1>14 DEF TypeOK, ReaderCovered, ReadTimeout, ReadReturn, OwnSignal, Goto, shared
    <2>3. WriterCovered'
        BY <1>14 DEF TypeOK, WriterCovered, ReadTimeout, ReadReturn, OwnSignal, Goto, shared
    <2>4. CloseCovered'
        BY <1>14 DEF TypeOK, CloseCovered, ReadTimeout, ReadReturn, OwnSignal, Goto, shared
    <2>5. Locals'
        BY <1>14 DEF TypeOK, Locals, ReadTimeout, ReadReturn, Goto, shared
    <2> QED BY <2>1, <2>2, <2>3, <2>4, <2>5
<1>15. CASE ReturnAnError \/ Recover
    <2>1. Registered'
        BY <1>15 DEF TypeOK, Registered, ReturnAnError, Recover, OwnSignal
    <2>2. ReaderCovered'
        BY <1>15 DEF TypeOK, ReaderCovered, ReturnAnError, Recover, OwnSignal
    <2>3. WriterCovered'
        BY <1>15 DEF TypeOK, WriterCovered, ReturnAnError, Recover, OwnSignal
    <2>4. CloseCovered'
        BY <1>15 DEF TypeOK, CloseCovered, ReturnAnError, Recover, OwnSignal
    <2>5. Locals'
        BY <1>15 DEF TypeOK, Locals, ReturnAnError, Recover
    <2> QED BY <2>1, <2>2, <2>3, <2>4, <2>5
<1>16. ASSUME NEW w \in Writers, WriteStart(w) PROVE WakeInv'
    <2>1. Registered'
        BY <1>16 DEF TypeOK, Registered, WriteStart, OwnSignal, Goto, shared
    <2>2. ReaderCovered'
        BY <1>16 DEF TypeOK, ReaderCovered, WriteStart, OwnSignal, Goto, shared
    <2>3. WriterCovered'
        BY <1>16 DEF TypeOK, WriterCovered, WriteStart, OwnSignal, Goto, shared
    <2>4. CloseCovered'
        BY <1>16 DEF TypeOK, CloseCovered, WriteStart, OwnSignal, Goto, shared
    <2>5. Locals'
        <3>1. PICK k \in 1..MaxBatch : mb' = [mb EXCEPT ![w] = Batch(k)]
            BY <1>16 DEF WriteStart
        <3>2. Batch(k) # <<>>
            BY BatchType DEF TypeOK
        <3> QED BY <1>16, <3>1, <3>2 DEF TypeOK, Locals, WriteStart, Goto
    <2> QED BY <2>1, <2>2, <2>3, <2>4, <2>5
<1>17. ASSUME NEW w \in Writers, Put(w) PROVE WakeInv'
    <2>1. Registered'
        BY <1>17 DEF TypeOK, Registered, Put, PutDone, PutWait, PutRelease, IsFull, OwnSignal, Goto
    <2>2. ReaderCovered'
        BY <1>17 DEF TypeOK, ReaderCovered, Put, PutDone, PutWait, PutRelease, IsFull, OwnSignal, Goto
    <2>3. WriterCovered'
        <3>1. CASE PutDone(w)
            <4>1. mb[w] # <<>> /\ mb[w] \in Seq(Chunk) /\ data \in Seq(Chunk)
                BY <1>17 DEF TypeOK, Locals, Put
            <4>2. data' # <<>>
                BY <3>1, <4>1, ConcatEqualIffEmpty DEF PutDone
            <4>3. \A v \in Writers : Committed(v)' => Committed(v)
                BY <1>17, <3>1 DEF TypeOK, Put, PutDone, Goto
            <4>4. count' = count /\ pc'[Reader] = pc[Reader]
                BY <1>17, <3>1 DEF TypeOK, Put, PutDone, Goto
            <4> QED BY <4>2, <4>3, <4>4 DEF WriterCovered
        <3>2. CASE PutWait(w)
            <4>1. data # <<>>
                BY <3>2, OptionsAssumption, EmptySeq
                DEF TypeOK, OptionType, PutWait, IsFull
            <4> QED BY <1>17, <3>2, <4>1 DEF TypeOK, WriterCovered, Put, PutWait, Goto
        <3>3. CASE PutRelease(w)
            <4>1. state # "Open" \/ data # <<>>
                BY <3>3, OptionsAssumption, EmptySeq
                DEF TypeOK, OptionType, PutRelease, IsFull
            <4> QED BY <1>17, <3>3, <4>1 DEF TypeOK, WriterCovered, Put, PutRelease, Goto
        <3> QED BY <1>17, <3>1, <3>2, <3>3 DEF Put
    <2>4. CloseCovered'
        <3>1. PICK l \in {"signal", "swap1", "idle"} : pc' = [pc EXCEPT ![w] = l]
            BY <1>17 DEF Put, PutDone, PutWait, PutRelease, Goto
        <3>2. UNCHANGED <<state, closed, woken>>
            BY <1>17 DEF Put
        <3> QED BY <1>17, <3>1, <3>2 DEF TypeOK, CloseCovered
    <2>5. Locals'
        BY <1>17 DEF TypeOK, Locals, Put, PutDone, PutWait, PutRelease, IsFull, Goto
    <2> QED BY <2>1, <2>2, <2>3, <2>4, <2>5
<1>18. ASSUME NEW w \in Writers, WriteCancel(w) PROVE WakeInv'
    <2>1. Registered'
        BY <1>18 DEF TypeOK, Registered, WriteCancel, OwnSignal, Goto, shared
    <2>2. ReaderCovered'
        BY <1>18 DEF TypeOK, ReaderCovered, WriteCancel, OwnSignal, Goto, shared
    <2>3. WriterCovered'
        BY <1>18 DEF TypeOK, WriterCovered, WriteCancel, OwnSignal, Goto, shared
    <2>4. CloseCovered'
        BY <1>18 DEF TypeOK, CloseCovered, WriteCancel, OwnSignal, Goto, shared
    <2>5. Locals'
        BY <1>18 DEF TypeOK, Locals, WriteCancel, Goto, shared
    <2> QED BY <2>1, <2>2, <2>3, <2>4, <2>5
<1>19. ASSUME NEW c \in Closers, Close(c) PROVE WakeInv'
    <2>1. Registered'
        BY <1>19 DEF TypeOK, Registered, Close, OwnSignal, Goto
    <2>2. ReaderCovered'
        BY <1>19 DEF TypeOK, ReaderCovered, Close, OwnSignal, Goto
    <2>3. WriterCovered'
        BY <1>19 DEF TypeOK, WriterCovered, Close, OwnSignal, Goto
    <2>4. CloseCovered'
        BY <1>19 DEF TypeOK, CloseCovered, Close, OwnSignal, Goto
    <2>5. Locals'
        BY <1>19 DEF TypeOK, Locals, Close, Goto
    <2> QED BY <2>1, <2>2, <2>3, <2>4, <2>5
<1>20. ASSUME NEW c \in Closers, Interrupt(c) PROVE WakeInv'
    <2>1. Registered'
        BY <1>20 DEF TypeOK, Registered, Interrupt, OwnSignal, Goto
    <2>2. ReaderCovered'
        BY <1>20 DEF TypeOK, ReaderCovered, Interrupt, OwnSignal, Goto
    <2>3. WriterCovered'
        BY <1>20 DEF TypeOK, WriterCovered, Interrupt, OwnSignal, Goto
    <2>4. CloseCovered'
        BY <1>20 DEF TypeOK, CloseCovered, Interrupt, OwnSignal, Goto
    <2>5. Locals'
        BY <1>20 DEF TypeOK, Locals, Interrupt, Goto
    <2> QED BY <2>1, <2>2, <2>3, <2>4, <2>5
<1>21. ASSUME NEW c \in Closers, MarkClosed(c) PROVE WakeInv'
    <2>1. Registered'
        BY <1>21 DEF TypeOK, Registered, MarkClosed, OwnSignal, Goto
    <2>2. ReaderCovered'
        BY <1>21 DEF TypeOK, ReaderCovered, MarkClosed, OwnSignal, Goto
    <2>3. WriterCovered'
        BY <1>21 DEF TypeOK, WriterCovered, MarkClosed, OwnSignal, Goto
    <2>4. CloseCovered'
        BY <1>21 DEF TypeOK, CloseCovered, MarkClosed, OwnSignal, Goto
    <2>5. Locals'
        BY <1>21 DEF TypeOK, Locals, MarkClosed, Goto
    <2> QED BY <2>1, <2>2, <2>3, <2>4, <2>5
<1>22. ASSUME NEW c \in Closers, WakeReader(c) PROVE WakeInv'
    <2>1. Registered'
        BY <1>22 DEF TypeOK, Registered, WakeReader, MarkWake, WakeAll, OwnSignal, Goto, shared
    <2>2. ReaderCovered'
        BY <1>22 DEF TypeOK, Registered, ReaderCovered, WakeReader, MarkWake, WakeAll, OwnSignal, Goto, shared
    <2>3. WriterCovered'
        BY <1>22 DEF TypeOK, Registered, WriterCovered, WakeReader, MarkWake, WakeAll, OwnSignal, Goto, shared
    <2>4. CloseCovered'
        BY <1>22 DEF TypeOK, Registered, Locals, CloseCovered, WakeReader, MarkWake, WakeAll, OwnSignal, Goto, shared
    <2>5. Locals'
        BY <1>22 DEF TypeOK, Locals, WakeReader, MarkWake, WakeAll, Goto, shared
    <2> QED BY <2>1, <2>2, <2>3, <2>4, <2>5
<1>23. ASSUME NEW c \in Closers, WakeWriters(c) PROVE WakeInv'
    <2>1. Registered'
        BY <1>23 DEF TypeOK, Registered, WakeWriters, MarkWake, WakeAll, OwnSignal, Goto, shared
    <2>2. ReaderCovered'
        BY <1>23 DEF TypeOK, Registered, ReaderCovered, WakeWriters, MarkWake, WakeAll, OwnSignal, Goto, shared
    <2>3. WriterCovered'
        BY <1>23 DEF TypeOK, Registered, WriterCovered, WakeWriters, MarkWake, WakeAll, OwnSignal, Goto, shared
    <2>4. CloseCovered'
        BY <1>23 DEF TypeOK, Registered, Locals, CloseCovered, WakeWriters, MarkWake, WakeAll, OwnSignal, Goto, shared
    <2>5. Locals'
        BY <1>23 DEF TypeOK, Locals, WakeWriters, MarkWake, WakeAll, Goto, shared
    <2> QED BY <2>1, <2>2, <2>3, <2>4, <2>5
<1> QED
    BY <1>0, <1>1, <1>2, <1>3, <1>4, <1>5, <1>6, <1>7, <1>8, <1>9, <1>10, <1>11, <1>12, <1>13, <1>14, <1>15, <1>16, <1>17, <1>18, <1>19, <1>20, <1>21, <1>22, <1>23
    DEF Next, PollStep, ReaderPoll, WriterPoll, CloserStep

\* Nobody waits in a new pipe.
LEMMA WakeInit == Init => WakeInv
BY TasksAssumption
DEF Init, WakeInv, Registered, ReaderCovered, WriterCovered, CloseCovered,
    Locals, Asleep, Committed, Retrying

\* No wake-up is lost and nobody is stranded: when nothing is under way, a
\* sleeping reader has nothing to see and a sleeping writer waits for a read
\* that will find chunks.
THEOREM NoLostWakeups == Spec => []NoLostWakeup
<1>1. Init => WakeInv
    BY WakeInit
<1>2. TypeOK /\ WakeInv => NoLostWakeup
    <2> SUFFICES ASSUME TypeOK, WakeInv, Quiet
                 PROVE  /\ Asleep(Reader) => data = <<>> /\ state = "Open"
                        /\ \A w \in Writers : Asleep(w) => data # <<>> /\ state = "Open"
        BY DEF NoLostWakeup
    <2> USE DEF TypeOK, WakeInv, Quiet
    <2>1. /\ \A t \in Waiters : pc[t] \in {"idle", "parked"}
          /\ \A c \in Closers : pc[c] \notin {"mark", "wakeReader", "wakeWriters"}
        BY DEF Asleep
    <2>2. \A t \in Waiters : Asleep(t) => state = "Open"
        BY <2>1 DEF CloseCovered
    <2>3. \A t \in Waiters : Asleep(t) => ~sig[t]
        BY <2>1 DEF Locals, Asleep
    <2>4. Asleep(Reader) => data = <<>>
        BY <2>1, <2>3 DEF ReaderCovered, Asleep, Committed
    <2>5. ASSUME NEW w \in Writers, Asleep(w) PROVE data # <<>>
        BY <2>1, <2>2, <2>3, <2>5 DEF WriterCovered, Asleep, Committed, Retrying
    <2> QED BY <2>2, <2>4, <2>5
<1> QED BY <1>1, <1>2, WakeStep, TypeCorrect, PTL DEF Spec

\* The two facts about prefixes that the refinement needs.
LEMMA PrefixConcat ==
    ASSUME NEW s \in Seq(Chunk), NEW t \in Seq(Chunk), NEW u \in Seq(Chunk)
    PROVE  /\ PipeStream!Prefix(s, s \o t)
           /\ PipeStream!Prefix(s, (s \o t) \o u)
           /\ t # <<>> => Len(s) < Len(s \o t)
<1>1. s \o t \in Seq(Chunk) /\ Len(s \o t) = Len(s) + Len(t)
    BY ConcatProperties
<1>2. \A i \in 1..Len(s) : (s \o t)[i] = s[i]
    BY ConcatProperties
<1>3. (s \o t) \o u \in Seq(Chunk) /\ Len((s \o t) \o u) = Len(s) + Len(t) + Len(u)
    BY <1>1, ConcatProperties
<1>4. \A i \in 1..Len(s) : ((s \o t) \o u)[i] = s[i]
    BY <1>1, <1>2, ConcatProperties
<1> QED BY <1>1, <1>2, <1>3, <1>4, EmptySeq, LenProperties DEF PipeStream!Prefix

\* A step of the pipe is a step of the stream or leaves it alone.
LEMMA StreamStep ==
    ASSUME TypeOK, Fifo, WakeInv, [Next]_vars
    PROVE  [PipeStream!Next]_(PipeStream!vars)
<1> USE DEF TypeOK, PipeStream!vars, PipeStream!Next
<1>1. CASE UNCHANGED <<option, data, state, hist>>
    BY <1>1 DEF hist
<1>2. CASE Take
    <2>1. /\ delivered' = delivered \o data
          /\ accepted' = accepted /\ state' = state
        BY <1>2 DEF Take
    <2>2. CASE data = <<>>
        BY <2>1, <2>2, ChunkSeqs
    <2>3. CASE data # <<>>
        <3>1. accepted = (delivered \o data) \o <<>>
            BY <2>3 DEF Fifo
        <3>2. delivered \o data \in Seq(Chunk) /\ accepted = delivered \o data
            BY <3>1, ChunkSeqs
        <3>3. PipeStream!Prefix(delivered \o data, accepted)
            BY <3>2, LenProperties DEF PipeStream!Prefix
        <3>4. PipeStream!Prefix(delivered, delivered \o data)
              /\ Len(delivered) < Len(delivered \o data)
            BY <2>3, PrefixConcat
        <3> QED BY <2>1, <3>3, <3>4 DEF PipeStream!Deliver
    <2> QED BY <2>2, <2>3
<1>3. ASSUME NEW w \in Writers, Put(w) PROVE [PipeStream!Next]_(PipeStream!vars)
    <2>1. CASE PutDone(w)
        <3>1. /\ accepted' = accepted \o mb[w] /\ delivered' = delivered
              /\ state = "Open" /\ state' = state
            BY <1>3, <2>1 DEF Put, PutDone
        <3>2. mb[w] # <<>> /\ mb[w] \in Seq(Chunk)
            BY <1>3 DEF Put, WakeInv, Locals
        <3>3. PipeStream!Prefix(accepted, accepted \o mb[w])
              /\ Len(accepted) < Len(accepted \o mb[w])
            BY <3>2, PrefixConcat
        <3> QED BY <3>1, <3>3 DEF PipeStream!Accept
    <2>2. CASE PutWait(w) \/ PutRelease(w)
        BY <1>3, <2>2 DEF Put, PutWait, PutRelease
    <2> QED BY <1>3, <2>1, <2>2 DEF Put
<1>4. ASSUME NEW c \in Closers, Close(c) \/ Interrupt(c)
      PROVE [PipeStream!Next]_(PipeStream!vars)
    <2>1. UNCHANGED <<accepted, delivered>> /\ (state # "Open" => state' # "Open")
        BY <1>4 DEF Close, Interrupt, hist
    <2>2. state' = state \/ state' # "Open"
        BY <1>4 DEF Close, Interrupt
    <2> QED BY <2>1, <2>2 DEF PipeStream!End
<1> QED BY BufferSteps, <1>1, <1>2, <1>3, <1>4

\* The pipe implements the stream its callers rely on.
THEOREM StreamRefined == Spec => ImplementsStream
<1>1. Init => PipeStream!Init
    BY DEF Init, PipeStream!Init
<1>2. Init => WakeInv
    BY WakeInit
<1>3. TypeOK /\ Fifo /\ WakeInv /\ [Next]_vars => [PipeStream!Next]_(PipeStream!vars)
    BY StreamStep
<1> QED
    BY <1>1, <1>2, <1>3, WakeStep, TypeCorrect, FifoCorrect, PTL
    DEF Spec, ImplementsStream, PipeStream!Spec
=============================================================================
