-------------------------- MODULE SplitHub_proofs --------------------------
(***************************************************************************)
(* Packets are read in the order of their numbers and none is lost, for    *)
(* any number of posts, sessions and GETs, as long as a queue has one      *)
(* reader at a time or no number is repeated.                              *)
(***************************************************************************)
EXTENDS SplitHub, WellFoundedInduction, TLAPS

Elems(s)    == {s[i] : i \in DOMAIN s}
Distinct(s) == \A i, j \in DOMAIN s : s[i] = s[j] => i = j

\* Where a task works on a queue, and where a reader has seen no current packet.
Working  == Reading \cup {"push", "notify", "ok", "chunk", "mark", "open", "timer", "close", "drop"}
Fetching == {"heap", "set", "chan"}

\* Whoever works on a queue has one.
ObjSound == \A t \in Tasks : pc[t] \in Working => obj[t] # None

\* A forward task begins after its GET has marked the session.
FwdSound == \A g \in Gets : pc[Get(g)] \in {"idle", "mark"} => pc[Fwd(g)] = "idle"

\* A packet that is on its way has a number.
SentSound == \A p \in Posts : pc[Post(p)] # "idle" => seq[p] # Unsent

\* The queue has accepted the packet.
Accepted(p, q) == seq[p] # Unsent /\ pc[Post(p)] \in {"notify", "ok"} /\ obj[Post(p)] = q

\* Whatever is in a queue or in a reader's hands was accepted.
Sound ==
    /\ \A q \in Queues :
          /\ \A p \in Elems(chan[q]) \cup heap[q] : Accepted(p, q)
          /\ current[q] # None => Accepted(current[q], q) /\ left[q] > 0
    /\ \A t \in Fwds : pc[t] = "set" => held[t] # None /\ Accepted(held[t], obj[t])

\* A packet is in one place.
Apart ==
    /\ \A q \in Queues :
          /\ Distinct(chan[q]) /\ Elems(chan[q]) \cap heap[q] = {}
          /\ current[q] \notin Elems(chan[q]) \cup heap[q]
    /\ \A t \in Fwds : pc[t] = "set" =>
          held[t] \notin Elems(chan[obj[t]]) \cup heap[obj[t]] \cup {current[obj[t]]}
    /\ \A s, t \in Fwds : s # t /\ pc[s] = "set" /\ pc[t] = "set" => held[s] # held[t]

\* A reader that has seen no current packet finds none, until the queue is closed.
Alone ==
    \A t \in Fwds : pc[t] \in Fetching /\ current[obj[t]] # None =>
        drained[obj[t]] \/ closed[obj[t]]

\* Where a packet that was accepted may be: NothingLost, with the reader that
\* holds the packet.
Kept(p, q) ==
    \/ p \in Elems(chan[q]) \cup heap[q] \cup {current[q]}
    \/ \E t \in Fwds : pc[t] = "set" /\ obj[t] = q /\ held[t] = p
    \/ seq[p] < nextSeq[q]

AllKept ==
    \A p \in Posts : pc[Post(p)] \in {"notify", "ok"} /\ ~closed[obj[Post(p)]] => Kept(p, obj[Post(p)])

Premise == OneReader \/ NoDuplicates

BaseInv  == TypeOK /\ ObjSound /\ FwdSound /\ SentSound /\ Sound /\ Apart
OrderInv == InOrder /\ (NoDuplicates \/ Alone) /\ AllKept

-----------------------------------------------------------------------------
\* Appending an element to a sequence.
LEMMA AppendFacts ==
    ASSUME NEW S, NEW s \in Seq(S), NEW e \in S
    PROVE  /\ Append(s, e) \in Seq(S) /\ Elems(Append(s, e)) = Elems(s) \cup {e}
           /\ Distinct(s) /\ e \notin Elems(s) => Distinct(Append(s, e))
<1>1. /\ Append(s, e) \in Seq(S) /\ DOMAIN s = 1..Len(s) /\ Len(s) \in Nat
      /\ DOMAIN Append(s, e) = 1..(Len(s) + 1)
      /\ Append(s, e)[Len(s) + 1] = e
      /\ \A i \in 1..Len(s) : Append(s, e)[i] = s[i]
  OBVIOUS
<1>2. Elems(Append(s, e)) = Elems(s) \cup {e}
  <2>1. ASSUME NEW x \in Elems(Append(s, e)) PROVE x \in Elems(s) \cup {e}
    BY <1>1, <2>1 DEF Elems
  <2>2. ASSUME NEW x \in Elems(s) PROVE x \in Elems(Append(s, e))
    <3>1. PICK i \in DOMAIN s : x = s[i]
      BY <2>2 DEF Elems
    <3>2. i \in DOMAIN Append(s, e) /\ Append(s, e)[i] = x
      BY <1>1, <3>1
    <3> QED
      BY <3>2 DEF Elems
  <2>3. e \in Elems(Append(s, e))
    <3>1. Len(s) + 1 \in DOMAIN Append(s, e)
      BY <1>1
    <3> QED
      BY <1>1, <3>1 DEF Elems
  <2> QED
    BY <2>1, <2>2, <2>3
<1>3. ASSUME Distinct(s), e \notin Elems(s) PROVE Distinct(Append(s, e))
  <2>1. \A i \in 1..Len(s) : s[i] # e
    BY <1>1, <1>3 DEF Elems
  <2>2. \A i, j \in 1..Len(s) : s[i] = s[j] => i = j
    BY <1>1, <1>3 DEF Distinct
  <2> QED
    BY <1>1, <2>1, <2>2 DEF Distinct
<1> QED
  BY <1>1, <1>2, <1>3

\* Taking the first element off a sequence.
LEMMA TailFacts ==
    ASSUME NEW S, NEW s \in Seq(S), s # <<>>
    PROVE  /\ Tail(s) \in Seq(S) /\ Head(s) \in S /\ Elems(s) = Elems(Tail(s)) \cup {Head(s)}
           /\ Distinct(s) => Distinct(Tail(s)) /\ Head(s) \notin Elems(Tail(s))
<1>1. /\ Tail(s) \in Seq(S) /\ Head(s) \in S /\ Len(s) \in Nat /\ Len(s) > 0
      /\ DOMAIN s = 1..Len(s) /\ DOMAIN Tail(s) = 1..(Len(s) - 1)
      /\ Head(s) = s[1] /\ \A i \in 1..(Len(s) - 1) : Tail(s)[i] = s[i + 1]
  OBVIOUS
<1>2. Elems(s) = Elems(Tail(s)) \cup {Head(s)}
  <2>1. ASSUME NEW x \in Elems(s) PROVE x \in Elems(Tail(s)) \cup {Head(s)}
    <3>1. PICK i \in 1..Len(s) : x = s[i]
      BY <1>1, <2>1 DEF Elems
    <3>2. CASE i = 1
      BY <1>1, <3>1, <3>2
    <3>3. CASE i # 1
      <4>1. i - 1 \in DOMAIN Tail(s) /\ Tail(s)[i - 1] = x
        BY <1>1, <3>1, <3>3
      <4> QED
        BY <4>1 DEF Elems
    <3> QED
      BY <3>2, <3>3
  <2>2. ASSUME NEW x \in Elems(Tail(s)) PROVE x \in Elems(s)
    <3>1. PICK i \in 1..(Len(s) - 1) : x = Tail(s)[i]
      BY <1>1, <2>2 DEF Elems
    <3>2. i + 1 \in DOMAIN s /\ s[i + 1] = x
      BY <1>1, <3>1
    <3> QED
      BY <3>2 DEF Elems
  <2>3. Head(s) \in Elems(s)
    <3>1. 1 \in DOMAIN s
      BY <1>1
    <3> QED
      BY <1>1, <3>1 DEF Elems
  <2> QED
    BY <2>1, <2>2, <2>3
<1>3. ASSUME Distinct(s) PROVE Distinct(Tail(s)) /\ Head(s) \notin Elems(Tail(s))
  <2>1. \A i, j \in 1..Len(s) : s[i] = s[j] => i = j
    BY <1>1, <1>3 DEF Distinct
  <2>2. Distinct(Tail(s))
    BY <1>1, <2>1 DEF Distinct
  <2>3. ASSUME NEW i \in 1..(Len(s) - 1) PROVE Tail(s)[i] # Head(s)
    <3>1. i + 1 \in 1..Len(s) /\ 1 \in 1..Len(s) /\ i + 1 # 1
      BY <1>1
    <3> QED
      BY <1>1, <2>1, <3>1
  <2> QED
    BY <1>1, <2>2, <2>3 DEF Elems
<1> QED
  BY <1>1, <1>2, <1>3

\* The empty sequence.
LEMMA EmptyFacts == Elems(<<>>) = {} /\ Distinct(<<>>) /\ \A S : <<>> \in Seq(S)
  BY DEF Elems, Distinct

\* The tasks of posts, of GETs, of readers, of removals and of the upload stream
\* are told apart.
LEMMA TaskFacts ==
    /\ \A p, r : (Post(p) = Post(r) \/ Get(p) = Get(r) \/ Fwd(p) = Fwd(r)) => p = r
    /\ \A p \in Posts : Post(p) \in Tasks /\ Post(p) \notin Closers
    /\ \A g \in Gets : Get(g) \in Tasks /\ Get(g) \notin Closers /\ \A p : Post(p) # Get(g)
    /\ Fwds \subseteq Removers /\ Removers \subseteq Closers /\ Closers \subseteq Tasks
    /\ StreamUp \in Closers /\ StreamUp \notin Removers
    /\ \A q \in Queues : Reap(q) \in Removers /\ Reap(q) \notin Fwds
    /\ \A g \in Gets : Fwd(g) \in Fwds /\ Guard(g) \in Removers /\ Guard(g) \notin Fwds
<1>1. \A p, r : (Post(p) = Post(r) \/ Get(p) = Get(r) \/ Fwd(p) = Fwd(r)) => p = r
  BY DEF Post, Get, Fwd
<1>2. (\A t \in Fwds : t[1] = "fwd") /\ \A t \in Removers : t[1] \in {"fwd", "guard", "reap"}
  BY DEF Fwds, Removers, Fwd, Guard, Reap
<1>3. StreamUp[1] = "up" /\ \A t \in Closers : t[1] \in {"fwd", "guard", "reap", "up"}
  BY <1>2 DEF Closers, StreamUp
<1>4. \A p, g : Post(p)[1] = "post" /\ Get(g)[1] = "get" /\ Reap(p)[1] = "reap" /\ Guard(g)[1] = "guard"
  BY DEF Post, Get, Reap, Guard
<1>5. /\ \A p \in Posts : Post(p) \in Tasks
      /\ \A g \in Gets : Get(g) \in Tasks /\ Fwd(g) \in Fwds /\ Guard(g) \in Removers
      /\ \A q \in Queues : Reap(q) \in Removers
      /\ Fwds \subseteq Removers /\ Removers \subseteq Closers /\ Closers \subseteq Tasks
      /\ StreamUp \in Closers
  BY DEF Tasks, Closers, Removers, Fwds
<1>6. /\ \A p : Post(p) \notin Closers
      /\ \A g : Get(g) \notin Closers /\ \A p : Post(p) # Get(g)
  BY <1>3, <1>4
<1>7. StreamUp \notin Removers /\ \A q : Reap(q) \notin Fwds /\ Guard(q) \notin Fwds
  BY <1>2, <1>3, <1>4
<1> QED
  BY <1>1, <1>5, <1>6, <1>7

-----------------------------------------------------------------------------
\* Whoever works on a queue works on one there is.
LEMMA ObjFacts ==
    ASSUME TypeOK, ObjSound
    PROVE  \A t \in Tasks : pc[t] \in Working => obj[t] \in Queues
<1>1. limit \in 0..MaxQueues /\ made \in 0..limit /\ MaxQueues \in Nat
  BY UploadQueueAssumption DEF TypeOK
<1>2. \A t \in Tasks : obj[t] \in 0..made
  BY DEF TypeOK
<1>3. \A n \in 0..made : n # None => n \in Queues
  BY <1>1 DEF Queues, None
<1> QED
  BY <1>2, <1>3 DEF ObjSound

\* A step that leaves the queues alone, accepts no packet and lets no reader look
\* for one while there is a current one.
Quiet ==
    /\ UNCHANGED <<seq, chan, heap, nextSeq, current, left, closed, drained, held>>
    /\ \A p \in Posts : pc'[Post(p)] \in {"notify", "ok"} <=> pc[Post(p)] \in {"notify", "ok"}
    /\ \A p \in Posts : pc[Post(p)] \in {"notify", "ok"} => obj'[Post(p)] = obj[Post(p)]
    /\ \A t \in Fwds : pc'[t] = "set" <=> pc[t] = "set"
    /\ \A t \in Fwds : pc'[t] \in Fetching =>
          obj'[t] = obj[t] /\ (pc[t] \in Fetching \/ current[obj[t]] = None)

\* Such a step keeps what is said of packets.
LEMMA QuietKeeps ==
    ASSUME BaseInv, Quiet
    PROVE  Sound' /\ Apart' /\ (OrderInv => OrderInv')
<1> USE DEF BaseInv, Quiet
<1>1. \A p \in Posts, q \in Queues : Accepted(p, q) => Accepted(p, q)'
  BY DEF Accepted
<1>2. \A q \in Queues : Elems(chan[q]) \subseteq Posts /\ heap[q] \subseteq Posts
  BY DEF TypeOK, Elems
<1>3. \A t \in Fwds : pc'[t] = "set" => pc[t] = "set" /\ obj'[t] = obj[t] /\ obj[t] \in Queues
                                        /\ held[t] \in 0..MaxPosts
  BY ObjFacts, TaskFacts DEF Fetching, Working, Reading, TypeOK
<1>4. Sound'
  <2>1. \A q \in Queues :
          /\ \A p \in Elems(chan[q]) \cup heap[q] : Accepted(p, q)'
          /\ current[q] # None => Accepted(current[q], q)' /\ left[q] > 0
    <3>1. \A q \in Queues : current[q] # None => current[q] \in Posts
      BY DEF TypeOK, None, Posts
    <3> QED
      BY <1>1, <1>2, <3>1 DEF Sound
  <2>2. \A t \in Fwds : pc'[t] = "set" => held[t] # None /\ Accepted(held[t], obj[t])'
    <3>1. \A t \in Fwds : pc[t] = "set" => held[t] # None /\ Accepted(held[t], obj[t])
      BY DEF Sound
    <3>2. \A t \in Fwds : pc'[t] = "set" => held[t] \in Posts
      BY <1>3, <3>1 DEF Posts, None, TypeOK
    <3> QED
      BY <1>1, <1>3, <3>1, <3>2
  <2> QED
    BY <2>1, <2>2 DEF Sound, Accepted
<1>5. Apart'
  BY <1>3 DEF Apart
<1>6. ASSUME OrderInv PROVE OrderInv'
  <2>1. InOrder'
    BY <1>3, <1>6 DEF OrderInv, InOrder
  <2>2. (NoDuplicates \/ Alone)'
    <3>1. NoDuplicates => NoDuplicates'
      BY DEF NoDuplicates
    <3>2. Alone => Alone'
      BY DEF Alone
    <3> QED
      BY <1>6, <3>1, <3>2 DEF OrderInv
  <2>3. AllKept'
    <3> SUFFICES ASSUME NEW p \in Posts, pc'[Post(p)] \in {"notify", "ok"}, ~closed'[obj'[Post(p)]]
                 PROVE  Kept(p, obj[Post(p)])'
      BY DEF AllKept, Kept
    <3>1. Kept(p, obj[Post(p)])
      BY <1>6 DEF OrderInv, AllKept
    <3>2. \A t \in Fwds : pc[t] = "set" => pc'[t] = "set" /\ obj'[t] = obj[t]
      BY DEF Fetching
    <3> QED
      BY <3>1, <3>2 DEF Kept
  <2> QED
    BY <2>1, <2>2, <2>3 DEF OrderInv
<1> QED
  BY <1>4, <1>5, <1>6

\* A task other than a GET goes on, or a GET begins.
LEMMA FwdKept ==
    ASSUME TypeOK, FwdSound, NEW t \in Tasks, NEW l, pc' = [pc EXCEPT ![t] = l],
           t \in Fwds => pc[t] # "idle", \A g \in Gets : t = Get(g) => pc[t] = "idle"
    PROVE  FwdSound'
<1>1. \A u \in Tasks : pc'[u] = IF u = t THEN l ELSE pc[u]
  BY DEF TypeOK
<1>2. \A g \in Gets : Get(g) \in Tasks /\ Fwd(g) \in Tasks /\ Fwd(g) \in Fwds /\ Get(g) \notin Fwds
  BY TaskFacts
<1> QED
  BY <1>1, <1>2 DEF FwdSound

\* A task goes on, outside the queues.
LEMMA OneMoves ==
    ASSUME BaseInv, NEW t \in Tasks, NEW l \in TaskPc, NEW o \in 0..made,
           \A g \in Gets : t = Get(g) => pc[t] = "idle",
           pc' = [pc EXCEPT ![t] = l], obj' = [obj EXCEPT ![t] = o], l \in Working => o # None,
           UNCHANGED <<seq, chan, heap, nextSeq, current, left, closed, drained, held>>,
           UNCHANGED <<mode, made, limit>>, map' \in 0..made,
           permit' \in [Queues -> BOOLEAN], conn' \in [Queues -> BOOLEAN],
           \A p \in Posts : t = Post(p) =>
              /\ seq[p] # Unsent
              /\ l \in {"notify", "ok"} <=> pc[t] \in {"notify", "ok"}
              /\ l \in {"notify", "ok"} => o = obj[t],
           t \in Fwds => /\ pc[t] \notin {"idle", "set"} /\ l # "set"
                         /\ l \in Fetching => o = obj[t] /\ (pc[t] \in Fetching \/ current[o] = None)
    PROVE  BaseInv' /\ (OrderInv => OrderInv')
<1> USE DEF BaseInv
<1>1. pc \in [Tasks -> TaskPc] /\ obj \in [Tasks -> 0..made]
  BY DEF TypeOK
<1>2. Quiet
  <2>1. \A u \in Tasks : pc'[u] = IF u = t THEN l ELSE pc[u]
    BY <1>1
  <2>2. \A u \in Tasks : obj'[u] = IF u = t THEN o ELSE obj[u]
    BY <1>1
  <2>3. (\A p \in Posts : Post(p) \in Tasks) /\ Fwds \subseteq Tasks
    BY TaskFacts
  <2> QED
    BY <2>1, <2>2, <2>3 DEF Quiet
<1>3. TypeOK'
  <2>1. pc' \in [Tasks -> TaskPc] /\ obj' \in [Tasks -> 0..made]
    BY <1>1
  <2> QED
    BY <2>1 DEF TypeOK
<1>4. ObjSound'
  BY <1>1 DEF ObjSound
<1>5. FwdSound'
  BY FwdKept
<1>6. SentSound'
  BY <1>1, TaskFacts DEF SentSound
<1> QED
  BY <1>2, <1>3, <1>4, <1>5, <1>6, QuietKeeps

\* Where a task that is not about to work on a queue goes.
LEMMA PcFacts ==
    /\ TaskPc \cap Working = TaskPc \ {"idle", "failed", "ended", "remove", "done"}
    /\ Fetching \subseteq Reading /\ Reading \subseteq Working
  BY DEF TaskPc, Working, Reading, Fetching

\* A session is looked up, or made with its reaper.
LEMMA UpsertKeeps ==
    ASSUME BaseInv, NEW t \in Tasks, NEW l \in TaskPc, Upsert(t, l),
           t \notin Removers, pc[t] = "idle", \A p \in Posts : t = Post(p) => l = "push" /\ seq[p] # Unsent
    PROVE  BaseInv' /\ (OrderInv => OrderInv')
<1> USE DEF BaseInv
<1>1. /\ pc \in [Tasks -> TaskPc] /\ obj \in [Tasks -> 0..made] /\ limit \in 0..MaxQueues
      /\ made \in 0..limit /\ map \in 0..made /\ MaxQueues \in Nat
  BY UploadQueueAssumption DEF TypeOK
<1>2. CASE map # None
  <2>1. /\ pc' = [pc EXCEPT ![t] = l] /\ obj' = [obj EXCEPT ![t] = map]
        /\ UNCHANGED <<queues, held, mode, limit, conn, map, made>>
    BY <1>2 DEF Upsert, Goto
  <2>2. map \in 0..made /\ permit \in [Queues -> BOOLEAN] /\ conn \in [Queues -> BOOLEAN]
    BY DEF TypeOK
  <2>3. t \notin Fwds
    BY TaskFacts
  <2>4. \A p \in Posts : t = Post(p) =>
          /\ seq[p] # Unsent
          /\ l \in {"notify", "ok"} <=> pc[t] \in {"notify", "ok"}
          /\ l \in {"notify", "ok"} => map = obj[t]
    OBVIOUS
  <2>5. /\ UNCHANGED <<seq, chan, heap, nextSeq, current, left, closed, drained, held>>
        /\ UNCHANGED <<mode, made, limit>> /\ map' \in 0..made
        /\ permit' \in [Queues -> BOOLEAN] /\ conn' \in [Queues -> BOOLEAN]
    BY <2>1, <2>2 DEF queues
  <2> QED
    BY <1>2, <2>1, <2>2, <2>3, <2>4, <2>5, OneMoves
<1>3. CASE map = None
  <2> DEFINE r == Reap(made + 1)
  <2>1. /\ made < limit /\ made' = made + 1 /\ map' = made + 1
        /\ pc'  = [pc EXCEPT ![t] = l, ![r] = "timer"]
        /\ obj' = [obj EXCEPT ![t] = made + 1, ![r] = made + 1]
        /\ UNCHANGED <<queues, held, mode, limit, conn>>
    BY <1>3 DEF Upsert
  <2>2. made + 1 \in Queues /\ made' \in 0..limit /\ map' \in 0..made'
    BY <1>1, <2>1 DEF Queues
  <2>3. r \in Removers /\ r \in Tasks /\ r # t /\ r \notin Fwds /\ \A p \in Posts : r # Post(p)
    BY <2>2, TaskFacts
  <2> HIDE DEF r
  <2>4. /\ \A u \in Tasks : pc'[u] = IF u = r THEN "timer" ELSE IF u = t THEN l ELSE pc[u]
        /\ \A u \in Tasks : obj'[u] = IF u \in {r, t} THEN made + 1 ELSE obj[u]
    BY <1>1, <2>1, <2>3
  <2>5. pc' \in [Tasks -> TaskPc] /\ obj' \in [Tasks -> 0..made']
    <3>1. "timer" \in TaskPc
      BY DEF TaskPc
    <3>2. made + 1 \in 0..made' /\ 0..made \subseteq 0..made'
      BY <1>1, <2>1
    <3> QED
      BY <1>1, <2>1, <2>3, <3>1, <3>2
  <2>6. TypeOK'
    BY <2>1, <2>2, <2>5 DEF TypeOK, queues
  <2>7. ObjSound'
    <3>1. made + 1 # None
      BY <2>2 DEF Queues, None
    <3> QED
      BY <2>4, <3>1 DEF ObjSound
  <2>8. Quiet
    <3>1. (\A p \in Posts : Post(p) \in Tasks) /\ Fwds \subseteq Tasks /\ t \notin Fwds
      BY TaskFacts
    <3> QED
      BY <2>1, <2>3, <2>4, <3>1 DEF Quiet, queues
  <2>9. FwdSound'
    <3>1. \A g \in Gets : /\ Get(g) \in Tasks /\ Fwd(g) \in Tasks /\ Get(g) # r /\ Fwd(g) \in Fwds
                        /\ Fwd(g) # t /\ Fwd(g) # r
      BY <2>3, TaskFacts
    <3>2. \A g \in Gets : pc'[Get(g)] \in {"idle", "mark"} => pc[Get(g)] \in {"idle", "mark"}
      BY <2>4, <3>1
    <3> QED
      BY <2>4, <3>1, <3>2 DEF FwdSound
  <2>10. SentSound'
    BY <2>1, <2>3, <2>4, TaskFacts DEF SentSound, queues
  <2> QED
    BY <2>6, <2>7, <2>8, <2>9, <2>10, QuietKeeps
<1> QED
  BY <1>2, <1>3

\* mark_fully_connected, with the forward task, and the end of a GET.
LEMMA GetKeeps ==
    ASSUME BaseInv, NEW g \in Gets, Mark(g) \/ GetEnds(g)
    PROVE  BaseInv' /\ (OrderInv => OrderInv')
<1> USE DEF BaseInv
<1> DEFINE q == obj[Get(g)]
<1>1. pc \in [Tasks -> TaskPc] /\ obj \in [Tasks -> 0..made]
  BY DEF TypeOK
<1>2. /\ Get(g) \in Tasks /\ Fwd(g) \in Tasks /\ Fwd(g) \in Fwds /\ Guard(g) \in Tasks
      /\ Get(g) \notin Fwds /\ Guard(g) \notin Fwds /\ Get(g) # Fwd(g) /\ Get(g) # Guard(g)
      /\ \A p \in Posts : Post(p) \in Tasks /\ Post(p) \notin {Get(g), Fwd(g), Guard(g)}
      /\ Fwds \subseteq Tasks
  BY TaskFacts
<1>3. ASSUME Mark(g) PROVE BaseInv' /\ (OrderInv => OrderInv')
  <2>1. /\ pc[Get(g)] = "mark" /\ pc' = [pc EXCEPT ![Get(g)] = "open", ![Fwd(g)] = "read"]
        /\ obj' = [obj EXCEPT ![Fwd(g)] = q] /\ conn' = [conn EXCEPT ![q] = TRUE]
        /\ UNCHANGED <<queues, held, mode, map, made, limit>>
    BY <1>3 DEF Mark
  <2>2. q \in 0..made /\ q # None
    BY <1>1, <1>2, <2>1 DEF ObjSound, Working
  <2>3. /\ \A u \in Tasks : pc'[u] = IF u = Fwd(g) THEN "read" ELSE IF u = Get(g) THEN "open" ELSE pc[u]
        /\ \A u \in Tasks : obj'[u] = IF u = Fwd(g) THEN q ELSE obj[u]
    BY <1>1, <1>2, <2>1
  <2>4. TypeOK'
    <3>1. pc' \in [Tasks -> TaskPc]
      BY <1>1, <2>1 DEF TaskPc
    <3>2. obj' \in [Tasks -> 0..made] /\ conn' \in [Queues -> BOOLEAN]
      BY <1>1, <2>1, <2>2 DEF TypeOK
    <3> QED
      BY <2>1, <3>1, <3>2 DEF TypeOK, queues
  <2>5. ObjSound'
    BY <1>2, <2>1, <2>2, <2>3 DEF ObjSound, Working
  <2>6. FwdSound'
    <3>1. \A h \in Gets : Fwd(h) = Fwd(g) => h = g
      BY TaskFacts
    <3>2. \A h \in Gets : /\ Get(h) \in Tasks /\ Fwd(h) \in Tasks /\ Get(h) # Fwd(g)
                        /\ Fwd(h) # Get(g)
      BY <1>2, TaskFacts
    <3> QED
      BY <2>3, <3>1, <3>2 DEF FwdSound
  <2>7. pc[Fwd(g)] = "idle"
    BY <2>1 DEF FwdSound
  <2>8. Quiet
    <3>1. \A p \in Posts : pc'[Post(p)] = pc[Post(p)] /\ obj'[Post(p)] = obj[Post(p)]
      BY <1>2, <2>3
    <3>2. \A t \in Fwds : t # Fwd(g) => pc'[t] = pc[t] /\ obj'[t] = obj[t]
      BY <1>2, <2>3
    <3>3. pc'[Fwd(g)] = "read"
      BY <1>2, <2>3
    <3> QED
      BY <2>1, <2>7, <3>1, <3>2, <3>3 DEF Quiet, queues, Fetching
  <2>9. SentSound'
    BY <1>2, <2>1, <2>3 DEF SentSound, queues
  <2> QED
    BY <2>4, <2>5, <2>6, <2>8, <2>9, QuietKeeps
<1>4. ASSUME GetEnds(g) PROVE BaseInv' /\ (OrderInv => OrderInv')
  <2>1. /\ pc[Get(g)] = "open" /\ pc' = [pc EXCEPT ![Get(g)] = "ended", ![Guard(g)] = "remove"]
        /\ obj' = [obj EXCEPT ![Get(g)] = None] /\ UNCHANGED <<queues, held, hub>>
    BY <1>4 DEF GetEnds
  <2>2. None \in 0..made
    <3>1. limit \in Nat /\ made \in 0..limit
      BY UploadQueueAssumption DEF TypeOK
    <3> QED
      BY <3>1 DEF None
  <2>3. /\ \A u \in Tasks : pc'[u] = IF u = Guard(g) THEN "remove" ELSE IF u = Get(g) THEN "ended" ELSE pc[u]
        /\ \A u \in Tasks : obj'[u] = IF u = Get(g) THEN None ELSE obj[u]
    BY <1>1, <1>2, <2>1
  <2>4. TypeOK'
    <3>1. pc' \in [Tasks -> TaskPc]
      BY <1>1, <2>1 DEF TaskPc
    <3>2. obj' \in [Tasks -> 0..made]
      BY <1>1, <2>1, <2>2
    <3> QED
      BY <2>1, <3>1, <3>2 DEF TypeOK, queues, hub
  <2>5. ObjSound'
    BY <1>2, <2>3 DEF ObjSound, Working, Reading
  <2>6. FwdSound'
    <3>1. \A h \in Gets : /\ Get(h) \in Tasks /\ Fwd(h) \in Tasks /\ Get(h) # Guard(g)
                        /\ Fwd(h) \in Fwds /\ Fwd(h) # Guard(g) /\ Fwd(h) # Get(g)
      BY <1>2, TaskFacts
    <3> QED
      BY <2>3, <3>1 DEF FwdSound
  <2>7. Quiet
    BY <1>2, <2>1, <2>3 DEF Quiet, queues
  <2>8. SentSound'
    BY <1>2, <2>1, <2>3 DEF SentSound, queues
  <2> QED
    BY <2>4, <2>5, <2>6, <2>7, <2>8, QuietKeeps
<1> QED
  BY <1>3, <1>4

\* A post goes on, outside the queues.
LEMMA PostMoves ==
    ASSUME BaseInv, NEW p \in Posts, NEW l \in TaskPc, NEW o \in 0..made, seq[p] # Unsent,
           pc' = [pc EXCEPT ![Post(p)] = l], obj' = [obj EXCEPT ![Post(p)] = o],
           l \in Working => o # None,
           UNCHANGED <<seq, chan, heap, nextSeq, current, left, closed, drained, held, hub>>,
           permit' \in [Queues -> BOOLEAN],
           l \in {"notify", "ok"} <=> pc[Post(p)] \in {"notify", "ok"},
           l \in {"notify", "ok"} => o = obj[Post(p)]
    PROVE  BaseInv' /\ (OrderInv => OrderInv')
<1>1. /\ Post(p) \in Tasks /\ Post(p) \notin Fwds /\ \A g \in Gets : Post(p) # Get(g)
      /\ \A r \in Posts : Post(p) = Post(r) => p = r
  BY TaskFacts
<1>2. UNCHANGED <<mode, made, limit>> /\ map' \in 0..made /\ conn' \in [Queues -> BOOLEAN]
  BY DEF BaseInv, TypeOK, hub
<1> QED
  BY <1>1, <1>2, OneMoves

\* Any other task but a GET goes on, outside the queues.
LEMMA CloserMoves ==
    ASSUME BaseInv, NEW t \in Closers, NEW l \in TaskPc, NEW o \in 0..made,
           pc' = [pc EXCEPT ![t] = l], obj' = [obj EXCEPT ![t] = o], l \in Working => o # None,
           UNCHANGED <<seq, chan, heap, nextSeq, current, left, closed, drained, held>>,
           UNCHANGED <<mode, made, limit>>, map' \in 0..made,
           permit' \in [Queues -> BOOLEAN], conn' \in [Queues -> BOOLEAN],
           pc[t] \notin {"idle", "set"}, l # "set",
           l \in Fetching => o = obj[t] /\ (pc[t] \in Fetching \/ current[o] = None)
    PROVE  BaseInv' /\ (OrderInv => OrderInv')
<1>1. /\ t \in Tasks /\ \A g \in Gets : t # Get(g)
      /\ \A p \in Posts : t # Post(p)
  BY TaskFacts
<1> QED
  BY <1>1, OneMoves

\* What a task that goes on with its queue needs to say.
LEMMA MoveFacts ==
    ASSUME BaseInv, NEW t \in Tasks
    PROVE  /\ obj[t] \in 0..made /\ obj = [obj EXCEPT ![t] = obj[t]] /\ None \in 0..made
           /\ map \in 0..made /\ permit \in [Queues -> BOOLEAN] /\ conn \in [Queues -> BOOLEAN]
           /\ pc[t] \in Working => obj[t] # None /\ obj[t] \in Queues
<1>1. /\ obj \in [Tasks -> 0..made] /\ map \in 0..made
      /\ permit \in [Queues -> BOOLEAN] /\ conn \in [Queues -> BOOLEAN]
  BY DEF BaseInv, TypeOK
<1>2. made \in Nat
  BY UploadQueueAssumption DEF BaseInv, TypeOK
<1>3. pc[t] \in Working => obj[t] # None /\ obj[t] \in Queues
  BY ObjFacts DEF BaseInv, ObjSound
<1> QED
  BY <1>1, <1>2, <1>3 DEF None

\* The steps of the reaper, of a removal, of the upload stream and of a forward
\* task that do not touch a queue.
LEMMA RemoveKeeps ==
    ASSUME BaseInv, NEW t \in Removers, Remove(t)
    PROVE  BaseInv' /\ (OrderInv => OrderInv')
<1>1. t \in Closers /\ t \in Tasks
  BY TaskFacts
<1>2. pc[t] = "remove" /\ map' = None /\ UNCHANGED <<queues, held, mode, made, limit, conn>>
  BY DEF Remove
<1>3. /\ UNCHANGED <<seq, chan, heap, nextSeq, current, left, closed, drained, held>>
      /\ UNCHANGED <<mode, made, limit>> /\ map' \in 0..made
      /\ permit' \in [Queues -> BOOLEAN] /\ conn' \in [Queues -> BOOLEAN]
  BY <1>1, <1>2, MoveFacts DEF queues
<1>4. CASE map = None
  <2>1. pc' = [pc EXCEPT ![t] = "done"] /\ obj' = [obj EXCEPT ![t] = None]
    BY <1>4 DEF Remove, Leave, Goto
  <2>2. "done" \in TaskPc /\ "done" \notin Working /\ "done" \notin Fetching /\ None \in 0..made
    BY <1>1, MoveFacts DEF TaskPc, Working, Reading, Fetching
  <2> QED
    BY <1>1, <1>2, <1>3, <2>1, <2>2, CloserMoves
<1>5. CASE map # None
  <2>1. pc' = [pc EXCEPT ![t] = "close"] /\ obj' = [obj EXCEPT ![t] = map]
    BY <1>5 DEF Remove, Goto
  <2>2. "close" \in TaskPc /\ "close" \notin Fetching /\ map \in 0..made
    BY <1>1, MoveFacts DEF TaskPc, Fetching
  <2> QED
    BY <1>1, <1>2, <1>3, <1>5, <2>1, <2>2, CloserMoves
<1> QED
  BY <1>4, <1>5

\* The reaper.
LEMMA ReapKeeps ==
    ASSUME BaseInv, NEW q \in Queues, Reaper(q)
    PROVE  BaseInv' /\ (OrderInv => OrderInv')
<1> DEFINE t == Reap(q)
<1>1. t \in Closers /\ t \in Tasks
  BY TaskFacts
<1>2. pc[t] = "timer" /\ UNCHANGED <<queues, held, mode, map, made, limit>>
  BY DEF Reaper, ReapConnected, ReapTimeout, hub
<1>3. conn' \in [Queues -> BOOLEAN]
  <2>1. conn \in [Queues -> BOOLEAN]
    BY <1>1, MoveFacts
  <2> QED
    BY <2>1 DEF Reaper, ReapConnected, ReapTimeout, hub
<1> HIDE DEF t
<1>4. /\ UNCHANGED <<seq, chan, heap, nextSeq, current, left, closed, drained, held>>
      /\ UNCHANGED <<mode, made, limit>> /\ map' \in 0..made
      /\ permit' \in [Queues -> BOOLEAN]
  BY <1>1, <1>2, MoveFacts DEF queues
<1>5. {"done", "remove"} \subseteq TaskPc /\ {"done", "remove"} \cap (Working \cup Fetching) = {}
  BY DEF TaskPc, Working, Reading, Fetching
<1>6. \/ pc' = [pc EXCEPT ![t] = "done"] /\ obj' = [obj EXCEPT ![t] = None]
      \/ pc' = [pc EXCEPT ![t] = "remove"] /\ obj' = [obj EXCEPT ![t] = obj[t]]
  BY <1>1, MoveFacts DEF Reaper, ReapConnected, ReapTimeout, Leave, Goto, t
<1>7. obj[t] \in 0..made /\ None \in 0..made
  BY <1>1, MoveFacts
<1> QED
  BY <1>1, <1>2, <1>3, <1>4, <1>5, <1>6, <1>7, CloserMoves

\* notify_one, after a push or a close.
LEMMA NotifyKeeps ==
    ASSUME BaseInv, UNCHANGED hub,
           \/ \E p \in Posts : Notify(Post(p), "ok")
           \/ \E t \in Closers : Notify(t, "done")
    PROVE  BaseInv' /\ (OrderInv => OrderInv')
<1>1. ASSUME NEW t \in Tasks, NEW l, Notify(t, l)
      PROVE  /\ pc[t] = "notify" /\ permit' \in [Queues -> BOOLEAN]
             /\ UNCHANGED <<seq, chan, heap, nextSeq, current, left, closed, drained, held>>
             /\ obj[t] # None /\ obj[t] \in 0..made /\ None \in 0..made
             /\ obj = [obj EXCEPT ![t] = obj[t]]
  <2>1. "notify" \in Working
    BY DEF Working
  <2> QED
    BY <1>1, <2>1, MoveFacts DEF Notify
<1>2. ASSUME NEW p \in Posts, Notify(Post(p), "ok") PROVE BaseInv' /\ (OrderInv => OrderInv')
  <2>1. pc' = [pc EXCEPT ![Post(p)] = "ok"] /\ obj' = obj /\ "ok" \in TaskPc
    BY <1>2 DEF Notify, Goto, TaskPc
  <2>2. Post(p) \in Tasks
    BY TaskFacts
  <2>3. seq[p] # Unsent
    BY <1>1, <1>2, <2>2 DEF BaseInv, SentSound
  <2> QED
    BY <1>1, <1>2, <2>1, <2>2, <2>3, PostMoves
<1>3. ASSUME NEW t \in Closers, Notify(t, "done") PROVE BaseInv' /\ (OrderInv => OrderInv')
  <2>1. /\ pc' = [pc EXCEPT ![t] = "done"] /\ obj' = [obj EXCEPT ![t] = None]
        /\ "done" \in TaskPc /\ "done" \notin Working \cup Fetching
    BY <1>3 DEF Notify, Leave, Goto, TaskPc, Working, Reading, Fetching
  <2>2. t \in Tasks
    BY TaskFacts
  <2>3. UNCHANGED <<mode, made, limit>> /\ map' \in 0..made /\ conn' \in [Queues -> BOOLEAN]
    BY <2>2, MoveFacts DEF hub
  <2> QED
    BY <1>1, <1>3, <2>1, <2>2, <2>3, CloserMoves
<1> QED
  BY <1>2, <1>3

\* The requests, as far as they leave the queues alone.
LEMMA RequestKeeps ==
    ASSUME BaseInv,
           \/ \E p \in Posts : PacketUp(p) \/ PushTimeout(p) \/ StreamChunk(p)
           \/ StreamStart \/ StreamEnd
           \/ \E g \in Gets : StreamDown(g) \/ Mark(g) \/ GetEnds(g)
    PROVE  BaseInv' /\ (OrderInv => OrderInv')
<1>1. ASSUME NEW p \in Posts, PacketUp(p) PROVE BaseInv' /\ (OrderInv => OrderInv')
  <2>1. Post(p) \in Tasks /\ Post(p) \notin Removers /\ \A r \in Posts : Post(p) = Post(r) => r = p
    BY TaskFacts
  <2>2. pc[Post(p)] = "idle" /\ seq[p] # Unsent /\ Upsert(Post(p), "push") /\ "push" \in TaskPc
    BY <1>1 DEF PacketUp, TaskPc
  <2> QED
    BY <2>1, <2>2, UpsertKeeps
<1>2. ASSUME NEW p \in Posts, PushTimeout(p) PROVE BaseInv' /\ (OrderInv => OrderInv')
  <2>1. Post(p) \in Tasks
    BY TaskFacts
  <2>2. /\ pc[Post(p)] = "push" /\ pc' = [pc EXCEPT ![Post(p)] = "failed"]
        /\ obj' = [obj EXCEPT ![Post(p)] = None] /\ UNCHANGED <<queues, held, hub>>
    BY <1>2 DEF PushTimeout, Leave, Goto
  <2>3. "failed" \in TaskPc /\ "failed" \notin Working
    BY DEF TaskPc, Working, Reading
  <2>4. permit' \in [Queues -> BOOLEAN] /\ None \in 0..made
    BY <2>1, <2>2, MoveFacts DEF queues
  <2>5. seq[p] # Unsent
    BY <2>2 DEF BaseInv, SentSound
  <2> QED
    BY <2>2, <2>3, <2>4, <2>5, PostMoves DEF queues
<1>3. ASSUME NEW p \in Posts, StreamChunk(p) PROVE BaseInv' /\ (OrderInv => OrderInv')
  <2>1. StreamUp \in Tasks
    BY TaskFacts
  <2>2. /\ pc[StreamUp] = "chunk" /\ pc[Post(p)] = "idle" /\ seq[p] # Unsent
        /\ pc' = [pc EXCEPT ![Post(p)] = "push"] /\ obj' = [obj EXCEPT ![Post(p)] = obj[StreamUp]]
        /\ UNCHANGED <<queues, held, hub>>
    BY <1>3 DEF StreamChunk, Goto
  <2>3. "push" \in TaskPc /\ "chunk" \in Working
    BY DEF TaskPc, Working
  <2>4. permit' \in [Queues -> BOOLEAN] /\ obj[StreamUp] \in 0..made /\ obj[StreamUp] # None
    BY <2>1, <2>2, <2>3, MoveFacts DEF queues
  <2> QED
    BY <2>2, <2>3, <2>4, PostMoves DEF queues
<1>4. CASE StreamStart
  <2>1. StreamUp \in Tasks /\ StreamUp \notin Removers /\ \A p \in Posts : StreamUp # Post(p)
    BY TaskFacts
  <2>2. pc[StreamUp] = "idle" /\ Upsert(StreamUp, "chunk") /\ "chunk" \in TaskPc
    BY <1>4 DEF StreamStart, TaskPc
  <2> QED
    BY <2>1, <2>2, UpsertKeeps
<1>5. CASE StreamEnd
  <2>1. StreamUp \in Tasks /\ StreamUp \in Closers
    BY TaskFacts
  <2>2. /\ pc[StreamUp] = "chunk" /\ pc' = [pc EXCEPT ![StreamUp] = "close"]
        /\ UNCHANGED <<queues, obj, held, hub>>
    BY <1>5 DEF StreamEnd, Goto
  <2>3. "close" \in TaskPc /\ "chunk" \in Working /\ "close" \notin Fetching
    BY DEF TaskPc, Working, Fetching
  <2>4. /\ obj' = [obj EXCEPT ![StreamUp] = obj[StreamUp]]
        /\ obj[StreamUp] \in 0..made /\ obj[StreamUp] # None
        /\ UNCHANGED <<mode, made, limit>> /\ map' \in 0..made
        /\ permit' \in [Queues -> BOOLEAN] /\ conn' \in [Queues -> BOOLEAN]
    BY <2>1, <2>2, <2>3, MoveFacts DEF queues, hub
  <2> QED
    BY <2>1, <2>2, <2>3, <2>4, CloserMoves DEF queues
<1>6. ASSUME NEW g \in Gets, StreamDown(g) PROVE BaseInv' /\ (OrderInv => OrderInv')
  <2>1. Get(g) \in Tasks /\ Get(g) \notin Removers /\ \A p \in Posts : Get(g) # Post(p)
    BY TaskFacts
  <2>2. pc[Get(g)] = "idle" /\ Upsert(Get(g), "mark") /\ "mark" \in TaskPc
    BY <1>6 DEF StreamDown, TaskPc
  <2> QED
    BY <2>1, <2>2, UpsertKeeps
<1> QED
  BY <1>1, <1>2, <1>3, <1>4, <1>5, <1>6, GetKeeps

\* A reader, or the forward task it is part of, goes on without a packet.
LEMMA ReaderMoves ==
    ASSUME BaseInv, NEW t \in Fwds, NEW l \in TaskPc, pc' = [pc EXCEPT ![t] = l], obj' = obj,
           UNCHANGED <<seq, chan, heap, nextSeq, current, left, closed, drained, held, hub>>,
           permit' \in [Queues -> BOOLEAN], l # "set",
           \/ pc[t] \in Reading \ {"set"} /\ (l \in Fetching => pc[t] \in Fetching \/ current[obj[t]] = None)
           \/ pc[t] = "ended" /\ l = "remove"
    PROVE  BaseInv' /\ (OrderInv => OrderInv')
<1>1. t \in Tasks /\ t \in Closers
  BY TaskFacts
<1>2. /\ obj[t] \in 0..made /\ obj' = [obj EXCEPT ![t] = obj[t]] /\ map' \in 0..made
      /\ conn' \in [Queues -> BOOLEAN] /\ UNCHANGED <<mode, made, limit>>
      /\ pc[t] \in Working => obj[t] # None
  BY <1>1, MoveFacts DEF hub
<1>3. /\ "idle" \notin Reading /\ Reading \subseteq Working
      /\ "remove" \notin Working /\ "remove" \notin Fetching
  BY DEF Reading, Working, Fetching
<1>4. pc[t] \notin {"idle", "set"}
  BY <1>3
<1> QED
  BY <1>1, <1>2, <1>3, <1>4, CloserMoves

\* The steps of a forward task that take no packet.
LEMMA WaitKeeps ==
    ASSUME BaseInv, NEW t \in Fwds, UNCHANGED hub,
           \/ ReadCurrent(t) /\ current[obj[t]] = None
           \/ ReadEmpty(t) \/ ReadWake(t)
           \/ /\ \/ pc[t] = "write" /\ (Goto(t, "read") \/ Goto(t, "ended"))
                 \/ pc[t] = "ended" /\ Goto(t, "remove")
              /\ UNCHANGED <<queues, obj, held>>
    PROVE  BaseInv' /\ (OrderInv => OrderInv')
<1>1. t \in Tasks
  BY TaskFacts
<1>2. {"read", "heap", "chan", "wait", "write", "ended", "remove"} \subseteq TaskPc
  BY DEF TaskPc
<1>3. permit \in [Queues -> BOOLEAN]
  BY <1>1, MoveFacts
<1>4. CASE ReadCurrent(t) /\ current[obj[t]] = None
  <2>1. /\ pc[t] = "read" /\ pc' = [pc EXCEPT ![t] = "heap"]
        /\ UNCHANGED <<seq, chan, heap, nextSeq, current, left, closed, drained, permit, obj, held>>
    BY <1>4 DEF ReadCurrent, Goto
  <2> QED
    BY <1>2, <1>3, <1>4, <2>1, ReaderMoves DEF Reading
<1>5. CASE ReadEmpty(t)
  <2>1. /\ pc[t] = "chan" /\ (pc' = [pc EXCEPT ![t] = "ended"] \/ pc' = [pc EXCEPT ![t] = "wait"])
        /\ UNCHANGED <<queues, obj, held>>
    BY <1>5 DEF ReadEmpty, Goto
  <2> QED
    BY <1>2, <1>3, <2>1, ReaderMoves DEF Reading, Fetching, queues
<1>6. CASE ReadWake(t)
  <2>1. /\ pc[t] = "wait" /\ pc' = [pc EXCEPT ![t] = "read"] /\ permit' \in [Queues -> BOOLEAN]
        /\ UNCHANGED <<seq, chan, heap, nextSeq, current, left, closed, drained, obj, held>>
    BY <1>3, <1>6 DEF ReadWake, Goto
  <2> QED
    BY <1>2, <2>1, ReaderMoves DEF Reading, Fetching
<1>7. CASE /\ \/ pc[t] = "write" /\ (Goto(t, "read") \/ Goto(t, "ended"))
              \/ pc[t] = "ended" /\ Goto(t, "remove")
           /\ UNCHANGED <<queues, obj, held>>
  <2>1. CASE pc[t] = "write"
    BY <1>2, <1>3, <1>7, <2>1, ReaderMoves DEF Reading, Fetching, queues, Goto
  <2>2. CASE pc[t] = "ended"
    BY <1>2, <1>3, <1>7, <2>2, ReaderMoves DEF Reading, Fetching, queues, Goto
  <2> QED
    BY <1>7, <2>1, <2>2
<1> QED
  BY <1>4, <1>5, <1>6, <1>7

-----------------------------------------------------------------------------
\* What is in the queues and in a reader's hands are posts.
LEMMA RangeFacts ==
    ASSUME BaseInv
    PROVE  /\ \A q \in Queues : /\ Elems(chan[q]) \subseteq Posts /\ heap[q] \subseteq Posts
                                /\ current[q] # None => current[q] \in Posts
           /\ \A t \in Fwds : pc[t] = "set" => held[t] \in Posts /\ obj[t] \in Queues
           /\ None \notin Posts
<1>1. \A q \in Queues : Elems(chan[q]) \subseteq Posts /\ heap[q] \subseteq Posts
  BY DEF BaseInv, TypeOK, Elems
<1>2. \A n \in 0..MaxPosts : n # None => n \in Posts
  BY UploadQueueAssumption DEF Posts, None
<1>3. \A q \in Queues : current[q] \in 0..MaxPosts
  BY DEF BaseInv, TypeOK
<1>4. \A t \in Fwds : pc[t] = "set" => held[t] \in 0..MaxPosts /\ held[t] # None /\ obj[t] \in Queues
  BY TaskFacts, ObjFacts DEF BaseInv, TypeOK, Sound, Working, Reading
<1> QED
  BY <1>1, <1>2, <1>3, <1>4 DEF Posts, None

\* The tasks, when a reader or a closer takes a step.
LEMMA CloserFacts ==
    ASSUME BaseInv, NEW t \in Closers, NEW l \in TaskPc, pc[t] \in Working,
           pc' = [pc EXCEPT ![t] = l], UNCHANGED <<seq, obj, hub>>
    PROVE  /\ ObjSound' /\ FwdSound' /\ SentSound' /\ pc' \in [Tasks -> TaskPc]
           /\ obj[t] \in Queues /\ pc'[t] = l /\ \A s \in Fwds : s # t => pc'[s] = pc[s]
           /\ \A p \in Posts : \A q : Accepted(p, q)' <=> Accepted(p, q)
           /\ \A p \in Posts : pc'[Post(p)] = pc[Post(p)]
<1>1. t \in Tasks /\ Fwds \subseteq Tasks /\ \A g \in Gets : t # Get(g)
  BY TaskFacts
<1>2. pc \in [Tasks -> TaskPc]
  BY DEF BaseInv, TypeOK
<1>3. \A p \in Posts : Post(p) \in Tasks /\ Post(p) # t
  BY TaskFacts
<1>4. pc[t] # "idle"
  BY DEF Reading, Working
<1>5. obj[t] \in Queues /\ obj[t] # None
  BY <1>1, MoveFacts
<1>6. ObjSound'
  BY <1>1, <1>2, <1>5 DEF BaseInv, ObjSound
<1>7. FwdSound'
  BY <1>1, <1>4, FwdKept DEF BaseInv
<1>8. \A p \in Posts : pc'[Post(p)] = pc[Post(p)]
  BY <1>2, <1>3
<1>9. SentSound'
  BY <1>8 DEF BaseInv, SentSound
<1>10. pc' \in [Tasks -> TaskPc] /\ pc'[t] = l /\ \A s \in Fwds : s # t => pc'[s] = pc[s]
  BY <1>1, <1>2
<1> QED
  BY <1>5, <1>6, <1>7, <1>8, <1>9, <1>10 DEF Accepted

LEMMA ReaderFacts ==
    ASSUME BaseInv, NEW t \in Fwds, NEW l \in TaskPc, pc[t] \in Reading,
           pc' = [pc EXCEPT ![t] = l], UNCHANGED <<seq, obj, hub>>
    PROVE  /\ ObjSound' /\ FwdSound' /\ SentSound' /\ pc' \in [Tasks -> TaskPc]
           /\ obj[t] \in Queues /\ pc'[t] = l /\ \A s \in Fwds : s # t => pc'[s] = pc[s]
           /\ \A p \in Posts : \A q : Accepted(p, q)' <=> Accepted(p, q)
           /\ \A p \in Posts : pc'[Post(p)] = pc[Post(p)]
<1>1. t \in Closers /\ pc[t] \in Working
  BY TaskFacts DEF Working
<1> QED
  BY <1>1, CloserFacts

\* A piece of the current packet is read.
LEMMA PieceKeeps ==
    ASSUME BaseInv, NEW t \in Fwds, UNCHANGED hub, ReadCurrent(t), current[obj[t]] # None
    PROVE  BaseInv' /\ (OrderInv /\ Premise => OrderInv')
<1> DEFINE q == obj[t]
<1>1. /\ pc[t] = "read" /\ pc' = [pc EXCEPT ![t] = "write"] /\ left' = [left EXCEPT ![q] = @ - 1]
      /\ UNCHANGED <<seq, chan, heap, closed, drained, permit, obj, held, hub>>
      /\ \/ left[q] > 1 /\ UNCHANGED <<nextSeq, current>>
         \/ /\ current' = [current EXCEPT ![q] = None]
            /\ nextSeq' = [nextSeq EXCEPT ![q] = @ + 1]
  BY DEF ReadCurrent, Goto
<1>2. "write" \in TaskPc /\ "read" \in Reading
  BY DEF TaskPc, Reading
<1>3. /\ ObjSound' /\ FwdSound' /\ SentSound' /\ pc' \in [Tasks -> TaskPc]
      /\ obj[t] \in Queues /\ pc'[t] = "write" /\ \A s \in Fwds : s # t => pc'[s] = pc[s]
      /\ \A p \in Posts : \A k : Accepted(p, k)' <=> Accepted(p, k)
      /\ \A p \in Posts : pc'[Post(p)] = pc[Post(p)]
  BY <1>1, <1>2, ReaderFacts
<1>4. \A s \in Fwds : pc'[s] \in Fetching => s # t /\ pc[s] = pc'[s]
  BY <1>3 DEF Fetching
<1>5. /\ left \in [Queues -> Nat] /\ nextSeq \in [Queues -> Nat]
      /\ current \in [Queues -> 0..MaxPosts] /\ left[q] > 0
  BY <1>3 DEF BaseInv, TypeOK, Sound
<1>6. TypeOK'
  <2>1. left' \in [Queues -> Nat]
    BY <1>1, <1>3, <1>5
  <2>2. nextSeq' \in [Queues -> Nat]
    BY <1>1, <1>3, <1>5
  <2>3. current' \in [Queues -> 0..MaxPosts]
    <3>1. None \in 0..MaxPosts
      BY UploadQueueAssumption DEF None
    <3> QED
      BY <1>1, <1>3, <1>5, <3>1
  <2> QED
    BY <1>1, <1>3, <2>1, <2>2, <2>3 DEF BaseInv, TypeOK, hub
<1>7. \A k \in Queues : current'[k] # None => current'[k] = current[k] /\ left'[k] > 0
  BY <1>1, <1>3, <1>5 DEF BaseInv, Sound
<1>8. Sound'
  BY <1>1, <1>3, <1>4, <1>7, RangeFacts DEF BaseInv, Sound, Fetching
<1>9. Apart'
  BY <1>1, <1>3, <1>4, <1>7, RangeFacts DEF BaseInv, Apart, Fetching
<1>10. ASSUME OrderInv, Premise PROVE OrderInv'
  <2>1. seq[current[q]] = nextSeq[q]
    BY <1>3, <1>10 DEF OrderInv, InOrder
  <2>2. \A s \in Fwds : pc[s] = "set" => obj[s] # q \/ nextSeq' = nextSeq
    <3> SUFFICES ASSUME NEW s \in Fwds, pc[s] = "set", obj[s] = q PROVE FALSE
      OBVIOUS
    <3>1. s # t
      BY <1>1
    <3>2. CASE OneReader
      BY <1>1, <3>1, <3>2 DEF OneReader, Reading
    <3>3. CASE NoDuplicates
      <4>1. seq[held[s]] = nextSeq[q] /\ held[s] \in Posts /\ current[q] \in Posts
        BY <1>3, <1>10, RangeFacts DEF OrderInv, InOrder
      <4>2. seq[current[q]] # Unsent
        BY <1>3 DEF BaseInv, Sound, Accepted
      <4>3. held[s] = current[q]
        BY <2>1, <3>3, <4>1, <4>2 DEF NoDuplicates
      <4> QED
        BY <4>3 DEF BaseInv, Apart
    <3> QED
      BY <1>10, <3>2, <3>3 DEF Premise
  <2>3. InOrder'
    <3>1. \A k \in Queues : current'[k] # None => nextSeq'[k] = nextSeq[k]
      BY <1>1, <1>3, <1>5
    <3>2. \A s \in Fwds : pc'[s] = "set" => pc[s] = "set" /\ nextSeq'[obj[s]] = nextSeq[obj[s]]
      BY <1>1, <1>4, <1>5, <2>2, RangeFacts DEF Fetching
    <3> QED
      BY <1>1, <1>7, <1>10, <3>1, <3>2 DEF OrderInv, InOrder
  <2>4. (NoDuplicates \/ Alone)'
    <3>1. Alone => Alone'
      <4>1. \A s \in Fwds : pc'[s] \in Fetching => obj[s] \in Queues
        BY <1>4, TaskFacts, ObjFacts, PcFacts DEF BaseInv
      <4> QED
        BY <1>1, <1>4, <1>7, <4>1 DEF Alone
    <3> QED
      BY <1>1, <1>10, <3>1 DEF OrderInv, NoDuplicates
  <2>5. AllKept'
    <3> SUFFICES ASSUME NEW p \in Posts, pc'[Post(p)] \in {"notify", "ok"}, ~closed'[obj'[Post(p)]]
                 PROVE  Kept(p, obj[Post(p)])'
      BY DEF AllKept, Kept
    <3> DEFINE k == obj[Post(p)]
    <3>1. Kept(p, k)
      BY <1>1, <1>3, <1>10 DEF OrderInv, AllKept
    <3>2. k \in Queues
      BY <1>3, TaskFacts, ObjFacts DEF BaseInv, Working
    <3>3. nextSeq[k] <= nextSeq'[k] /\ nextSeq[k] \in Nat /\ nextSeq'[k] \in Nat
      BY <1>1, <1>3, <1>5, <3>2
    <3>4. seq[p] \in Int
      BY DEF BaseInv, TypeOK, Unsent
    <3>5. CASE p \in Elems(chan[k]) \cup heap[k]
      BY <1>1, <3>5 DEF Kept
    <3>6. CASE p = current[k]
      <4>1. CASE current'[k] = current[k]
        BY <1>1, <3>6, <4>1 DEF Kept
      <4>2. CASE current'[k] # current[k]
        <5>1. k = q /\ nextSeq'[k] = nextSeq[k] + 1
          BY <1>1, <1>3, <1>5, <3>2, <4>2
        <5>2. seq[p] < nextSeq'[k]
          BY <2>1, <3>3, <3>4, <3>6, <5>1
        <5> QED
          BY <1>1, <5>2 DEF Kept
      <4> QED
        BY <4>1, <4>2
    <3>7. CASE \E s \in Fwds : pc[s] = "set" /\ obj[s] = k /\ held[s] = p
      <4>1. \A s \in Fwds : pc[s] = "set" => pc'[s] = "set"
        BY <1>1, <1>3
      <4> QED
        BY <1>1, <3>7, <4>1 DEF Kept
    <3>8. CASE seq[p] < nextSeq[k]
      <4>1. seq[p] < nextSeq'[k]
        BY <3>3, <3>4, <3>8
      <4> QED
        BY <1>1, <4>1 DEF Kept
    <3> QED
      BY <3>1, <3>5, <3>6, <3>7, <3>8 DEF Kept
  <2> QED
    BY <2>3, <2>4, <2>5 DEF OrderInv
<1> QED
  BY <1>3, <1>6, <1>8, <1>9, <1>10 DEF BaseInv

\* A packet is in one queue.
LEMMA OneQueue ==
    ASSUME BaseInv, NEW p \in Posts, NEW q \in Queues, Accepted(p, q)
    PROVE  /\ \A k \in Queues : k # q => p \notin Elems(chan[k]) \cup heap[k] \cup {current[k]}
           /\ \A s \in Fwds : pc[s] = "set" /\ held[s] = p => obj[s] = q
  BY RangeFacts DEF BaseInv, Sound, Accepted

\* The next packet is popped from the heap, or the reader goes on to the channel.
LEMMA HeapKeeps ==
    ASSUME BaseInv, NEW t \in Fwds, UNCHANGED hub, ReadHeap(t)
    PROVE  BaseInv' /\ (OrderInv => OrderInv')
<1> DEFINE q == obj[t]
<1>1. /\ pc[t] = "heap"
      /\ UNCHANGED <<seq, chan, nextSeq, current, left, closed, drained, permit, obj, hub>>
  BY DEF ReadHeap
<1>2. "heap" \in Reading /\ {"set", "ended", "chan"} \subseteq TaskPc
  BY DEF Reading, TaskPc
<1>3. CASE UNCHANGED <<heap, held>> /\ (pc' = [pc EXCEPT ![t] = "ended"] \/ pc' = [pc EXCEPT ![t] = "chan"])
  <2>1. permit \in [Queues -> BOOLEAN]
    BY DEF BaseInv, TypeOK
  <2> QED
    BY <1>1, <1>2, <1>3, <2>1, ReaderMoves DEF Fetching
<1>4. ASSUME NEW p \in Top(q), seq[p] = nextSeq[q], heap' = [heap EXCEPT ![q] = @ \ {p}],
             held' = [held EXCEPT ![t] = p], pc' = [pc EXCEPT ![t] = "set"]
      PROVE  BaseInv' /\ (OrderInv => OrderInv')
  <2>1. /\ ObjSound' /\ FwdSound' /\ SentSound' /\ pc' \in [Tasks -> TaskPc]
        /\ obj[t] \in Queues /\ pc'[t] = "set" /\ \A s \in Fwds : s # t => pc'[s] = pc[s]
        /\ \A r \in Posts : \A k : Accepted(r, k)' <=> Accepted(r, k)
        /\ \A r \in Posts : pc'[Post(r)] = pc[Post(r)]
    BY <1>1, <1>2, <1>4, ReaderFacts
  <2>2. p \in heap[q] /\ p \in Posts /\ Accepted(p, q) /\ p # None
    BY <2>1, RangeFacts DEF Top, BaseInv, Sound
  <2>3. heap \in [Queues -> SUBSET Posts] /\ held \in [Tasks -> 0..MaxPosts] /\ t \in Tasks /\ Fwds \subseteq Tasks
    BY TaskFacts DEF BaseInv, TypeOK
  <2>4. /\ \A k \in Queues : heap'[k] = IF k = q THEN heap[k] \ {p} ELSE heap[k]
        /\ \A s \in Fwds : held'[s] = IF s = t THEN p ELSE held[s]
    BY <1>4, <2>1, <2>3
  <2>5. TypeOK'
    <3>1. heap' \in [Queues -> SUBSET Posts]
      BY <1>4, <2>1, <2>3
    <3>2. held' \in [Tasks -> 0..MaxPosts]
      BY <1>4, <2>2, <2>3 DEF Posts
    <3> QED
      BY <1>1, <2>1, <3>1, <3>2 DEF BaseInv, TypeOK, hub
  <2>6. Sound'
    <3>1. \A k \in Queues : /\ \A r \in Elems(chan[k]) \cup heap'[k] : Accepted(r, k)'
                            /\ current[k] # None => Accepted(current[k], k)' /\ left[k] > 0
      <4>1. \A k \in Queues : Elems(chan[k]) \cup heap'[k] \subseteq Elems(chan[k]) \cup heap[k]
        BY <2>4
      <4>2. \A k \in Queues : \A r \in Elems(chan[k]) \cup heap[k] : r \in Posts /\ Accepted(r, k)
        BY RangeFacts DEF BaseInv, Sound
      <4>3. \A k \in Queues : current[k] # None => current[k] \in Posts /\ Accepted(current[k], k) /\ left[k] > 0
        BY RangeFacts DEF BaseInv, Sound
      <4>4. \A k \in Queues : current[k] # None => Accepted(current[k], k)'
        BY <1>1, <2>1, <4>3 DEF Accepted
      <4> QED
        BY <2>1, <4>1, <4>2, <4>3, <4>4
    <3>2. \A s \in Fwds : pc'[s] = "set" => held'[s] # None /\ held'[s] \in Posts /\ Accepted(held'[s], obj[s])
      BY <2>1, <2>2, <2>4, RangeFacts DEF BaseInv, Sound
    <3>3. \A s \in Fwds : pc'[s] = "set" => held'[s] # None /\ Accepted(held[s], obj[s])'
      BY <1>1, <2>1, <3>2 DEF Accepted
    <3> QED
      BY <1>1, <3>1, <3>3 DEF Sound, Accepted
  <2>7. Apart'
    <3>1. p \notin Elems(chan[q]) /\ p # current[q]
      BY <2>1, <2>2 DEF BaseInv, Apart
    <3>2. \A s \in Fwds : s # t /\ pc[s] = "set" => held[s] # p
      BY <2>1, <2>2, OneQueue DEF BaseInv, Apart
    <3>3. \A k \in Queues : /\ Distinct(chan[k]) /\ Elems(chan[k]) \cap heap'[k] = {}
                            /\ current[k] \notin Elems(chan[k]) \cup heap'[k]
      BY <2>4 DEF BaseInv, Apart
    <3>4. \A s \in Fwds : pc'[s] = "set" =>
            held'[s] \notin Elems(chan[obj[s]]) \cup heap'[obj[s]] \cup {current[obj[s]]}
      <4>1. p \notin heap'[q]
        BY <2>1, <2>4
      <4>2. \A s \in Fwds : pc[s] = "set" => heap'[obj[s]] \subseteq heap[obj[s]]
        BY <2>4, RangeFacts
      <4> QED
        BY <2>1, <2>4, <3>1, <4>1, <4>2 DEF BaseInv, Apart
    <3>5. \A s, u \in Fwds : s # u /\ pc'[s] = "set" /\ pc'[u] = "set" => held'[s] # held'[u]
      BY <2>1, <2>4, <3>2 DEF BaseInv, Apart
    <3> QED
      BY <1>1, <3>3, <3>4, <3>5 DEF Apart
  <2>8. ASSUME OrderInv PROVE OrderInv'
    <3>1. InOrder'
      BY <1>1, <1>4, <2>1, <2>4, <2>8 DEF OrderInv, InOrder
    <3>2. (NoDuplicates \/ Alone)'
      BY <1>1, <2>1, <2>8 DEF OrderInv, NoDuplicates, Alone, Fetching
    <3>3. AllKept'
      <4> SUFFICES ASSUME NEW r \in Posts, pc'[Post(r)] \in {"notify", "ok"}, ~closed'[obj'[Post(r)]]
                   PROVE  Kept(r, obj[Post(r)])'
        BY DEF AllKept, Kept
      <4> DEFINE k == obj[Post(r)]
      <4>1. Kept(r, k)
        BY <1>1, <2>1, <2>8 DEF OrderInv, AllKept
      <4>2. k \in Queues
        BY <2>1, TaskFacts, ObjFacts DEF BaseInv, Working
      <4>3. CASE r \in Elems(chan[k]) \cup {current[k]} \cup heap'[k]
        BY <1>1, <4>3 DEF Kept
      <4>4. CASE r \in heap[k] \ heap'[k]
        <5>1. k = q /\ r = p
          BY <2>4, <4>2, <4>4
        <5> QED
          BY <1>1, <2>1, <2>4, <5>1 DEF Kept
      <4>5. CASE \E s \in Fwds : pc[s] = "set" /\ obj[s] = k /\ held[s] = r
        BY <1>1, <2>1, <2>4, <4>5 DEF Kept
      <4>6. CASE seq[r] < nextSeq[k]
        BY <1>1, <4>6 DEF Kept
      <4> QED
        BY <4>1, <4>3, <4>4, <4>5, <4>6 DEF Kept
    <3> QED
      BY <3>1, <3>2, <3>3 DEF OrderInv
  <2> QED
    BY <2>1, <2>5, <2>6, <2>7, <2>8 DEF BaseInv
<1> QED
  BY <1>3, <1>4 DEF ReadHeap, Goto

\* A reader that is about to make a packet the current one replaces none, unless the
\* queue is closed.
LEMMA CurrentFree ==
    ASSUME BaseInv, OrderInv, NEW t \in Fwds, pc[t] \in Fetching, Unlocked(obj[t]),
           NEW p \in Posts, seq[p] = nextSeq[obj[t]], p # current[obj[t]]
    PROVE  current[obj[t]] = None \/ closed[obj[t]]
<1> SUFFICES ASSUME current[obj[t]] # None, NoDuplicates PROVE FALSE
  BY DEF OrderInv, Alone, Unlocked
<1>1. obj[t] \in Queues
  BY TaskFacts, ObjFacts, PcFacts DEF BaseInv
<1>2. current[obj[t]] \in Posts /\ seq[current[obj[t]]] # Unsent
  BY <1>1, RangeFacts DEF BaseInv, Sound, Accepted
<1>3. seq[current[obj[t]]] = seq[p]
  BY <1>1 DEF OrderInv, InOrder
<1> QED
  BY <1>2, <1>3 DEF NoDuplicates

\* The number of a packet that was accepted has its pieces.
LEMMA PieceFacts ==
    ASSUME TypeOK, NEW p \in Posts, seq[p] # Unsent
    PROVE  Pieces[seq[p]] \in Nat /\ Pieces[seq[p]] > 0
<1>1. seq[p] \in 0..MaxPosts
  BY UploadQueueAssumption DEF TypeOK, Unsent
<1> QED
  BY <1>1, UploadQueueAssumption

\* The popped packet becomes the current one.
LEMMA SetKeeps ==
    ASSUME BaseInv, NEW t \in Fwds, UNCHANGED hub, ReadSet(t)
    PROVE  BaseInv' /\ (OrderInv /\ Premise => OrderInv')
<1> DEFINE q == obj[t]
           p == held[t]
<1>1. /\ pc[t] = "set" /\ Unlocked(q) /\ current' = [current EXCEPT ![q] = p]
      /\ left' = [left EXCEPT ![q] = Pieces[seq[p]]] /\ held' = [held EXCEPT ![t] = None]
      /\ pc' = [pc EXCEPT ![t] = "read"]
      /\ UNCHANGED <<seq, chan, heap, nextSeq, closed, drained, permit, obj, hub>>
  BY DEF ReadSet, Goto
<1>2. "set" \in Reading /\ "set" \in Fetching /\ "read" \in TaskPc /\ "read" \notin Fetching
  BY DEF Reading, Fetching, TaskPc
<1>3. /\ ObjSound' /\ FwdSound' /\ SentSound' /\ pc' \in [Tasks -> TaskPc]
      /\ obj[t] \in Queues /\ pc'[t] = "read" /\ \A s \in Fwds : s # t => pc'[s] = pc[s]
      /\ \A r \in Posts : \A k : Accepted(r, k)' <=> Accepted(r, k)
      /\ \A r \in Posts : pc'[Post(r)] = pc[Post(r)]
  BY <1>1, <1>2, ReaderFacts
<1>4. p \in Posts /\ Accepted(p, q) /\ p # None
  BY <1>1, RangeFacts DEF BaseInv, Sound
<1>5. /\ current \in [Queues -> 0..MaxPosts] /\ left \in [Queues -> Nat]
      /\ held \in [Tasks -> 0..MaxPosts] /\ t \in Tasks /\ Fwds \subseteq Tasks
  BY TaskFacts DEF BaseInv, TypeOK
<1>6. Pieces[seq[p]] \in Nat /\ Pieces[seq[p]] > 0
  BY <1>4, PieceFacts DEF BaseInv, Accepted
<1> HIDE DEF p
<1>7. /\ \A k \in Queues : current'[k] = IF k = q THEN p ELSE current[k]
      /\ \A k \in Queues : left'[k] = IF k = q THEN Pieces[seq[p]] ELSE left[k]
      /\ \A s \in Fwds : s # t => held'[s] = held[s]
  BY <1>1, <1>3, <1>5
<1>8. \A s \in Fwds : pc'[s] \in Fetching => s # t /\ pc[s] = pc'[s]
  BY <1>2, <1>3
<1>9. TypeOK'
  <2>1. current' \in [Queues -> 0..MaxPosts]
    BY <1>1, <1>3, <1>4, <1>5 DEF Posts
  <2>2. left' \in [Queues -> Nat]
    BY <1>1, <1>3, <1>5, <1>6
  <2>3. held' \in [Tasks -> 0..MaxPosts]
    <3>1. None \in 0..MaxPosts
      BY UploadQueueAssumption DEF None
    <3> QED
      BY <1>1, <1>5, <3>1
  <2> QED
    BY <1>1, <1>3, <2>1, <2>2, <2>3 DEF BaseInv, TypeOK, hub
<1>10. \A s \in Fwds : pc'[s] = "set" => s # t /\ pc[s] = "set" /\ held'[s] = held[s]
  BY <1>2, <1>7, <1>8
<1>11. Sound'
  <2>1. \A k \in Queues : \A r \in Elems(chan[k]) \cup heap[k] : Accepted(r, k)'
    BY <1>3, RangeFacts DEF BaseInv, Sound
  <2>2. \A k \in Queues : current'[k] # None => current'[k] \in Posts /\ Accepted(current'[k], k) /\ left'[k] > 0
    BY <1>4, <1>6, <1>7, RangeFacts DEF BaseInv, Sound
  <2>3. \A k \in Queues : current'[k] # None => Accepted(current[k], k)'
    BY <1>1, <1>3, <2>2 DEF Accepted
  <2>4. \A s \in Fwds : pc'[s] = "set" => held'[s] # None /\ held'[s] \in Posts /\ Accepted(held'[s], obj[s])
    BY <1>10, RangeFacts DEF BaseInv, Sound
  <2>5. \A s \in Fwds : pc'[s] = "set" => Accepted(held[s], obj[s])'
    BY <1>1, <1>3, <2>4 DEF Accepted
  <2> QED
    BY <1>1, <2>1, <2>2, <2>3, <2>4, <2>5 DEF Sound
<1>12. Apart'
  <2>1. p \notin Elems(chan[q]) \cup heap[q]
    BY <1>1 DEF BaseInv, Apart, p
  <2>2. \A s \in Fwds : s # t /\ pc[s] = "set" => held[s] # p
    BY <1>1 DEF BaseInv, Apart, p
  <2>3. \A k \in Queues : current'[k] \notin Elems(chan[k]) \cup heap[k]
    BY <1>7, <2>1 DEF BaseInv, Apart
  <2>4. \A s \in Fwds : pc'[s] = "set" =>
          held'[s] \notin Elems(chan[obj[s]]) \cup heap[obj[s]] \cup {current'[obj[s]]}
    BY <1>7, <1>10, <2>2, RangeFacts DEF BaseInv, Apart
  <2>5. \A s, u \in Fwds : s # u /\ pc'[s] = "set" /\ pc'[u] = "set" => held'[s] # held'[u]
    BY <1>10 DEF BaseInv, Apart
  <2> QED
    BY <1>1, <2>3, <2>4, <2>5 DEF BaseInv, Apart
<1>13. ASSUME OrderInv, Premise PROVE OrderInv'
  <2>1. seq[p] = nextSeq[q]
    BY <1>1, <1>13 DEF OrderInv, InOrder, p
  <2>2. InOrder'
    BY <1>1, <1>7, <1>10, <1>13, <2>1 DEF OrderInv, InOrder
  <2>3. (NoDuplicates \/ Alone)'
    <3>1. CASE NoDuplicates
      BY <1>1, <3>1 DEF NoDuplicates
    <3>2. CASE OneReader /\ Alone
      <4>1. \A s \in Fwds : pc'[s] \in Fetching => obj[s] # q /\ obj[s] \in Queues
        BY <1>1, <1>2, <1>8, <3>2, TaskFacts, ObjFacts, PcFacts DEF BaseInv, OneReader
      <4>2. Alone'
        BY <1>1, <1>7, <1>8, <3>2, <4>1 DEF Alone
      <4> QED
        BY <4>2
    <3> QED
      BY <1>13, <3>1, <3>2 DEF OrderInv, Premise
  <2>4. current[q] = None \/ closed[q]
    <3>1. p # current[q]
      BY <1>1 DEF BaseInv, Apart, p
    <3> QED
      BY <1>1, <1>2, <1>4, <1>13, <2>1, <3>1, CurrentFree
  <2>5. AllKept'
    <3> SUFFICES ASSUME NEW r \in Posts, pc'[Post(r)] \in {"notify", "ok"}, ~closed'[obj'[Post(r)]]
                 PROVE  Kept(r, obj[Post(r)])'
      BY DEF AllKept, Kept
    <3> DEFINE k == obj[Post(r)]
    <3>1. Kept(r, k)
      BY <1>1, <1>3, <1>13 DEF OrderInv, AllKept
    <3>2. k \in Queues /\ r # None
      BY <1>3, TaskFacts, ObjFacts, RangeFacts DEF BaseInv, Working
    <3>3. CASE r \in Elems(chan[k]) \cup heap[k]
      BY <1>1, <3>3 DEF Kept
    <3>4. CASE r = current[k]
      <4>1. k # q
        BY <1>1, <2>4, <3>2, <3>4
      <4> QED
        BY <1>1, <1>7, <3>2, <3>4, <4>1 DEF Kept
    <3>5. ASSUME NEW s \in Fwds, pc[s] = "set", obj[s] = k, held[s] = r PROVE Kept(r, obj[Post(r)])'
      <4>1. CASE s = t
        <5>1. r = current'[k]
          BY <1>7, <3>2, <3>5, <4>1 DEF p
        <5> QED
          BY <1>1, <5>1 DEF Kept
      <4>2. CASE s # t
        BY <1>1, <1>3, <1>7, <3>5, <4>2 DEF Kept
      <4> QED
        BY <4>1, <4>2
    <3>6. CASE seq[r] < nextSeq[k]
      BY <1>1, <3>6 DEF Kept
    <3> QED
      BY <3>1, <3>3, <3>4, <3>5, <3>6 DEF Kept
  <2> QED
    BY <2>2, <2>3, <2>5 DEF OrderInv
<1> QED
  BY <1>3, <1>9, <1>11, <1>12, <1>13 DEF BaseInv

\* A packet is taken from the channel.
LEMMA ChanKeeps ==
    ASSUME BaseInv, NEW t \in Fwds, UNCHANGED hub, ReadChan(t)
    PROVE  BaseInv' /\ (OrderInv /\ Premise => OrderInv')
<1> DEFINE q == obj[t]
           p == Head(chan[q])
<1>1. /\ pc[t] = "chan" /\ Unlocked(q) /\ ~closed[q] /\ chan[q] # <<>>
      /\ chan' = [chan EXCEPT ![q] = Tail(@)]
      /\ UNCHANGED <<seq, nextSeq, closed, drained, permit, obj, held, hub>>
  BY DEF ReadChan
<1>2. /\ \/ /\ seq[p] = nextSeq[q] /\ current' = [current EXCEPT ![q] = p]
            /\ left' = [left EXCEPT ![q] = Pieces[seq[p]]] /\ UNCHANGED heap
         \/ seq[p] < nextSeq[q] /\ UNCHANGED <<heap, current, left>>
         \/ heap' = [heap EXCEPT ![q] = @ \cup {p}] /\ UNCHANGED <<current, left>>
      /\ \E l \in {"read", "ended"} : pc' = [pc EXCEPT ![t] = l]
  BY DEF ReadChan, Goto
<1>3. "chan" \in Reading /\ "chan" \in Fetching /\ {"read", "ended"} \subseteq TaskPc \ Fetching
  BY DEF Reading, Fetching, TaskPc
<1>4. /\ ObjSound' /\ FwdSound' /\ SentSound' /\ pc' \in [Tasks -> TaskPc]
      /\ obj[t] \in Queues /\ pc'[t] \in {"read", "ended"} /\ \A s \in Fwds : s # t => pc'[s] = pc[s]
      /\ \A r \in Posts : \A k : Accepted(r, k)' <=> Accepted(r, k)
      /\ \A r \in Posts : pc'[Post(r)] = pc[Post(r)]
  <2>1. PICK l \in {"read", "ended"} : pc' = [pc EXCEPT ![t] = l]
    BY <1>2
  <2>2. l \in TaskPc
    BY <1>3
  <2> QED
    BY <1>1, <1>3, <2>1, <2>2, ReaderFacts
<1>5. /\ chan \in [Queues -> Seq(Posts)] /\ heap \in [Queues -> SUBSET Posts]
      /\ current \in [Queues -> 0..MaxPosts] /\ left \in [Queues -> Nat]
  BY DEF BaseInv, TypeOK
<1>6. /\ Tail(chan[q]) \in Seq(Posts) /\ p \in Posts /\ p \in Elems(chan[q])
      /\ Distinct(Tail(chan[q])) /\ p \notin Elems(Tail(chan[q]))
      /\ Elems(chan[q]) = Elems(Tail(chan[q])) \cup {p}
  <2>1. chan[q] \in Seq(Posts) /\ Distinct(chan[q])
    BY <1>4, <1>5 DEF BaseInv, Apart
  <2> QED
    BY <1>1, <2>1, TailFacts
<1>7. Accepted(p, q) /\ p # None /\ p \notin heap[q] /\ p # current[q]
  BY <1>4, <1>6, RangeFacts DEF BaseInv, Sound, Apart
<1>8. Pieces[seq[p]] \in Nat /\ Pieces[seq[p]] > 0
  BY <1>6, <1>7, PieceFacts DEF BaseInv, Accepted
<1> HIDE DEF p
<1>9. /\ \A k \in Queues : chan'[k] = IF k = q THEN Tail(chan[k]) ELSE chan[k]
      /\ \A k \in Queues : k # q => heap'[k] = heap[k] /\ current'[k] = current[k] /\ left'[k] = left[k]
      /\ \/ heap'[q] = heap[q] /\ current'[q] = p /\ left'[q] > 0 /\ seq[p] = nextSeq[q]
         \/ heap'[q] = heap[q] /\ current'[q] = current[q] /\ left'[q] = left[q] /\ seq[p] < nextSeq[q]
         \/ heap'[q] = heap[q] \cup {p} /\ current'[q] = current[q] /\ left'[q] = left[q]
  <2>1. \A k \in Queues : chan'[k] = IF k = q THEN Tail(chan[k]) ELSE chan[k]
    BY <1>1, <1>4, <1>5
  <2>2. \A k \in Queues : k # q => heap'[k] = heap[k] /\ current'[k] = current[k] /\ left'[k] = left[k]
    BY <1>2, <1>5
  <2>3. CASE seq[p] = nextSeq[q] /\ current' = [current EXCEPT ![q] = p]
             /\ left' = [left EXCEPT ![q] = Pieces[seq[p]]] /\ UNCHANGED heap
    BY <1>4, <1>5, <1>8, <2>1, <2>2, <2>3
  <2>4. CASE seq[p] < nextSeq[q] /\ UNCHANGED <<heap, current, left>>
    BY <2>1, <2>2, <2>4
  <2>5. CASE heap' = [heap EXCEPT ![q] = @ \cup {p}] /\ UNCHANGED <<current, left>>
    BY <1>4, <1>5, <2>1, <2>2, <2>5
  <2> QED
    BY <1>2, <2>3, <2>4, <2>5
<1>10. \A s \in Fwds : pc'[s] \in Fetching => s # t /\ pc[s] = pc'[s]
  BY <1>3, <1>4
<1>11. \A s \in Fwds : pc'[s] = "set" => s # t /\ pc[s] = "set"
  BY <1>10 DEF Fetching
<1>12. \A k \in Queues :
         /\ Elems(chan'[k]) \subseteq Elems(chan[k])
         /\ heap'[k] \subseteq heap[k] \cup Elems(chan[k])
         /\ current'[k] \in {current[k]} \cup Elems(chan[k])
  BY <1>6, <1>9
<1>13. TypeOK'
  <2>1. chan' \in [Queues -> Seq(Posts)]
    BY <1>1, <1>4, <1>5, <1>6
  <2>2. heap' \in [Queues -> SUBSET Posts]
    <3>1. heap[q] \cup {p} \in SUBSET Posts
      BY <1>4, <1>5, <1>6
    <3>2. heap' = heap \/ heap' = [heap EXCEPT ![q] = heap[q] \cup {p}]
      BY <1>2
    <3> QED
      BY <1>5, <3>1, <3>2
  <2>3. current' \in [Queues -> 0..MaxPosts]
    <3>1. p \in 0..MaxPosts
      BY <1>6 DEF Posts
    <3> QED
      BY <1>2, <1>4, <1>5, <3>1
  <2>4. left' \in [Queues -> Nat]
    BY <1>2, <1>4, <1>5, <1>8
  <2> QED
    BY <1>1, <1>4, <2>1, <2>2, <2>3, <2>4 DEF BaseInv, TypeOK, hub
<1>14. Sound'
  <2>1. \A k \in Queues : \A r \in Elems(chan'[k]) \cup heap'[k] : Accepted(r, k)'
    <3>1. \A k \in Queues : \A r \in Elems(chan[k]) \cup heap[k] : r \in Posts /\ Accepted(r, k)
      BY RangeFacts DEF BaseInv, Sound
    <3>2. \A k \in Queues : Elems(chan'[k]) \cup heap'[k] \subseteq Elems(chan[k]) \cup heap[k]
      BY <1>12
    <3> QED
      BY <1>4, <3>1, <3>2
  <2>2. \A k \in Queues : current'[k] # None => current'[k] \in Posts /\ Accepted(current'[k], k) /\ left'[k] > 0
    BY <1>6, <1>7, <1>9, RangeFacts DEF BaseInv, Sound
  <2>3. \A k \in Queues : current'[k] # None => Accepted(current[k], k)'
    BY <1>1, <1>4, <2>2 DEF Accepted
  <2>4. \A s \in Fwds : pc'[s] = "set" => held[s] # None /\ held[s] \in Posts /\ Accepted(held[s], obj[s])
    BY <1>11, RangeFacts DEF BaseInv, Sound
  <2>5. \A s \in Fwds : pc'[s] = "set" => Accepted(held[s], obj[s])'
    BY <1>1, <1>4, <2>4 DEF Accepted
  <2> QED
    BY <1>1, <2>1, <2>2, <2>3, <2>4, <2>5 DEF Sound
<1>15. Apart'
  <2>1. \A k \in Queues : /\ Distinct(chan[k]) /\ Elems(chan[k]) \cap heap[k] = {}
                          /\ current[k] \notin Elems(chan[k]) \cup heap[k]
    BY DEF BaseInv, Apart
  <2>2. \A k \in Queues : /\ Distinct(chan'[k]) /\ Elems(chan'[k]) \cap heap'[k] = {}
                          /\ current'[k] \notin Elems(chan'[k]) \cup heap'[k]
    <3>1. \A k \in Queues : k # q => /\ Distinct(chan'[k]) /\ Elems(chan'[k]) \cap heap'[k] = {}
                                     /\ current'[k] \notin Elems(chan'[k]) \cup heap'[k]
      BY <1>9, <2>1
    <3>2. /\ Distinct(chan'[q]) /\ Elems(chan'[q]) \cap heap'[q] = {}
          /\ current'[q] \notin Elems(chan'[q]) \cup heap'[q]
      <4>1. chan'[q] = Tail(chan[q])
        BY <1>4, <1>9
      <4> QED
        BY <1>4, <1>6, <1>7, <1>9, <2>1, <4>1
    <3> QED
      BY <3>1, <3>2
  <2>3. \A s \in Fwds : pc'[s] = "set" =>
          held[s] \notin Elems(chan'[obj[s]]) \cup heap'[obj[s]] \cup {current'[obj[s]]}
    <3>1. \A s \in Fwds : pc[s] = "set" =>
            /\ obj[s] \in Queues
            /\ held[s] \notin Elems(chan[obj[s]]) \cup heap[obj[s]] \cup {current[obj[s]]}
      BY RangeFacts DEF BaseInv, Apart
    <3> QED
      BY <1>11, <1>12, <3>1
  <2> QED
    BY <1>1, <1>11, <2>2, <2>3 DEF BaseInv, Apart
<1>16. ASSUME OrderInv, Premise PROVE OrderInv'
  <2>1. InOrder'
    <3>1. \A k \in Queues : current'[k] # None => seq[current'[k]] = nextSeq[k]
      BY <1>9, <1>16 DEF OrderInv, InOrder
    <3> QED
      BY <1>1, <1>11, <1>16, <3>1 DEF OrderInv, InOrder
  <2>2. (NoDuplicates \/ Alone)'
    <3>1. CASE NoDuplicates
      BY <1>1, <3>1 DEF NoDuplicates
    <3>2. CASE OneReader /\ Alone
      <4>1. \A s \in Fwds : pc'[s] \in Fetching => obj[s] # q /\ obj[s] \in Queues
        BY <1>1, <1>3, <1>10, <3>2, TaskFacts, ObjFacts, PcFacts DEF BaseInv, OneReader
      <4>2. Alone'
        BY <1>1, <1>9, <1>10, <3>2, <4>1 DEF Alone
      <4> QED
        BY <4>2
    <3> QED
      BY <1>16, <3>1, <3>2 DEF OrderInv, Premise
  <2>3. current'[q] # current[q] => current[q] = None
    <3>1. seq[p] = nextSeq[q] => current[q] = None
      BY <1>1, <1>3, <1>6, <1>7, <1>16, CurrentFree
    <3> QED
      BY <1>9, <3>1
  <2>4. AllKept'
    <3> SUFFICES ASSUME NEW r \in Posts, pc'[Post(r)] \in {"notify", "ok"}, ~closed'[obj'[Post(r)]]
                 PROVE  Kept(r, obj[Post(r)])'
      BY DEF AllKept, Kept
    <3> DEFINE k == obj[Post(r)]
    <3>1. Kept(r, k)
      BY <1>1, <1>4, <1>16 DEF OrderInv, AllKept
    <3>2. k \in Queues /\ r # None
      BY <1>4, TaskFacts, ObjFacts, RangeFacts DEF BaseInv, Working
    <3>3. CASE r \in Elems(chan[k]) \cup heap[k]
      <4>1. r \in Elems(chan'[k]) \cup heap'[k] \cup {current'[k]} \/ seq[r] < nextSeq[k]
        BY <1>6, <1>9, <3>2, <3>3
      <4> QED
        BY <1>1, <4>1 DEF Kept
    <3>4. CASE r = current[k]
      BY <1>1, <1>9, <2>3, <3>2, <3>4 DEF Kept
    <3>5. CASE \E s \in Fwds : pc[s] = "set" /\ obj[s] = k /\ held[s] = r
      <4>1. \A s \in Fwds : pc[s] = "set" => pc'[s] = "set"
        BY <1>1, <1>4
      <4> QED
        BY <1>1, <3>5, <4>1 DEF Kept
    <3>6. CASE seq[r] < nextSeq[k]
      BY <1>1, <3>6 DEF Kept
    <3> QED
      BY <3>1, <3>3, <3>4, <3>5, <3>6 DEF Kept
  <2> QED
    BY <2>1, <2>2, <2>4 DEF OrderInv
<1> QED
  BY <1>4, <1>13, <1>14, <1>15, <1>16 DEF BaseInv

\* The packet of a post goes into the channel, or the queue is closed.
LEMMA PushKeeps ==
    ASSUME BaseInv, NEW p \in Posts, UNCHANGED hub, PushSend(Post(p), p)
    PROVE  BaseInv' /\ (OrderInv => OrderInv')
<1> DEFINE q == obj[Post(p)]
<1>1. /\ pc[Post(p)] = "push"
      /\ UNCHANGED <<seq, heap, nextSeq, current, left, closed, drained, permit, held, hub>>
  BY DEF PushSend
<1>2. Post(p) \in Tasks /\ Fwds \subseteq Tasks /\ \A t \in Fwds : t # Post(p)
  BY TaskFacts
<1>3. q \in Queues /\ q # None /\ seq[p] # Unsent
  BY <1>1, <1>2, MoveFacts DEF BaseInv, SentSound, Working
<1>4. CASE UNCHANGED chan /\ pc' = [pc EXCEPT ![Post(p)] = "failed"] /\ obj' = [obj EXCEPT ![Post(p)] = None]
  <2>1. "failed" \in TaskPc /\ "failed" \notin Working
    BY DEF TaskPc, Working, Reading
  <2>2. permit' \in [Queues -> BOOLEAN] /\ None \in 0..made
    BY <1>1, <1>2, MoveFacts
  <2> QED
    BY <1>1, <1>3, <1>4, <2>1, <2>2, PostMoves
<1>5. ASSUME chan' = [chan EXCEPT ![q] = Append(@, p)], pc' = [pc EXCEPT ![Post(p)] = "notify"], UNCHANGED obj
      PROVE  BaseInv' /\ (OrderInv => OrderInv')
  <2>1. chan \in [Queues -> Seq(Posts)] /\ pc \in [Tasks -> TaskPc]
    BY DEF BaseInv, TypeOK
  <2>2. /\ \A r \in Posts : Post(r) \in Tasks /\ (r # p => Post(r) # Post(p))
        /\ \A g \in Gets : Get(g) \in Tasks /\ Fwd(g) \in Tasks /\ Get(g) # Post(p) /\ Fwd(g) # Post(p)
    BY TaskFacts
  <2>3. /\ \A r \in Posts : pc'[Post(r)] = IF r = p THEN "notify" ELSE pc[Post(r)]
        /\ \A t \in Fwds : pc'[t] = pc[t]
        /\ \A k \in Queues : chan'[k] = IF k = q THEN Append(chan[k], p) ELSE chan[k]
    BY <1>2, <1>3, <1>5, <2>1, <2>2
  <2>4. \A k : ~Accepted(p, k)
    BY <1>1 DEF Accepted
  <2>5. /\ \A k \in Queues : p \notin Elems(chan[k]) \cup heap[k] \cup {current[k]}
        /\ \A t \in Fwds : pc[t] = "set" => held[t] # p
    BY <2>4, RangeFacts DEF BaseInv, Sound
  <2>6. /\ Append(chan[q], p) \in Seq(Posts) /\ Elems(Append(chan[q], p)) = Elems(chan[q]) \cup {p}
        /\ Distinct(Append(chan[q], p))
    <3>1. chan[q] \in Seq(Posts) /\ Distinct(chan[q])
      BY <1>3, <2>1 DEF BaseInv, Apart
    <3> QED
      BY <1>3, <2>5, <3>1, AppendFacts
  <2>7. TypeOK'
    <3>1. chan' \in [Queues -> Seq(Posts)]
      BY <1>3, <1>5, <2>1, <2>6
    <3>2. pc' \in [Tasks -> TaskPc]
      BY <1>5, <2>1 DEF TaskPc
    <3> QED
      BY <1>1, <1>5, <3>1, <3>2 DEF BaseInv, TypeOK, hub
  <2>8. ObjSound'
    BY <1>2, <1>3, <1>5, <2>1 DEF BaseInv, ObjSound
  <2>9. FwdSound'
    BY <1>2, <1>5, <2>2, FwdKept DEF BaseInv
  <2>10. SentSound'
    BY <1>1, <1>3, <2>3 DEF BaseInv, SentSound
  <2>11. (\A r \in Posts : \A k : Accepted(r, k) => Accepted(r, k)') /\ Accepted(p, q)'
    BY <1>1, <1>3, <1>5, <2>3 DEF Accepted
  <2>12. Sound'
    <3>1. \A k \in Queues : \A r \in Elems(chan'[k]) \cup heap[k] : Accepted(r, k)'
      <4>1. \A k \in Queues : \A r \in Elems(chan[k]) \cup heap[k] : r \in Posts /\ Accepted(r, k)
        BY RangeFacts DEF BaseInv, Sound
      <4>2. \A k \in Queues : \A r \in Elems(chan'[k]) : r \in Elems(chan[k]) \/ (r = p /\ k = q)
        BY <2>3, <2>6
      <4>3. \A k \in Queues : k = q => Accepted(p, k)'
        BY <1>5, <2>11 DEF Accepted
      <4> QED
        BY <2>11, <4>1, <4>2, <4>3
    <3>2. \A k \in Queues : current[k] # None => Accepted(current[k], k)' /\ left[k] > 0
      <4>1. \A k \in Queues : current[k] # None => current[k] \in Posts /\ Accepted(current[k], k) /\ left[k] > 0
        BY RangeFacts DEF BaseInv, Sound
      <4> QED
        BY <1>1, <2>11, <4>1 DEF Accepted
    <3>3. \A t \in Fwds : pc'[t] = "set" => held[t] # None /\ Accepted(held[t], obj[t])'
      <4>1. \A t \in Fwds : pc'[t] = "set" => held[t] # None /\ held[t] \in Posts /\ Accepted(held[t], obj[t])
        BY <2>3, RangeFacts DEF BaseInv, Sound
      <4> QED
        BY <1>1, <1>5, <2>11, <4>1 DEF Accepted
    <3> QED
      BY <1>1, <3>1, <3>2, <3>3 DEF Sound
  <2>13. Apart'
    <3>1. \A k \in Queues : /\ Distinct(chan'[k]) /\ Elems(chan'[k]) \cap heap[k] = {}
                            /\ current[k] \notin Elems(chan'[k]) \cup heap[k]
      BY <2>3, <2>5, <2>6 DEF BaseInv, Apart
    <3>2. \A t \in Fwds : pc'[t] = "set" =>
            held[t] \notin Elems(chan'[obj[t]]) \cup heap[obj[t]] \cup {current[obj[t]]}
      BY <2>3, <2>5, <2>6, RangeFacts DEF BaseInv, Apart
    <3> QED
      BY <1>1, <1>5, <2>3, <3>1, <3>2 DEF BaseInv, Apart
  <2>14. ASSUME OrderInv PROVE OrderInv'
    <3>1. InOrder'
      BY <1>1, <1>5, <2>3, <2>14 DEF OrderInv, InOrder
    <3>2. (NoDuplicates \/ Alone)'
      BY <1>1, <1>5, <2>3, <2>14 DEF OrderInv, NoDuplicates, Alone
    <3>3. AllKept'
      <4> SUFFICES ASSUME NEW r \in Posts, pc'[Post(r)] \in {"notify", "ok"}, ~closed'[obj'[Post(r)]]
                   PROVE  Kept(r, obj[Post(r)])'
        BY DEF AllKept, Kept
      <4>1. CASE r = p
        <5>1. r \in Elems(chan'[q])
          BY <1>3, <2>3, <2>6, <4>1
        <5> QED
          BY <1>5, <4>1, <5>1 DEF Kept
      <4>2. CASE r # p
        <5>1. Kept(r, obj[Post(r)])
          BY <1>1, <1>5, <2>3, <2>14, <4>2 DEF OrderInv, AllKept
        <5>2. obj[Post(r)] \in Queues
          BY <2>3, <4>2, TaskFacts, ObjFacts DEF BaseInv, Working
        <5>3. Elems(chan[obj[Post(r)]]) \subseteq Elems(chan'[obj[Post(r)]])
          BY <2>3, <2>6, <5>2
        <5> QED
          BY <1>1, <1>5, <2>3, <5>1, <5>3 DEF Kept
      <4> QED
        BY <4>1, <4>2
    <3> QED
      BY <3>1, <3>2, <3>3 DEF OrderInv
  <2> QED
    BY <2>7, <2>8, <2>9, <2>10, <2>12, <2>13, <2>14 DEF BaseInv
<1> QED
  BY <1>4, <1>5 DEF PushSend, Leave, Goto

-----------------------------------------------------------------------------
\* A set of places in a channel has a first one.
LEMMA FirstPlace ==
    ASSUME NEW S, S \subseteq Nat, S # {}
    PROVE  (CHOOSE i \in S : \A j \in S : i <= j) \in S
<1> DEFINE R == {ss \in Nat \X Nat : ss[1] < ss[2]}
<1>1. IsWellFoundedOn(R, Nat)
  BY NatLessThanWellFounded DEF OpToRel
<1>2. \E i \in S : \A j \in S : ~(<<j, i>> \in R)
  <2> HIDE DEF R
  <2> QED
    BY <1>1, WFMin
<1>3. PICK i \in S : \A j \in S : ~(<<j, i>> \in R)
  BY <1>2
<1>4. \A j \in S : ~(j < i)
  <2> SUFFICES ASSUME NEW j \in S, j < i PROVE FALSE
    OBVIOUS
  <2>1. <<j, i>> \in R
    OBVIOUS
  <2> QED
    BY <1>3, <2>1
<1>5. \A j \in S : i <= j
  BY <1>4
<1> QED
  BY <1>5

\* What is drained from a channel goes into the heap, or becomes the current packet.
LEMMA DrainFacts ==
    ASSUME BaseInv, NEW q \in Queues
    PROVE  /\ Drained(q).rest \subseteq Elems(chan[q]) /\ Drained(q).cur \notin Drained(q).rest
           /\ Elems(chan[q]) \subseteq Drained(q).rest \cup {Drained(q).cur}
           /\ \/ Drained(q).cur = current[q]
              \/ /\ current[q] = None /\ Drained(q).cur \in Elems(chan[q])
                 /\ seq[Drained(q).cur] = nextSeq[q]
<1> DEFINE hit == {i \in DOMAIN chan[q] : seq[chan[q][i]] = nextSeq[q]}
           i == CHOOSE i \in hit : \A j \in hit : i <= j
           p == chan[q][i]
<1>1. current[q] \notin Elems(chan[q])
  BY DEF BaseInv, Apart
<1>2. CASE current[q] # None \/ hit = {}
  <2>1. Drained(q) = [cur |-> current[q], rest |-> Elems(chan[q])]
    BY <1>2 DEF Drained, Elems
  <2> QED
    BY <1>1, <2>1
<1>3. CASE current[q] = None /\ hit # {}
  <2>1. hit \subseteq Nat
    <3>1. chan[q] \in Seq(Posts)
      BY DEF BaseInv, TypeOK
    <3>2. DOMAIN chan[q] = 1..Len(chan[q]) /\ Len(chan[q]) \in Nat
      BY <3>1
    <3> QED
      BY <3>2
  <2>2. i \in hit
    <3> HIDE DEF hit
    <3> QED
      BY <1>3, <2>1, FirstPlace
  <2>3. Drained(q) = [cur |-> p, rest |-> Elems(chan[q]) \ {p}]
    BY <1>3 DEF Drained, Elems
  <2> HIDE DEF i
  <2>4. p \in Elems(chan[q]) /\ seq[p] = nextSeq[q]
    BY <2>2 DEF Elems
  <2> QED
    BY <1>3, <2>3, <2>4
<1> QED
  BY <1>2, <1>3

\* The channel of a queue that is being closed is drained.
LEMMA DrainKeeps ==
    ASSUME BaseInv, NEW t \in Closers, UNCHANGED hub, CloseDrain(t)
    PROVE  BaseInv' /\ (OrderInv => OrderInv')
<1> DEFINE q == obj[t]
           c == Drained(q).cur
           rest == Drained(q).rest
<1>1. /\ pc[t] = "close" /\ pc' = [pc EXCEPT ![t] = "drop"] /\ current' = [current EXCEPT ![q] = c]
      /\ left' = [left EXCEPT ![q] = IF current[q] = None /\ c # None THEN Pieces[nextSeq[q]] ELSE @]
      /\ heap' = [heap EXCEPT ![q] = @ \cup rest] /\ chan' = [chan EXCEPT ![q] = <<>>]
      /\ drained' = [drained EXCEPT ![q] = TRUE]
      /\ UNCHANGED <<seq, nextSeq, closed, permit, obj, held, hub>>
  BY DEF CloseDrain, Goto
<1>2. "close" \in Working /\ "drop" \in TaskPc \ Fetching
  BY DEF Working, TaskPc, Fetching
<1>3. /\ ObjSound' /\ FwdSound' /\ SentSound' /\ pc' \in [Tasks -> TaskPc]
      /\ obj[t] \in Queues /\ pc'[t] = "drop" /\ \A s \in Fwds : s # t => pc'[s] = pc[s]
      /\ \A p \in Posts : \A k : Accepted(p, k)' <=> Accepted(p, k)
      /\ \A p \in Posts : pc'[Post(p)] = pc[Post(p)]
  BY <1>1, <1>2, CloserFacts
<1>4. /\ rest \subseteq Elems(chan[q]) /\ c \notin rest /\ Elems(chan[q]) \subseteq rest \cup {c}
      /\ c = current[q] \/ (current[q] = None /\ c \in Elems(chan[q]) /\ seq[c] = nextSeq[q])
  BY <1>3, DrainFacts
<1>5. /\ chan \in [Queues -> Seq(Posts)] /\ heap \in [Queues -> SUBSET Posts]
      /\ current \in [Queues -> 0..MaxPosts] /\ left \in [Queues -> Nat]
      /\ drained \in [Queues -> BOOLEAN]
  BY DEF BaseInv, TypeOK
<1> HIDE DEF c, rest
<1>6. c # current[q] => /\ c \in Posts /\ Accepted(c, q)
                        /\ Pieces[nextSeq[q]] \in Nat /\ Pieces[nextSeq[q]] > 0
  <2> SUFFICES ASSUME c # current[q] PROVE /\ c \in Posts /\ Accepted(c, q)
                                           /\ Pieces[seq[c]] \in Nat /\ Pieces[seq[c]] > 0
    BY <1>4
  <2>1. c \in Posts /\ Accepted(c, q)
    BY <1>3, <1>4, RangeFacts DEF BaseInv, Sound
  <2> QED
    BY <2>1, PieceFacts DEF BaseInv, Accepted
<1>7. /\ \A k \in Queues : chan'[k] = IF k = q THEN <<>> ELSE chan[k]
      /\ \A k \in Queues : heap'[k] = IF k = q THEN heap[k] \cup rest ELSE heap[k]
      /\ \A k \in Queues : current'[k] = IF k = q THEN c ELSE current[k]
      /\ \A k \in Queues : drained'[k] = IF k = q THEN TRUE ELSE drained[k]
  BY <1>1, <1>3, <1>5
<1>8. \A k \in Queues : left'[k] = left[k] \/ (k = q /\ c # current[q] /\ left'[k] > 0)
  BY <1>1, <1>3, <1>4, <1>5, <1>6
<1>9. \A k \in Queues :
        /\ Elems(chan'[k]) \subseteq Elems(chan[k])
        /\ heap'[k] \subseteq heap[k] \cup Elems(chan[k])
        /\ current'[k] \in {current[k]} \cup Elems(chan[k])
        /\ Elems(chan[k]) \cup heap[k] \subseteq Elems(chan'[k]) \cup heap'[k] \cup {current'[k]}
        /\ current'[k] # current[k] => current[k] = None /\ seq[current'[k]] = nextSeq[k] /\ left'[k] > 0
  <2>1. \A k \in Queues : k = q => chan'[k] = <<>> /\ Elems(chan'[k]) = {}
    BY <1>7, EmptyFacts
  <2>2. current'[q] # current[q] => left'[q] > 0
    BY <1>1, <1>3, <1>4, <1>5, <1>6, RangeFacts
  <2> QED
    BY <1>4, <1>7, <2>1, <2>2
<1>10. \A s \in Fwds : pc'[s] \in Fetching => s # t /\ pc[s] = pc'[s]
  BY <1>2, <1>3
<1>11. \A s \in Fwds : pc'[s] = "set" <=> pc[s] = "set"
  BY <1>1, <1>3
<1>12. TypeOK'
  <2>1. chan' \in [Queues -> Seq(Posts)]
    BY <1>1, <1>3, <1>5, EmptyFacts
  <2>2. heap' \in [Queues -> SUBSET Posts]
    <3>1. heap[q] \cup rest \in SUBSET Posts
      BY <1>3, <1>4, <1>5, RangeFacts
    <3> QED
      BY <1>1, <1>3, <1>5, <3>1
  <2>3. current' \in [Queues -> 0..MaxPosts]
    <3>1. c \in 0..MaxPosts
      BY <1>3, <1>5, <1>6 DEF Posts
    <3> QED
      BY <1>1, <1>3, <1>5, <3>1
  <2>4. left' \in [Queues -> Nat]
    <3>1. current[q] = None /\ c # None => Pieces[nextSeq[q]] \in Nat
      BY <1>6
    <3> QED
      BY <1>1, <1>3, <1>5, <3>1
  <2>5. drained' \in [Queues -> BOOLEAN]
    BY <1>1, <1>3, <1>5
  <2> QED
    BY <1>1, <1>3, <2>1, <2>2, <2>3, <2>4, <2>5 DEF BaseInv, TypeOK, hub
<1>13. Sound'
  <2>1. \A k \in Queues : \A r \in Elems(chan[k]) \cup heap[k] : r \in Posts /\ Accepted(r, k)
    BY RangeFacts DEF BaseInv, Sound
  <2>2. \A k \in Queues : \A r \in Elems(chan'[k]) \cup heap'[k] : Accepted(r, k)'
    <3>1. \A k \in Queues : Elems(chan'[k]) \cup heap'[k] \subseteq Elems(chan[k]) \cup heap[k]
      BY <1>9
    <3> QED
      BY <1>3, <2>1, <3>1
  <2>3. \A k \in Queues : current[k] # None => current[k] \in Posts /\ Accepted(current[k], k) /\ left[k] > 0
    BY RangeFacts DEF BaseInv, Sound
  <2>4. \A k \in Queues : current'[k] # None => current'[k] \in Posts /\ Accepted(current'[k], k) /\ left'[k] > 0
    <3> SUFFICES ASSUME NEW k \in Queues, current'[k] # None
                 PROVE  current'[k] \in Posts /\ Accepted(current'[k], k) /\ left'[k] > 0
      OBVIOUS
    <3>1. CASE current'[k] = current[k]
      BY <1>7, <1>8, <2>3, <3>1
    <3>2. CASE current'[k] # current[k]
      <4>1. current'[k] \in Elems(chan[k])
        BY <1>9, <3>2
      <4> QED
        BY <1>9, <2>1, <3>2, <4>1
    <3> QED
      BY <3>1, <3>2
  <2>5. \A k \in Queues : current'[k] # None => Accepted(current[k], k)'
    BY <1>1, <1>3, <2>4 DEF Accepted
  <2>6. \A s \in Fwds : pc'[s] = "set" => held[s] # None /\ held[s] \in Posts /\ Accepted(held[s], obj[s])
    BY <1>11, RangeFacts DEF BaseInv, Sound
  <2>7. \A s \in Fwds : pc'[s] = "set" => Accepted(held[s], obj[s])'
    BY <1>1, <1>3, <2>6 DEF Accepted
  <2> QED
    BY <1>1, <2>2, <2>4, <2>5, <2>6, <2>7 DEF Sound
<1>14. Apart'
  <2>1. \A k \in Queues : /\ Distinct(chan[k]) /\ Elems(chan[k]) \cap heap[k] = {}
                          /\ current[k] \notin Elems(chan[k]) \cup heap[k]
    BY DEF BaseInv, Apart
  <2>2. \A k \in Queues : k # q => /\ Distinct(chan'[k]) /\ Elems(chan'[k]) \cap heap'[k] = {}
                                   /\ current'[k] \notin Elems(chan'[k]) \cup heap'[k]
    BY <1>7, <2>1
  <2>3. /\ Distinct(chan'[q]) /\ Elems(chan'[q]) \cap heap'[q] = {}
        /\ current'[q] \notin Elems(chan'[q]) \cup heap'[q]
    <3>1. chan'[q] = <<>> /\ Elems(chan'[q]) = {} /\ Distinct(chan'[q])
      BY <1>3, <1>7, EmptyFacts
    <3>2. c \notin heap[q]
      BY <1>3, <1>4, <2>1
    <3> QED
      BY <1>3, <1>4, <1>7, <3>1, <3>2
  <2>4. \A s \in Fwds : pc'[s] = "set" =>
          held[s] \notin Elems(chan'[obj[s]]) \cup heap'[obj[s]] \cup {current'[obj[s]]}
    <3>1. \A s \in Fwds : pc[s] = "set" =>
            /\ obj[s] \in Queues
            /\ held[s] \notin Elems(chan[obj[s]]) \cup heap[obj[s]] \cup {current[obj[s]]}
      BY RangeFacts DEF BaseInv, Apart
    <3> QED
      BY <1>9, <1>11, <3>1
  <2> QED
    BY <1>1, <1>11, <2>2, <2>3, <2>4 DEF BaseInv, Apart
<1>15. ASSUME OrderInv PROVE OrderInv'
  <2>1. InOrder'
    <3>1. \A k \in Queues : current'[k] # None => seq[current'[k]] = nextSeq[k]
      BY <1>9, <1>15 DEF OrderInv, InOrder
    <3> QED
      BY <1>1, <1>11, <1>15, <3>1 DEF OrderInv, InOrder
  <2>2. (NoDuplicates \/ Alone)'
    <3>1. ASSUME Alone PROVE Alone'
      <4>1. \A s \in Fwds : pc'[s] \in Fetching => obj[s] \in Queues
        BY <1>10, TaskFacts, ObjFacts, PcFacts DEF BaseInv
      <4> QED
        BY <1>1, <1>7, <1>10, <3>1, <4>1 DEF Alone
    <3> QED
      BY <1>1, <1>15, <3>1 DEF OrderInv, NoDuplicates
  <2>3. AllKept'
    <3> SUFFICES ASSUME NEW r \in Posts, pc'[Post(r)] \in {"notify", "ok"}, ~closed'[obj'[Post(r)]]
                 PROVE  Kept(r, obj[Post(r)])'
      BY DEF AllKept, Kept
    <3> DEFINE k == obj[Post(r)]
    <3>1. Kept(r, k)
      BY <1>1, <1>3, <1>15 DEF OrderInv, AllKept
    <3>2. k \in Queues /\ r # None
      BY <1>3, TaskFacts, ObjFacts, RangeFacts DEF BaseInv, Working
    <3>3. CASE r \in Elems(chan[k]) \cup heap[k] \cup {current[k]}
      <4>1. r \in Elems(chan'[k]) \cup heap'[k] \cup {current'[k]}
        BY <1>9, <3>2, <3>3
      <4> QED
        BY <1>1, <4>1 DEF Kept
    <3>4. CASE \E s \in Fwds : pc[s] = "set" /\ obj[s] = k /\ held[s] = r
      BY <1>1, <1>11, <3>4 DEF Kept
    <3>5. CASE seq[r] < nextSeq[k]
      BY <1>1, <3>5 DEF Kept
    <3> QED
      BY <3>1, <3>3, <3>4, <3>5 DEF Kept
  <2> QED
    BY <2>1, <2>2, <2>3 DEF OrderInv
<1> QED
  BY <1>3, <1>12, <1>13, <1>14, <1>15 DEF BaseInv

\* The receiver is dropped with what is in the channel.
LEMMA DropKeeps ==
    ASSUME BaseInv, NEW t \in Closers, UNCHANGED hub, CloseDrop(t)
    PROVE  BaseInv' /\ (OrderInv => OrderInv')
<1> DEFINE q == obj[t]
<1>1. /\ pc[t] = "drop" /\ pc' = [pc EXCEPT ![t] = "notify"] /\ closed' = [closed EXCEPT ![q] = TRUE]
      /\ chan' = [chan EXCEPT ![q] = <<>>] /\ drained' = [drained EXCEPT ![q] = FALSE]
      /\ UNCHANGED <<seq, heap, nextSeq, current, left, permit, obj, held, hub>>
  BY DEF CloseDrop, Goto
<1>2. "drop" \in Working /\ "notify" \in TaskPc \ Fetching
  BY DEF Working, TaskPc, Fetching
<1>3. /\ ObjSound' /\ FwdSound' /\ SentSound' /\ pc' \in [Tasks -> TaskPc]
      /\ obj[t] \in Queues /\ pc'[t] = "notify" /\ \A s \in Fwds : s # t => pc'[s] = pc[s]
      /\ \A p \in Posts : \A k : Accepted(p, k)' <=> Accepted(p, k)
      /\ \A p \in Posts : pc'[Post(p)] = pc[Post(p)]
  BY <1>1, <1>2, CloserFacts
<1>4. /\ chan \in [Queues -> Seq(Posts)] /\ closed \in [Queues -> BOOLEAN]
      /\ drained \in [Queues -> BOOLEAN]
  BY DEF BaseInv, TypeOK
<1>5. /\ \A k \in Queues : chan'[k] = IF k = q THEN <<>> ELSE chan[k]
      /\ \A k \in Queues : closed'[k] = IF k = q THEN TRUE ELSE closed[k]
      /\ \A k \in Queues : drained'[k] = IF k = q THEN FALSE ELSE drained[k]
  BY <1>1, <1>3, <1>4
<1>6. \A k \in Queues : Elems(chan'[k]) \subseteq Elems(chan[k]) /\ (Distinct(chan[k]) => Distinct(chan'[k]))
  BY <1>5, EmptyFacts
<1>7. \A s \in Fwds : pc'[s] \in Fetching => s # t /\ pc[s] = pc'[s]
  BY <1>2, <1>3
<1>8. \A s \in Fwds : pc'[s] = "set" <=> pc[s] = "set"
  BY <1>1, <1>3
<1>9. TypeOK'
  <2>1. chan' \in [Queues -> Seq(Posts)]
    BY <1>1, <1>3, <1>4, EmptyFacts
  <2>2. closed' \in [Queues -> BOOLEAN] /\ drained' \in [Queues -> BOOLEAN]
    BY <1>1, <1>3, <1>4
  <2> QED
    BY <1>1, <1>3, <2>1, <2>2 DEF BaseInv, TypeOK, hub
<1>10. Sound'
  <2>1. \A k \in Queues : \A r \in Elems(chan'[k]) \cup heap[k] : Accepted(r, k)'
    BY <1>3, <1>6, RangeFacts DEF BaseInv, Sound
  <2>2. \A k \in Queues : current[k] # None => current[k] \in Posts /\ Accepted(current[k], k) /\ left[k] > 0
    BY RangeFacts DEF BaseInv, Sound
  <2>3. \A k \in Queues : current[k] # None => Accepted(current[k], k)' /\ left[k] > 0
    BY <1>1, <1>3, <2>2 DEF Accepted
  <2>4. \A s \in Fwds : pc[s] = "set" => held[s] # None /\ held[s] \in Posts /\ Accepted(held[s], obj[s])
    BY RangeFacts DEF BaseInv, Sound
  <2>5. \A s \in Fwds : pc'[s] = "set" => held[s] # None /\ Accepted(held[s], obj[s])'
    BY <1>1, <1>3, <1>8, <2>4 DEF Accepted
  <2> QED
    BY <1>1, <2>1, <2>3, <2>5 DEF Sound
<1>11. Apart'
  <2>1. \A k \in Queues : /\ Distinct(chan'[k]) /\ Elems(chan'[k]) \cap heap[k] = {}
                          /\ current[k] \notin Elems(chan'[k]) \cup heap[k]
    BY <1>6 DEF BaseInv, Apart
  <2>2. \A s \in Fwds : pc'[s] = "set" =>
          held[s] \notin Elems(chan'[obj[s]]) \cup heap[obj[s]] \cup {current[obj[s]]}
    BY <1>6, <1>8, RangeFacts DEF BaseInv, Apart
  <2> QED
    BY <1>1, <1>8, <2>1, <2>2 DEF BaseInv, Apart
<1>12. ASSUME OrderInv PROVE OrderInv'
  <2>1. InOrder'
    BY <1>1, <1>8, <1>12 DEF OrderInv, InOrder
  <2>2. (NoDuplicates \/ Alone)'
    <3>1. ASSUME Alone PROVE Alone'
      <4>1. \A s \in Fwds : pc'[s] \in Fetching => obj[s] \in Queues
        BY <1>7, TaskFacts, ObjFacts, PcFacts DEF BaseInv
      <4> QED
        BY <1>1, <1>5, <1>7, <3>1, <4>1 DEF Alone
    <3> QED
      BY <1>1, <1>12, <3>1 DEF OrderInv, NoDuplicates
  <2>3. AllKept'
    <3> SUFFICES ASSUME NEW r \in Posts, pc'[Post(r)] \in {"notify", "ok"}, ~closed'[obj'[Post(r)]]
                 PROVE  Kept(r, obj[Post(r)])'
      BY DEF AllKept, Kept
    <3> DEFINE k == obj[Post(r)]
    <3>1. k \in Queues
      BY <1>3, TaskFacts, ObjFacts DEF BaseInv, Working
    <3>2. k # q /\ ~closed[k] /\ chan'[k] = chan[k]
      BY <1>1, <1>5, <3>1
    <3>3. Kept(r, k)
      BY <1>1, <1>3, <1>12, <3>2 DEF OrderInv, AllKept
    <3> QED
      BY <1>1, <1>8, <3>2, <3>3 DEF Kept
  <2> QED
    BY <2>1, <2>2, <2>3 DEF OrderInv
<1> QED
  BY <1>3, <1>9, <1>10, <1>11, <1>12 DEF BaseInv

-----------------------------------------------------------------------------
\* The forward task.
LEMMA ForwardKeeps ==
    ASSUME BaseInv, NEW g \in Gets, Forward(g)
    PROVE  BaseInv' /\ (OrderInv /\ Premise => OrderInv')
<1> DEFINE t == Fwd(g)
<1>1. t \in Fwds /\ UNCHANGED hub
  BY TaskFacts DEF Forward
<1>2. \/ ReadCurrent(t) \/ ReadHeap(t) \/ ReadSet(t) \/ ReadChan(t) \/ ReadEmpty(t) \/ ReadWake(t)
      \/ /\ \/ pc[t] = "write" /\ (Goto(t, "read") \/ Goto(t, "ended"))
            \/ pc[t] = "ended" /\ Goto(t, "remove")
         /\ UNCHANGED <<queues, obj, held>>
  BY DEF Forward, Read
<1> HIDE DEF t
<1>3. CASE ReadCurrent(t)
  <2>1. CASE current[obj[t]] = None
    BY <1>1, <1>3, <2>1, WaitKeeps
  <2>2. CASE current[obj[t]] # None
    BY <1>1, <1>3, <2>2, PieceKeeps
  <2> QED
    BY <2>1, <2>2
<1>4. CASE ReadHeap(t)
  BY <1>1, <1>4, HeapKeeps
<1>5. CASE ReadSet(t)
  BY <1>1, <1>5, SetKeeps
<1>6. CASE ReadChan(t)
  BY <1>1, <1>6, ChanKeeps
<1> QED
  BY <1>1, <1>2, <1>3, <1>4, <1>5, <1>6, WaitKeeps

\* close
LEMMA CloseKeeps ==
    ASSUME BaseInv, NEW t \in Closers, Close(t)
    PROVE  BaseInv' /\ (OrderInv => OrderInv')
<1>1. UNCHANGED hub /\ (CloseDrain(t) \/ CloseDrop(t) \/ Notify(t, "done"))
  BY DEF Close
<1>2. CASE CloseDrain(t)
  BY <1>1, <1>2, DrainKeeps
<1>3. CASE CloseDrop(t)
  BY <1>1, <1>3, DropKeeps
<1>4. CASE Notify(t, "done")
  BY <1>1, <1>4, NotifyKeeps
<1> QED
  BY <1>1, <1>2, <1>3, <1>4

\* Every step keeps what is said of packets, with one reader or without duplicates.
LEMMA StepKeeps ==
    ASSUME BaseInv, [Next]_vars
    PROVE  BaseInv' /\ (OrderInv /\ Premise => OrderInv')
<1>1. ASSUME NEW p \in Posts, Push(p) PROVE BaseInv' /\ (OrderInv /\ Premise => OrderInv')
  <2>1. UNCHANGED hub /\ (PushSend(Post(p), p) \/ Notify(Post(p), "ok"))
    BY <1>1 DEF Push
  <2> QED
    BY <2>1, PushKeeps, NotifyKeeps
<1>2. ASSUME NEW t \in Removers, Removal(t) PROVE BaseInv' /\ (OrderInv /\ Premise => OrderInv')
  BY <1>2, RemoveKeeps, CloseKeeps, TaskFacts DEF Removal
<1>3. CASE Close(StreamUp)
  BY <1>3, CloseKeeps, TaskFacts
<1>4. CASE UNCHANGED vars
  <2>1. Quiet
    BY <1>4 DEF Quiet, vars, queues, tasks, hub
  <2>2. TypeOK' /\ ObjSound' /\ FwdSound' /\ SentSound'
    BY <1>4 DEF BaseInv, TypeOK, ObjSound, FwdSound, SentSound, vars, queues, tasks, hub
  <2> QED
    BY <2>1, <2>2, QuietKeeps DEF BaseInv
<1>5. CASE Next
  BY <1>1, <1>2, <1>3, <1>5, RequestKeeps, ForwardKeeps, ReapKeeps DEF Next
<1> QED
  BY <1>4, <1>5

\* Before any request there are no packets.
LEMMA InitKeeps == Init => BaseInv /\ OrderInv
<1> SUFFICES ASSUME Init PROVE BaseInv /\ OrderInv
  OBVIOUS
<1>1. PICK w \in Workloads : seq = w.seq /\ limit = w.sessions
  BY DEF Init
<1>2. /\ pc = [t \in Tasks |-> "idle"] /\ obj = [t \in Tasks |-> None] /\ held = [t \in Tasks |-> None]
      /\ map = None /\ made = 0 /\ conn = [q \in Queues |-> FALSE] /\ mode \in {"packet", "stream"}
      /\ QueueInit
  BY DEF Init
<1>3. (\A t \in Tasks : pc[t] = "idle") /\ Fwds \subseteq Tasks /\ \A p \in Posts : Post(p) \in Tasks
  BY <1>2, TaskFacts
<1>4. "idle" \in TaskPc /\ "idle" \notin Working \cup Fetching \cup {"set", "notify", "ok"}
  BY DEF TaskPc, Working, Reading, Fetching
<1>5. TypeOK
  <2>1. seq \in [Posts -> Unsent..MaxPosts] /\ limit \in 0..MaxQueues
    BY <1>1, UploadQueueAssumption DEF Posts, Unsent
  <2>2. 0 \in 0..limit /\ None \in 0..made /\ None \in 0..MaxPosts
    BY <1>2, <2>1, UploadQueueAssumption DEF None
  <2>3. chan \in [Queues -> Seq(Posts)] /\ heap \in [Queues -> SUBSET Posts]
    BY <1>2, EmptyFacts DEF QueueInit
  <2>4. /\ nextSeq \in [Queues -> Nat] /\ left \in [Queues -> Nat] /\ current \in [Queues -> 0..MaxPosts]
        /\ closed \in [Queues -> BOOLEAN] /\ drained \in [Queues -> BOOLEAN]
        /\ permit \in [Queues -> BOOLEAN] /\ conn \in [Queues -> BOOLEAN]
    BY <1>2, <2>2 DEF QueueInit
  <2>5. pc \in [Tasks -> TaskPc] /\ obj \in [Tasks -> 0..made] /\ held \in [Tasks -> 0..MaxPosts]
    BY <1>2, <1>4, <2>2
  <2> QED
    BY <1>2, <2>1, <2>2, <2>3, <2>4, <2>5 DEF TypeOK
<1>6. ObjSound /\ SentSound
  BY <1>3, <1>4 DEF ObjSound, SentSound
<1>7. FwdSound
  BY <1>3, TaskFacts DEF FwdSound
<1>8. \A q \in Queues : Elems(chan[q]) = {} /\ Distinct(chan[q]) /\ heap[q] = {} /\ current[q] = None
  BY <1>2, EmptyFacts DEF QueueInit
<1>9. Sound /\ Apart
  BY <1>3, <1>4, <1>8 DEF Sound, Apart
<1>10. InOrder /\ Alone /\ AllKept
  BY <1>3, <1>4, <1>8 DEF InOrder, Alone, AllKept
<1> QED
  BY <1>5, <1>6, <1>7, <1>9, <1>10 DEF BaseInv, OrderInv

-----------------------------------------------------------------------------
\* Reapers and removals of a drop guard are told apart.
LEMMA BirthFacts ==
    /\ \A q, r : Reap(q) = Reap(r) => q = r
    /\ \A g, h : Guard(g) = Guard(h) => g = h
    /\ \A q, g : Reap(q) # Guard(g) /\ Reap(q) # Get(g) /\ Guard(g) # Get(g)
    /\ \A q, g, p : Post(p) # Reap(q) /\ Post(p) # Guard(g) /\ StreamUp # Reap(q) /\ StreamUp # Guard(g)
    /\ \A q, g : Fwd(g) # Reap(q) /\ \A h : Fwd(g) # Guard(h) /\ Get(g) # Guard(h)
<1>1. \A p, q, g : /\ Post(p)[1] = "post" /\ Get(g)[1] = "get" /\ Reap(q)[1] = "reap"
                   /\ Guard(g)[1] = "guard" /\ Fwd(g)[1] = "fwd" /\ StreamUp[1] = "up"
  BY DEF Post, Get, Reap, Guard, Fwd, StreamUp
<1>2. (\A q, r : Reap(q) = Reap(r) => q = r) /\ \A g, h : Guard(g) = Guard(h) => g = h
  BY DEF Reap, Guard
<1>3. \A q, g : Reap(q) # Guard(g) /\ Reap(q) # Get(g) /\ Guard(g) # Get(g)
  BY <1>1
<1>4. \A q, g, p : Post(p) # Reap(q) /\ Post(p) # Guard(g) /\ StreamUp # Reap(q) /\ StreamUp # Guard(g)
  BY <1>1
<1>5. \A q, g : Fwd(g) # Reap(q) /\ \A h : Fwd(g) # Guard(h) /\ Get(g) # Guard(h)
  BY <1>1
<1> QED
  BY <1>2, <1>3, <1>4, <1>5

\* The reaper begins with its session, the removal of a drop guard when its GET ends.
BornSound ==
    /\ \A q \in Queues : q > made => pc[Reap(q)] = "idle"
    /\ \A g \in Gets : pc[Get(g)] # "ended" => pc[Guard(g)] = "idle"

WakeInv == BornSound /\ ReaderWoken

\* Task t goes on to step l with object o, and what it does to a queue leaves the
\* reader that sleeps there as woken as it was.
Moves(t, l, o) ==
    /\ pc' = [pc EXCEPT ![t] = l] /\ obj' = [obj EXCEPT ![t] = o] /\ made' = made
    /\ t \in Removers => pc[t] # "idle"
    /\ \A g \in Gets : t = Get(g) => pc[t] # "ended"
    /\ l = "wait" => ~closed'[o] /\ chan'[o] = <<>>
    /\ \A q \in Queues :
          \/ permit'[q] \/ (l = "notify" /\ o = q)
          \/ \A s \in Fwds : s # t /\ pc[s] = "wait" => obj[s] # q
          \/ /\ closed'[q] => closed[q]
             /\ chan'[q] # <<>> => chan[q] # <<>>
             /\ permit[q] => permit'[q]
             /\ pc[t] = "notify" => obj[t] # q

\* A task goes on: a sleeping reader is woken, or about to be, if it was before.
LEMMA MovesWoken ==
    ASSUME BaseInv, WakeInv, NEW t \in Tasks, NEW l, NEW o, Moves(t, l, o)
    PROVE  WakeInv'
<1> USE DEF Moves
<1>1. \A u \in Tasks : pc'[u] = (IF u = t THEN l ELSE pc[u]) /\ obj'[u] = (IF u = t THEN o ELSE obj[u])
  BY DEF BaseInv, TypeOK
<1>2. BornSound'
  <2>1. \A q \in Queues : q > made => pc'[Reap(q)] = "idle"
    BY <1>1, TaskFacts DEF WakeInv, BornSound
  <2>2. \A g \in Gets : pc'[Get(g)] # "ended" => pc'[Guard(g)] = "idle"
    BY <1>1, TaskFacts DEF WakeInv, BornSound
  <2> QED
    BY <2>1, <2>2 DEF BornSound
<1>3. ReaderWoken'
  <2> SUFFICES ASSUME NEW s \in Fwds, pc'[s] = "wait", closed'[obj'[s]] \/ chan'[obj'[s]] # <<>>
               PROVE  permit'[obj'[s]] \/ \E u \in Tasks : pc'[u] = "notify" /\ obj'[u] = obj'[s]
    BY DEF ReaderWoken
  <2>1. s # t /\ s \in Tasks
    BY <1>1, TaskFacts
  <2>2. pc[s] = "wait" /\ obj'[s] = obj[s] /\ obj[s] \in Queues
    BY <1>1, <2>1, ObjFacts DEF BaseInv, Working, Reading
  <2>3. CASE l = "notify" /\ o = obj[s]
    BY <1>1, <2>2, <2>3
  <2>4. CASE /\ closed'[obj[s]] => closed[obj[s]]
             /\ chan'[obj[s]] # <<>> => chan[obj[s]] # <<>>
             /\ permit[obj[s]] => permit'[obj[s]]
             /\ pc[t] = "notify" => obj[t] # obj[s]
    <3>1. permit[obj[s]] \/ \E u \in Tasks : pc[u] = "notify" /\ obj[u] = obj[s]
      BY <2>2, <2>4 DEF WakeInv, ReaderWoken
    <3> QED
      BY <1>1, <2>2, <2>4, <3>1
  <2> QED
    BY <2>1, <2>2, <2>3, <2>4
<1> QED
  BY <1>2, <1>3 DEF WakeInv

\* The same, with the conditions spelled out.
LEMMA OneWoken ==
    ASSUME BaseInv, WakeInv, NEW t \in Tasks, NEW l, NEW o,
           pc' = [pc EXCEPT ![t] = l], obj' = [obj EXCEPT ![t] = o], made' = made,
           t \in Removers => pc[t] # "idle", \A g \in Gets : t = Get(g) => pc[t] # "ended",
           l = "wait" => ~closed'[o] /\ chan'[o] = <<>>,
           \A q \in Queues :
              \/ permit'[q] \/ (l = "notify" /\ o = q)
              \/ \A s \in Fwds : s # t /\ pc[s] = "wait" => obj[s] # q
              \/ /\ closed'[q] => closed[q]
                 /\ chan'[q] # <<>> => chan[q] # <<>>
                 /\ permit[q] => permit'[q]
                 /\ pc[t] = "notify" => obj[t] # q
    PROVE  WakeInv'
<1>1. Moves(t, l, o)
  BY DEF Moves
<1> QED
  BY <1>1, MovesWoken

\* Several tasks go on, and nobody is put to sleep or stops waking.
LEMMA StillWoken ==
    ASSUME BaseInv, WakeInv, BornSound', UNCHANGED <<chan, closed, permit>>,
           \A t \in Fwds : pc'[t] = "wait" => pc[t] = "wait" /\ obj'[t] = obj[t],
           \A u \in Tasks : pc[u] = "notify" => pc'[u] = "notify" /\ obj'[u] = obj[u]
    PROVE  WakeInv'
  BY DEF WakeInv, ReaderWoken

\* A session is looked up, or made with its reaper.
LEMMA UpsertWoken ==
    ASSUME BaseInv, WakeInv, NEW t \in Tasks, t \notin Removers, NEW l, Upsert(t, l),
           pc[t] = "idle", l \notin {"wait", "ended"}
    PROVE  WakeInv'
<1>1. CASE map # None
  <2>1. /\ pc' = [pc EXCEPT ![t] = l] /\ obj' = [obj EXCEPT ![t] = map] /\ made' = made
        /\ UNCHANGED <<chan, closed, permit>>
    BY <1>1 DEF Upsert, Goto, queues
  <2> QED
    BY <2>1, OneWoken
<1>2. CASE map = None
  <2> DEFINE n == made + 1
             r == Reap(n)
  <2>1. /\ pc' = [pc EXCEPT ![t] = l, ![r] = "timer"] /\ obj' = [obj EXCEPT ![t] = n, ![r] = n]
        /\ made < limit /\ made' = n /\ UNCHANGED <<chan, closed, permit>>
    BY <1>2 DEF Upsert, queues
  <2>2. /\ pc \in [Tasks -> TaskPc] /\ obj \in [Tasks -> 0..made] /\ made \in Nat
        /\ limit \in 0..MaxQueues /\ MaxQueues \in Nat
    BY UploadQueueAssumption DEF BaseInv, TypeOK
  <2>3. n \in Queues /\ n > made
    BY <2>1, <2>2 DEF Queues
  <2>4. r \in Tasks /\ r # t /\ pc[r] = "idle" /\ r \notin Fwds
    BY <2>3, TaskFacts DEF WakeInv, BornSound
  <2>5. \A u \in Tasks : /\ pc'[u] = IF u = r THEN "timer" ELSE IF u = t THEN l ELSE pc[u]
                         /\ u \notin {r, t} => obj'[u] = obj[u]
    BY <2>1, <2>2, <2>4
  <2>6. BornSound'
    <3>1. \A q \in Queues : q > n => q > made /\ Reap(q) \in Tasks /\ Reap(q) # r /\ Reap(q) # t
      BY <2>2, TaskFacts, BirthFacts DEF Queues
    <3>2. \A g \in Gets : /\ Get(g) \in Tasks /\ Guard(g) \in Tasks
                          /\ Get(g) # r /\ Guard(g) # r /\ Guard(g) # t
      BY TaskFacts, BirthFacts
    <3>3. \A g \in Gets : Get(g) = t => pc[Guard(g)] = "idle"
      BY DEF WakeInv, BornSound
    <3>4. \A q \in Queues : q > n => pc'[Reap(q)] = "idle"
      BY <2>5, <3>1 DEF WakeInv, BornSound
    <3>5. \A g \in Gets : pc'[Get(g)] # "ended" => pc'[Guard(g)] = "idle"
      BY <2>5, <3>2, <3>3 DEF WakeInv, BornSound
    <3> QED
      BY <2>1, <3>4, <3>5 DEF BornSound
  <2>7. \A s \in Fwds : s \in Tasks /\ s # r /\ s # t
    BY <2>4, TaskFacts
  <2> QED
    BY <2>1, <2>4, <2>5, <2>6, <2>7, StillWoken
<1> QED
  BY <1>1, <1>2

\* The forward task of a GET begins; the GET ends.
LEMMA GetWoken ==
    ASSUME BaseInv, WakeInv, NEW g \in Gets, Mark(g) \/ GetEnds(g)
    PROVE  WakeInv'
<1>1. pc \in [Tasks -> TaskPc] /\ obj \in [Tasks -> 0..made]
  BY DEF BaseInv, TypeOK
<1>2. /\ Get(g) \in Tasks /\ Fwd(g) \in Tasks /\ Guard(g) \in Tasks
      /\ Get(g) # Fwd(g) /\ Get(g) # Guard(g) /\ Fwd(g) # Guard(g)
      /\ Fwds \subseteq Tasks /\ Get(g) \notin Fwds /\ Guard(g) \notin Fwds
  BY TaskFacts
<1>3. /\ \A q \in Queues : Reap(q) \in Tasks /\ Reap(q) \notin {Get(g), Fwd(g), Guard(g)}
      /\ \A h \in Gets : /\ Get(h) \in Tasks /\ Guard(h) \in Tasks
                         /\ Get(h) \notin {Fwd(g), Guard(g)} /\ Guard(h) \notin {Get(g), Fwd(g)}
                         /\ Guard(h) = Guard(g) => h = g
  BY TaskFacts, BirthFacts
<1>4. CASE Mark(g)
  <2>1. /\ pc[Get(g)] = "mark" /\ pc' = [pc EXCEPT ![Get(g)] = "open", ![Fwd(g)] = "read"]
        /\ obj' = [obj EXCEPT ![Fwd(g)] = obj[Get(g)]] /\ UNCHANGED <<chan, closed, permit, made>>
    BY <1>4 DEF Mark, queues
  <2>2. pc[Fwd(g)] = "idle"
    BY <2>1 DEF BaseInv, FwdSound
  <2>3. \A u \in Tasks : /\ pc'[u] = IF u = Fwd(g) THEN "read" ELSE IF u = Get(g) THEN "open" ELSE pc[u]
                         /\ u # Fwd(g) => obj'[u] = obj[u]
    BY <1>1, <1>2, <2>1
  <2>4. BornSound'
    BY <1>2, <1>3, <2>1, <2>3 DEF WakeInv, BornSound
  <2>5. \A t \in Fwds : pc'[t] = "wait" => pc[t] = "wait" /\ obj'[t] = obj[t]
    BY <1>2, <2>3
  <2>6. \A u \in Tasks : pc[u] = "notify" => pc'[u] = "notify" /\ obj'[u] = obj[u]
    BY <2>1, <2>2, <2>3
  <2> QED
    BY <2>1, <2>4, <2>5, <2>6, StillWoken
<1>5. CASE GetEnds(g)
  <2>1. /\ pc[Get(g)] = "open" /\ pc' = [pc EXCEPT ![Get(g)] = "ended", ![Guard(g)] = "remove"]
        /\ obj' = [obj EXCEPT ![Get(g)] = None] /\ UNCHANGED <<chan, closed, permit, made>>
    BY <1>5 DEF GetEnds, queues, hub
  <2>2. pc[Guard(g)] = "idle"
    BY <2>1 DEF WakeInv, BornSound
  <2>3. \A u \in Tasks : /\ pc'[u] = IF u = Guard(g) THEN "remove" ELSE IF u = Get(g) THEN "ended" ELSE pc[u]
                         /\ u # Get(g) => obj'[u] = obj[u]
    BY <1>1, <1>2, <2>1
  <2>4. BornSound'
    BY <1>2, <1>3, <2>1, <2>3 DEF WakeInv, BornSound
  <2> QED
    BY <1>2, <2>1, <2>2, <2>3, <2>4, StillWoken
<1> QED
  BY <1>4, <1>5

\* A task goes on without waking anybody or going to sleep.
LEMMA MoveWoken ==
    ASSUME BaseInv, WakeInv, NEW t \in Tasks, NEW l, l # "wait", pc[t] # "notify",
           pc' = [pc EXCEPT ![t] = l], obj' = obj \/ \E o : obj' = [obj EXCEPT ![t] = o],
           t \in Removers => pc[t] # "idle", \A g \in Gets : t # Get(g),
           UNCHANGED <<closed, permit, made>>, \A q \in Queues : chan'[q] # <<>> => chan[q] # <<>>
    PROVE  WakeInv'
<1>1. obj = [obj EXCEPT ![t] = obj[t]]
  BY MoveFacts
<1>2. PICK o : obj' = [obj EXCEPT ![t] = o]
  BY <1>1
<1>3. \A q \in Queues : /\ closed'[q] => closed[q]
                        /\ chan'[q] # <<>> => chan[q] # <<>>
                        /\ permit[q] => permit'[q]
                        /\ pc[t] = "notify" => obj[t] # q
  OBVIOUS
<1> QED
  BY <1>2, <1>3, OneWoken

\* notify_one wakes whoever sleeps on the queue.
LEMMA NotifyWoken ==
    ASSUME BaseInv, WakeInv, NEW t \in Tasks, NEW l \in {"ok", "done"}, Notify(t, l), UNCHANGED hub,
           \A g \in Gets : t # Get(g)
    PROVE  WakeInv'
<1>1. /\ pc[t] = "notify" /\ pc' = [pc EXCEPT ![t] = l] /\ permit' = [permit EXCEPT ![obj[t]] = TRUE]
      /\ UNCHANGED <<chan, closed, made>>
      /\ obj' = obj \/ obj' = [obj EXCEPT ![t] = None]
  BY DEF Notify, Leave, Goto, hub
<1>2. obj = [obj EXCEPT ![t] = obj[t]] /\ permit \in [Queues -> BOOLEAN]
  BY MoveFacts
<1>3. PICK o : obj' = [obj EXCEPT ![t] = o]
  BY <1>1, <1>2
<1>4. \A q \in Queues :
        \/ permit'[q]
        \/ /\ closed'[q] => closed[q]
           /\ chan'[q] # <<>> => chan[q] # <<>>
           /\ permit[q] => permit'[q]
           /\ pc[t] = "notify" => obj[t] # q
  BY <1>1, <1>2
<1>5. l # "wait" /\ made' = made /\ (t \in Removers => pc[t] # "idle")
  BY <1>1
<1>6. \A q \in Queues :
        \/ permit'[q] \/ (l = "notify" /\ o = q)
        \/ \A s \in Fwds : s # t /\ pc[s] = "wait" => obj[s] # q
        \/ /\ closed'[q] => closed[q]
           /\ chan'[q] # <<>> => chan[q] # <<>>
           /\ permit[q] => permit'[q]
           /\ pc[t] = "notify" => obj[t] # q
  BY <1>4
<1>7. pc' = [pc EXCEPT ![t] = l]
  BY <1>1
<1>8. (l = "wait" => ~closed'[o] /\ chan'[o] = <<>>) /\ \A g \in Gets : t = Get(g) => pc[t] # "ended"
  BY <1>5
<1> QED
  BY <1>3, <1>5, <1>6, <1>7, <1>8, OneWoken

\* A task is about to wake the reader of the queue it changed.
LEMMA RaiseWoken ==
    ASSUME BaseInv, WakeInv, NEW t \in Tasks, pc[t] # "notify", pc' = [pc EXCEPT ![t] = "notify"],
           UNCHANGED <<obj, permit, made>>, t \in Removers => pc[t] # "idle", \A g \in Gets : t # Get(g),
           \A k \in Queues : obj[t] # k => closed'[k] = closed[k] /\ chan'[k] = chan[k]
    PROVE  WakeInv'
<1>1. Moves(t, "notify", obj[t])
  BY MoveFacts DEF Moves
<1> QED
  BY <1>1, MovesWoken

\* The posts and the upload stream.
LEMMA PostWoken ==
    ASSUME BaseInv, WakeInv,
           \/ \E p \in Posts : PacketUp(p) \/ PushTimeout(p) \/ Push(p) \/ StreamChunk(p)
           \/ StreamStart \/ StreamEnd
    PROVE  WakeInv'
<1>1. /\ StreamUp \in Tasks /\ StreamUp \notin Removers /\ \A g \in Gets : StreamUp # Get(g)
      /\ \A p \in Posts : Post(p) \in Tasks /\ Post(p) \notin Removers /\ \A g \in Gets : Post(p) # Get(g)
  BY TaskFacts
<1>2. ASSUME NEW p \in Posts, PacketUp(p) PROVE WakeInv'
  BY <1>1, <1>2, UpsertWoken DEF PacketUp
<1>3. ASSUME NEW p \in Posts, PushTimeout(p) PROVE WakeInv'
  <2>1. /\ pc[Post(p)] = "push" /\ pc' = [pc EXCEPT ![Post(p)] = "failed"]
        /\ obj' = [obj EXCEPT ![Post(p)] = None] /\ UNCHANGED <<chan, closed, permit, made>>
    BY <1>3 DEF PushTimeout, Leave, Goto, queues, hub
  <2> QED
    BY <1>1, <2>1, MoveWoken
<1>4. ASSUME NEW p \in Posts, Push(p) PROVE WakeInv'
  <2> DEFINE t == Post(p)
             q == obj[t]
  <2>1. CASE Notify(t, "ok")
    BY <1>1, <1>4, <2>1, NotifyWoken DEF Push
  <2>2. CASE PushSend(t, p)
    <3>1. pc[t] = "push" /\ UNCHANGED <<closed, permit, made>>
      BY <1>4, <2>2 DEF Push, PushSend, hub
    <3>2. CASE pc' = [pc EXCEPT ![t] = "failed"] /\ obj' = [obj EXCEPT ![t] = None] /\ UNCHANGED chan
      BY <1>1, <3>1, <3>2, MoveWoken
    <3>3. CASE chan' = [chan EXCEPT ![q] = Append(@, p)] /\ pc' = [pc EXCEPT ![t] = "notify"] /\ UNCHANGED obj
      <4>1. \A k \in Queues : q # k => chan'[k] = chan[k]
        BY <3>3 DEF BaseInv, TypeOK
      <4> QED
        BY <1>1, <3>1, <3>3, <4>1, RaiseWoken
    <3> QED
      BY <2>2, <3>2, <3>3 DEF PushSend, Leave, Goto
  <2> QED
    BY <1>4, <2>1, <2>2 DEF Push
<1>5. ASSUME NEW p \in Posts, StreamChunk(p) PROVE WakeInv'
  <2>1. /\ pc[Post(p)] = "idle" /\ pc' = [pc EXCEPT ![Post(p)] = "push"]
        /\ obj' = [obj EXCEPT ![Post(p)] = obj[StreamUp]] /\ UNCHANGED <<chan, closed, permit, made>>
    BY <1>5 DEF StreamChunk, Goto, queues, hub
  <2> QED
    BY <1>1, <2>1, MoveWoken
<1>6. CASE StreamStart
  BY <1>1, <1>6, UpsertWoken DEF StreamStart
<1>7. CASE StreamEnd
  <2>1. /\ pc[StreamUp] = "chunk" /\ pc' = [pc EXCEPT ![StreamUp] = "close"] /\ obj' = obj
        /\ UNCHANGED <<chan, closed, permit, made>>
    BY <1>7 DEF StreamEnd, Goto, queues, hub
  <2> QED
    BY <1>1, <2>1, MoveWoken
<1> QED
  BY <1>2, <1>3, <1>4, <1>5, <1>6, <1>7

\* The forward task: it sleeps only after it has found the channel empty, and takes
\* a permit nobody else sleeps for.
LEMMA ForwardWoken ==
    ASSUME BaseInv, WakeInv, OneReader, NEW g \in Gets, Forward(g)
    PROVE  WakeInv'
<1> DEFINE t == Fwd(g)
           q == obj[t]
<1>1. t \in Fwds /\ t \in Tasks /\ (\A h \in Gets : t # Get(h)) /\ made' = made
  BY TaskFacts DEF Forward, hub
<1>2. \/ ReadCurrent(t) \/ ReadHeap(t) \/ ReadSet(t) \/ ReadChan(t) \/ ReadEmpty(t) \/ ReadWake(t)
      \/ /\ \/ pc[t] = "write" /\ (Goto(t, "read") \/ Goto(t, "ended"))
            \/ pc[t] = "ended" /\ Goto(t, "remove")
         /\ UNCHANGED <<queues, obj, held>>
  BY DEF Forward, Read
<1>3. obj = [obj EXCEPT ![t] = q] /\ permit \in [Queues -> BOOLEAN] /\ chan \in [Queues -> Seq(Posts)]
  BY <1>1, MoveFacts DEF BaseInv, TypeOK
<1> HIDE DEF t
<1>4. ASSUME pc[t] \notin {"idle", "notify"}, NEW l, l # "wait", pc' = [pc EXCEPT ![t] = l],
             UNCHANGED <<closed, permit, obj>>, \A k \in Queues : chan'[k] # <<>> => chan[k] # <<>>
      PROVE  WakeInv'
  BY <1>1, <1>4, MoveWoken
<1>5. CASE ReadCurrent(t)
  <2>1. pc[t] = "read" /\ \E l \in {"heap", "write"} : pc' = [pc EXCEPT ![t] = l]
    BY <1>5 DEF ReadCurrent, Goto
  <2>2. UNCHANGED <<chan, closed, permit, obj>>
    BY <1>5 DEF ReadCurrent
  <2> QED
    BY <1>4, <2>1, <2>2
<1>6. CASE ReadHeap(t)
  <2>1. pc[t] = "heap" /\ \E l \in {"set", "ended", "chan"} : pc' = [pc EXCEPT ![t] = l]
    BY <1>6 DEF ReadHeap, Goto
  <2>2. UNCHANGED <<chan, closed, permit, obj>>
    BY <1>6 DEF ReadHeap
  <2> QED
    BY <1>4, <2>1, <2>2
<1>7. CASE ReadSet(t)
  <2>1. pc[t] = "set" /\ pc' = [pc EXCEPT ![t] = "read"] /\ UNCHANGED <<chan, closed, permit, obj>>
    BY <1>7 DEF ReadSet, Goto
  <2> QED
    BY <1>4, <2>1
<1>8. CASE ReadChan(t)
  <2>1. pc[t] = "chan" /\ \E l \in {"read", "ended"} : pc' = [pc EXCEPT ![t] = l]
    BY <1>8 DEF ReadChan, Goto
  <2>2. UNCHANGED <<closed, permit, obj>> /\ chan' = [chan EXCEPT ![q] = Tail(@)] /\ chan[q] # <<>>
    BY <1>8 DEF ReadChan
  <2>3. \A k \in Queues : chan'[k] # <<>> => chan[k] # <<>>
    BY <1>3, <2>2
  <2> QED
    BY <1>4, <2>1, <2>2, <2>3
<1>9. CASE ReadEmpty(t)
  <2>1. /\ pc[t] = "chan" /\ UNCHANGED <<chan, closed, permit, obj>>
        /\ \/ pc' = [pc EXCEPT ![t] = "ended"]
           \/ pc' = [pc EXCEPT ![t] = "wait"] /\ ~closed[q] /\ chan[q] = <<>>
    BY <1>9 DEF ReadEmpty, Goto, queues
  <2>2. CASE pc' = [pc EXCEPT ![t] = "ended"]
    BY <1>4, <2>1, <2>2
  <2>3. CASE pc' = [pc EXCEPT ![t] = "wait"] /\ ~closed[q] /\ chan[q] = <<>>
    <3>1. obj' = [obj EXCEPT ![t] = q]
      BY <1>3, <2>1
    <3>2. \A k \in Queues : /\ closed'[k] => closed[k]
                            /\ chan'[k] # <<>> => chan[k] # <<>>
                            /\ permit[k] => permit'[k]
                            /\ pc[t] = "notify" => obj[t] # k
      BY <2>1
    <3> HIDE DEF q
    <3> QED
      BY <1>1, <2>1, <2>3, <3>1, <3>2, OneWoken
  <2> QED
    BY <2>1, <2>2, <2>3
<1>10. CASE ReadWake(t)
  <2>1. /\ pc[t] = "wait" /\ pc' = [pc EXCEPT ![t] = "read"] /\ UNCHANGED <<chan, closed, obj>>
        /\ permit' = [permit EXCEPT ![q] = FALSE]
    BY <1>10 DEF ReadWake, Goto
  <2>2. \A s \in Fwds : s # t /\ pc[s] = "wait" => obj[s] # q
    BY <1>1, <2>1 DEF OneReader, Reading
  <2>3. obj' = [obj EXCEPT ![t] = q]
    BY <1>3, <2>1
  <2>4. \A k \in Queues :
          \/ \A s \in Fwds : s # t /\ pc[s] = "wait" => obj[s] # k
          \/ /\ closed'[k] => closed[k]
             /\ chan'[k] # <<>> => chan[k] # <<>>
             /\ permit[k] => permit'[k]
             /\ pc[t] = "notify" => obj[t] # k
    BY <1>3, <2>1, <2>2
  <2> HIDE DEF q
  <2> QED
    BY <1>1, <2>1, <2>3, <2>4, OneWoken
<1>11. CASE /\ \/ pc[t] = "write" /\ (Goto(t, "read") \/ Goto(t, "ended"))
               \/ pc[t] = "ended" /\ Goto(t, "remove")
            /\ UNCHANGED <<queues, obj, held>>
  <2>1. /\ pc[t] \in {"write", "ended"} /\ \E l \in {"read", "ended", "remove"} : pc' = [pc EXCEPT ![t] = l]
        /\ UNCHANGED <<chan, closed, permit, obj>>
    BY <1>11 DEF Goto, queues
  <2> QED
    BY <1>4, <2>1
<1> QED
  BY <1>2, <1>5, <1>6, <1>7, <1>8, <1>9, <1>10, <1>11

\* close
LEMMA CloseWoken ==
    ASSUME BaseInv, WakeInv, NEW t \in Closers, Close(t)
    PROVE  WakeInv'
<1> DEFINE q == obj[t]
<1>1. t \in Tasks /\ (\A g \in Gets : t # Get(g)) /\ UNCHANGED hub /\ made' = made
  BY TaskFacts DEF Close, hub
<1>2. obj = [obj EXCEPT ![t] = q] /\ chan \in [Queues -> Seq(Posts)] /\ closed \in [Queues -> BOOLEAN]
  BY <1>1, MoveFacts DEF BaseInv, TypeOK
<1>3. CASE CloseDrain(t)
  <2>1. /\ pc[t] = "close" /\ pc' = [pc EXCEPT ![t] = "drop"] /\ UNCHANGED <<closed, permit, obj>>
        /\ chan' = [chan EXCEPT ![q] = <<>>]
    BY <1>3 DEF CloseDrain, Goto
  <2>2. \A k \in Queues : chan'[k] # <<>> => chan[k] # <<>>
    BY <1>2, <2>1
  <2> QED
    BY <1>1, <2>1, <2>2, MoveWoken
<1>4. CASE CloseDrop(t)
  <2>1. /\ pc[t] = "drop" /\ pc' = [pc EXCEPT ![t] = "notify"] /\ UNCHANGED <<permit, obj>>
        /\ chan' = [chan EXCEPT ![q] = <<>>] /\ closed' = [closed EXCEPT ![q] = TRUE]
    BY <1>4 DEF CloseDrop, Goto
  <2>2. \A k \in Queues : q # k => closed'[k] = closed[k] /\ chan'[k] = chan[k]
    BY <1>2, <2>1
  <2> QED
    BY <1>1, <2>1, <2>2, RaiseWoken
<1>5. CASE Notify(t, "done")
  BY <1>1, <1>5, NotifyWoken
<1> QED
  BY <1>3, <1>4, <1>5 DEF Close

\* Removals and the reaper.
LEMMA RemovalWoken ==
    ASSUME BaseInv, WakeInv,
           \/ \E t \in Removers : Remove(t)
           \/ \E q \in Queues : Reaper(q)
    PROVE  WakeInv'
<1>1. ASSUME NEW t \in Removers, Remove(t) PROVE WakeInv'
  <2>1. t \in Tasks /\ \A g \in Gets : t # Get(g)
    BY TaskFacts
  <2>2. /\ pc[t] = "remove" /\ (\E l \in {"done", "close"} : pc' = [pc EXCEPT ![t] = l])
        /\ (\E o : obj' = [obj EXCEPT ![t] = o]) /\ UNCHANGED <<chan, closed, permit, made>>
    BY <1>1 DEF Remove, Leave, Goto, queues
  <2> QED
    BY <2>1, <2>2, MoveWoken
<1>2. ASSUME NEW q \in Queues, Reaper(q) PROVE WakeInv'
  <2> DEFINE t == Reap(q)
  <2>1. t \in Tasks /\ \A g \in Gets : t # Get(g)
    BY TaskFacts
  <2>2. /\ pc[t] = "timer" /\ (\E l \in {"done", "remove"} : pc' = [pc EXCEPT ![t] = l])
        /\ obj' = obj \/ obj' = [obj EXCEPT ![t] = None]
        /\ UNCHANGED <<chan, closed, permit, made>>
    BY <1>2 DEF Reaper, ReapConnected, ReapTimeout, Leave, Goto, queues, hub
  <2> HIDE DEF t
  <2> QED
    BY <2>1, <2>2, MoveWoken
<1> QED
  BY <1>1, <1>2

-----------------------------------------------------------------------------
\* TypeOK holds throughout: the handlers, the readers and the closers keep every
\* variable in its kind, whatever numbers the posts carry.
THEOREM TypeCorrect == Spec => []TypeOK
<1>1. Init => BaseInv
  BY InitKeeps
<1>2. BaseInv /\ [Next]_vars => BaseInv'
  BY StepKeeps
<1>3. BaseInv => TypeOK
  BY DEF BaseInv
<1> QED
  BY <1>1, <1>2, <1>3, PTL DEF Spec

\* While the queues have one reader each, or no number is repeated, the inductive
\* invariant of order holds.
LEMMA OrderHolds == Spec /\ []Premise => [](BaseInv /\ OrderInv)
<1>1. Init => BaseInv /\ OrderInv
  BY InitKeeps
<1>2. BaseInv /\ OrderInv /\ Premise /\ [Next]_vars => (BaseInv /\ OrderInv)'
  BY StepKeeps
<1> QED
  BY <1>1, <1>2, PTL DEF Spec

\* InOrder: while one forward task at a time reads a queue, or no two posts carry
\* one number, read() hands out the packets by number, none twice and none left out,
\* whichever of read() and close() takes them out of the channel.
THEOREM PacketsInOrder == Spec /\ [](OneReader \/ NoDuplicates) => []InOrder
<1>1. OrderInv => InOrder
  BY DEF OrderInv
<1>2. (OneReader \/ NoDuplicates) <=> Premise
  BY DEF Premise
<1> QED
  BY <1>1, <1>2, OrderHolds, PTL

\* NothingLost: under the same condition a packet that push() has accepted stays in
\* the queue until it, or one with its number, is read or the queue is closed.
THEOREM PacketsKept == Spec /\ [](OneReader \/ NoDuplicates) => []NothingLost
<1>1. AllKept => NothingLost
  <2> SUFFICES ASSUME AllKept, NEW p \in Posts, pc[Post(p)] \in {"notify", "ok"}, ~closed[obj[Post(p)]]
               PROVE  \/ p \in heap[obj[Post(p)]] \cup {current[obj[Post(p)]]} \cup {held[t] : t \in Fwds}
                      \/ \E i \in DOMAIN chan[obj[Post(p)]] : chan[obj[Post(p)]][i] = p
                      \/ seq[p] < nextSeq[obj[Post(p)]]
    BY DEF NothingLost
  <2>1. Kept(p, obj[Post(p)])
    BY DEF AllKept
  <2> QED
    BY <2>1 DEF Kept, Elems
<1>2. BaseInv /\ OrderInv => NothingLost
  BY <1>1 DEF OrderInv
<1>3. (OneReader \/ NoDuplicates) <=> Premise
  BY DEF Premise
<1> QED
  BY <1>2, <1>3, OrderHolds, PTL

\* ReaderWoken: while one forward task at a time reads a queue, read() never sleeps on
\* a packet in the channel or on a closed queue without a permit, or somebody about to
\* leave one, however push(), close() and its own last look interleave.
THEOREM WakeupsKept == Spec /\ []OneReader => []ReaderWoken
<1>1. Init => BaseInv /\ WakeInv
  <2> SUFFICES ASSUME Init PROVE WakeInv
    BY InitKeeps
  <2>1. \A t \in Tasks : pc[t] = "idle"
    BY DEF Init
  <2> QED
    BY <2>1, TaskFacts DEF WakeInv, BornSound, ReaderWoken
<1>2. BaseInv /\ WakeInv /\ OneReader /\ [Next]_vars => (BaseInv /\ WakeInv)'
  <2> SUFFICES ASSUME BaseInv, WakeInv, OneReader, [Next]_vars PROVE WakeInv'
    BY StepKeeps
  <2>1. ASSUME NEW g \in Gets, StreamDown(g) PROVE WakeInv'
    BY <2>1, UpsertWoken, TaskFacts DEF StreamDown
  <2>2. ASSUME NEW t \in Removers, Removal(t) PROVE WakeInv'
    BY <2>2, RemovalWoken, CloseWoken, TaskFacts DEF Removal
  <2>3. CASE Close(StreamUp)
    BY <2>3, CloseWoken, TaskFacts
  <2>4. CASE UNCHANGED vars
    BY <2>4 DEF WakeInv, BornSound, ReaderWoken, vars, queues, tasks, hub
  <2>5. CASE Next
    BY <2>1, <2>2, <2>3, <2>5, PostWoken, GetWoken, ForwardWoken, RemovalWoken DEF Next
  <2> QED
    BY <2>4, <2>5
<1>3. WakeInv => ReaderWoken
  BY DEF WakeInv
<1> QED
  BY <1>1, <1>2, <1>3, PTL DEF Spec

\* A client that opens one GET gets all three, also if it repeats numbers.
THEOREM OneGetSuffices ==
    ASSUME MaxGets <= 1
    PROVE  Spec => []InOrder /\ []NothingLost /\ []ReaderWoken
<1>1. OneReader
  <2>1. \A s, t \in Fwds : s = t
    BY MaxGetsAssumption DEF Fwds, Gets
  <2> QED
    BY <2>1 DEF OneReader
<1> QED
  BY <1>1, PacketsInOrder, PacketsKept, WakeupsKept, PTL

\* A client whose numbers differ gets order and loses nothing, also if it opens several GETs.
THEOREM DistinctNumbersSuffice == Spec /\ NoDuplicates => []InOrder /\ []NothingLost
<1>1. NoDuplicates /\ [Next]_vars => NoDuplicates'
  <2>1. ASSUME [Next]_vars PROVE seq' = seq
    <3> USE DEF queues, Upsert
    <3>1. ASSUME NEW t, Close(t) PROVE seq' = seq
      BY <3>1 DEF Close, CloseDrain, CloseDrop, Notify
    <3>2. ASSUME NEW t, Read(t) PROVE seq' = seq
      BY <3>2 DEF Read, ReadCurrent, ReadHeap, ReadSet, ReadChan, ReadEmpty, ReadWake
    <3>3. ASSUME NEW p, PacketUp(p) \/ PushTimeout(p) \/ Push(p) \/ StreamChunk(p) PROVE seq' = seq
      BY <3>3 DEF PacketUp, PushTimeout, Push, PushSend, Notify, StreamChunk
    <3>4. ASSUME NEW g, StreamDown(g) \/ Mark(g) \/ GetEnds(g) \/ Forward(g) PROVE seq' = seq
      BY <3>2, <3>4 DEF StreamDown, Mark, GetEnds, Forward
    <3>5. ASSUME StreamStart \/ StreamEnd PROVE seq' = seq
      BY <3>5 DEF StreamStart, StreamEnd
    <3>6. ASSUME NEW t, Removal(t) PROVE seq' = seq
      BY <3>1, <3>6 DEF Removal, Remove
    <3>7. ASSUME NEW q, Reaper(q) PROVE seq' = seq
      BY <3>7 DEF Reaper, ReapConnected, ReapTimeout
    <3> QED
      BY <2>1, <3>1, <3>3, <3>4, <3>5, <3>6, <3>7 DEF Next, vars
  <2> QED
    BY <2>1 DEF NoDuplicates
<1> QED
  BY <1>1, PacketsInOrder, PacketsKept, PTL DEF Spec
=============================================================================
