-------------------------- MODULE DnsService_proofs --------------------------
(***************************************************************************)
(* For any number of clients, lookups and families and any workload: the   *)
(* single flight of the DNS cache elects one leader per key, what the cache*)
(* serves is a live answer, cleanup drops only what has expired, and the   *)
(* verdict of a lookup is the one its clients' results call for.           *)
(***************************************************************************)
EXTENDS DnsService, WellFoundedInduction, TLAPS

Leading  == {"lead", "release", "unguard"}
Fetching == {"lock", "locked"} \cup Leading

\* A task that goes for the map asks for some family, so that its key is in it.
KeysSound ==
    /\ DOMAIN pc = Tasks
    /\ sf \in [Clients -> [Options -> Tasks \cup {NoTask}]]
    /\ \A t \in Tasks : OptionOf(t) \in SUBSET Families
    /\ \A t \in Tasks : pc[t] \in Fetching => OptionOf(t) # {}

\* The inductive invariant of the election.
FlightInv == KeysSound /\ OneLeader

\* A task names a lookup and a client, and is not the absent one.
LEMMA TaskFacts ==
    /\ NoTask \notin Tasks
    /\ \A l \in Lookups, c \in Clients : Query(l, c) \in Tasks /\ Pull(l, c) \in Tasks
    /\ \A t \in Tasks : t[2] \in Lookups /\ t[3] \in Clients
    /\ \A l, c : Pull(l, c)[2] = l /\ Pull(l, c)[3] = c
<1>1. NoTask \notin Tasks
  BY DEF NoTask, Tasks, Queries, Pulls, Query, Pull
<1>2. \A l \in Lookups, c \in Clients : Query(l, c) \in Tasks /\ Pull(l, c) \in Tasks
  BY DEF Tasks, Queries, Pulls
<1>3. \A t \in Tasks : t[2] \in Lookups /\ t[3] \in Clients
  BY DEF Tasks, Queries, Pulls, Query, Pull
<1>4. \A l, c : Pull(l, c)[2] = l /\ Pull(l, c)[3] = c
  BY DEF Pull
<1> QED
  BY <1>1, <1>2, <1>3, <1>4

\* At the start nobody has asked and the map is empty.
LEMMA FlightInit == Init => FlightInv
<1> SUFFICES ASSUME Init PROVE FlightInv
  OBVIOUS
<1>1. DOMAIN pc = Tasks /\ \A t \in Tasks : pc[t] = "idle"
  BY DEF Init, CacheInit
<1>2. sf \in [Clients -> [Options -> Tasks \cup {NoTask}]]
  BY DEF Init, CacheInit
<1>3. opt \in [Lookups -> SUBSET Families] /\ allow \in [Clients -> SUBSET Families]
  BY WorkloadsAssumption DEF Init
<1>4. \A t \in Tasks : OptionOf(t) \in SUBSET Families
  BY <1>3, TaskFacts DEF OptionOf
<1> QED
  BY <1>1, <1>2, <1>4 DEF FlightInv, KeysSound, OneLeader, Fetching, Leading

\* A step that leaves the map alone, and after which whoever leads led before and
\* whoever goes for the map has a key.
LEMMA MapKept ==
    ASSUME FlightInv, UNCHANGED <<sf, opt, allow>>, DOMAIN pc' = Tasks,
           \A t \in Tasks : pc'[t] \in Leading => pc[t] \in Leading,
           \A t \in Tasks : pc'[t] \in Fetching => pc[t] \in Fetching \/ OptionOf(t) # {}
    PROVE  FlightInv'
<1>1. \A t \in Tasks : OptionOf(t)' = OptionOf(t)
  BY DEF OptionOf
<1> QED
  BY <1>1 DEF FlightInv, KeysSound, OneLeader, Leading, Fetching, ClientOf

\* SfLeaderGuard::drop takes out the entry of the leader it belongs to, if any.
LEMMA UnguardKeeps ==
    ASSUME FlightInv, NEW t \in Tasks, NEW l, pc[t] \in Leading, l \notin Fetching,
           Unguard(t), pc' = [pc EXCEPT ![t] = l], UNCHANGED <<opt, allow>>
    PROVE  FlightInv'
<1>1. /\ \A u \in Tasks : OptionOf(u)' = OptionOf(u)
      /\ pc'[t] = l /\ DOMAIN pc' = Tasks /\ \A u \in Tasks \ {t} : pc'[u] = pc[u]
  BY DEF OptionOf, FlightInv, KeysSound
<1> DEFINE c == ClientOf(t)
           o == OptionOf(t)
<1>2. c \in Clients /\ o \in Options /\ sf[c][o] = t
  BY TaskFacts DEF FlightInv, KeysSound, OneLeader, Leading, Fetching, Options, ClientOf
<1>3. sf' = sf \/ sf' = [sf EXCEPT ![c][o] = NoTask]
  BY DEF Unguard
<1> HIDE DEF c, o
<1>4. /\ sf' \in [Clients -> [Options -> Tasks \cup {NoTask}]]
      /\ \A d \in Clients, k \in Options : (d # c \/ k # o) => sf'[d][k] = sf[d][k]
  BY <1>2, <1>3 DEF FlightInv, KeysSound
<1>5. KeysSound'
  BY <1>1, <1>4 DEF FlightInv, KeysSound, Fetching
<1>6. OneLeader'
  <2> SUFFICES ASSUME NEW u \in Tasks, pc'[u] \in Leading
               PROVE  sf'[ClientOf(u)][OptionOf(u)] = u
    BY <1>1 DEF OneLeader, Leading, ClientOf
  <2>1. u # t /\ pc[u] \in Leading
    BY <1>1 DEF Fetching
  <2>2. /\ sf[ClientOf(u)][OptionOf(u)] = u
        /\ ClientOf(u) \in Clients /\ OptionOf(u) \in Options
    BY <2>1, TaskFacts DEF FlightInv, KeysSound, OneLeader, Leading, Fetching, Options, ClientOf
  <2> QED
    BY <1>2, <1>4, <2>1, <2>2
<1> QED
  BY <1>5, <1>6 DEF FlightInv

\* Under the lock a task becomes the leader only if the key has none.
LEMMA ElectKeeps == ASSUME FlightInv, NEW t \in Tasks, Elect(t) PROVE FlightInv'
<1> DEFINE c == ClientOf(t)
           o == OptionOf(t)
<1>1. /\ \A u \in Tasks : OptionOf(u)' = OptionOf(u)
      /\ UNCHANGED <<opt, allow>> /\ pc[t] = "locked"
  BY DEF Elect, OptionOf
<1>2. c \in Clients /\ o \in Options
  BY <1>1, TaskFacts DEF FlightInv, KeysSound, Fetching, Options, ClientOf
<1>3. CASE sf[c][o] # NoTask /\ Goto(t, "subscribe") /\ UNCHANGED sf
  BY <1>1, <1>3, MapKept DEF Goto, FlightInv, KeysSound, Leading, Fetching
<1>4. CASE sf[c][o] = NoTask /\ sf' = [sf EXCEPT ![c][o] = t] /\ Goto(t, "lead")
  <2> HIDE DEF c, o
  <2>1. pc'[t] = "lead" /\ DOMAIN pc' = Tasks /\ \A u \in Tasks \ {t} : pc'[u] = pc[u]
    BY <1>4 DEF Goto, FlightInv, KeysSound
  <2>2. /\ sf' \in [Clients -> [Options -> Tasks \cup {NoTask}]] /\ sf'[c][o] = t
        /\ \A d \in Clients, k \in Options : (d # c \/ k # o) => sf'[d][k] = sf[d][k]
    BY <1>2, <1>4 DEF FlightInv, KeysSound
  <2>3. KeysSound'
    BY <1>1, <2>1, <2>2 DEF FlightInv, KeysSound, Fetching
  <2>4. ASSUME NEW u \in Tasks, pc'[u] \in Leading
        PROVE  sf'[ClientOf(u)][OptionOf(u)] = u
    <3>1. CASE u = t
      BY <2>2, <3>1 DEF c, o
    <3>2. CASE u # t
      <4>1. /\ sf[ClientOf(u)][OptionOf(u)] = u
            /\ ClientOf(u) \in Clients /\ OptionOf(u) \in Options /\ u # NoTask
        BY <2>1, <2>4, <3>2, TaskFacts
           DEF FlightInv, KeysSound, OneLeader, Leading, Fetching, Options, ClientOf
      <4> QED
        BY <1>4, <2>2, <4>1
    <3> QED
      BY <3>1, <3>2
  <2> QED
    BY <1>1, <2>3, <2>4 DEF FlightInv, OneLeader, Leading, ClientOf
<1> QED
  BY <1>3, <1>4 DEF Elect

\* The other steps of a task: none takes up the lead, and only query_ip and the
\* refresh it starts go for the map, for some family.
LEMMA RunKeeps == ASSUME FlightInv, NEW t \in Tasks, Run(t) PROVE FlightInv'
<1>0. DOMAIN pc = Tasks
  BY DEF FlightInv, KeysSound
<1> USE DEF Leading, Fetching
<1>1. CASE Find(t)
  <2> DEFINE p == Pull(t[2], t[3])
  <2>1. p \in Tasks /\ OptionOf(p) = OptionOf(t)
    BY TaskFacts DEF OptionOf
  <2> HIDE DEF p
  <2>2. UNCHANGED <<sf, opt, allow>>
    BY <1>1 DEF Find, shared
  <2>3. \/ \E l \in {"done", "lock"} : pc' = [pc EXCEPT ![t] = l] /\ (l = "lock" => OptionOf(t) # {})
        \/ OptionOf(t) # {} /\ pc' = [pc EXCEPT ![t] = "done", ![p] = "lock"]
    BY <1>1 DEF Find, Return, Goto, p
  <2> QED
    BY <1>0, <2>1, <2>2, <2>3, MapKept
<1>2. CASE Lock(t)
  BY <1>0, <1>2, MapKept DEF Lock, Goto
<1>3. CASE Elect(t)
  BY <1>3, ElectKeeps
<1>4. CASE Subscribe(t) \/ GiveUp(t) \/ Asked(t) \/ SendQuery(t)
  <2>1. UNCHANGED <<sf, opt, allow>>
    BY <1>4 DEF Subscribe, GiveUp, Asked, SendQuery, shared
  <2>2. pc' = pc \/ \E l \in {"wait", "ask", "store"} : pc' = [pc EXCEPT ![t] = l]
    BY <1>4 DEF Subscribe, GiveUp, Asked, SendQuery, Goto
  <2> QED
    BY <1>0, <2>1, <2>2, MapKept
<1>5. CASE Broadcast(t)
  BY <1>0, <1>5, MapKept DEF Broadcast, shared
<1>6. CASE Release(t) \/ DropGuard(t)
  BY <1>6, UnguardKeeps DEF Release, DropGuard, Goto
<1>7. CASE Store(t)
  BY <1>0, <1>7, MapKept DEF Store, Return
<1> QED
  BY <1>1, <1>2, <1>3, <1>4, <1>5, <1>6, <1>7 DEF Run, Fetch

\* A dropped leader keeps its entry until its guard has run.
LEMMA DropKeeps == ASSUME FlightInv, NEW t \in Tasks, Drop(t) PROVE FlightInv'
<1>1. DOMAIN pc = Tasks /\ UNCHANGED <<sf, opt, allow>>
  BY DEF FlightInv, KeysSound, Drop, shared
<1>2. pc' = [pc EXCEPT ![t] = IF pc[t] = "lead" THEN "unguard" ELSE "dropped"]
  BY DEF Drop, Goto
<1> QED
  BY <1>1, <1>2, MapKept DEF Leading, Fetching

\* The lookups only start queries and take their results.
LEMMA StartOnly ==
    ASSUME FlightInv, NEW l \in Lookups, Spawn(l) \/ Progress(l)
    PROVE  DOMAIN pc' = Tasks /\ \A t \in Tasks : pc'[t] \in {pc[t], "find"}
<1>0. DOMAIN pc = Tasks
  BY DEF FlightInv, KeysSound
<1>1. CASE Spawn(l)
  BY <1>1 DEF Spawn
<1>2. CASE Ask(l)
  BY <1>0, <1>2 DEF Ask, Goto
<1>3. CASE Drain(l) \/ \E c \in Clients : Join(l, c) \/ Reply(l, c)
  BY <1>0, <1>3 DEF Drain, Join, Reply, Advance, tasks
<1> QED
  BY <1>1, <1>2, <1>3 DEF Progress

\* They leave the map alone.
LEMMA LookupsKeep ==
    ASSUME FlightInv, NEW l \in Lookups, Spawn(l) \/ Progress(l)
    PROVE  FlightInv'
<1>1. UNCHANGED <<sf, opt, allow>>
  BY DEF Spawn, Progress, Drain, Ask, Join, Reply, Advance, shared
<1> QED
  BY <1>1, StartOnly, MapKept DEF Leading, Fetching

\* FlightInv holds in every state.
LEMMA FlightInvariant == Spec => []FlightInv
<1>1. FlightInv /\ [Next]_vars => FlightInv'
  <2> SUFFICES ASSUME FlightInv, [Next]_vars PROVE FlightInv'
    OBVIOUS
  <2>1. ASSUME NEW l \in Lookups, Spawn(l) \/ Progress(l) PROVE FlightInv'
    BY <2>1, LookupsKeep
  <2>2. ASSUME NEW l \in Lookups, NEW c \in Clients, Panic(l, c) \/ Abort(l, c) PROVE FlightInv'
    BY <2>2, TaskFacts, DropKeeps DEF Panic, Abort
  <2>3. ASSUME NEW t \in Tasks, Run(t) PROVE FlightInv'
    BY <2>3, RunKeeps
  <2>4. ASSUME NEW t \in Pulls, PullTimeout(t) PROVE FlightInv'
    BY <2>4, DropKeeps DEF PullTimeout, Tasks
  <2>5. CASE (\E c \in Clients : Cleanup(c)) \/ (Tick /\ UNCHANGED lookups) \/ UNCHANGED vars
    <3>1. UNCHANGED <<sf, opt, allow, pc>>
      BY <2>5 DEF Cleanup, Collect, Sweep, Tick, vars, shared, tasks
    <3>2. DOMAIN pc' = Tasks
      BY <3>1 DEF FlightInv, KeysSound
    <3> QED
      BY <3>1, <3>2, MapKept
  <2> QED
    BY <2>1, <2>2, <2>3, <2>4, <2>5 DEF Next
<1> QED
  BY <1>1, FlightInit, PTL DEF Spec

\* A key of single_flight never has two leaders, however the queries for it are
\* interleaved, give up, are dropped or run their guard while the map is locked.
THEOREM SingleFlight == Spec => []OneLeader
<1>1. FlightInv => OneLeader
  BY DEF FlightInv
<1> QED
  BY <1>1, FlightInvariant, PTL

(***************************************************************************)
(* What the cache holds, and what a query takes from it.                   *)
(***************************************************************************)

\* Min is the smallest member of a set of expiry times; -1 is the least of them.
LEMMA MinIsLeast ==
    ASSUME NEW S, S \subseteq Nat \cup {-1}, S # {}
    PROVE  Min(S) \in S /\ \A x \in S : Min(S) <= x
<1> DEFINE R == {ss \in Nat \X Nat : ss[1] < ss[2]}
           T == {x + 1 : x \in S}
<1>1. IsWellFoundedOn(R, Nat)
  BY NatLessThanWellFounded DEF OpToRel
<1>2. \A x \in S : x \in Int /\ x + 1 \in Nat
  OBVIOUS
<1>3. T \subseteq Nat /\ T # {}
  BY <1>2
<1>4. \E x \in T : \A y \in T : ~(<<y, x>> \in R)
  <2> HIDE DEF R, T
  <2> QED
    BY <1>1, <1>3, WFMin
<1>5. PICK m \in S : \A y \in T : ~(<<y, m + 1>> \in R)
  BY <1>4
<1>6. \A y \in S : ~(y + 1 < m + 1)
  <2> SUFFICES ASSUME NEW y \in S, y + 1 < m + 1 PROVE FALSE
    OBVIOUS
  <2>1. y + 1 \in T /\ y + 1 \in Nat /\ m + 1 \in Nat
    BY <1>2
  <2>2. <<y + 1, m + 1>> \in R
    BY <2>1
  <2> QED
    BY <1>5, <2>1, <2>2
<1>7. \A y \in S : m <= y
  BY <1>2, <1>6
<1> QED
  BY <1>7 DEF Min

Recs == [expire : Nat \cup {-1}, good : BOOLEAN]

\* A task stores only records it was answered, and the cleanup works with a time
\* that has passed.
CacheInv ==
    /\ now \in Nat /\ cache \in [Clients -> [Families -> Recs]]
    /\ out \in [Tasks -> [Families -> Recs]] /\ todo \in [Tasks -> SUBSET Families]
    /\ swept \in [Clients -> Nat \cup {-1}] /\ \A c \in Clients : swept[c] <= now
    /\ \A t \in Tasks : pc[t] = "store" => todo[t] \subseteq Answered(t)

\* No record is one of the records, and what is asked or stored next is a family.
LEMMA CacheFacts ==
    ASSUME CacheInv
    PROVE  /\ NoRec \in Recs /\ NoAnswer \in [Families -> Recs] /\ ExpiredTtl \in Nat
           /\ \A t \in Tasks : todo[t] # {} => Min(todo[t]) \in todo[t] /\ Min(todo[t]) \in Families
           /\ \A t \in Tasks : Answered(t) \in SUBSET Families
<1>1. NoRec \in Recs
  BY DEF NoRec, Recs
<1>2. NoAnswer \in [Families -> Recs]
  BY <1>1 DEF NoAnswer
<1>3. ASSUME NEW t \in Tasks, todo[t] # {}
      PROVE  Min(todo[t]) \in todo[t] /\ Min(todo[t]) \in Families
  <2>1. todo[t] \subseteq Families /\ todo[t] \subseteq Nat \cup {-1}
    BY DnsCacheAssumption DEF CacheInv
  <2> QED
    BY <1>3, <2>1, MinIsLeast
<1> QED
  BY <1>1, <1>2, <1>3, DnsCacheAssumption DEF Answered

\* A step that leaves the cache alone, and after which whoever stores did so before
\* or stores what it was answered.
LEMMA CacheKept ==
    ASSUME CacheInv, UNCHANGED <<now, cache, swept>>,
           out' \in [Tasks -> [Families -> Recs]], todo' \in [Tasks -> SUBSET Families],
           \A t \in Tasks : pc'[t] = "store" =>
              out'[t] = out[t] /\ (todo'[t] = Answered(t) \/ (pc[t] = "store" /\ todo'[t] = todo[t]))
    PROVE  CacheInv'
<1>1. \A t \in Tasks : pc'[t] = "store" => todo'[t] \subseteq Answered(t)'
  BY DEF CacheInv, Answered
<1> QED
  BY <1>1 DEF CacheInv

\* The steps of a query or a refresh.
LEMMA CacheRun == ASSUME FlightInv, CacheInv, NEW t \in Tasks, Run(t) PROVE CacheInv'
<1>0. DOMAIN pc = Tasks /\ t[3] \in Clients /\ Pull(t[2], t[3]) \in Tasks
      /\ out \in [Tasks -> [Families -> Recs]] /\ todo \in [Tasks -> SUBSET Families] /\ now \in Nat
      /\ OptionOf(t) \in SUBSET Families
  BY TaskFacts DEF FlightInv, KeysSound, CacheInv
<1>1. CASE Find(t)
  <2>1. UNCHANGED <<now, cache, swept, todo>> /\ (out' = out \/ out' = [out EXCEPT ![t] = NoAnswer])
    BY <1>1 DEF Find, Return, shared
  <2>2. \A u \in Tasks : pc'[u] = "store" => pc[u] = "store" /\ u # t
    <3>1. \/ pc' = [pc EXCEPT ![t] = "done"] \/ pc' = [pc EXCEPT ![t] = "lock"]
          \/ pc' = [pc EXCEPT ![t] = "done", ![Pull(t[2], t[3])] = "lock"]
      BY <1>1 DEF Find, Return, Goto
    <3> QED
      BY <1>0, <3>1
  <2>3. out' \in [Tasks -> [Families -> Recs]] /\ \A u \in Tasks \ {t} : out'[u] = out[u]
    BY <1>0, <2>1, CacheFacts
  <2> QED
    BY <1>0, <2>1, <2>2, <2>3, CacheKept
<1>2. CASE Lock(t) \/ Elect(t) \/ Subscribe(t) \/ GiveUp(t) \/ DropGuard(t)
  <2>1. /\ UNCHANGED <<now, cache, swept, out>>
        /\ todo' = todo \/ todo' = [todo EXCEPT ![t] = OptionOf(t)]
        /\ \E l \in {"locked", "subscribe", "lead", "wait", "ask", "dropped"} : pc' = [pc EXCEPT ![t] = l]
    BY <1>2 DEF Lock, Elect, Subscribe, GiveUp, DropGuard, Goto, shared
  <2>2. /\ \A u \in Tasks : pc'[u] = "store" => pc[u] = "store" /\ todo'[u] = todo[u]
        /\ todo' \in [Tasks -> SUBSET Families]
    BY <1>0, <2>1
  <2> QED
    BY <1>0, <2>1, <2>2, CacheKept
<1>3. CASE SendQuery(t)
  <2> DEFINE f == Min(todo[t])
  <2>1. f \in Families
    BY <1>3, CacheFacts DEF SendQuery
  <2>2. PICK a \in Answers : out' = [out EXCEPT ![t][f] = a]
    BY <1>3, Zenon DEF SendQuery
  <2>3. /\ UNCHANGED <<now, cache, swept, pc>> /\ pc[t] \in {"lead", "ask"}
        /\ todo' = [todo EXCEPT ![t] = @ \ {f}]
    BY <1>3 DEF SendQuery, shared
  <2> HIDE DEF f
  <2>4. a \in Recs
    <3>1. CASE a # NoRec
      <4>1. PICK n \in Ttls, g \in BOOLEAN : a = [expire |-> now + n, good |-> g]
        BY <3>1 DEF Answers
      <4>2. now + n \in Nat
        BY <1>0, DnsCacheAssumption
      <4> QED
        BY <4>1, <4>2 DEF Recs
    <3> QED
      BY <3>1, CacheFacts
  <2>5. out' \in [Tasks -> [Families -> Recs]] /\ \A u \in Tasks \ {t} : out'[u] = out[u]
    BY <1>0, <2>1, <2>2, <2>4
  <2>6. todo' \in [Tasks -> SUBSET Families] /\ \A u \in Tasks \ {t} : todo'[u] = todo[u]
    BY <1>0, <2>3
  <2> QED
    BY <2>3, <2>5, <2>6, CacheKept
<1>4. CASE Broadcast(t)
  <2> DEFINE heard == {w \in Tasks : pc[w] = "wait" /\ lead[w] = t}
  <2>1. /\ UNCHANGED <<now, cache, swept, todo>>
        /\ pc' = [w \in Tasks |-> IF w = t THEN "release" ELSE IF w \in heard THEN "heard" ELSE pc[w]]
        /\ out' = [w \in Tasks |-> IF w \in heard THEN out[t] ELSE out[w]]
    BY <1>4 DEF Broadcast, shared
  <2>2. /\ out' \in [Tasks -> [Families -> Recs]]
        /\ \A u \in Tasks : pc'[u] = "store" => pc[u] = "store" /\ out'[u] = out[u]
    BY <1>0, <2>1
  <2> QED
    BY <1>0, <2>1, <2>2, CacheKept
<1>5. CASE Asked(t) \/ Release(t)
  <2>1. /\ UNCHANGED <<now, cache, swept, out>>
        /\ todo' = [todo EXCEPT ![t] = Answered(t)] /\ pc' = [pc EXCEPT ![t] = "store"]
    BY <1>5 DEF Asked, Release, Goto, shared
  <2>2. /\ todo' \in [Tasks -> SUBSET Families] /\ todo'[t] = Answered(t)
        /\ \A u \in Tasks \ {t} : todo'[u] = todo[u] /\ pc'[u] = pc[u]
    BY <1>0, <2>1, CacheFacts
  <2> QED
    BY <1>0, <2>1, <2>2, CacheKept
<1>6. CASE Store(t)
  <2>1. UNCHANGED <<now, swept>> /\ pc[t] = "store"
    BY <1>6 DEF Store
  <2>2. CASE todo[t] # {}
    <3> DEFINE f == Min(todo[t])
    <3>1. /\ todo' = [todo EXCEPT ![t] = @ \ {f}] /\ UNCHANGED <<pc, out>>
          /\ cache' = cache \/ cache' = [cache EXCEPT ![t[3]][f] = out[t][f]]
      BY <1>6, <2>2 DEF Store, ClientOf
    <3>2. f \in Families
      BY <2>2, CacheFacts
    <3> HIDE DEF f
    <3>3. /\ todo' \in [Tasks -> SUBSET Families] /\ \A u \in Tasks : todo'[u] \subseteq todo[u]
      BY <1>0, <3>1
    <3>4. cache' \in [Clients -> [Families -> Recs]]
      <4>1. out[t][f] \in Recs /\ cache \in [Clients -> [Families -> Recs]]
        BY <1>0, <3>2 DEF CacheInv
      <4>2. t[3] \in Clients /\ [cache[t[3]] EXCEPT ![f] = out[t][f]] \in [Families -> Recs]
        BY <1>0, <3>2, <4>1
      <4>3. CASE cache' = [cache EXCEPT ![t[3]][f] = out[t][f]]
        BY <4>1, <4>2, <4>3, Zenon
      <4> QED
        BY <3>1, <4>1, <4>3
    <3>5. \A u \in Tasks : pc'[u] = "store" => todo'[u] \subseteq Answered(u)'
      BY <3>1, <3>3 DEF CacheInv, Answered
    <3> QED
      BY <2>1, <3>1, <3>3, <3>4, <3>5 DEF CacheInv
  <2>3. CASE todo[t] = {}
    <3>1. /\ UNCHANGED <<cache, todo>> /\ pc' = [pc EXCEPT ![t] = "done"]
          /\ out' = [out EXCEPT ![t] = NoAnswer]
      BY <1>6, <2>3 DEF Store, Return
    <3>2. /\ out' \in [Tasks -> [Families -> Recs]]
          /\ \A u \in Tasks : pc'[u] = "store" => pc[u] = "store" /\ out'[u] = out[u]
      BY <1>0, <3>1, CacheFacts
    <3> QED
      BY <1>0, <2>1, <3>1, <3>2, CacheKept
  <2> QED
    BY <2>2, <2>3
<1> QED
  BY <1>1, <1>2, <1>3, <1>4, <1>5, <1>6 DEF Run, Fetch

\* A dropped task stores nothing any more.
LEMMA CacheDrop == ASSUME FlightInv, CacheInv, NEW t \in Tasks, Drop(t) PROVE CacheInv'
<1>1. /\ DOMAIN pc = Tasks /\ out \in [Tasks -> [Families -> Recs]] /\ todo \in [Tasks -> SUBSET Families]
  BY DEF FlightInv, KeysSound, CacheInv
<1>2. /\ UNCHANGED <<now, cache, swept>> /\ todo' = [todo EXCEPT ![t] = {}]
      /\ out' = [out EXCEPT ![t] = NoAnswer]
      /\ pc' = [pc EXCEPT ![t] = IF pc[t] = "lead" THEN "unguard" ELSE "dropped"]
  BY DEF Drop, Goto, shared
<1>3. /\ out' \in [Tasks -> [Families -> Recs]] /\ todo' \in [Tasks -> SUBSET Families]
      /\ \A u \in Tasks : pc'[u] = "store" => pc[u] = "store" /\ out'[u] = out[u] /\ todo'[u] = todo[u]
  BY <1>1, <1>2, CacheFacts
<1> QED
  BY <1>2, <1>3, CacheKept

\* The cleanup, and time.
LEMMA CacheCleanup ==
    ASSUME FlightInv, CacheInv, (\E c \in Clients : Cleanup(c)) \/ Tick
    PROVE  CacheInv'
<1>0. /\ now \in Nat /\ swept \in [Clients -> Nat \cup {-1}] /\ \A c \in Clients : swept[c] <= now
      /\ cache \in [Clients -> [Families -> Recs]]
  BY DEF CacheInv
<1>1. ASSUME UNCHANGED tasks, now' \in Nat, cache' \in [Clients -> [Families -> Recs]],
             swept' \in [Clients -> Nat \cup {-1}], \A c \in Clients : swept'[c] <= now'
      PROVE  CacheInv'
  BY <1>1 DEF CacheInv, Answered, tasks
<1>2. ASSUME NEW c \in Clients, Collect(c) PROVE CacheInv'
  <2>1. UNCHANGED <<tasks, now, cache>> /\ swept' = [swept EXCEPT ![c] = now]
    BY <1>2 DEF Collect
  <2>2. swept' \in [Clients -> Nat \cup {-1}] /\ \A d \in Clients : swept'[d] <= now
    BY <1>0, <2>1
  <2> QED
    BY <1>0, <1>1, <2>1, <2>2
<1>3. ASSUME NEW c \in Clients, Sweep(c) PROVE CacheInv'
  <2>1. /\ UNCHANGED <<tasks, now>> /\ swept' = [swept EXCEPT ![c] = -1]
        /\ cache' = [cache EXCEPT ![c] =
                        [f \in Families |-> IF Expired(@[f], swept[c]) THEN NoRec ELSE @[f]]]
    BY <1>3 DEF Sweep
  <2>2. swept' \in [Clients -> Nat \cup {-1}] /\ \A d \in Clients : swept'[d] <= now
    BY <1>0, <2>1
  <2>3. cache' \in [Clients -> [Families -> Recs]]
    BY <1>0, <2>1, CacheFacts
  <2> QED
    BY <1>0, <1>1, <2>1, <2>2, <2>3
<1>4. CASE Tick
  BY <1>0, <1>1, <1>4 DEF Tick
<1> QED
  BY <1>2, <1>3, <1>4 DEF Cleanup

\* CacheInv holds in every state.
LEMMA CacheInvariant == Spec => []CacheInv
<1>1. Init => CacheInv
  <2> SUFFICES ASSUME Init PROVE CacheInv
    OBVIOUS
  <2>1. NoRec \in Recs
    BY DEF NoRec, Recs
  <2> QED
    BY <2>1 DEF Init, CacheInit, CacheInv, NoAnswer
<1>2. FlightInv /\ CacheInv /\ [Next]_vars => CacheInv'
  <2> SUFFICES ASSUME FlightInv, CacheInv, [Next]_vars PROVE CacheInv'
    OBVIOUS
  <2>1. ASSUME NEW l \in Lookups, Spawn(l) \/ Progress(l) PROVE CacheInv'
    <3>1. UNCHANGED <<now, cache, swept, out, todo>>
      BY <2>1 DEF Spawn, Progress, Drain, Ask, Join, Reply, Advance, shared, tasks
    <3>2. \A t \in Tasks : pc'[t] \in {pc[t], "find"}
      BY <2>1, StartOnly
    <3> QED
      BY <3>1, <3>2, CacheKept DEF CacheInv
  <2>2. ASSUME NEW l \in Lookups, NEW c \in Clients, Panic(l, c) \/ Abort(l, c) PROVE CacheInv'
    BY <2>2, TaskFacts, CacheDrop DEF Panic, Abort
  <2>3. ASSUME NEW t \in Tasks, Run(t) PROVE CacheInv'
    BY <2>3, CacheRun
  <2>4. ASSUME NEW t \in Pulls, PullTimeout(t) PROVE CacheInv'
    BY <2>4, CacheDrop DEF PullTimeout, Tasks
  <2>5. CASE (\E c \in Clients : Cleanup(c)) \/ Tick
    BY <2>5, CacheCleanup
  <2>6. CASE UNCHANGED vars
    BY <2>6 DEF vars, shared, tasks, CacheInv, Answered
  <2> QED
    BY <2>1, <2>2, <2>3, <2>4, <2>5, <2>6 DEF Next
<1> QED
  BY <1>1, <1>2, FlightInvariant, PTL DEF Spec

\* The time to live of a merged record is that of the family that expires first.
LEMMA TtlIsLeast ==
    ASSUME CacheInv, NEW c \in Clients, NEW o \in SUBSET Families, NEW f \in o
    PROVE  /\ cache[c][f].expire \in Int /\ now \in Int /\ ExpiredTtl \in Int
           /\ Ttl(o, cache[c]) \in Int /\ Ttl(o, cache[c]) <= cache[c][f].expire - now
<1> DEFINE S == {cache[c][g].expire : g \in o}
<1>1. \A g \in o : cache[c][g].expire \in Nat \cup {-1}
  BY DEF CacheInv, Recs
<1>2. S \subseteq Nat \cup {-1} /\ cache[c][f].expire \in S
  BY <1>1
<1>3. Min(S) \in S /\ Min(S) <= cache[c][f].expire
  <2> HIDE DEF S
  <2> QED
    BY <1>2, MinIsLeast
<1>4. now \in Nat /\ ExpiredTtl \in Nat /\ Ttl(o, cache[c]) = Min(S) - now
  BY DnsCacheAssumption DEF CacheInv, Ttl
<1> HIDE DEF S
<1>5. Min(S) \in Nat \cup {-1} /\ cache[c][f].expire \in Nat \cup {-1}
  BY <1>1, <1>2, <1>3, Zenon
<1> QED
  BY <1>3, <1>4, <1>5

\* Only query_ip ends a query that has just started.
LEMMA FindOnly ==
    ASSUME FlightInv, [Next]_vars, NEW t \in Queries, pc[t] = "find", pc'[t] = "done"
    PROVE  Find(t)
<1>0. DOMAIN pc = Tasks /\ t \in Tasks /\ t \notin Pulls
  <2>1. t[1] = "query" /\ \A u \in Pulls : u[1] = "pull"
    BY DEF Queries, Pulls, Query, Pull
  <2> QED
    BY <2>1 DEF FlightInv, KeysSound, Tasks
<1>1. ASSUME NEW u \in Tasks, Run(u) PROVE Find(t)
  <2>1. CASE Find(u)
    <3>1. Pull(u[2], u[3]) \in Pulls
      BY TaskFacts DEF Pulls
    <3>2. \/ pc' = [pc EXCEPT ![u] = "done"] \/ pc' = [pc EXCEPT ![u] = "lock"]
          \/ pc' = [pc EXCEPT ![u] = "done", ![Pull(u[2], u[3])] = "lock"]
      BY <2>1 DEF Find, Return, Goto
    <3>3. u = t
      BY <1>0, <3>1, <3>2
    <3> QED
      BY <2>1, <3>3
  <2>2. CASE Broadcast(u)
    BY <1>0, <2>2 DEF Broadcast
  <2>3. CASE Store(u)
    <3>1. pc[u] = "store" /\ (pc' = pc \/ pc' = [pc EXCEPT ![u] = "done"])
      BY <2>3 DEF Store, Return
    <3> QED
      BY <1>0, <3>1
  <2>4. CASE \/ Lock(u) \/ Elect(u) \/ Subscribe(u) \/ GiveUp(u) \/ SendQuery(u) \/ Asked(u)
             \/ Release(u) \/ DropGuard(u)
    <3>1. pc' = pc \/ \E l \in {"locked", "subscribe", "lead", "wait", "ask", "store", "dropped"} :
                         pc' = [pc EXCEPT ![u] = l]
      BY <2>4 DEF Lock, Elect, Subscribe, GiveUp, SendQuery, Asked, Release, DropGuard, Goto
    <3> QED
      BY <1>0, <3>1
  <2> QED
    BY <1>1, <2>1, <2>2, <2>3, <2>4 DEF Run, Fetch
<1>2. ASSUME NEW u \in Tasks, Drop(u) PROVE FALSE
  <2>1. pc' = [pc EXCEPT ![u] = IF pc[u] = "lead" THEN "unguard" ELSE "dropped"]
    BY <1>2 DEF Drop, Goto
  <2> QED
    BY <1>0, <2>1
<1>3. ASSUME NEW l \in Lookups, Spawn(l) \/ Progress(l) PROVE FALSE
  BY <1>0, <1>3, StartOnly
<1>4. CASE (\E c \in Clients : Cleanup(c)) \/ Tick \/ UNCHANGED vars
  BY <1>4 DEF Cleanup, Collect, Sweep, Tick, vars, tasks
<1>5. ASSUME NEW l \in Lookups, NEW c \in Clients, Panic(l, c) \/ Abort(l, c) PROVE FALSE
  BY <1>2, <1>5, TaskFacts DEF Panic, Abort
<1>6. ASSUME NEW u \in Pulls, PullTimeout(u) PROVE FALSE
  BY <1>2, <1>6 DEF PullTimeout, Tasks
<1> QED
  BY <1>1, <1>3, <1>4, <1>5, <1>6 DEF Next

\* What a query takes from the cache has not expired, or is served because every
\* family is good and has expired for less than serve_expired_ttl.
THEOREM CacheServes == Spec => CacheAnswers
<1>1. ASSUME FlightInv, CacheInv, [Next]_vars,
             NEW t \in Queries, pc[t] = "find", pc'[t] = "done", NEW f \in OptionOf(t)
      PROVE  \/ cache[ClientOf(t)][f].expire > now
             \/ /\ \A g \in OptionOf(t) : cache[ClientOf(t)][g].good
                /\ \/ caching = "endless"
                   \/ caching = "stale" /\ now - cache[ClientOf(t)][f].expire < ExpiredTtl
  <2> DEFINE o == OptionOf(t)
             c == ClientOf(t)
  <2>1. t \in Tasks /\ c \in Clients /\ o \in SUBSET Families
    BY <1>1, TaskFacts DEF Tasks, ClientOf, FlightInv, KeysSound
  <2>2. Find(t)
    BY <1>1, FindOnly
  <2>3. f \in o /\ DOMAIN pc = Tasks
    BY <1>1 DEF FlightInv, KeysSound
  <2>4. Ttl(o, cache[c]) > 0 \/ Servable(o, cache[c])
    <3>1. CASE Goto(t, "lock")
      BY <1>1, <2>1, <2>3, <3>1 DEF Goto
    <3> QED
      BY <2>2, <2>3, <3>1 DEF Find
  <2> HIDE DEF o, c
  <2>5. /\ cache[c][f].expire \in Int /\ now \in Int /\ ExpiredTtl \in Int
        /\ Ttl(o, cache[c]) \in Int /\ Ttl(o, cache[c]) <= cache[c][f].expire - now
    BY <1>1, <2>1, <2>3, TtlIsLeast
  <2>6. CASE Ttl(o, cache[c]) > 0
    BY <2>5, <2>6 DEF o, c
  <2>7. CASE Servable(o, cache[c])
    BY <2>5, <2>7 DEF Servable, o, c
  <2> QED
    BY <2>4, <2>6, <2>7
<1>2. FlightInv /\ CacheInv /\ [Next]_vars =>
        [\A t \in Queries : pc[t] = "find" /\ pc'[t] = "done" =>
           LET r == cache[ClientOf(t)] IN
           \A f \in OptionOf(t) :
              \/ r[f].expire > now
              \/ /\ \A g \in OptionOf(t) : r[g].good
                 /\ \/ caching = "endless"
                    \/ caching = "stale" /\ now - r[f].expire < ExpiredTtl]_vars
  BY <1>1
<1> QED
  BY <1>2, FlightInvariant, CacheInvariant, PTL DEF Spec, CacheAnswers

\* What has expired for longer than effective_now allows answers no query.
LEMMA ExpiredUnanswered ==
    ASSUME CacheInv, NEW c \in Clients, NEW f \in Families, NEW at \in Int, at <= now,
           Expired(cache[c][f], at), caching # "endless", NEW o \in Options, f \in o
    PROVE  ~Answerable(o, cache[c])
<1>1. o \in SUBSET Families
  BY DEF Options
<1>2. /\ cache[c][f].expire \in Int /\ now \in Int /\ ExpiredTtl \in Int
      /\ Ttl(o, cache[c]) \in Int /\ Ttl(o, cache[c]) <= cache[c][f].expire - now
  BY <1>1, TtlIsLeast
<1>3. ExpiredTtl >= 0
  BY DnsCacheAssumption
<1>4. ~(Ttl(o, cache[c]) > 0)
  BY <1>2, <1>3 DEF Expired
<1>5. caching = "stale" => ~(-ExpiredTtl < Ttl(o, cache[c]))
  BY <1>2, <1>3 DEF Expired
<1> QED
  BY <1>4, <1>5 DEF Answerable, Servable

\* A record that leaves the cache had expired, also if it was renewed between the two
\* passes of the cleanup, and no query could have been answered with it any more,
\* unless stale records are served without a limit.
THEOREM CleanupKeeps == Spec => CleanupSafe
<1>1. ASSUME FlightInv, CacheInv, [Next]_vars, NEW c \in Clients, NEW f \in Families,
             cache[c][f] # NoRec, cache'[c][f] = NoRec
      PROVE  /\ cache[c][f].expire < now
             /\ caching # "endless" => \A o \in Options : f \in o => ~Answerable(o, cache[c])
  <2>0. /\ cache \in [Clients -> [Families -> Recs]] /\ now \in Nat /\ swept \in [Clients -> Nat \cup {-1}]
        /\ \A d \in Clients : swept[d] <= now
    BY <1>1 DEF CacheInv
  <2>1. CASE \E d \in Clients : Sweep(d)
    <3>1. PICK d \in Clients : Sweep(d)
      BY <2>1
    <3>2. cache' = [cache EXCEPT ![d] =
                      [g \in Families |-> IF Expired(cache[d][g], swept[d]) THEN NoRec ELSE cache[d][g]]]
      BY <3>1 DEF Sweep
    <3>3. c = d
      BY <1>1, <2>0, <3>2
    <3>4. Expired(cache[c][f], swept[c])
      BY <1>1, <2>0, <3>2, <3>3
    <3>5. cache[c][f].expire \in Int /\ swept[c] \in Int /\ swept[c] <= now /\ ExpiredTtl \in Nat
      BY <1>1, <2>0, DnsCacheAssumption DEF Recs
    <3>6. cache[c][f].expire < now
      BY <2>0, <3>4, <3>5 DEF Expired
    <3>7. caching # "endless" => \A o \in Options : f \in o => ~Answerable(o, cache[c])
      BY <1>1, <3>4, <3>5, ExpiredUnanswered
    <3> QED
      BY <3>6, <3>7
  <2>2. CASE \E t \in Tasks : Store(t)
    <3>1. PICK t \in Tasks : Store(t)
      BY <2>2
    <3>2. pc[t] = "store" /\ todo[t] # {}
          /\ cache' = [cache EXCEPT ![t[3]][Min(todo[t])] = out[t][Min(todo[t])]]
      BY <1>1, <3>1 DEF Store, ClientOf
    <3>3. Min(todo[t]) \in todo[t] /\ todo[t] \subseteq Answered(t)
      BY <1>1, <3>2, CacheFacts DEF CacheInv
    <3>4. out[t][Min(todo[t])] # NoRec
      BY <3>3 DEF Answered
    <3> QED
      BY <1>1, <2>0, <3>2, <3>4
  <2>3. CASE UNCHANGED cache
    BY <1>1, <2>3
  <2>4. (\E d \in Clients : Sweep(d)) \/ (\E t \in Tasks : Store(t)) \/ UNCHANGED cache
    <3>1. ASSUME NEW l \in Lookups, Spawn(l) \/ Progress(l) PROVE UNCHANGED cache
      BY <3>1 DEF Spawn, Progress, Drain, Ask, Join, Reply, Advance, shared
    <3>2. ASSUME NEW l \in Lookups, NEW d \in Clients, Panic(l, d) \/ Abort(l, d) PROVE UNCHANGED cache
      BY <3>2 DEF Panic, Abort, Drop, shared
    <3>3. ASSUME NEW t \in Tasks, Run(t) PROVE Store(t) \/ UNCHANGED cache
      BY <3>3 DEF Run, Fetch, Find, Lock, Elect, Subscribe, GiveUp, SendQuery, Broadcast, Asked,
                  Release, DropGuard, shared
    <3>4. ASSUME NEW t \in Pulls, PullTimeout(t) PROVE UNCHANGED cache
      BY <3>4 DEF PullTimeout, Drop, shared
    <3>5. CASE Tick \/ UNCHANGED vars \/ \E d \in Clients : Collect(d)
      BY <3>5 DEF Tick, vars, shared, Collect
    <3> QED
      BY <1>1, <3>1, <3>2, <3>3, <3>4, <3>5 DEF Next, Cleanup
  <2> QED
    BY <2>1, <2>2, <2>3, <2>4
<1>2. FlightInv /\ CacheInv /\ [Next]_vars =>
        [\A c \in Clients, f \in Families :
           cache[c][f] # NoRec /\ cache'[c][f] = NoRec =>
              /\ cache[c][f].expire < now
              /\ caching # "endless" => \A o \in Options : f \in o => ~Answerable(o, cache[c])]_vars
  BY <1>1
<1> QED
  BY <1>2, FlightInvariant, CacheInvariant, PTL DEF Spec, CleanupSafe

(***************************************************************************)
(* What a lookup returns.                                                  *)
(***************************************************************************)

\* The client has no answer for the lookup, and will have none.
Over(l, c) == c \in fake \/ pc[Query(l, c)] = "dropped" \/ res[Query(l, c)] = "err"

LookupTypes ==
    /\ parallel \in BOOLEAN /\ DOMAIN pc = Tasks /\ res \in [Tasks -> {"none", "ok", "err"}]
    /\ outcome \in [Lookups -> [Clients -> {"pending", "ok", "err"}]]
    /\ next \in [Lookups -> 1..Failed] /\ answer \in [Lookups -> 0..Failed]

\* A query has a result when it is done, and the outcomes agree with the results.
ResultsSound ==
    /\ \A t \in Queries : res[t] # "none" <=> pc[t] = "done"
    /\ \A l \in Lookups, c \in Clients :
          /\ outcome[l][c] = "ok" => parallel /\ res[Query(l, c)] = "ok"
          /\ outcome[l][c] = "err" => Over(l, c)

\* The groups that next_group has passed have failed.
GroupsPassed ==
    \A l \in Lookups : answer[l] = NotYet =>
       \A c \in Clients : c < next[l] => outcome[l][c] = "err"

\* serial_query asks a client after those before it have failed.
InTurn ==
    ~parallel => \A l \in Lookups : \A c, d \in Clients :
       d < c /\ pc[Query(l, c)] # "idle" => d \in fake \/ outcome[l][d] = "err"

\* The inductive invariant of the lookups.
LookupInv == LookupTypes /\ ResultsSound /\ GroupsPassed /\ InTurn /\ Verdict

\* Queries are told apart from each other and from refreshes.
LEMMA QueryFacts ==
    /\ \A l \in Lookups, c \in Clients : Query(l, c) \in Queries
    /\ Queries \subseteq Tasks /\ \A t \in Queries : t \notin Pulls
    /\ \A l, m, c, d : Query(l, c) = Query(m, d) => l = m /\ c = d
<1>1. \A l \in Lookups, c \in Clients : Query(l, c) \in Queries
  BY DEF Queries
<1>2. Queries \subseteq Tasks /\ \A t \in Queries : t \notin Pulls
  <2>1. (\A t \in Queries : t[1] = "query") /\ \A t \in Pulls : t[1] = "pull"
    BY DEF Queries, Pulls, Query, Pull
  <2> QED
    BY <2>1 DEF Tasks
<1>3. \A l, m, c, d : Query(l, c) = Query(m, d) => l = m /\ c = d
  BY DEF Query
<1> QED
  BY <1>1, <1>2, <1>3

\* A step of the tasks that the lookups have no part in.
TaskStep ==
    \/ \E l \in Lookups, c \in Clients : Panic(l, c) \/ Abort(l, c)
    \/ \E t \in Tasks : Run(t)
    \/ \E t \in Pulls : PullTimeout(t)
    \/ \E c \in Clients : Cleanup(c)
    \/ Tick /\ UNCHANGED lookups
    \/ UNCHANGED vars

\* Such a step leaves alone what is over, gives a result only to what is done, and
\* starts no query.
LEMMA ResultsKept ==
    ASSUME LookupInv, TaskStep
    PROVE  /\ UNCHANGED lookups /\ DOMAIN pc' = Tasks /\ res' \in [Tasks -> {"none", "ok", "err"}]
           /\ \A t \in Queries :
                 /\ pc[t] \in {"done", "dropped"} => pc'[t] = pc[t] /\ res'[t] = res[t]
                 /\ res'[t] # "none" <=> pc'[t] = "done"
                 /\ pc[t] = "idle" => pc'[t] = "idle"
<1> DEFINE Goal ==
             /\ UNCHANGED lookups /\ DOMAIN pc' = Tasks /\ res' \in [Tasks -> {"none", "ok", "err"}]
             /\ \A t \in Queries :
                   /\ pc[t] \in {"done", "dropped"} => pc'[t] = pc[t] /\ res'[t] = res[t]
                   /\ res'[t] # "none" <=> pc'[t] = "done"
                   /\ pc[t] = "idle" => pc'[t] = "idle"
<1> SUFFICES Goal
  OBVIOUS
<1>0. /\ DOMAIN pc = Tasks /\ res \in [Tasks -> {"none", "ok", "err"}]
      /\ \A t \in Queries : res[t] # "none" <=> pc[t] = "done"
  BY DEF LookupInv, LookupTypes, ResultsSound
<1>1. ASSUME UNCHANGED <<lookups, res>>, DOMAIN pc' = Tasks,
             \A t \in Queries : pc'[t] = pc[t] \/ (pc[t] \notin {"done", "dropped", "idle"} /\ pc'[t] # "done")
      PROVE  Goal
  BY <1>0, <1>1
<1>2. ASSUME NEW t \in Tasks, NEW l \in {"locked", "subscribe", "lead", "wait", "ask", "store", "release",
                                         "dropped", "unguard", "lock"},
             UNCHANGED <<lookups, res>>, pc[t] \notin {"done", "dropped", "idle"},
             pc' = [pc EXCEPT ![t] = l]
      PROVE  Goal
  BY <1>0, <1>1, <1>2, QueryFacts
<1>3. ASSUME NEW t \in Tasks, UNCHANGED lookups, pc[t] \notin {"done", "dropped", "idle"},
             NEW r \in {"ok", "err"}, res' = [res EXCEPT ![t] = r],
             \/ pc' = [pc EXCEPT ![t] = "done"]
             \/ pc' = [pc EXCEPT ![t] = "done", ![Pull(t[2], t[3])] = "lock"]
      PROVE  Goal
  <2>1. Pull(t[2], t[3]) \in Pulls /\ Pull(t[2], t[3]) \in Tasks
    BY TaskFacts DEF Pulls
  <2>2. DOMAIN pc' = Tasks /\ \A u \in Queries : pc'[u] = IF u = t THEN "done" ELSE pc[u]
    BY <1>0, <1>3, <2>1, QueryFacts
  <2>3. /\ res' \in [Tasks -> {"none", "ok", "err"}]
        /\ \A u \in Queries : IF u = t THEN res'[u] # "none" ELSE res'[u] = res[u]
    BY <1>0, <1>3, QueryFacts
  <2> QED
    BY <1>0, <1>3, <2>2, <2>3
<1>4. ASSUME NEW t \in Tasks, Drop(t), UNCHANGED lookups PROVE Goal
  <2>1. /\ pc' = [pc EXCEPT ![t] = IF pc[t] = "lead" THEN "unguard" ELSE "dropped"] /\ UNCHANGED res
        /\ pc[t] \notin {"done", "dropped", "idle"}
    BY <1>4 DEF Drop, Goto
  <2> HIDE DEF Goal
  <2> QED
    BY <1>2, <1>4, <2>1
<1>5. ASSUME NEW t \in Tasks, Run(t) PROVE Goal
  <2>0. UNCHANGED lookups
    BY <1>5 DEF Run
  <2>1. CASE Find(t)
    <3>1. /\ pc[t] = "find"
          /\ \/ pc' = [pc EXCEPT ![t] = "lock"] /\ UNCHANGED res
             \/ \E r \in {"ok", "err"} :
                   /\ res' = [res EXCEPT ![t] = r]
                   /\ \/ pc' = [pc EXCEPT ![t] = "done"]
                      \/ pc' = [pc EXCEPT ![t] = "done", ![Pull(t[2], t[3])] = "lock"]
      BY <2>1 DEF Find, Return, Goto
    <3> HIDE DEF Goal
    <3> QED
      BY <1>2, <1>3, <2>0, <3>1
  <2>2. CASE \/ Lock(t) \/ Elect(t) \/ Subscribe(t) \/ GiveUp(t) \/ Asked(t) \/ Release(t) \/ DropGuard(t)
    <3>1. /\ pc[t] \notin {"done", "dropped", "idle"} /\ UNCHANGED res
          /\ \E l \in {"locked", "subscribe", "lead", "wait", "ask", "store", "dropped"} :
                pc' = [pc EXCEPT ![t] = l]
      BY <2>2 DEF Lock, Elect, Subscribe, GiveUp, Asked, Release, DropGuard, Goto
    <3> HIDE DEF Goal
    <3> QED
      BY <1>2, <2>0, <3>1
  <2>3. CASE SendQuery(t)
    <3>1. UNCHANGED <<pc, res>>
      BY <2>3 DEF SendQuery
    <3> QED
      BY <1>0, <1>1, <2>0, <3>1
  <2>4. CASE Broadcast(t)
    <3>1. UNCHANGED res /\ DOMAIN pc' = Tasks
      BY <2>4 DEF Broadcast
    <3>2. \A u \in Queries : pc'[u] = pc[u] \/ (pc[u] \notin {"done", "dropped", "idle"} /\ pc'[u] # "done")
      BY <2>4, QueryFacts DEF Broadcast
    <3> HIDE DEF Goal
    <3> QED
      BY <1>1, <2>0, <3>1, <3>2
  <2>5. CASE Store(t)
    <3>1. CASE UNCHANGED <<pc, res>>
      BY <1>0, <1>1, <2>0, <3>1
    <3>2. CASE Return(t, IF Good(OptionOf(t), out[t]) THEN "ok" ELSE "err")
      <4>1. /\ pc[t] = "store" /\ pc' = [pc EXCEPT ![t] = "done"]
            /\ \E r \in {"ok", "err"} : res' = [res EXCEPT ![t] = r]
        BY <2>5, <3>2 DEF Store, Return
      <4> HIDE DEF Goal
      <4> QED
        BY <1>3, <2>0, <4>1
    <3> QED
      BY <2>5, <3>1, <3>2 DEF Store
  <2> QED
    BY <1>5, <2>1, <2>2, <2>3, <2>4, <2>5 DEF Run, Fetch
<1>6. CASE \/ \E c \in Clients : Cleanup(c)
           \/ Tick /\ UNCHANGED lookups
           \/ UNCHANGED vars
  <2>1. UNCHANGED <<lookups, pc, res>>
    BY <1>6 DEF Cleanup, Collect, Sweep, Tick, vars, tasks
  <2> QED
    BY <1>0, <1>1, <2>1
<1>7. ASSUME NEW l \in Lookups, NEW c \in Clients, Panic(l, c) \/ Abort(l, c) PROVE Goal
  <2> HIDE DEF Goal
  <2> QED
    BY <1>4, <1>7, TaskFacts DEF Panic, Abort
<1>8. ASSUME NEW t \in Pulls, PullTimeout(t) PROVE Goal
  <2> HIDE DEF Goal
  <2> QED
    BY <1>4, <1>8 DEF PullTimeout, Tasks
<1> HIDE DEF Goal
<1> QED
  BY <1>5, <1>6, <1>7, <1>8 DEF TaskStep

\* What is over stays over, and a result stays.
LEMMA LookupsRest == ASSUME LookupInv, TaskStep PROVE LookupInv'
<1>0. /\ UNCHANGED <<parallel, policy, fake, outcome, next, answer>>
      /\ DOMAIN pc' = Tasks /\ res' \in [Tasks -> {"none", "ok", "err"}]
      /\ \A t \in Queries :
            /\ pc[t] \in {"done", "dropped"} => pc'[t] = pc[t] /\ res'[t] = res[t]
            /\ res'[t] # "none" <=> pc'[t] = "done"
            /\ pc[t] = "idle" => pc'[t] = "idle"
  BY ResultsKept DEF lookups
<1>1. \A l \in Lookups, c \in Clients :
         /\ res[Query(l, c)] \in {"ok", "err"} => res'[Query(l, c)] = res[Query(l, c)]
         /\ pc[Query(l, c)] = "dropped" => pc'[Query(l, c)] = "dropped"
  BY <1>0, QueryFacts DEF LookupInv, ResultsSound
<1>2. \A l \in Lookups, c \in Clients : Over(l, c) => Over(l, c)'
  BY <1>0, <1>1 DEF Over
<1>3. LookupTypes'
  BY <1>0 DEF LookupInv, LookupTypes
<1>4. ResultsSound'
  BY <1>0, <1>1, <1>2 DEF LookupInv, ResultsSound
<1>5. GroupsPassed'
  BY <1>0 DEF LookupInv, GroupsPassed
<1>6. InTurn'
  BY <1>0, QueryFacts DEF LookupInv, InTurn
<1>7. Verdict'
  <2>1. \A c : Group(c)' = Group(c)
    BY <1>0 DEF Group
  <2> SUFFICES ASSUME NEW l \in Lookups, answer[l] # NotYet
               PROVE  /\ answer[l] \in Clients => res'[Query(l, answer[l])] = "ok"
                      /\ \A c \in Clients : c < answer[l] => Over(l, c)' \/ answer[l] \in Group(c)
    BY <1>0, <2>1 DEF Verdict, Over
  <2>2. answer[l] \in Clients => res'[Query(l, answer[l])] = "ok"
    BY <1>1 DEF LookupInv, Verdict
  <2>3. \A c \in Clients : c < answer[l] => Over(l, c) \/ answer[l] \in Group(c)
    BY DEF LookupInv, Verdict, Over
  <2> QED
    BY <1>2, <2>2, <2>3
<1> QED
  BY <1>3, <1>4, <1>5, <1>6, <1>7 DEF LookupInv

\* advance_groups passes only clients that have failed and clients of the group in
\* which it finds a success; where it waits, its group has no success yet.
LEMMA StopFacts ==
    ASSUME NEW out1, NEW n \in 1..Failed, NEW k, k = Stop(out1, n)
    PROVE  /\ k \in 1..Failed
           /\ \A c \in Clients : n <= c /\ c < k =>
                 out1[c] = "err" \/ (k \in Clients /\ out1[k] = "ok" /\ k \in Group(c))
           /\ k \in Clients /\ out1[k] # "ok" =>
                 \E d \in Group(k) : out1[d] # "err" /\ ~(n <= d /\ out1[d] = "ok")
<1> DEFINE open == {c \in n..MaxClients : \E d \in Group(c) : out1[d] # "err"}
           ok   == {c \in n..MaxClients : out1[c] = "ok"}
           m    == Min(open)
<1>0. MaxClients \in Nat /\ n \in Nat \ {0} /\ Clients = 1..MaxClients /\ Failed = MaxClients + 1
  BY DnsCacheAssumption DEF Clients, Failed
<1>1. \A c \in Clients : c \in Group(c) /\ Group(c) \subseteq Clients
  BY <1>0 DEF Group
<1>2. \A c \in Clients : n <= c /\ c \notin open => out1[c] = "err"
  BY <1>0, <1>1
<1>3. CASE open = {}
  <2>1. k = MaxClients + 1
    BY <1>3 DEF Stop
  <2> HIDE DEF open
  <2> QED
    BY <1>0, <1>2, <1>3, <2>1
<1>4. CASE open # {}
  <2>1. m \in open /\ \A x \in open : m <= x
    <3>1. open \subseteq Nat \cup {-1}
      BY <1>0
    <3> HIDE DEF open
    <3> QED
      BY <1>4, <3>1, MinIsLeast
  <2>2. k = IF ok \cap Group(m) # {} THEN Min(ok \cap Group(m)) ELSE m
    BY <1>4 DEF Stop
  <2>3. m \in n..MaxClients /\ m \in Clients
    BY <1>0, <2>1
  <2>4. \E d \in Group(m) : out1[d] # "err"
    BY <2>1
  <2>5. open \subseteq n..MaxClients
    OBVIOUS
  <2>6. ok \cap Group(m) \subseteq Nat \cup {-1} /\ \A c : c \in ok <=> c \in n..MaxClients /\ out1[c] = "ok"
    BY <1>0
  <2> HIDE DEF open, m, ok
  <2>7. \A c \in Clients : n <= c /\ c < m => out1[c] = "err"
    BY <1>0, <1>2, <2>1, <2>3, <2>5
  <2>8. CASE ok \cap Group(m) # {}
    <3>1. k \in ok /\ k \in Group(m)
      BY <2>2, <2>6, <2>8, MinIsLeast
    <3>2. k \in Clients /\ out1[k] = "ok" /\ k \in Nat
      BY <1>0, <2>6, <3>1
    <3>3. ASSUME NEW c \in Clients, m <= c, c < k PROVE k \in Group(c)
      <4>1. \A e \in Clients : m <= e /\ e <= k => policy[e] = policy[m]
        BY <3>1 DEF Group
      <4>2. policy[c] = policy[m]
        BY <1>0, <2>3, <3>2, <3>3, <4>1
      <4>3. \A e \in Clients : c <= e /\ e <= k => policy[e] = policy[c]
        BY <1>0, <2>3, <3>2, <3>3, <4>1, <4>2
      <4> QED
        BY <1>0, <3>2, <3>3, <4>3 DEF Group
    <3>4. \A c \in Clients : n <= c /\ c < k => out1[c] = "err" \/ k \in Group(c)
      BY <1>0, <2>3, <2>7, <3>2, <3>3
    <3> QED
      BY <1>0, <3>2, <3>4
  <2>9. CASE ok \cap Group(m) = {}
    <3>1. k = m /\ out1[m] # "ok"
      BY <1>1, <2>2, <2>3, <2>6, <2>9
    <3>2. \A d \in Group(m) : ~(n <= d /\ out1[d] = "ok")
      BY <1>0, <1>1, <2>3, <2>6, <2>9
    <3> QED
      BY <1>0, <2>3, <2>4, <2>7, <3>1, <3>2
  <2> QED
    BY <2>8, <2>9
<1> QED
  BY <1>3, <1>4

\* advance_groups returns only the success that counts, fails only when all have,
\* and moves next_group past failures only.
LEMMA AdvanceKeeps ==
    ASSUME LookupInv, NEW l \in Lookups, answer[l] = NotYet, parallel,
           NEW out1 \in [Clients -> {"pending", "ok", "err"}], NEW otherwise,
           \A c \in Clients : outcome[l][c] = "err" => out1[c] = "err",
           \A c \in Clients : out1[c] = "ok" => res[Query(l, c)] = "ok",
           \A c \in Clients : out1[c] = "err" => Over(l, c),
           \/ otherwise = NotYet
           \/ otherwise = Failed /\ \A c \in Clients : out1[c] # "pending",
           Advance(l, out1, otherwise)
    PROVE  LookupInv'
<1> DEFINE n == next[l]
           k == Stop(out1, n)
           a == IF k \in Clients /\ out1[k] = "ok" THEN k ELSE otherwise
<1>0. MaxClients \in Nat /\ Clients = 1..MaxClients /\ Failed = MaxClients + 1 /\ NotYet = 0
  BY DnsCacheAssumption DEF Clients, Failed, NotYet
<1>1. /\ outcome' = [outcome EXCEPT ![l] = out1] /\ next' = [next EXCEPT ![l] = k]
      /\ answer' = [answer EXCEPT ![l] = a] /\ UNCHANGED <<pc, res, parallel, policy, fake>>
  BY DEF Advance, tasks
<1>2. /\ k \in 1..Failed
      /\ \A c \in Clients : n <= c /\ c < k =>
            out1[c] = "err" \/ (k \in Clients /\ out1[k] = "ok" /\ k \in Group(c))
      /\ k \in Clients /\ out1[k] # "ok" =>
            \E d \in Group(k) : out1[d] # "err" /\ ~(n <= d /\ out1[d] = "ok")
  <2>1. n \in 1..Failed
    BY DEF LookupInv, LookupTypes
  <2> HIDE DEF n, k
  <2> QED
    BY <2>1, StopFacts DEF k
<1>3. n \in Nat /\ \A c \in Clients : c < n => out1[c] = "err"
  BY <1>0 DEF LookupInv, LookupTypes, GroupsPassed
<1> HIDE DEF n, k
<1>4. \A c \in Clients : c < k =>
         out1[c] = "err" \/ (k \in Clients /\ out1[k] = "ok" /\ k \in Group(c))
  BY <1>0, <1>2, <1>3
<1>5. a \in 0..Failed
  BY <1>0
<1>6. a = Failed => \A c \in Clients : out1[c] = "err"
  <2> SUFFICES ASSUME a = Failed PROVE \A c \in Clients : out1[c] = "err"
    OBVIOUS
  <2>1. ~(k \in Clients /\ out1[k] = "ok") /\ \A c \in Clients : out1[c] # "pending"
    BY <1>0
  <2>2. k \notin Clients
    <3> SUFFICES ASSUME k \in Clients PROVE FALSE
      OBVIOUS
    <3>1. PICK d \in Group(k) : out1[d] # "err" /\ ~(n <= d /\ out1[d] = "ok")
      BY <1>2, <2>1
    <3>2. d \in Clients
      BY <3>1 DEF Group
    <3>3. out1[d] = "ok" /\ ~(n <= d)
      BY <2>1, <3>1, <3>2
    <3>4. d < n
      BY <1>0, <1>3, <3>2, <3>3
    <3> QED
      BY <1>3, <3>1, <3>2, <3>4
  <2>3. k = Failed
    BY <1>0, <1>2, <2>2
  <2> QED
    BY <1>0, <1>4, <2>2, <2>3
<1>7. a = NotYet => \A c \in Clients : c < k => out1[c] = "err"
  BY <1>0, <1>4
<1>8. a \in Clients => out1[a] = "ok" /\ \A c \in Clients : c < a => out1[c] = "err" \/ a \in Group(c)
  BY <1>0, <1>4
<1> HIDE DEF a
<1>9. /\ outcome'[l] = out1 /\ next'[l] = k /\ answer'[l] = a
      /\ \A x \in Lookups \ {l} : outcome'[x] = outcome[x] /\ next'[x] = next[x] /\ answer'[x] = answer[x]
  BY <1>1 DEF LookupInv, LookupTypes
<1>10. LookupTypes'
  BY <1>1, <1>2, <1>5 DEF LookupInv, LookupTypes
<1>11. ResultsSound'
  <2>1. \A x \in Lookups, c \in Clients : Over(x, c)' <=> Over(x, c)
    BY <1>1 DEF Over
  <2> QED
    BY <1>1, <1>9, <2>1 DEF LookupInv, ResultsSound
<1>12. GroupsPassed'
  BY <1>7, <1>9 DEF LookupInv, GroupsPassed
<1>13. InTurn'
  BY <1>1 DEF InTurn
<1>14. Verdict'
  <2>1. \A c : Group(c)' = Group(c)
    BY <1>1 DEF Group
  <2> SUFFICES ASSUME NEW x \in Lookups, answer'[x] # NotYet
               PROVE  /\ answer'[x] \in Clients => res[Query(x, answer'[x])] = "ok"
                      /\ \A c \in Clients : c < answer'[x] => Over(x, c) \/ answer'[x] \in Group(c)
    BY <1>1, <2>1 DEF Verdict, Over
  <2>2. CASE x # l
    BY <1>9, <2>2 DEF LookupInv, Verdict, Over
  <2>3. CASE x = l /\ a \in Clients
    BY <1>8, <1>9, <2>3
  <2>4. CASE x = l /\ a \notin Clients
    <3>1. a = Failed /\ a \notin Clients
      BY <1>0, <1>5, <1>9, <2>4
    <3> QED
      BY <1>6, <1>9, <2>4, <3>1
  <2> QED
    BY <2>2, <2>3, <2>4
<1> QED
  BY <1>10, <1>11, <1>12, <1>13, <1>14 DEF LookupInv

\* join_next and the drain: the outcome of a task is its result, and a task without
\* one has failed.
LEMMA ParallelKeeps ==
    ASSUME LookupInv, NEW l \in Lookups, Drain(l) \/ \E c \in Clients : Join(l, c)
    PROVE  LookupInv'
<1>0. /\ outcome[l] \in [Clients -> {"pending", "ok", "err"}]
      /\ \A c \in Clients : /\ outcome[l][c] = "ok" => res[Query(l, c)] = "ok"
                            /\ outcome[l][c] = "err" => Over(l, c)
                            /\ pc[Query(l, c)] = "done" => res[Query(l, c)] \in {"ok", "err"}
  BY QueryFacts DEF LookupInv, LookupTypes, ResultsSound
<1>1. ASSUME NEW c \in Clients, Join(l, c) PROVE LookupInv'
  <2> DEFINE out1 == [outcome[l] EXCEPT ![c] = res[Query(l, c)]]
  <2>1. /\ parallel /\ answer[l] = NotYet /\ pc[Query(l, c)] = "done" /\ outcome[l][c] = "pending"
        /\ Advance(l, out1, NotYet)
    BY <1>1 DEF Join
  <2>2. res[Query(l, c)] \in {"ok", "err"}
    BY <1>0, <2>1
  <2>3. out1 \in [Clients -> {"pending", "ok", "err"}]
    BY <1>0, <2>2
  <2>4. out1[c] = res[Query(l, c)] /\ \A d \in Clients \ {c} : out1[d] = outcome[l][d]
    BY <1>0
  <2>5. /\ \A d \in Clients : outcome[l][d] = "err" => out1[d] = "err"
        /\ \A d \in Clients : out1[d] = "ok" => res[Query(l, d)] = "ok"
        /\ \A d \in Clients : out1[d] = "err" => Over(l, d)
    BY <1>0, <2>1, <2>2, <2>4 DEF Over
  <2> HIDE DEF out1
  <2> QED
    BY <2>1, <2>3, <2>5, AdvanceKeeps
<1>2. CASE Drain(l)
  <2> DEFINE out1 == [c \in Clients |-> IF outcome[l][c] = "ok" THEN "ok" ELSE "err"]
  <2>1. /\ parallel /\ answer[l] = NotYet /\ Advance(l, out1, Failed)
        /\ \A c \in Clients : outcome[l][c] = "pending" => pc[Query(l, c)] = "dropped"
    BY <1>2 DEF Drain
  <2>2. out1 \in [Clients -> {"pending", "ok", "err"}] /\ \A c \in Clients : out1[c] # "pending"
    OBVIOUS
  <2>3. /\ \A c \in Clients : outcome[l][c] = "err" => out1[c] = "err"
        /\ \A c \in Clients : out1[c] = "ok" => res[Query(l, c)] = "ok"
        /\ \A c \in Clients : out1[c] = "err" => Over(l, c)
    BY <1>0, <2>1 DEF Over
  <2> HIDE DEF out1
  <2> QED
    BY <2>1, <2>2, <2>3, AdvanceKeeps
<1> QED
  BY <1>1, <1>2

\* A lookup starts with no result, and FakeDNS clients have failed.
LEMMA SpawnKeeps == ASSUME LookupInv, NEW l \in Lookups, Spawn(l) PROVE LookupInv'
<1>1. /\ parallel /\ answer[l] = NotYet /\ UNCHANGED <<res, parallel, policy, fake, next, answer>>
      /\ outcome' = [outcome EXCEPT ![l] = [c \in Clients |-> IF c \in fake THEN "err" ELSE "pending"]]
      /\ pc' = [t \in Tasks |-> IF t \in {Query(l, c) : c \in Clients \ fake} THEN "find" ELSE pc[t]]
  BY DEF Spawn
<1>2. \A c \in Clients : pc[Query(l, c)] = "idle" /\ outcome[l][c] = "pending"
  BY DEF Spawn, Started
<1>3. /\ outcome' \in [Lookups -> [Clients -> {"pending", "ok", "err"}]]
      /\ \A x \in Lookups \ {l} : outcome'[x] = outcome[x]
      /\ \A c \in Clients : outcome'[l][c] = IF c \in fake THEN "err" ELSE "pending"
  BY <1>1 DEF LookupInv, LookupTypes
<1>4. /\ DOMAIN pc' = Tasks
      /\ \A t \in Queries : pc'[t] = pc[t] \/ (pc[t] = "idle" /\ pc'[t] = "find")
      /\ \A x \in Lookups \ {l}, c \in Clients : pc'[Query(x, c)] = pc[Query(x, c)]
  BY <1>1, <1>2, QueryFacts
<1>5. \A x \in Lookups \ {l}, c \in Clients : Over(x, c)' <=> Over(x, c)
  BY <1>1, <1>4 DEF Over
<1>6. LookupTypes'
  BY <1>1, <1>3, <1>4 DEF LookupInv, LookupTypes
<1>7. ResultsSound'
  <2>1. \A t \in Queries : res[t] # "none" <=> pc'[t] = "done"
    BY <1>4 DEF LookupInv, ResultsSound
  <2>2. \A c \in Clients : outcome'[l][c] # "ok" /\ (outcome'[l][c] = "err" => Over(l, c)')
    BY <1>1, <1>3 DEF Over
  <2>3. ASSUME NEW x \in Lookups, NEW c \in Clients
        PROVE  /\ outcome'[x][c] = "ok" => parallel /\ res[Query(x, c)] = "ok"
               /\ outcome'[x][c] = "err" => Over(x, c)'
    BY <1>3, <1>5, <2>2 DEF LookupInv, ResultsSound
  <2> QED
    BY <1>1, <2>1, <2>3 DEF ResultsSound
<1>8. GroupsPassed'
  <2>1. \A c \in Clients : ~(c < next[l])
    BY <1>1, <1>2 DEF LookupInv, GroupsPassed
  <2> QED
    BY <1>1, <1>3, <2>1 DEF LookupInv, GroupsPassed
<1>9. InTurn'
  BY <1>1 DEF InTurn
<1>10. Verdict'
  <2>1. \A c : Group(c)' = Group(c)
    BY <1>1 DEF Group
  <2> SUFFICES ASSUME NEW x \in Lookups, answer[x] # NotYet
               PROVE  /\ answer[x] \in Clients => res[Query(x, answer[x])] = "ok"
                      /\ \A c \in Clients : c < answer[x] => Over(x, c)' \/ answer[x] \in Group(c)
    BY <1>1, <2>1 DEF Verdict, Over
  <2>2. x # l
    BY <1>1
  <2> QED
    BY <1>5, <2>2 DEF LookupInv, Verdict, Over
<1> QED
  BY <1>6, <1>7, <1>8, <1>9, <1>10 DEF LookupInv

\* serial_query: a client is asked when those before it have failed, so that the
\* first success is the one that counts.
LEMMA SerialKeeps ==
    ASSUME LookupInv, NEW l \in Lookups, Ask(l) \/ \E c \in Clients : Reply(l, c)
    PROVE  LookupInv'
<1>0. /\ ~parallel /\ answer[l] = NotYet /\ UNCHANGED <<res, parallel, policy, fake, next>>
      /\ MaxClients \in Nat /\ Clients = 1..MaxClients /\ Failed = MaxClients + 1 /\ NotYet = 0
  BY DnsCacheAssumption DEF Ask, Reply, tasks, Clients, Failed, NotYet
<1>1. /\ \A x \in Lookups, c \in Clients : outcome[x][c] \in {"pending", "err"}
      /\ \A x \in Lookups, c \in Clients : outcome[x][c] = "err" => Over(x, c)
      /\ outcome \in [Lookups -> [Clients -> {"pending", "ok", "err"}]]
      /\ answer \in [Lookups -> 0..Failed] /\ DOMAIN pc = Tasks
      /\ \A t \in Queries : res[t] # "none" <=> pc[t] = "done"
      /\ res \in [Tasks -> {"none", "ok", "err"}]
  BY <1>0 DEF LookupInv, LookupTypes, ResultsSound
<1>2. \A c : Group(c)' = Group(c)
  BY <1>0 DEF Group
<1>3. ASSUME UNCHANGED <<pc, outcome>>, NEW a \in 1..Failed, answer' = [answer EXCEPT ![l] = a],
             a \in Clients => res[Query(l, a)] = "ok", \A c \in Clients : c < a => Over(l, c)
      PROVE  LookupInv'
  <2>1. answer' \in [Lookups -> 0..Failed] /\ answer'[l] = a /\ \A x \in Lookups \ {l} : answer'[x] = answer[x]
    BY <1>0, <1>1, <1>3
  <2>2. \A x \in Lookups, c \in Clients : Over(x, c)' <=> Over(x, c)
    BY <1>0, <1>3 DEF Over
  <2>3. LookupTypes' /\ ResultsSound' /\ GroupsPassed' /\ InTurn'
    <3>1. GroupsPassed'
      BY <1>0, <1>3, <2>1 DEF LookupInv, GroupsPassed
    <3> QED
      BY <1>0, <1>3, <2>1, <2>2, <3>1 DEF LookupInv, LookupTypes, ResultsSound, InTurn
  <2>4. ASSUME NEW x \in Lookups, answer'[x] # NotYet
        PROVE  /\ answer'[x] \in Clients => res[Query(x, answer'[x])] = "ok"
               /\ \A c \in Clients : c < answer'[x] => Over(x, c) \/ answer'[x] \in Group(c)
    BY <1>3, <2>1, <2>4 DEF LookupInv, Verdict, Over
  <2>5. Verdict'
    BY <1>0, <1>2, <1>3, <2>4 DEF Verdict, Over
  <2> QED
    BY <2>3, <2>5 DEF LookupInv
<1>4. ASSUME UNCHANGED answer, \A x \in Lookups, c \in Clients : Over(x, c) => Over(x, c)',
             LookupTypes', ResultsSound', GroupsPassed', InTurn'
      PROVE  LookupInv'
  <2>1. \A x \in Lookups : answer[x] # NotYet =>
           /\ answer[x] \in Clients => res[Query(x, answer[x])] = "ok"
           /\ \A c \in Clients : c < answer[x] => Over(x, c)' \/ answer[x] \in Group(c)
    BY <1>4 DEF LookupInv, Verdict, Over
  <2>2. Verdict'
    BY <1>0, <1>2, <1>4, <2>1 DEF Verdict, Over
  <2> QED
    BY <1>4, <2>2 DEF LookupInv
<1>5. CASE Ask(l)
  <2> DEFINE open == {c \in Clients \ fake : outcome[l][c] = "pending"}
             m    == Min(open)
  <2>1. UNCHANGED outcome
    BY <1>5 DEF Ask
  <2>2. \A c \in Clients : c \notin open => c \in fake \/ outcome[l][c] = "err"
    BY <1>1
  <2>3. CASE open = {}
    <3>1. answer' = [answer EXCEPT ![l] = Failed] /\ UNCHANGED pc
      BY <1>5, <2>3 DEF Ask
    <3>2. \A c \in Clients : Over(l, c)
      BY <1>1, <2>2, <2>3 DEF Over
    <3>3. Failed \in 1..Failed /\ Failed \notin Clients
      BY <1>0
    <3> QED
      BY <1>3, <2>1, <3>1, <3>2, <3>3
  <2>4. CASE open # {}
    <3>1. pc[Query(l, m)] = "idle" /\ pc' = [pc EXCEPT ![Query(l, m)] = "find"] /\ UNCHANGED answer
      BY <1>5, <2>4 DEF Ask, Goto
    <3>2. m \in Clients /\ m \in open /\ \A c \in open : m <= c
      <4>1. open \subseteq Nat \cup {-1} /\ open \subseteq Clients
        BY <1>0
      <4> HIDE DEF open
      <4> QED
        BY <2>4, <4>1, MinIsLeast
    <3> HIDE DEF open, m
    <3>3. DOMAIN pc' = Tasks /\ \A t \in Queries : pc'[t] = IF t = Query(l, m) THEN "find" ELSE pc[t]
      BY <1>1, <3>1, QueryFacts
    <3>4. \A x \in Lookups, c \in Clients : Over(x, c) => Over(x, c)'
      BY <1>0, <3>1, <3>3, QueryFacts DEF Over
    <3>5. LookupTypes'
      BY <1>0, <2>1, <3>1, <3>3 DEF LookupInv, LookupTypes
    <3>6. ResultsSound'
      <4>1. \A t \in Queries : res[t] # "none" <=> pc'[t] = "done"
        BY <1>1, <3>1, <3>3
      <4> QED
        BY <1>0, <1>1, <2>1, <3>4, <4>1 DEF ResultsSound
    <3>7. GroupsPassed'
      BY <1>0, <2>1, <3>1 DEF LookupInv, GroupsPassed
    <3>8. InTurn'
      <4> SUFFICES ASSUME NEW x \in Lookups, NEW c \in Clients, NEW d \in Clients,
                          d < c, pc'[Query(x, c)] # "idle"
                   PROVE  d \in fake \/ outcome[x][d] = "err"
        BY <1>0, <2>1 DEF InTurn
      <4>1. CASE pc[Query(x, c)] # "idle"
        BY <1>0, <4>1 DEF LookupInv, InTurn
      <4>2. CASE pc[Query(x, c)] = "idle"
        <5>1. x = l /\ c = m
          BY <3>3, <4>2, QueryFacts
        <5>2. d \notin open
          BY <1>0, <3>2, <5>1
        <5> QED
          BY <2>2, <5>1, <5>2
      <4> QED
        BY <4>1, <4>2
    <3> QED
      BY <1>4, <3>1, <3>4, <3>5, <3>6, <3>7, <3>8
  <2> QED
    BY <2>3, <2>4
<1>6. ASSUME NEW c \in Clients, Reply(l, c) PROVE LookupInv'
  <2>1. pc[Query(l, c)] = "done" /\ outcome[l][c] = "pending" /\ UNCHANGED pc
    BY <1>6 DEF Reply, tasks
  <2>2. CASE res[Query(l, c)] = "ok"
    <3>1. answer' = [answer EXCEPT ![l] = c] /\ UNCHANGED outcome /\ c \in 1..Failed
      BY <1>0, <1>6, <2>2 DEF Reply
    <3>2. \A d \in Clients : d < c => Over(l, d)
      <4>1. \A d \in Clients : d < c => d \in fake \/ outcome[l][d] = "err"
        BY <1>0, <2>1 DEF LookupInv, InTurn
      <4> QED
        BY <1>1, <4>1 DEF Over
    <3> QED
      BY <1>3, <2>1, <2>2, <3>1, <3>2
  <2>3. CASE res[Query(l, c)] # "ok"
    <3>1. outcome' = [outcome EXCEPT ![l][c] = "err"] /\ UNCHANGED answer
      BY <1>6, <2>3 DEF Reply
    <3>2. res[Query(l, c)] = "err"
      BY <1>1, <2>1, <2>3, QueryFacts
    <3>3. /\ outcome' \in [Lookups -> [Clients -> {"pending", "ok", "err"}]] /\ outcome'[l][c] = "err"
          /\ \A x \in Lookups, d \in Clients : (x # l \/ d # c) => outcome'[x][d] = outcome[x][d]
      BY <1>1, <3>1
    <3>4. \A x \in Lookups, d \in Clients : Over(x, d)' <=> Over(x, d)
      BY <1>0, <2>1 DEF Over
    <3>5. LookupTypes'
      BY <1>0, <2>1, <3>1, <3>3 DEF LookupInv, LookupTypes
    <3>6. ResultsSound'
      <4>1. ASSUME NEW x \in Lookups, NEW d \in Clients
            PROVE  outcome'[x][d] # "ok" /\ (outcome'[x][d] = "err" => Over(x, d))
        BY <1>1, <3>2, <3>3 DEF Over
      <4> QED
        BY <1>0, <1>1, <2>1, <3>4, <4>1 DEF ResultsSound
    <3>7. \A x \in Lookups, d \in Clients : outcome[x][d] = "err" => outcome'[x][d] = "err"
      BY <3>3
    <3>8. GroupsPassed' /\ InTurn'
      BY <1>0, <2>1, <3>1, <3>7 DEF LookupInv, GroupsPassed, InTurn
    <3> QED
      BY <1>4, <3>1, <3>4, <3>5, <3>6, <3>8
  <2> QED
    BY <2>2, <2>3
<1> QED
  BY <1>5, <1>6

\* LookupInv holds in every state.
LEMMA LookupInvariant == Spec => []LookupInv
<1>1. Init => LookupInv
  <2> SUFFICES ASSUME Init PROVE LookupInv
    OBVIOUS
  <2>0. 1 \in 1..Failed /\ NotYet \in 0..Failed
    BY DnsCacheAssumption DEF Failed, NotYet
  <2>1. LookupTypes
    BY <2>0, WorkloadsAssumption DEF Init, CacheInit, LookupTypes
  <2>2. /\ \A t \in Queries : res[t] = "none" /\ pc[t] = "idle"
        /\ \A l \in Lookups : answer[l] = NotYet /\ next[l] = 1
        /\ \A l \in Lookups, c \in Clients : outcome[l][c] = "pending"
    BY QueryFacts DEF Init, CacheInit
  <2>3. ResultsSound
    BY <2>2 DEF ResultsSound
  <2>4. GroupsPassed
    BY <2>2 DEF GroupsPassed, Clients
  <2>5. InTurn
    BY <2>2, QueryFacts DEF InTurn
  <2>6. Verdict
    BY <2>2 DEF Verdict
  <2> QED
    BY <2>1, <2>3, <2>4, <2>5, <2>6 DEF LookupInv
<1>2. LookupInv /\ [Next]_vars => LookupInv'
  <2> SUFFICES ASSUME LookupInv, [Next]_vars PROVE LookupInv'
    OBVIOUS
  <2>1. CASE TaskStep
    BY <2>1, LookupsRest
  <2>2. ASSUME NEW l \in Lookups, Spawn(l) \/ Progress(l) PROVE LookupInv'
    BY <2>2, SpawnKeeps, ParallelKeeps, SerialKeeps DEF Progress
  <2> QED
    BY <2>1, <2>2 DEF Next, TaskStep
<1> QED
  BY <1>1, <1>2, PTL DEF Spec

\* A lookup returns the success that counts, parallel or serial, in whatever order
\* its queries end, panic or are dropped, and fails only when every client has.
THEOREM LookupVerdict == Spec => []Verdict
<1>1. LookupInv => Verdict
  BY DEF LookupInv
<1> QED
  BY <1>1, LookupInvariant, PTL
==============================================================================
