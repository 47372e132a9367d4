------------------------------ MODULE DnsCache ------------------------------
(***************************************************************************)
(* The cache of a DNS server and the queries that share it, of             *)
(* crates/xray-app-dns: nameserver/cached.rs with cache_controller.rs and  *)
(* merge_records of dnscommon.rs, for one domain.  DnsService extends this *)
(* module with the lookups that make the queries.                          *)
(*                                                                         *)
(* A task is a query of a lookup to a client, or the background refresh    *)
(* (pull) the query started.  A record is good when it has addresses and   *)
(* not when it is a negative answer.  A step is one critical section or    *)
(* one await; a task can be dropped at an await only.                      *)
(***************************************************************************)
EXTENDS Integers, FiniteSets, FiniteSetsExt

CONSTANTS
    MaxClients,     \* clients: a DNS server with its cache each
    MaxLookups,     \* lookups in the life of the system
    Families,       \* address families: 4 and 6 in the code
    Ttls,           \* times to live of the answers
    MaxNow,         \* bound on the clock
    ExpiredTtl      \* serve_expired_ttl where it is not 0

ASSUME DnsCacheAssumption ==
    /\ MaxClients \in Nat /\ MaxLookups \in Nat /\ MaxNow \in Nat
    /\ ExpiredTtl \in Nat \ {0}
    /\ Families \subseteq Nat /\ IsFiniteSet(Families) /\ Ttls \subseteq Nat

Clients    == 1..MaxClients
Lookups    == 1..MaxLookups
Query(l, c) == <<"query", l, c>>
Pull(l, c)  == <<"pull", l, c>>
Queries    == {Query(l, c) : l \in Lookups, c \in Clients}
Pulls      == {Pull(l, c) : l \in Lookups, c \in Clients}
Tasks      == Queries \cup Pulls
NoTask     == <<"none", 0, 0>>
NoRec      == [expire |-> -1, good |-> FALSE]
NoAnswer   == [f \in Families |-> NoRec]
Options    == (SUBSET Families) \ {{}}

VARIABLES
    caching,   \* "off" (disable_cache), "on", or serve_stale: "stale" with a
               \* serve_expired_ttl, "endless" if that is 0
    opt,       \* the families of the IpOption of each lookup
    allow,     \* the families each client is configured for
    now,       \* the clock, and the bound on it
    until,
    cache,     \* ips: the A and AAAA record of the domain, by client
    sf,        \* single_flight: the leader whose sender is in the map
    lock,      \* who holds the mutex of single_flight
    swept,     \* collect_expired_keys has found the domain, at this time
    pc,        \* where each task is
    todo,      \* families the task has still to ask, or to store
    out,       \* QueryOutcome
    lead,      \* the leader a task waits for
    res        \* what query_ip returned: "ok" or "err"

shared == <<caching, opt, allow, until, now, cache, sf, lock, swept>>
tasks  == <<pc, todo, out, lead, res>>

ClientOf(t) == t[3]
OptionOf(t) == opt[t[2]] \cap allow[t[3]]
Goto(t, l)  == pc' = [pc EXCEPT ![t] = l]

CacheInit ==
    /\ now = 0
    /\ cache = [c \in Clients |-> NoAnswer]
    /\ sf    = [c \in Clients |-> [o \in Options |-> NoTask]]
    /\ lock  = [c \in Clients |-> NoTask]
    /\ swept = [c \in Clients |-> -1]
    /\ pc    = [t \in Tasks |-> "idle"]
    /\ todo  = [t \in Tasks |-> {}]
    /\ out   = [t \in Tasks |-> NoAnswer]
    /\ lead  = [t \in Tasks |-> NoTask]
    /\ res   = [t \in Tasks |-> "none"]

(***************************************************************************)
(* merge_records and stale_result                                          *)
(***************************************************************************)

\* An enabled family without a record makes the whole not found.
NotFound(o, r) == \E f \in o : r[f] = NoRec

\* Mutant: the family that lives longest decides.
TtlMax(o, r) == Max({r[f].expire : f \in o}) - now

\* The family that expires first decides, also if its answer is negative.
Ttl(o, r) == Min({r[f].expire : f \in o}) - now

\* Addresses of one family are enough.
Good(o, r) == ~NotFound(o, r) /\ \E f \in o : r[f].good

\* What has expired is served if every family is good and, when there is a
\* limit, has not expired for as long as that.
Servable(o, r) ==
    /\ caching = "endless" \/ (caching = "stale" /\ -ExpiredTtl < Ttl(o, r))
    /\ \A f \in o : r[f].good

(***************************************************************************)
(* query_ip                                                                *)
(***************************************************************************)

Return(t, r) ==
    /\ pc'   = [pc EXCEPT ![t] = "done"]
    /\ res'  = [res EXCEPT ![t] = r]
    /\ out'  = [out EXCEPT ![t] = NoAnswer]
    /\ lead' = [lead EXCEPT ![t] = NoTask]

\* No family is left; or find_records has a hit, which is returned, if it has
\* expired perhaps, with a pull.
Find(t) ==
    LET o == OptionOf(t)
        r == cache[ClientOf(t)]
        p == Pull(t[2], t[3])
        known == o # {} /\ caching # "off" /\ ~NotFound(o, r)
    IN
    /\ pc[t] = "find"
    /\ \/ o = {} /\ Return(t, "err")
       \/ /\ known /\ Ttl(o, r) > 0
          /\ Return(t, IF Good(o, r) THEN "ok" ELSE "err")
       \/ /\ known /\ Ttl(o, r) <= 0 /\ Servable(o, r)
          /\ pc'  = [pc EXCEPT ![t] = "done", ![p] = "lock"]
          /\ res' = [res EXCEPT ![t] = "ok"]
          /\ UNCHANGED <<out, lead>>
       \/ /\ o # {} /\ ~(known /\ (Ttl(o, r) > 0 \/ Servable(o, r)))
          /\ Goto(t, "lock")
          /\ UNCHANGED <<out, lead, res>>
    /\ UNCHANGED <<shared, todo>>

(***************************************************************************)
(* fetch                                                                   *)
(***************************************************************************)

\* single_flight.lock()
Lock(t) ==
    /\ pc[t] = "lock" /\ lock[ClientOf(t)] = NoTask
    /\ lock' = [lock EXCEPT ![ClientOf(t)] = t]
    /\ Goto(t, "locked")
    /\ UNCHANGED <<caching, opt, allow, until, now, cache, sf, swept, todo, out, lead, res>>

\* Under the lock: wait for the leader in the map, or become it.
Elect(t) ==
    LET c == ClientOf(t)
        o == OptionOf(t)
    IN
    /\ pc[t] = "locked"
    /\ lock' = [lock EXCEPT ![c] = NoTask]
    /\ \/ /\ sf[c][o] # NoTask
          /\ lead' = [lead EXCEPT ![t] = sf[c][o]]
          /\ Goto(t, "subscribe")
          /\ UNCHANGED <<sf, todo>>
       \/ /\ sf[c][o] = NoTask
          /\ sf' = [sf EXCEPT ![c][o] = t]
          /\ todo' = [todo EXCEPT ![t] = o]
          /\ Goto(t, "lead")
          /\ UNCHANGED lead
    /\ UNCHANGED <<caching, opt, allow, until, now, cache, swept, out, res>>

\* tx.subscribe(): what the leader sent before is missed.
Subscribe(t) ==
    /\ pc[t] = "subscribe"
    /\ Goto(t, "wait")
    /\ UNCHANGED <<shared, todo, out, lead, res>>

\* Mutants: a waiter that gives up takes the entry out of the map, or does not
\* give up before the entry is gone.
GiveUpRemove(t) ==
    /\ pc[t] = "wait"
    /\ sf' = [sf EXCEPT ![ClientOf(t)][OptionOf(t)] = NoTask]
    /\ todo' = [todo EXCEPT ![t] = OptionOf(t)]
    /\ lead' = [lead EXCEPT ![t] = NoTask]
    /\ Goto(t, "ask")
    /\ UNCHANGED <<caching, opt, allow, until, now, cache, lock, swept, out, res>>

GiveUpClosed(t) ==
    /\ pc[t] = "wait" /\ sf[ClientOf(t)][OptionOf(t)] # lead[t]
    /\ todo' = [todo EXCEPT ![t] = OptionOf(t)]
    /\ lead' = [lead EXCEPT ![t] = NoTask]
    /\ Goto(t, "ask")
    /\ UNCHANGED <<shared, out, res>>

\* The channel is closed, or SF_WAIT_TIMEOUT is over: the waiter asks by itself.
GiveUp(t) ==
    /\ pc[t] = "wait"
    /\ todo' = [todo EXCEPT ![t] = OptionOf(t)]
    /\ lead' = [lead EXCEPT ![t] = NoTask]
    /\ Goto(t, "ask")
    /\ UNCHANGED <<shared, out, res>>

\* What a server answers for a family: nothing, addresses or that there are none.
Answers == {NoRec} \cup {[expire |-> now + n, good |-> g] : n \in Ttls, g \in BOOLEAN}

\* send_query asks for one family after the other; each answers or fails.
SendQuery(t) ==
    LET f == Min(todo[t]) IN
    /\ pc[t] \in {"lead", "ask"} /\ todo[t] # {}
    /\ \E a \in Answers : out' = [out EXCEPT ![t][f] = a]
    /\ todo' = [todo EXCEPT ![t] = @ \ {f}]
    /\ UNCHANGED <<shared, pc, lead, res>>

Answered(t) == {f \in Families : out[t][f] # NoRec}

\* send_query is over.  The leader's outcome goes to those who have subscribed.
Broadcast(t) ==
    LET heard == {w \in Tasks : pc[w] = "wait" /\ lead[w] = t} IN
    /\ pc[t] = "lead" /\ todo[t] = {}
    /\ pc'   = [w \in Tasks |-> IF w = t THEN "release" ELSE IF w \in heard THEN "heard" ELSE pc[w]]
    /\ out'  = [w \in Tasks |-> IF w \in heard THEN out[t] ELSE out[w]]
    /\ UNCHANGED <<shared, todo, lead, res>>

Asked(t) ==
    /\ \/ pc[t] = "heard"
       \/ pc[t] = "ask" /\ todo[t] = {}
    /\ todo' = [todo EXCEPT ![t] = Answered(t)]
    /\ Goto(t, "store")
    /\ UNCHANGED <<shared, out, lead, res>>

\* SfLeaderGuard::drop: the entry is removed if try_lock succeeds and it is the
\* leader's own.
Unguard(t) ==
    LET c == ClientOf(t)
        o == OptionOf(t)
    IN  sf' = IF lock[c] = NoTask /\ sf[c][o] = t THEN [sf EXCEPT ![c][o] = NoTask] ELSE sf

Release(t) ==
    /\ pc[t] = "release"
    /\ Unguard(t)
    /\ todo' = [todo EXCEPT ![t] = Answered(t)]
    /\ Goto(t, "store")
    /\ UNCHANGED <<caching, opt, allow, until, now, cache, lock, swept, out, lead, res>>

\* upsert, A before AAAA; then the outcome is returned.
Store(t) ==
    /\ pc[t] = "store"
    /\ \/ /\ todo[t] # {}
          /\ LET f == Min(todo[t]) IN
             /\ todo' = [todo EXCEPT ![t] = @ \ {f}]
             /\ cache' = IF caching = "off" THEN cache
                         ELSE [cache EXCEPT ![ClientOf(t)][f] = out[t][f]]
          /\ UNCHANGED <<pc, out, lead, res>>
       \/ /\ todo[t] = {}
          /\ Return(t, IF Good(OptionOf(t), out[t]) THEN "ok" ELSE "err")
          /\ UNCHANGED <<cache, todo>>
    /\ UNCHANGED <<caching, opt, allow, until, now, sf, lock, swept>>

Fetch(t) ==
    \/ Lock(t) \/ Elect(t) \/ Subscribe(t) \/ GiveUp(t) \/ SendQuery(t)
    \/ Broadcast(t) \/ Asked(t) \/ Release(t) \/ Store(t)

\* The future of a task is dropped at an await; a leader's guard with it.
Drop(t) ==
    /\ \/ pc[t] \in {"find", "lock", "wait", "heard"}
       \/ pc[t] \in {"ask", "lead"} /\ todo[t] # {}
    /\ IF pc[t] = "lead" THEN Goto(t, "unguard") /\ UNCHANGED lead
       ELSE Goto(t, "dropped") /\ lead' = [lead EXCEPT ![t] = NoTask]
    /\ todo' = [todo EXCEPT ![t] = {}]
    /\ out'  = [out EXCEPT ![t] = NoAnswer]
    /\ UNCHANGED <<shared, res>>

DropGuard(t) ==
    /\ pc[t] = "unguard"
    /\ Unguard(t)
    /\ Goto(t, "dropped")
    /\ UNCHANGED <<caching, opt, allow, until, now, cache, lock, swept, todo, out, lead, res>>

(***************************************************************************)
(* The cleanup task, and time                                              *)
(***************************************************************************)

\* effective_now, for an expiry that is remembered beyond its time.  Without a
\* limit it is not: what could still be served goes when it expires.
Expired(r, at) ==
    r # NoRec /\ r.expire < (IF caching = "stale" THEN at - ExpiredTtl ELSE at)

Collect(c) ==
    /\ swept[c] = -1
    /\ \E f \in Families : Expired(cache[c][f], now)
    /\ swept' = [swept EXCEPT ![c] = now]
    /\ UNCHANGED <<caching, opt, allow, until, now, cache, sf, lock, tasks>>

\* Mutant: what was collected is removed without another look.
SweepAll(c) ==
    /\ swept[c] # -1
    /\ cache' = [cache EXCEPT ![c] = NoAnswer]
    /\ swept' = [swept EXCEPT ![c] = -1]
    /\ UNCHANGED <<caching, opt, allow, until, now, sf, lock, tasks>>

\* cleanup_and_maybe_shrink: what has expired at that time, looked at again.
Sweep(c) ==
    /\ swept[c] # -1
    /\ cache' = [cache EXCEPT ![c] =
                    [f \in Families |-> IF Expired(@[f], swept[c]) THEN NoRec ELSE @[f]]]
    /\ swept' = [swept EXCEPT ![c] = -1]
    /\ UNCHANGED <<caching, opt, allow, until, now, sf, lock, tasks>>

Tick ==
    /\ now < until
    /\ now' = now + 1
    /\ UNCHANGED <<caching, opt, allow, until, cache, sf, lock, swept, tasks>>
=============================================================================
