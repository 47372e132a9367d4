----------------------------- MODULE DnsService -----------------------------
(***************************************************************************)
(* Lookups of crates/xray-app-dns, server.rs: serial_query and             *)
(* parallel_query over the clients in their order, on the caches the       *)
(* lookups share.                                                          *)
(***************************************************************************)
EXTENDS DnsCache

CONSTANT Workloads   \* mode, caching, policy ids, FakeDNS clients, families

ASSUME WorkloadsAssumption ==
    Workloads \subseteq [parallel : BOOLEAN, caching : {"off", "on", "stale", "endless"},
                         policy : [Clients -> Nat], fake : SUBSET Clients, allow : [Clients -> SUBSET Families],
                         opt : [Lookups -> SUBSET Families], until : 0..MaxNow]

NotYet == 0
Failed == MaxClients + 1

VARIABLES
    parallel,   \* enable_parallel_query
    policy,     \* policy_id of each client
    fake,       \* clients that are FakeDNS, which the lookups skip
    outcome,    \* outcomes, by lookup and client
    next,       \* the first client of next_group
    answer      \* the client whose addresses a lookup returned, or Failed

lookups == <<parallel, policy, fake, outcome, next, answer>>
vars    == <<shared, tasks, lookups>>

Init ==
    /\ CacheInit
    /\ \E w \in Workloads : /\ parallel = w.parallel /\ caching = w.caching
                            /\ policy = w.policy /\ fake = w.fake
                            /\ opt = w.opt /\ allow = w.allow /\ until = w.until
    /\ outcome = [l \in Lookups |-> [c \in Clients |-> "pending"]]
    /\ next    = [l \in Lookups |-> 1]
    /\ answer  = [l \in Lookups |-> NotYet]

\* make_groups: neighbours with one policy id.
Group(c) ==
    {d \in Clients : \A e \in Clients : (c <= e /\ e <= d) \/ (d <= e /\ e <= c) => policy[e] = policy[c]}

Started(l) == \E c \in Clients : pc[Query(l, c)] # "idle" \/ outcome[l][c] # "pending"

(***************************************************************************)
(* parallel_query                                                          *)
(***************************************************************************)

\* A task per client; FakeDNS has failed from the start.
Spawn(l) ==
    /\ parallel /\ opt[l] # {} /\ ~Started(l) /\ answer[l] = NotYet
    /\ pc' = [t \in Tasks |-> IF t \in {Query(l, c) : c \in Clients \ fake} THEN "find" ELSE pc[t]]
    /\ outcome' = [outcome EXCEPT ![l] = [c \in Clients |-> IF c \in fake THEN "err" ELSE "pending"]]
    /\ UNCHANGED <<shared, todo, out, lead, res, parallel, policy, fake, next, answer>>

\* Mutant: the first success counts, whatever its group.
StopFirst(out1, n) ==
    LET ok == {c \in n..MaxClients : out1[c] = "ok"}
    IN  IF ok # {} THEN Min(ok) ELSE Min({MaxClients + 1} \cup {c \in n..MaxClients : out1[c] # "err"})

\* The client at which advance_groups stops: of a group with a success its first
\* one, of a group with an answer missing any; none if all groups have failed.
Stop(out1, n) ==
    LET open == {c \in n..MaxClients : \E d \in Group(c) : out1[d] # "err"}
        ok   == {c \in n..MaxClients : out1[c] = "ok"}
    IN  IF open = {} THEN MaxClients + 1
        ELSE IF ok \cap Group(Min(open)) # {} THEN Min(ok \cap Group(Min(open))) ELSE Min(open)

\* advance_groups: the lookup returns, or next_group is moved on.
Advance(l, out1, otherwise) ==
    LET c == Stop(out1, next[l]) IN
    /\ outcome' = [outcome EXCEPT ![l] = out1]
    /\ next' = [next EXCEPT ![l] = c]
    /\ answer' = [answer EXCEPT ![l] = IF c \in Clients /\ out1[c] = "ok" THEN c ELSE otherwise]
    /\ UNCHANGED <<shared, tasks, parallel, policy, fake>>

\* join_next: the result of a task.
Join(l, c) ==
    /\ parallel /\ answer[l] = NotYet
    /\ pc[Query(l, c)] = "done" /\ outcome[l][c] = "pending"
    /\ Advance(l, [outcome[l] EXCEPT ![c] = res[Query(l, c)]], NotYet)

\* All tasks are joined; what is pending has panicked, and counts as failed.
Drain(l) ==
    /\ parallel /\ answer[l] = NotYet /\ Started(l)
    /\ \A c \in Clients : outcome[l][c] = "pending" => pc[Query(l, c)] = "dropped"
    /\ Advance(l, [c \in Clients |-> IF outcome[l][c] = "ok" THEN "ok" ELSE "err"], Failed)

Panic(l, c) ==
    /\ parallel /\ answer[l] = NotYet
    /\ pc[Query(l, c)] \in {"ask", "lead"}
    /\ Drop(Query(l, c))
    /\ UNCHANGED lookups

\* abort_all, when the lookup has returned.
Abort(l, c) ==
    /\ answer[l] # NotYet
    /\ Drop(Query(l, c))
    /\ UNCHANGED lookups

(***************************************************************************)
(* serial_query                                                            *)
(***************************************************************************)

\* The next client is asked, FakeDNS passed over.
Ask(l) ==
    LET open == {c \in Clients \ fake : outcome[l][c] = "pending"} IN
    /\ ~parallel /\ opt[l] # {} /\ answer[l] = NotYet
    /\ IF open = {}
       THEN answer' = [answer EXCEPT ![l] = Failed] /\ UNCHANGED pc
       ELSE pc[Query(l, Min(open))] = "idle" /\ Goto(Query(l, Min(open)), "find") /\ UNCHANGED answer
    /\ UNCHANGED <<shared, todo, out, lead, res, parallel, policy, fake, outcome, next>>

\* The first success is returned, a failure leads to the next client.
Reply(l, c) ==
    /\ ~parallel /\ answer[l] = NotYet
    /\ pc[Query(l, c)] = "done" /\ outcome[l][c] = "pending"
    /\ IF res[Query(l, c)] = "ok"
       THEN answer' = [answer EXCEPT ![l] = c] /\ UNCHANGED outcome
       ELSE outcome' = [outcome EXCEPT ![l][c] = "err"] /\ UNCHANGED answer
    /\ UNCHANGED <<shared, tasks, parallel, policy, fake, next>>

-----------------------------------------------------------------------------
PullTimeout(t) == pc[t] # "heard" /\ Drop(t) /\ UNCHANGED lookups

Run(t) == (Find(t) \/ Fetch(t) \/ DropGuard(t)) /\ UNCHANGED lookups

Progress(l) == Drain(l) \/ Ask(l) \/ \E c \in Clients : Join(l, c) \/ Reply(l, c)

Cleanup(c) == (Collect(c) \/ Sweep(c)) /\ UNCHANGED lookups

Next ==
    \/ \E l \in Lookups : Spawn(l) \/ Progress(l) \/ \E c \in Clients : Panic(l, c) \/ Abort(l, c)
    \/ \E t \in Tasks : Run(t)
    \/ \E t \in Pulls : PullTimeout(t)
    \/ \E c \in Clients : Cleanup(c)
    \/ Tick /\ UNCHANGED lookups

Spec == Init /\ [][Next]_vars

\* As long as some task or lookup can go on, one does: the executor is never idle
\* with work to do, every question to a server has its timeout and so has the wait
\* for a leader.  Lookups need not be made, nothing need panic or be cleaned up.
Fairness == WF_vars((\E t \in Tasks : Run(t)) \/ (\E l \in Lookups : Progress(l)))

FairSpec == Spec /\ Fairness

-----------------------------------------------------------------------------
TaskPc ==
    {"idle", "find", "lock", "locked", "subscribe", "wait", "heard", "ask", "lead",
     "release", "unguard", "store", "done", "dropped"}

Records == [expire : -1..(MaxNow + Max(Ttls)), good : BOOLEAN]

\* Every variable holds a value of its kind.
TypeOK ==
    /\ caching \in {"off", "on", "stale", "endless"} /\ parallel \in BOOLEAN
    /\ opt \in [Lookups -> SUBSET Families] /\ allow \in [Clients -> SUBSET Families]
    /\ until \in 0..MaxNow /\ now \in 0..until
    /\ cache \in [Clients -> [Families -> Records]]
    /\ sf \in [Clients -> [Options -> Tasks \cup {NoTask}]]
    /\ lock \in [Clients -> Tasks \cup {NoTask}] /\ swept \in [Clients -> -1..MaxNow]
    /\ pc \in [Tasks -> TaskPc] /\ todo \in [Tasks -> SUBSET Families]
    /\ out \in [Tasks -> [Families -> Records]] /\ lead \in [Tasks -> Tasks \cup {NoTask}]
    /\ res \in [Tasks -> {"none", "ok", "err"}]
    /\ policy \in [Clients -> Nat] /\ fake \subseteq Clients
    /\ outcome \in [Lookups -> [Clients -> {"pending", "ok", "err"}]]
    /\ next \in [Lookups -> 1..(MaxClients + 1)] /\ answer \in [Lookups -> 0..Failed]

\* The leader of a key is the one in the map as long as it asks: a key never has
\* two leaders, whoever gives up, is dropped or comes late.
OneLeader ==
    \A t \in Tasks : pc[t] \in {"lead", "release", "unguard"} => sf[ClientOf(t)][OptionOf(t)] = t

\* cached.rs says of the guard that it takes the entry out of the map whenever its
\* leader ends: an entry has a leader.
NoLeak ==
    \A c \in Clients, o \in Options :
        sf[c][o] # NoTask => pc[sf[c][o]] \in {"lead", "release", "unguard"}

\* A lookup returns a client that succeeded, and only if no client of a group
\* before it did or still may; it fails only if none did.
Verdict ==
    \A l \in Lookups : answer[l] # NotYet =>
        /\ answer[l] \in Clients => res[Query(l, answer[l])] = "ok"
        /\ \A c \in Clients : c < answer[l] =>
              \/ c \in fake
              \/ pc[Query(l, c)] = "dropped"
              \/ res[Query(l, c)] = "err"
              \/ answer[l] \in Group(c)

\* What a query takes from the cache, no family of it has expired, or all are
\* good and have expired for less than serve_expired_ttl.
CacheAnswers ==
    [][\A t \in Queries : pc[t] = "find" /\ pc'[t] = "done" =>
          LET r == cache[ClientOf(t)] IN
          \A f \in OptionOf(t) :
             \/ r[f].expire > now
             \/ /\ \A g \in OptionOf(t) : r[g].good
                /\ \/ caching = "endless"
                   \/ caching = "stale" /\ now - r[f].expire < ExpiredTtl]_vars

\* What find would answer with, for a query of the families o.
Answerable(o, r) == ~NotFound(o, r) /\ (Ttl(o, r) > 0 \/ Servable(o, r))

\* The cleanup removes what has expired, never a record that was renewed while it was
\* under way, and no query could have been answered with what it removes.  The
\* exception is serve_stale without a limit, where effective_now forgets a record
\* on expiry that query_ip would have served for ever.
CleanupSafe ==
    [][\A c \in Clients, f \in Families :
          cache[c][f] # NoRec /\ cache'[c][f] = NoRec =>
             /\ cache[c][f].expire < now
             /\ caching # "endless" =>
                   \A o \in Options : f \in o => ~Answerable(o, cache[c])]_vars

\* With serve_stale and serve_expired_ttl = 0 query_ip serves what has expired
\* without a limit, as long as the cleanup, which runs every few minutes, lets it.
ServableKept ==
    [][\A c \in Clients, f \in Families, o \in Options :
          cache[c][f] # NoRec /\ cache'[c][f] = NoRec /\ f \in o => ~Answerable(o, cache[c])]_vars

\* Every lookup returns: also if a leader was dropped or panicked, or its entry
\* was left in the map.
LookupsReturn == \A l \in Lookups : Started(l) ~> answer[l] # NotYet
=============================================================================
