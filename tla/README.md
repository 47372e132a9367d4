# A TLA+ model of xray-core-rust

xray-core-rust is a proxy platform in Rust, rewritten from the Go program of the
same name: inbound protocols hand connections to a dispatcher, a router picks an
outbound, and transports carry the bytes. This directory holds TLA+ modules
about the parts whose correctness depends on the order of concurrent steps, the
TLC configurations that check them, and TLAPS proofs for instances of any size.

## 1. Inventory

Paths are below `src/crates/`. "Hard" names what a unit test hardly reaches.

| Component | State | Operations | Talks to | Hard | What makes it correct |
|---|---|---|---|---|---|
| in-memory pipe, `xray-buf/src/pipe.rs` | buffer, state, close flag, error slot, two counting signals with waker lists | read, write, close, interrupt, error injection, timeouts | every link between inbound, dispatcher, mux and outbound | lock sections and atomics of several tasks; lost wake-ups; EOF against late data | order, bounded buffer, no lost wake-up, close reaches both ends |
| mKCP data transfer, `xray-transport-kcp/src/{sending,receiving}.rs` | sending and receiving windows, AckList | push, flush, ACK, ping, read | peer over UDP | loss, duplication, reordering, stale ACKs | nothing released early, no owed ACK forgotten, progress |
| mKCP connection, `.../connection.rs`, `state.rs` | six states in an atomic, two clocks, the workers | write, close, terminate, input, flush | updaters, listener, workers | load/store races on the state, timeouts, clocks read in the wrong order | data survives a local close, the peer is told, resources are released |
| mKCP listener, `.../listener.rs` | session table under a mutex | on_receive, remove, close | connections, which call back when they die | callbacks under a lock, repeated close, id reuse | a closed session is never routed to, a closed listener empties |
| mKCP updater, `.../updater.rs` | running flag, interval | wake-up, task loop | connection | wake-up racing the end of the task | one task at most, produced data is flushed |
| mKCP configuration, wire format, sockets | settings | parsing, serialising, I/O | connection, listener | 32-bit overflow of capacities | window sizes follow the settings |
| multiplexing sessions, `xray-mux/src/session.rs` | session table, lock-free size, close flags, links of each session | allocate, add, get, close, idle close | both workers | two ends closing at once, the swap before the removal, idle monitor against a new session | size equals the table, an open session is listed, the loser of a close does nothing |
| multiplexing client worker, `xray-mux/src/client.rs` | a carrier shared by sessions, closed flag | dispatch, fetch_input, fetch_output, monitor, dial | applications' pipes, carrier | input lock held over a write to a full carrier, close before the output is bound | the application sees the end of its downlink, a closed worker ends all tasks |
| multiplexing server worker, `xray-mux/src/worker.rs`, loop in `xray-core/src/inbound.rs` | the same, and XUDP entries by GlobalID | New, Keep, End frames, rebinding, pumps, monitor and its abort | dispatcher, upstream links, carrier | link taken over while the old pump reads it, abort in the middle of a close | open sessions have working links of their own, one session never holds up the carrier |
| buffers and copy, `xray-buf` | byte buffers | read, write, split, copy | everything | cancellation in a copy loop | no byte lost |
| splithttp upload queue and hub, `xray-transport-splithttp/src/{upload_queue.rs,hub/}` | channel, heap, next number, notify permit; session table with reapers | push, read, close; packet-up, stream-up, stream-down, reap | HTTP server, dispatcher | posts overtaking each other, close against read, an id that is used again | packets in order, none lost, sessions and forward tasks end |
| splithttp client | HTTP clients, reuse counters (xmux) | dial, pick | | counters at their limit | an exhausted client is not picked |
| DNS cache and queries, `xray-app-dns/src/nameserver/cached.rs`, `cache_controller.rs` | records by domain, single-flight map under a mutex | query_ip, fetch, pull, upsert, cleanup | lookups, name servers | leader dropped, waiter giving up, try_lock in a destructor, cleanup against a renewal | one leader per key, no answer from an expired record, no fresh record removed |
| DNS lookups, `.../server.rs` | outcomes by client, next group | serial_query, parallel_query | cached queries | answers out of order, panic, abort_all | the first group that succeeds answers, every lookup returns |
| DNS transports and fake-IP pool | pool of addresses | allocate, look up | router, dispatcher | pool wrap-around | fake IPs bijective |
| observatory, `xray-app-observatory` | ring of health samples | probe, record, read | router's balancers | ring at its limit, expiry | statistics match the samples |
| router, `xray-app-router` | rules, balancers | match, pick, override | observatory, dispatcher | balancer with nothing alive | first match wins, pick is a member |
| statistics, `xray-app-stats` | counters, channels, online map | subscribe, publish, close | dispatcher, API | publish racing close, reference counts | no delivery after unsubscribe |
| reverse, `xray-app-reverse` | workers of a bridge, picker | monitor, pick, drain | mux | draining worker picked | a picked worker accepts |
| dispatcher, `xray-app-dispatcher` | links, UDP sessions | dispatch, sniff | pipes, router, outbounds | sniff timeout against data, half-close | sniffed bytes are replayed |
| proxy manager, core instance, common utilities | handler tables, feature list, timers, caches | add, remove, start, close | all features | change at run time, partial start | what was started is closed |
| protocols, other transports, TLS, crypto, geodata, CLI, configuration, gRPC front ends | per connection or none | codecs, I/O | | | |

The pipe, mKCP (data transfer, connection, listener, updater), multiplexing, splithttp
hub and DNS cache and lookups are modelled. `PROJECT.json` lists every component with its
status and, under `hazards`, each place where the order of steps or a limit can
go wrong.

## 2. Modules and the code

| Module | Models | Extends |
|---|---|---|
| `Stream` | what a byte channel promises | |
| `Pipe` | `pipe.rs`, one step per lock section or atomic | `Stream` by `INSTANCE ... WITH` |
| `KcpWindow` | one direction of data transfer over a lossy path | |
| `KcpConnection` | the life of a connection, one step per load and store of its state | |
| `KcpListener` | the session table and the references to a connection | |
| `KcpUpdater` | the data updater's task, its wakers and the ping updater | |
| `MuxSession` | the session table, the steps of `Session::close`, the idle monitor | |
| `MuxClient`, `MuxServer` | the two workers, each on one carrier | `MuxSession` |
| `UploadQueue` | the reordering queue: push, read, close | |
| `SplitHub` | the session table and the request handlers that own the queues | `UploadQueue` |
| `DnsCache` | a server's cache and the queries that share it | |
| `DnsService` | serial and parallel lookups over the clients | `DnsCache` |
| `MCPipe`, `MCKcpWindow`, `MCSplitHub`, `MCDnsService` | instances for TLC | the module of the same name |
| `KcpLifecycle_proofs` | theorems | `KcpConnection`, `KcpListener`, `KcpUpdater`, `TLAPS` |
| other `*_proofs` | theorems | the module of the same name, `TLAPS`; `MuxClient_proofs` and `MuxServer_proofs` also `MuxSession_proofs`, `DnsService_proofs` and `SplitHub_proofs` also `WellFoundedInduction` |

**Pipe.** `PipeInner` (under its mutex) is `data`, `state`, `option`; `closed` and
`errSlot` are the atomics beside it; `count` and `wakers` are the two
`CountingNotify`. A poll is cut into the steps other tasks can see: `Take`,
`CheckState` and `CheckSlot` are the three critical sections of `poll_read`, `Put`
the one of `poll_write`; `SignalAdd` and `SignalWake` are `signal`; `FirstSwap`,
`Register`, `SecondSwap` and `CheckClosed` are `poll_wait` and the test of the
close flag after it. Writers may be several (`Writer` is `Clone`); a suspended
call may be dropped (`WriteCancel`, `ReadTimeout`). `Close` and `Interrupt` come
from tasks that hold another handle and may repeat them; `mark_closed` is three
further steps. A `MultiBuffer` is a sequence of chunks and its length their
number. `Repoll`, the runtime polling a woken task, is external.

**KcpWindow.** A segment is its number, since payloads get consecutive numbers and
a retransmission repeats the payload. `Flush(again, upto)` is `prepare_flush`:
which old segments are due and how many new ones go out is a choice, which
covers every RTO, fast retransmit and loss-driven control window. `RecvAck`,
`RecvReceiverPing`, `RecvData`, `RecvSenderPing`, `Read`, `AckFlush` are the
functions of the same purpose, each one critical section. `net` is the UDP path:
a set whose members may be received again, in any order, or lost.

**KcpConnection.** `Decide`, `Store` and `Effects` are the three parts every
transition has in the code: a load of the atomic, the store it leads to, and
`state_begin_time`, `close_read`, `close_write`, `terminate()` and the wake-ups
after it. `CheckStale`, `CheckDrained`, `CheckTerminating` and `CheckClosing` are
the loads of `flush_inner` in order; its recursive calls return to the first.
`age` and `stale` abstract the clocks to the timeouts passed (4, 8, 15 and 30 s).
`flush_inner` reads the time before it loads the clocks it compares it with;
`late` remembers which clocks were set since, and a comparison with such a clock
may wrap around (`Elapsed`, `Silent`). The sending window is a number of segments.
The remote end may send any segment at any time, or nothing. ACK and Ping are one
kind, as both only tell how far the peer has received. `write`, `close` and
`poll_shutdown` belong to one task; `Terminate` may also come from the listener.

**KcpListener.** `table` is the session map; `held`, `input` and `drained` are the
other references to a connection, so that `Free`, the destructor, runs exactly
when the last one goes. A call of `closer.close()` is a member of `calls` until
`Remove`, the critical section, serves it. `LastReference` says that the removed
`Arc` is the last one; whether an updater's temporary reference defers the
destructor is a choice. Of a connection's states the module keeps `ended`
(`Terminated`) and `peerClosed`, the one state that `flush_inner` has no timeout for: a
packet may put the connection it is handed to in or out of it, and `Terminated(c)`
needs `c` not to be in it. `poll_shutdown` and `Listener::close` call `terminate()`,
which removes the connection and leaves its state alone. The module shares a proof module with `KcpConnection` and
`KcpUpdater`, so its specification is `ListenerSpec`, its close `CloseListener`; the
updater's is `UpdaterSpec`.

**KcpUpdater.** The load of `running` in `wake_up_arc`, the compare-and-swap in
`try_spawn`, each evaluation of `should_continue`, each flush and the final store
are steps. `work` is what `update_necessary` sees, `fresh` the part never flushed.
`missed` is a history variable: a wake-up was left to a task that had already decided
to end (`LeaveToTask`), and nothing has been flushed or spawned since.

**MuxSession, MuxClient, MuxServer.** A step is one critical section or one await. A
session is its id, which is the count at its allocation. `Session::close` is
`CloseSwap` (the flag and the done signal), `CloseInput`, `CloseOutput` and
`CloseRemove`, called by the session's own pump, by the frame loop and by the
manager's sweep; `back` is where the caller goes on. `live`, `size` and `mgrClosed`
are the manager's fields, `Snapshot`, `Tick`, `IdleClose`, `Sweep` the monitor. A
link is `inp[s]` and `outp[s]`, so that an XUDP rebinding moves it from one session
to the next; `stopped` and `shut` are the links that were interrupted and shut
down. A mutex held over an await is read off the program counter (`InputFree`,
`OutputFree`). In the client the carrier takes frames when it has room, and never
has to; in the server the client sends any frame for an id it has used, one
GlobalID stands for all, and `Aborted` drops the monitor at any await once the loop
has ended. `late` and `lost` are history variables for the two exceptions of
`DownlinkShut` and `UpstreamShut`. `Alive` says when the `Weak` of an XUDP entry
upgrades.

**UploadQueue, SplitHub.** A packet is the post that brought it, so that two posts
can carry one number; `Pieces` is how many reads a packet takes. `push` is a send
into the bounded channel and a notification; `read` is cut at its critical sections
(current packet, heap, channel, wait); `close` drains and drops the channel under
`inner`. `Upsert` is the session table's, with the reaper each new session gets;
`Remove` takes out whatever session the id has by then. Handlers are one task per
POST or GET, the forward task and the task its drop guard spawns. Session q owns
queue q; the id may go through several sessions.

**DnsCache, DnsService.** One domain; a record is its expiry and whether it has
addresses. A task is a query of a lookup to a client, or the refresh it started.
`Find` is the cache part of `query_ip`; `Lock`, `Elect`, `Subscribe`, `GiveUp`,
`SendQuery`, `Broadcast`, `Asked`, `Release` and `Store` are `fetch`. The map's mutex
is held from `Lock` to `Elect` and `Unguard`, the destructor's `try_lock`, fails in
between. `Drop` is a future dropped at an await (abort, panic, refresh timeout).
`Collect` and `Sweep` are the two passes of the cleanup, which any store may come
between. `caching` is the configuration: off, on, `serve_stale` with a
`serve_expired_ttl` (`ExpiredTtl`), or `serve_stale` with 0, which `query_ip` takes for
no limit and `effective_now` for no extra time. `Group`, `Stop` and `Advance` are `make_groups` and `advance_groups`.

## 3. Properties and runs

| Run | Checks | Result |
|---|---|---|
| `pipe_safety` | `TypeOK`, `NoLostWakeup`, `ImplementsStream` | hold |
| `pipe_liveness` | `WritesReturn`, `CloseReachesReader` | hold |
| `kcp_window_safety` | `TypeOK`, `NoPrematureRelease`, `AckOwed`, `WindowsAdvance` | hold |
| `kcp_window_liveness` | `SegmentsArrive`, `WindowDrains` | hold |
| `kcp_connection` | `TypeOK`, `LocalCloseKeepsData`, `PeerTold`, `TerminatedReleases`, `ClosingReleases` | hold |
| `kcp_listener` | `ClosedUnlisted`, `CloseEmpties` | hold |
| `kcp_updater` | `OnlyLateWakesLost`, `FreshIsFlushed` | hold |
| `mux_client` | `ManagerSound`, `DownlinkShut`, `Teardown`, `Reaped` | hold |
| `mux_server` | `ManagerSound`, `LinkUsable`, `UpstreamShut`, `NoConflict`, `LoopProgress` | hold |
| `splithttp` | `InOrder`, `NothingLost`, `ReaderWoken`, `Delivery`, `Released`, `ForwardEnds` | hold |
| `dns` | `OneLeader`, `Verdict`, `CacheAnswers`, `CleanupSafe`, `LookupsReturn` | hold |
| `dns_leak` | `NoLeak` | violated |

Each property that holds has a mutant, an operator named beside the definition it
replaces, that breaks it: the property says something about that code.

**The violation: a leaked single-flight entry** (`cached.rs:42`). The comment on
`SfLeaderGuard` says that its drop takes the entry out of the map in every case. It
uses `try_lock`; when another fetch of the same server holds the mutex at that moment
the entry stays, with no leader, and no one removes it. From then on every query for
the key subscribes to a leader that is gone, waits 4 s and asks by itself, so queries
are no longer shared, but `LookupsReturn` shows that they still return.

### Other disagreements

These properties are stated in the modules and are false of the code, against what
a comment there, or in one row another part of the code, says. None is in the run list; each is reproduced by a cfg with
the constants given, the property and `SPECIFICATION Spec` (`ListenerSpec` and
`UpdaterSpec` in `KcpListener` and `KcpUpdater`) where no other is named.

| Property | Instance | What the counterexample shows |
|---|---|---|
| `EofMeansDrained` (invariant of `MCPipe`) | one writer, one closer, `Options <- MCWaiting`, `MaxChunks = 1`, `MaxBatch = 1` | `pipe.rs:229`: `poll_read` takes data and reads the state in two critical sections; a write and a close in between make it return EOF with the chunks still buffered |
| `StaleMeansSilent` (property of `KcpConnection`) | `WindowSize = 0`, `Flushers = {}` | `connection.rs:435`: `flush_inner` reads the time, then `last_incoming_time`; a packet in between makes the unsigned difference wrap around and pass the 30 s test |
| `FollowsDiagram` (property of `KcpConnection`) | `WindowSize = 0`, `Flushers = {"data"}` | `connection.rs:359`, `480`: loads and stores are separate, so a CLOSE from the peer can undo a local close, after which no timeout applies, and a connection can leave `Terminated` |
| `NoSelfDeadlock` (invariant of `KcpListener`) | `Ids = {i1}`, `MaxConns = 2` | `listener.rs:166`: a repeated close removes whatever has the id by now; if the table has the last reference to it, the destructor locks the mutex its own task holds |
| `WakeHeeded` (invariant of `KcpUpdater`) | `Wakers = {w1, w2}`, `Slots = {1, 2}` | `updater.rs:143`: a wake-up is lost when the task has decided to end and not yet cleared `running`; the data waits for the ping updater, up to 5 s. `OnlyLateWakesLost` shows that there is no other way to lose one |
| `CloseTerminatesAll` (property of `KcpListener`) | `Ids = {i1}`, `MaxConns = 1`, `ListenerFairSpec`, `CHECK_DEADLOCK FALSE` | `listener.rs:120`, against the comment at 177: a packet read before the close opens a session after it; if it carries CLOSE the session is `PeerClosed` (`connection.rs:359`), which has no timeout, and stays in the table after the application has dropped it |
| `ServableKept` (property of `MCDnsService`) | the constants of `DnsService.cfg` | `cache_controller.rs:268`: with `serve_stale` and `serve_expired_ttl = 0` the cleanup removes a record as soon as it has expired, while `query_ip` would serve it without a limit (`cached.rs:132`) |
| `SelfHealing` (invariant of `MCSplitHub`) | `MaxPosts = 4`, `MaxQueues = 1`, `ChanCap = 1`, `MaxPackets = 3`, `MaxGets = 1`, `Pieces <- MCOnePiece`, `Workloads <- MCRepeated` | `upload_queue.rs:180`, against the comment at 217: of two packets with one number that both came early, the second stays on top of the heap after the first was read, and hides the next one, which the reader does not find |
| `CarrierEndsSessions` (property of `MuxServer`) | `MaxSessions = 1`, `FairSpec` | `inbound.rs:485`, against the comment at 476: the monitor, which would close the sessions, is aborted when the loop ends; a session whose upstream stays silent lives on |

`InOrder` and `NothingLost` themselves contradict no comment, but depend on a session
having one reader. With `MaxPosts = 2`, `MaxQueues = 2`, `ChanCap = 2`, `MaxPackets = 1`,
`MaxGets = 2`, one piece per packet and two posts that both carry packet 0, each has a
counterexample: `read` unlocks the queue between popping a packet and making it current
(`upload_queue.rs:184`), so two GETs of one session may hold one packet each, and the
later one replaces the current packet, or becomes current when its number has been read.
The theorems of section 4 show that it takes both, two readers and a repeated number:
with one reader, or with distinct numbers, the properties hold.

The modules also state facts no run repeats: `Fifo`, `BufferBound`, `ReceiveWindowBound`,
`PathTruthful`, `OneTask` and the type invariants of the listener, the updater and
SplitHub are proved; `HeapBound` and the type invariants of the other newer modules were checked on
the instances of the runs.

### Bounds

- `pipe_safety`: two writers and three chunks are the least with both writers
  asleep at once on a full pipe; batches of two make a write pass the limit; limit
  0 with waiting and idle timeout, limit 1 with discarding. The writers are
  interchangeable (symmetry). `pipe_liveness` has one chunk less and no symmetry.
- `kcp_window_safety`: windows of two segments slide over three numbers with two
  segments in flight: a segment and its retransmission, a stale ACK and a fresh
  one, coexist. `kcp_window_liveness` has one in flight.
- `kcp_connection`: two segments, so that one can be acknowledged and one not; no
  flusher beside the ping updater. The theorems hold for every window and set of
  flushers.
- `kcp_listener` (235,084 states): three connections under one id: a session, its successor, and one
  more after the successor was removed by mistake.
- `kcp_updater` (2,994 states): three wakers, and a slot for a task of each.
- `mux_client` (364,294 states): two sessions, the least with one closing while the
  other is dispatched, is swept or holds the carrier.
- `mux_server` (69,636 states): two sessions, so that one takes over the other's link;
  the invariants also hold with three (3.3 million states), where a link moves twice.
- `splithttp` (324,259 states): three posts, two sessions and one GET; a channel of one
  and a heap of one, so that both fill. Four workloads: three packets, a repeated
  packet, a packet whose predecessor never comes, an id that goes through two sessions.
- `dns` (252,016 states): two lookups over two clients and two families, with
  times to live of 1 against a clock of 3 so that records expire, are served stale and
  are cleaned up; six workloads (parallel in one and in two groups, stale and parallel,
  stale and serial, stale without a limit, serial). `dns_leak` has one client.

### Fairness

- Pipe: a woken task is polled and a poll that began ends (tokio). The reader's
  caller is a copy loop, so it reads again unless the last read ended the stream.
  Writers and closers owe nothing.
- KcpWindow: strong fairness of receiving a segment that is sent again and again (a
  path that does not lose the same segment forever), weak fairness of the flushes,
  which the updaters repeat, and of the application's reads.
- KcpConnection: tasks that run go on, the ping updater ticks until `Terminated`,
  time passes. Neither the application nor the peer is fair.
- KcpListener: tasks finish their calls; once the hub is closed no packet renews a
  connection, so the timeouts of `flush_inner` terminate each one but those in
  `PeerClosed`, which no timeout leaves (`ClosingReleases` of `KcpConnection` is about
  the same timeouts). The application owes nothing.
- KcpUpdater: spawned tasks run and wakers finish. The ping updater is not fair: its
  ticks alone would flush everything and hide what the data updater does.
- Mux client: spawned tasks are polled, timers fire, an application reads what it is
  sent or drops its pipe. `select!` polls `done` each time, so the monitor's exit is
  strongly fair. The carrier need not make progress: `Teardown` covers a full one.
- Mux server: tokio's mutex is first in, first out, so a close that waits for a lock a
  pump keeps taking gets it (strong fairness of `Close` and `Frames`). Carrier, client
  and upstreams owe nothing.
- SplitHub: tasks run and timers fire, the dispatcher reads or drops what is forwarded.
  Requests need not come, bodies and responses need not end.
- DNS: one condition, that some task or lookup that can go on does; every question to a
  server and every wait for a leader has a timeout. Nothing need be asked or cleaned up.

Deadlock checking is off for the listener, the updater, mux, splithttp and DNS: a closed
listener without sessions, a closing connection without a task, a carrier that ended, a
hub without requests and lookups that have all returned have nothing to do.

## 4. Proofs

All theorems are proved for every value of the constants, from the named
assumptions of the module that declares them: the tasks of a pipe are distinct and
limits at least -1; windows and limits are natural numbers; the flushers are the
data updater and `poll_flush`; a carrier has at least one session; a channel holds at
least one packet and a packet has at least one piece; a DNS workload gives each client
and lookup a set of families; families (finitely many) and times to live are natural
numbers.

- `Pipe_proofs`: `TypeCorrect`, `FifoCorrect`, `BufferBounded`, `NoLostWakeups`,
  `StreamRefined`. `NoLostWakeup` speaks of quiet states only and is not inductive.
  `WakeInv` says what accounts for a task on its way to sleep: it is registered or
  already woken (`Registered`), unseen chunks are still to be signalled or their
  permit still to be found (`ReaderCovered`), an empty buffer has a signal, a permit
  or a retrying writer (`WriterCovered`), and a raised close flag has a task that
  will wake whoever missed it (`CloseCovered`).
- `KcpWindow_proofs`: `TypeCorrect`, `Reliable`, `AcksKept`, `ReceiverBounded`,
  `Advance`. Reliability needs `PathTruthful` (an ACK in flight, however old, is
  true), which needs the AckList to hold received numbers only; `AckOwed` needs
  `sending_next` on the path never to exceed `first_unacknowledged`. `IInv` is their
  conjunction.
- `KcpLifecycle_proofs`, of the connection: `TypeCorrect`, `Released`, `Told`, `DataKept`. `ToldInv`
  extends `PeerTold` to tasks between their load and their store. `DataInv` says
  that, as long as only `close()` has happened, `write` pushes only while the state
  is Active with no flusher about to change it, and that whoever is about to clear
  the window has seen it empty.
- of the listener: `ListenerTypeCorrect`, `Unlisted`. Every entry is under its own id
  (`OwnId`), so a served `remove` leaves the connection unlisted, and nothing lists it
  again.
- of the updater: `UpdaterTypeCorrect`, `SingleTask`, `LateWakesOnly`. `OneTask` is inductive with the
  types: it ties `running` to the task, so that a waker that saw the flag clear before
  another one spawned loses the compare-and-swap. `OnlyLateWakesLost` speaks of states in
  which all wakers have returned; `WakeInv` says the same while they are under way: what
  was never flushed has a waker that has not yet returned, a task that will look again, or
  was missed.
- `MuxSession_proofs` has the lemmas both workers share. `ManagerSound` is not inductive:
  `MgrInv` adds `TasksSound` (a task past the swap of `close` works on a session whose flag
  is set) and `SweepSound` (while the closed manager sweeps, what is still open is in
  `todo` or in the monitor's hands, so that clearing the table forgets no one). Each step of
  `Session::close`, of the monitor and of an insertion keeps it.
- `MuxClient_proofs`: `ClientManager`, `DownlinkEnds`. `BindSound` ties the output to where
  `dispatch_with_source` is, and `DownCovered` says that a closer that is past the
  output has shut the one that was bound, or it was bound after that (`late`).
- `MuxServer_proofs`: `ServerManager`, `UpstreamEnds`, `EntriesSettle`, `LinksWork`.
  `LoopSound` says which session the frame loop works on: New frames use the next id, an entry names an XUDP session, and a
  rebinding holds the session whose link it takes. It is needed because a rebinding must
  not touch a normal session's link; `UpCovered` then says that the link of a normal
  session stays its own and is shut once its closer has passed the output, or was lost
  with the aborted monitor. `EntrySettled` says where the loop may be while an entry is
  Initializing: never between two frames. For `LinksWork`, `LinkInv` follows a link from
  session to session: it is held by one session at most, never by one older than the
  link (`LinkIds`), and only the link of a closed session that nobody takes over is
  interrupted or shut (`LinkEnds`). Nobody takes over the link of a normal session, nor
  any link once the manager is closed (`Spared`); that is why a closer that has tested
  for this before it interrupts the link cannot hit the session that holds it by then.
- `DnsService_proofs`: `SingleFlight`, `CacheServes`, `CleanupKeeps`, `LookupVerdict`.
  `KeysSound` says that whoever goes for the map asks for some family: a query without
  families returns before it. With it a leader's key is in the map's domain, and a task
  is elected only where no leader is. The action properties `CacheAnswers` and
  `CleanupSafe` rest on `CacheInv`: a task stores only records it was answered, and the
  time the cleanup collected with is not ahead of the clock, so that a record renewed
  since is not dropped. `ExpiredUnanswered` shows that what the cleanup drops answers no
  query for any families, unless stale records are served without a limit; `TtlIsLeast` says that the merged record expires with the first
  family (`MinIsLeast`, from the well-foundedness of the naturals). `Verdict` becomes
  inductive as `LookupInv`: outcomes agree with the results of the queries
  (`ResultsSound`), the groups that `next_group` has passed have failed (`GroupsPassed`),
  and serial queries are asked in turn (`InTurn`). `StopFacts` is about
  `advance_groups`: where it stops, it has passed failures, and clients of the group it
  answers from.

- `SplitHub_proofs`: `TypeCorrect`, `PacketsInOrder`, `PacketsKept`, `WakeupsKept`,
  `OneGetSuffices`, `DistinctNumbersSuffice`. `InOrder` and `NothingLost` do not hold for every `MaxGets`
  (section 3), so the theorems assume that at every moment each queue has one reader
  (`OneReader`) or no number is repeated (`NoDuplicates`); the last two say which clients
  satisfy that: one GET, or distinct numbers. The run's instance is of the first kind.
  `BaseInv` needs no such hypothesis: whoever works on a queue has one, what is in a
  queue or in a reader's hands was accepted by that queue (`Sound`), and a packet is in one
  place (`Apart`: channel, heap, current, or held by one reader), across reads, closes and
  pushes in any order. `OrderInv` adds `Alone`, that a reader which found no current packet
  still finds none when it makes one current, unless `close` drained the queue meanwhile,
  and `AllKept`, which names the reader that holds a packet between the two critical
  sections of `read`. Without `Alone` a step of `read` could replace a packet that was not
  read; without repeated numbers the packet it replaces would be the same one, which
  `Apart` excludes. `DrainFacts` is about `close`: what it drains goes into the heap, but
  for the next packet, which becomes current if there was none.
  `WakeupsKept` (`ReaderWoken`) assumes one reader also when numbers are distinct: the
  permit of a queue wakes one of two sleeping readers, and TLC finds the other one asleep
  on a packet. Its invariant `WakeInv` adds `BornSound`: a reaper has not begun before its
  session is made, nor the removal of a drop guard before its GET ends, so that no step
  starts anew a task that was about to wake somebody.

Model-checked only: every liveness property (fairness and `ENABLED` are outside the
prover), and `HeapBound`, which holds with one GET only (a second one starts reading
where the first gave up because of the heap). Every safety invariant and action
property of the runs is proved.

## 5. Not modelled

Segment numbers do not wrap (2^32 segments of one connection). Memory orderings
weaker than sequential consistency do not occur in the modelled code. Reads with
deadlines of `KcpConn` change no state other than the receiving window. Encodings,
cryptography, protocol codecs, generated code and third-party libraries are left
out; `PROJECT.json` gives the reason for each component.

Of multiplexing: the picker of workers, byte counters and frame layout. The periodic
cleanup of XUDP entries finds nothing to clean and is left out. Of splithttp:
stream-one, which has no session, headers and padding, the client side. Of DNS: hosts,
the choice and order of clients, address filters, merging of errors, transports.

Known limits of the code that no property is about, most of which need data or sizes the
models abstract from:

- `pipe.rs:310`: an injected error raises no signal; a sleeping reader sees it late.
- `sending.rs:57`: segment numbers are compared without wrapping around.
- `connection.rs:328`: `PeerClosed` has no timeout. `connection.rs:844`: `poll_shutdown`
  terminates with unacknowledged data in the window. `config.rs:43`: 32-bit overflow of
  capacities from 4096 MB/s on.
- `session.rs:515`: the count saturates at 65535, far beyond the 128 connections a carrier
  is given. `session.rs:549`: `add` with an id in use counts it twice; the client numbers
  upwards. `session.rs:306`, `worker.rs:430`: copies of an XUDP entry, a link dropped when
  `add` fails.
- `upload_queue.rs:141`: a packet sent between the draining and the dropping of the channel
  is accepted and lost with it; `NothingLost` speaks of queues that are not closed.
  `handler.rs:471`: an error of the queue reaches the dispatcher as a clean end of data.
- `hub.rs:87`: the `Notified` of `poll_closed` is dropped when it returns, so a close does
  not wake a reader that is asleep. `mux.rs:225`: the pool of clients is unlocked between
  the test of its size and the new client, so concurrent callers pass the limit.

## 6. Plan

1. Proofs: `HeapBound` for one GET; that a reader of distinct numbers never sleeps on the
   next packet (`SelfHealing`), the safety part of `Delivery`.
2. `UploadQueue` as a refinement of `Stream`; a mux client and server on one carrier, as a
   set of independent streams.
3. `KcpPeers`: two `KcpConnection`s over a lossy path, for the close handshake.
4. `KcpConfig` and the wrap-around of segment numbers: operators against reference
   definitions, over small widths.
5. Statistics channels and the online map; the observatory's ring.
6. Reverse bridge, worker picker, reuse counters of splithttp; balancers of the router.
7. The fake-IP pool.
8. Dispatcher link over two `Pipe`s, happy eyeballs, core life cycle.

Runs stay small: two or three actors and as many items, one id reused.
