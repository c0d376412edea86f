# trojan-rs: a TLA+ development

trojan-rs is a trojan server and a set of transparent proxies in Rust. Nearly all
of it is relaying: bytes and packets move between sockets that become ready, fill
up and close in any order. What makes it correct is order, loss, wake-ups,
closing, and the bookkeeping of connections; what makes it hard to test is that
each of these depends on the interleaving of two peers, the kernel, helper
threads and timers. This directory models that part in TLA+, checks it with TLC
and proves the central facts with TLAPS.

Paths below are relative to the repository root (`src/…` is the main crate).

## 1. Inventory

### The programs

`main.rs` starts one of seven modes: `server`, `proxy` and `wintun` run on a mio
event loop in one thread, `aserver`, `aproxy` and `awintun` are tokio versions of
the same three, `dns` is a split DNS server for windows. `async_smoltcp` and
`tokio_rustls` are libraries of the async modes; `mobile`, `mobile2` and
`trojan-client` are applications around copies of the same relays; `wintool`
wraps the windows adapter API.

### Components, state and operations

| component (source) | state | operations | interacts with |
|---|---|---|---|
| server relay (`server/connection.rs`, `tls_server.rs`, `tcp_backend.rs`, `udp_backend.rs`) | connection table, list of indexes to remove; per connection: status of both endpoints, TLS session, `data`, `read_proxy`/`read_backend`, resolver state | `ready`, `try_resolve`, `do_status`, `timeout`, `remove_closed` | kernel events, resolver thread, peers |
| endpoint life cycle (`status.rs`) | `ConnStatus` | `established`, `peer_closed`, `shutdown`, `check_status` | every mio endpoint |
| TLS endpoint (`tls_conn.rs`, `tcp_util.rs`) | rustls session, status | `do_read`, `do_send`, `write_session`, `copy_stream` | server relay, proxies, pool |
| ping backend (`server/ping_backend.rs`) | buffers, cache of results, channels | `dispatch`, `do_read`, `poll_ping`; check thread | server relay, ICMP |
| proxy TCP (`proxy/tcp_server.rs`) | connection table; per connection two endpoints and two flags | `accept`, `ready`, `do_status`, `check_timeout`, `remove_closed` | pool, loop |
| proxy UDP (`proxy/udp_server.rs`, `udp_cache.rs`) | `conns`, `src_map`, removal list, cache of bound sockets | `accept_once`, `send_request`, `ready`, `remove_closed`, `check_timeout` | pool, loop |
| idle pool (`idle_pool.rs`) | connections in handshake, server address | `get`, `ready`, `alloc`, `check_timeout`, `resolve` | proxies, profiler, resolver |
| resolver (`resolver.rs`) | channel of answers; a thread per lookup | `query`, `consume` | server relay, pool |
| bypass profilers (`proxy/net_profiler.rs`, `aproxy/profiler.rs`) | table of results, request buffer, PING connection | `check`, `update`, `ready`/`run_profiler`, `reset` | PING connection of the server, check tasks, ipset |
| proxy UDP, async (`aproxy/udp.rs`) | maps of senders and sockets, bounded channels | `run_udp`, `local_to_remote`, `remote_to_local` | tokio scheduling |
| split DNS (`dns/*.rs`) | cache with waiting askers, two lists, routes | `dispatch_local`, `dispatch_server`, reload | clients, two servers, file monitor thread |
| async server (`aserver/*.rs`, `async_utils.rs`) | per connection: stage, buffer, two copy tasks; per UDP association: stream buffer, names, list of addressed targets, channel; check routine: cache, waiters, running checks | `start_proxy_internal`, `start_tcp`, `copy`, `start_udp`, `target_to_source`, `start_ping`, `start_check_routine` | tokio scheduling, timers, look-ups, targets |
| protocol (`proto.rs`) | none | three parsers, three generators | every relay |
| wintun proxy (`wintun/*.rs`) | maps of connections, smoltcp sockets with wakers, two buffers and two closed flags per TCP connection, reference counts and frame caches of UDP | `do_local`, `do_remote`, `check_half_close`, `check_timeout`, `remove_closed` | smoltcp, pool, loop |
| async wintun (`awintun/*.rs`, `async_smoltcp`) | the device's maps between sources, handles and channels, removal lists; dispatcher's maps and channel of notices | `poll`, `process_ingress`, `process_egress`, `remove_tcp`; `run_udp_dispatch`, tasks of sockets and connections | smoltcp, tokio scheduling |
| name server of the mobile app (`mobile/src-tauri/src/tun/dns.rs`) | store of answers and waiting requests, TLS stream to the trusted server with two buffers | `do_request`, `do_trusted_response`, `do_untrusted_response`, `dispatch_message`, `query_trusted`, `reset_trusted` | smoltcp socket, both servers |
| tokio_rustls, configuration, front ends | see section 6 | | |

### What is hard, and what makes each component correct

* **Edge-triggered wake-ups and wakers that fire once.** Whatever a handler leaves
  unread or unsent must be remembered and resumed: no unit may wait with no event to
  come (`NoStall`, `NoLostWakeup`).
* **Half-closed relays.** When one side ends, the other still has to send what is
  queued, then close, and both have to leave the tables (`RelayFaithful`,
  `TcpInOrder`, `NothingStuck`, `ClosedIsRemoved`); a relay is two pipes
  (`RelayIsPipes`).
* **State used after the event that invalidated it.** Removal is deferred to the
  end of a batch; DNS answers, further events and new packets of the same source
  come in between (`StatusForward`, `MapsAgree`, `PoolNoneClosed`, `NoStaleHandle`,
  `DeviceMapsAgree`, `SocketsInUse`).
* **TLS that is not up yet.** rustls holds plaintext back during the handshake, so
  `wants_write` does not say whether anything is left to send (`TcpInOrder` and
  `NothingStuck` of `MCProxy`, with the exceptions section 5 gives).
* **Streams cut anywhere.** Requests, frames and answers come in pieces, and the rest
  of a partial write has to be kept (`ReadsBack`, `PacketsInOrder`, `AsksAnswered`,
  `UdpInName`, `CacheIsRemaining`).
* **Lost connections, retries and late answers** in the profilers, the resolver
  and the DNS servers (`PingDecided`, `LostIsAskedAgain`, `PoolFollows`,
  `EveryAskAccounted`, `EachAnsweredOnce`).
* **Bounded channels and tasks that wait for each other** in the async programs
  (`LoopsUnblock`, `DeadAreForgotten`, `TasksEnd`).

`PROJECT.json` lists these as hazards, each at its line with the properties that
catch it, and with a note where none does.

## 2. Modules and how they correspond to the code

Conventions. A mio connection is a record; a method of the code is an operator
from record to record with the method's name, and a handler is the composition of
the methods it calls, in the order in which it calls them. One event, one packet
or one message of a channel is one step: the loops run on one thread, and a
handler is not interrupted. In the async programs a step of a task goes from one
`await` to the next. The kernel raises edges in `ev`; a poll moves them
into `batch` with the readiness they have at that time, so that a handler sees
readiness that may be out of date, as the code does. Data is units, halves of
frames or addresses: as much as the properties tell apart. Operators whose comment
begins with `Mutant:` are not part of the models; they are wrong variants of the
definition that follows, kept to show that the properties notice them.

The mio programs:

* `ConnStatus` — `status.rs`: statuses and the methods of `StatusProvider`.
* `ServerConn` (extends `ConnStatus`) — one connection of the server: request
  parsing, TCP and UDP backends, the DNS wait, partial writes, full sessions,
  closes from both sides, timeout, deferred removal. Unit 0 of the client's stream
  is the request head; its kind (`Requests`) decides what `parse` finds.
* `PingConn` — a PING connection: requests in two pieces, cached results, the
  check thread and its channel, `poll_ping` after every round of events.
* `ProxyTcp` — one TCP connection of the proxy, taken from the pool cold, during
  its handshake or warm.
* `ProxyUdp` — sources, their connections, the two maps, frames in halves, the
  cache of sockets with their reference counts, the 120 second rule.
* `IdlePool` — the pool, the loop that drives it, the resolver's threads and the
  server's change of address. Connects do not block: `alloc` begins as many as the
  system lets it (`Connects`), the others fail at once and ask for the address, and one
  to an address that the server has left fails later, as an event.
* `PingResults` — the table and the grouping that both profilers share;
  `NetProfiler` — the profiler of the mio proxy.
* `WinTunTcp` — one TCP connection of the wintun proxy: the smoltcp socket with its
  states and wakers, the TLS connection with its session limit, taken from the pool
  cold (its TCP connect under way, as a rule), during its handshake or warm, `do_local`,
  `do_remote`, half close, the two timeouts and removal from both maps.
* `WinTunUdp` — the wintun UDP server: sockets, their counts, connections found by
  source and by token, frames as counts of bytes, the cache of a partial write.
* `DnsServer` — cache, askers, two upstream servers, reload of the lists;
  `DomainMap` — the matching of the list; `HostsParser` — the parser of the hosts
  file; `MobileDns` — the name server of the mobile app.

The async programs:

* `AServer` — a connection from the TLS accept to the end of both `copy` tasks: head
  in pieces, failed and repeated look-ups, the X-Forwarded-For line for HTTP to
  `back_addr`, private targets, timers per direction.
* `AServerUdp` — the loop of `start_udp` and `target_to_source`, the hole with its 60
  seconds; `APing` — `start_ping` for several clients and the one check routine.
* `Profiler` — the profiler, a select loop over three channels.
* `AProxyUdp` — tasks and bounded channels of the UDP proxy over bound sockets;
  `AWinTunUdp` — of the UDP proxy over the device.
* `TunDevice` — TCP in `async_smoltcp`: one turn of the device is ingress (new
  sockets, accepting, data to the streams' channels) and then egress (responses,
  closing, removal); smoltcp's sockets go through LISTEN, SYN-RECEIVED, ESTABLISHED,
  CLOSE-WAIT and so on as the code sees them.

For both: `Proto` — generators and parsers of `proto.rs`, byte by byte. `Pipe` — the
abstract specification of one direction of a relay: what is delivered is a prefix of
what was written, the end comes after everything, and a pipe that is cut delivers
nothing more. `AServer` and `WinTunTcp` instantiate it twice each, with a refinement
mapping from their buffers, and implement it (`RelayIsPipes`).

`…Proofs` — theorems (section 4). `MC…` — the constants and compositions of the runs.

Simplifications worth knowing:

* `ServerConn`: no TLS handshake records, no X-Forwarded-For rewriting,
  `disable_udp_hole` off, one index. A DNS answer that reaches a
  connection which the same batch has closed and not yet removed opens a backend
  that is dropped at removal; the model does the same.
* `ProxyUdp`: the set `Index` bounds the table; a failing registration is part of
  `AcceptFails`; upward data is only counted.
* `ServerConn`, `ProxyTcp`, `ProxyUdp`, `IdlePool`: `do_read` takes all that has arrived.
  In the code `read_tls` is called in a loop before `process_new_packets`
  (`tls_conn.rs:163`), and rustls refuses more than its buffer holds; the endpoint is
  then shut, and to the connection this is a peer that resets after what has been read.
* `IdlePool`: index 2^62 wrap-around is left out: a new connection takes the
  smallest free index.
* `NetProfiler`: an answer is two halves. A read can end inside an answer because
  the server writes bursts of 20-byte answers in TLS records of 16384 bytes. The
  session hands nothing to the kernel before the server answers, the slowest
  kernel there is. Ages are what the code compares: below 100 seconds, above, and
  above `timeout`, which is longer than a check takes. Both profilers take the
  no-bypass ipset (`NoBypass`) as fixed: the administrator fills it.
* `Profiler`: channels are sets; one turn of the loop with its awaits is a step,
  since nothing else touches the task's variables.
* `AProxyUdp`, `AWinTunUdp`: connections have numbers, which the code does not have;
  this is what lets `NoticesAreCurrent` speak of successors. Capacities of 1 to 3
  stand for 1024.
* `DnsServer`: a name stands for the key `name|type`; a query and its answer are
  one element in transit; a message without a question, a file that is gone and a
  failed start end the program; the monitor is assumed to report the paths as they
  were given. The branch for a name that is not in the store cannot be reached.
  PTR queries for the listener's own address get the answer made by `setup`, with
  id 1, and are left out of the accounts. The effect of the option
  `dns_cache_time` is not modelled because there is none: `expire_time` is read
  only together with a response, which sets it from its ttl.
* `AServer`: a TLS stream is an ordered channel that may block, end or fail. UDP and
  PING requests end this module's interest; they go on in the other two.
* `Proto`: bytes are 0 .. 15 and lengths are scaled with them (16 for 256).
* `WinTunTcp`, `WinTunUdp`: `pool.get(…).unwrap()` finds a connection; that it does not,
  and the program panics, is left out.
* `WinTunTcp`: buffers of the code are as large as the buffers they are read into, so
  that a partial write leaves a rest; the end of the server's stream is a cut, since
  the socket is closed and not the TLS session.
* `TunDevice`: all sources have the same target, the case in which sockets can be
  confused. smoltcp retransmits, so that no segment is lost. What a connection reads
  that was cross-wired (section 5) is only asked to be in order and without a hole;
  `own` marks the connections of which the exact stream is asked.

## 3. Runs

Every run is a pair of an `MC…` module and a `.cfg`. Components that ask the same kind
of question and do not influence each other share a run: a variable `part`, chosen in
the initial state and never changed, says which of them moves, and the others keep
their initial values. Such a run explores the sum of the state graphs, not their
product. A property of one part holds trivially in the others, and the properties of
`MC…` modules combine those of the components. Fairness conditions of different parts
are joined into one where that is sound: with `part` fixed, only one of the joined
actions is ever enabled.

Bounds are the smallest at
which the cases of interest occur. One unit of socket buffer makes every write of
two units partial and every second write block; two units of data in each direction
make order, refill and the restart after a stall visible; a session limit of one or
two makes it overflow; two sources, addresses or ids make sharing and mix-ups
possible; three addresses, the middle one not to be bypassed, make the grouping of
`async_ping` leave one of two groups out (there only one address grows old); one or
two lost connections, edits, duplicates and moves let a second one
meet the recovery from the first. `NSyns = 3` in `tun_device` lets a source connect
again while another socket has been reset; its sources are interchangeable, and it
checks invariants only, so that symmetry is sound. In `aserver` NUp = 5 is a head of two
units, an HTTP head of two and one more. In `wintun` the request and NUp = 4 units are
more than the session (2) and the kernel (1) take, so that `rbuffer` fills, a closed
application waits for it and the socket behind it fills too. Safety has also been tried at
larger bounds by simulation.
Deadlock is not checked: in all runs the environment may stop for good (a finished
connection, used-up bounds, a program that has ended).

| run | parts | properties | shows |
|---|---|---|---|
| `server_conn` | `ServerConn` | `TypeOK`, `RelayFaithful`, `NoStall`, `StatusForward`, `NothingStuck` | order, no loss while both sides are open, flushing on close, no missed edge, no revival; a closed connection leaves the table without a timeout, what the client sent arrives or the connection goes away |
| `proxy` | `ProxyTcp`; `ProxyUdp` with one source, with two; `IdlePool` | `TcpInOrder`, `UdpInName`, `MapsAgree`, `PoolNoneClosed`, `NoLostWakeup`, `NothingStuck`, `PoolFollows` | as for the server, with handshakes and pool connections in three states; split frames leave through the right socket, `conns` and `src_map` are one relation, shared sockets stay cached; no closed connection is in the pool, which finds the server's new address although lookups overtake each other, if connects to the old one keep failing at once |
| `ping` | `PingConn`; `NetProfiler` | `PingAccounted`, `PingAnswered`, `PingDecided` | every request is accounted for and answered once, the check thread is told of the shutdown; what was lost with a connection is asked for again, and every address is decided on |
| `async_ping` | `APing`; `Profiler` | `AsksAnswered`, `ProfilerGoesOn`, `LostIsAskedAgain` | joined questions are all answered by one check; a lost connection is noticed, addresses that the grouping passes over have turns to come, a request repeats what was lost |
| `async_udp` | `AProxyUdp`; `AWinTunUdp` | `NoticesAreCurrent`, `SocketsCached`, `LoopsUnblock`, `DeadAreForgotten` | notices meet their own connection; sockets in use are kept; waits end; ended connections are forgotten |
| `tun_device` | `TunDevice` | `DeviceMapsAgree`, `StreamsInOrder` | the device's maps agree although handles are reused and sources return; bytes keep their order through sockets, channels and tasks |
| `dns` | `DnsServer`; `DomainMap`; `HostsParser`; `MobileDns` | `EveryAskAccounted`, `ListInForce`, `ListsAsWritten`, `EachAnsweredOnce`, `ListTakesEffect`, `AskedIsAnswered` | requests are answered once under their id; the lists in force are the files'; the two algorithms agree with their reference definitions; lost queries are made up for; a newly blocked name ends up with the trusted server |
| `aserver` | `AServer`; `AServerUdp`; `Proto` | `PacketsInOrder`, `HoleFollowsRequests`, `ReadsBack`, `RelayIsPipes`, `TasksEnd` | a relayed connection implements two pipes; packets keep their order over failed look-ups; only the addressed answer; parsers read back what generators write; no task is left behind, save by a name that never resolves |
| `wintun` | `WinTunTcp`; `WinTunUdp` | `NoStaleHandle`, `NoStall`, `SocketsInUse`, `RelayIsPipes`, `ClosedIsRemoved` | half close implements two pipes, no handle is used after removal, also where a socket is reset while the connection to the server is being made, no waker is missed, closed connections are removed; UDP sockets outlive their connections |
| `async_udp_name` | `AProxyUdp` | `AnsweredInName` | *violation*: answers of a second target leave in the name of the first |
| `wintun_frame` | `WinTunUdp` | `CacheIsRemaining` | *violation*: what is cached of a partly written frame is not what is left of it |
| `tun_device_sender` | `TunDevice` | `SenderFound` | *violation*: data for a socket whose channel is not in the map, at which the device panics |

The runs marked as a violation state what a document, a log line or an `unwrap` of the
repository says, and TLC finds a behaviour of the code that contradicts it;
`PROJECT.json` (`findings`) quotes the line. A module's type invariant is checked by
itself or as the first conjunct of another invariant; `NetProfiler` is checked for
liveness only, and the types of `DnsServer` are part of the invariants of its proofs.
Each property of a passing run has mutants, one for each component it speaks of where
that is possible: plausible bugs in the mapped code under which TLC refutes the
property.

### Fairness

Fairness matters to the temporal properties only. It is: the loop polls and handles
what it has fetched (it has no other work and handlers do not block); peers and
the kernel move what is in their buffers (`server_conn`, `proxy`; not that they
send or close); helper threads end their lookups and checks; a task goes on when what
it awaits is there; timers of the async server and of the wintun proxy end (`TasksEnd`,
`ClosedIsRemoved` are about them); ready branches of a
`select!` are not passed over for ever (tokio polls them in random order); lost
messages are not lost every time (strong fairness on the answers of the ping and
DNS servers, and on the resolver's finding the proxy's own server; `PingDecided` leaves out
the case that requests overfill one
session after another, where answers can be too late every time). A look-up of the async
server ends and need not ever succeed, and nothing makes a connect of the pool fail at
once: `PoolFollows` has that as its condition. Some client that wants
a DNS answer asks again, as resolvers do: the code relies on it, having no retry of its
own. Timeouts of the mio programs are steps that may happen, never steps that must,
unless a property is about them (`NothingStuck` for UDP: a source that
keeps sending, after 120 seconds). The weak fairness of a loop that always has a step to
take is spelled out (`LoopRuns`, `loops`): it changes its variables again and again. What
must happen in the end is stated as "again and again nothing waits" (`[]<>`), which for
the finitely many messages of a run says the same as "what waits is served".

## 4. Theorems

Checked by TLAPS for every value of the constants that satisfies the modules'
named assumptions.

* `ServerConnProofs!TypeCorrect` — `TypeOK` of a server connection. It includes
  the limits of session and socket buffers, so it is not only about types: it
  needs that every method keeps the record's fields in range. One lemma per
  method, one step per action.
* `ServerConnProofs!StatusOnward` — `StatusForward`: no step takes an endpoint's
  status back. It follows from `TypeCorrect` and lemmas on how each method moves
  the rank of both endpoints.
* `ProxyProofs!OneConnectionPerSource` — `MapsAgree`. Not inductive by itself:
  the invariant `IInv` adds the types and that a connection's record keeps its
  source (`Owned`). No method touches the source; accept enters a fresh index for
  a source without one; removal takes the same connections out of both maps.
* `ProxyProofs!UdpAnswersInName` — `UdpInName`. `UInv` adds to `IInv` that no connection
  keeps more than the first half of a frame (`Typed`, `Whole`: the parser always starts at
  the beginning of one), that it answers through the socket of the address it has
  parsed (`InName`), and that a socket in use is in the cache (`SocketsShared`).
* `ProxyProofs!TcpRelayFaithful` — `TcpInOrder` of the mio TCP proxy. As for the server,
  everything that was read lies on one line per direction (`UpOK`, `DownOK`). What is
  particular here is that the upward line has two queues, of which the handshake decides
  which one is used (`Stage`); `EndsOK` ties the ends of the peers to the statuses, and
  `Excused` says when data may be dropped.
* `ProxyProofs!PoolHandsOutOpen` — `PoolNoneClosed`. `PoolInv` says that pool, batch and
  events to come speak of at most `2 * Size` indexes, so that a new connection finds a free
  one that no late event names, and that the lookups that are out are counted once.
  `check_timeout` removes from the highest place down, so that `swap_remove` only moves
  connections that have been looked at (`Swept`).
  How many connects fail at once plays no part.
* `ProxyProofs!WakeUpsKept` — `NoLostWakeup` of all three parts of the mio proxy, in the
  manner of `NoLostWakeUp` above: `UdpAwake`, `TcpAwake` and `PoolAwake` say of every
  connection what the edges and the batch still have to do (`Stirred`, `TcpStirred`,
  `PoolStirred`), beside the three invariants above. For TCP the
  remembered reads of both sides are part of it, for the pool that whatever is
  reported readable is reported writable too, since nothing arrives before the connect.
* `DnsServerProofs!ListsFollowFiles` — `ListInForce`. The strengthening `LInv` says
  that the files are watched before they are read, and that the reloads of a turn
  are done before its poll.
* `DnsServerProofs!AsksAccounted` — `EveryAskAccounted`. The strengthening `AInv`
  adds that a query at a server has an entry in the store, so that an answer always
  finds the askers it is owed to. It rests on two lemmas about counting occurrences
  in a sequence.
* `DnsServerProofs!MobileAnswersOnce` — `EachAnsweredOnce` of the mobile app's name server.
  `MobileInv`: a request is in the inbox, answered, dropped or waiting, never two of these;
  who waits is in the entry of its name once (`ListedInv`, `StoreInv`), and an entry with a
  response has nobody waiting, so that neither a late nor a repeated answer meets a
  request again.
* `DnsServerProofs!ListsRead` — `ListsAsWritten`: `DomainMap::contains` and the parser of
  the hosts file compute their reference definitions, for any labels, names, lists and
  lines. Both are loops, so that what they compute is an invariant: `ContainsInv` (nothing
  found before the index) and `HostsInv` (what has been collected after n characters, in
  each of the six states of the parser).

* `ServerConnProofs!RelayKept` — `RelayFaithful` of a server connection. All that has been
  read lies on one line per direction: towards the target what it got, its socket's
  buffer, `send_buffer`, the `data` cached during the DNS query and the buffer in the hand
  of `dispatch`; towards the client what it got, its socket's buffer and the session. The
  invariant `RInv` says that each line counts up from its first unit and reaches what the
  socket delivers next (`WholeUp`, `WholeDown`), unless the endpoint that would take the
  data is closed, could not be opened or the records do not decrypt (`Excused`). That
  alone is not inductive: a close must find nothing left behind it. `Backing` ties the
  statuses to the buffers (no backend, then no `send_buffer`; a backend, then no cached
  `data`), `ToTarget` and `ToClient` say what has been passed on when an endpoint is shut
  down, and `Turn` says that a UDP request whose socket could not be opened is not read
  again and that the answer of the resolver comes once, to a connection that waits for
  it. One lemma per method (`Sound…`), one per action (`Step…`), and `Ordered`, `Kept` and
  `FlushedBoth` for the three parts of the property.
* `ServerConnProofs!NoLostWakeUp` — `NoStall` of a server connection. mio reports edges,
  so whatever a handler leaves behind must have something to wait for. `Awake(s, P, B)`
  says so for a connection with the readiness `P` and `B` still to be reported for its two
  sockets: unsent data waits for a socket that is full and has said so, unread data is
  remembered (`read_proxy`, `read_backend`) and waits for a buffer that is not empty. A
  handler that is given the events `F` turns `Awake` for `P` into `Awake` for `P \ F`; that
  is `NInv`, beside `IInv`.
* `AServerProofs!MCRelayIsPipes` — the async server implements two `Pipe`s. `RInv` says,
  per direction, that delivered, TLS buffer, hand and wire follow each other in one
  stream (`Chain`) in which the X-Forwarded-For line may stand in its place and nowhere
  else (`FwdOk`), and what each stage of the connection has started (`StageOk`). Each
  action is then a step of one pipe or a stutter of both.
* `AServerProofs!MCPacketsInOrder`, `MCHoleFollowsRequests` — the UDP association. `UInv`:
  what was sent, the buffer and the wire are consecutive halves of frames, a packet is
  whole where it is used, and the channel holds recent targets only.
* `AsyncUdpProofs!NoticesMeetTheirConnection` — `NoticesAreCurrent` of both async UDP
  proxies. The table is keyed by source, so a late notice could hit a later connection.
  The invariants: a connection with a task that has still to tell its end is its source's
  (`RunningIsCurrent`, `TunRunning`); a notice is about one that has ended and that its
  source still has, and there is one notice of it (`NoticeOfEnded`, `ToldOnce`,
  `TunNotices`). `AsyncUdpProofs!SweepSparesUsed` — `SocketsCached`, part of the same `IInv`.
* `AsyncPingProofs!EveryRequestAnswered` — `AsksAnswered`. `SInv` counts, per client and
  address, requests parsed against answers written, queued, on their way to the routine
  and waiting for the check; every action moves one occurrence from one place to the next.
* `AsyncPingProofs!ProfilerKeepsTurns` — `ProfilerGoesOn`. `PInv` counts the entries that
  may have to be decided on (`Unsettled`) against the local results to come (`Busy`): the
  grouping of `PingResults` settles at least one of them per result. Lost connections have
  a reader, a mark or a reconnect pending (`Noticed`).
* `AsyncPingProofs!RequestsRepeatLost` — the action property `LostIsAskedAgain`. Its
  invariant is that `send_buffer`, which nothing clears, holds every address of the table
  (`KnownSent`); a check starts in `HandleRequest` alone, which sends all of the buffer.
* `PingTunProofs!EveryRequestOnce` — `PingAccounted` of the mio server's ping backend, with
  the same kind of count for one connection. `Balanced`: an address occurs as often among
  the parsed requests as in the channel to the thread, the checks under way, the channel
  back, `send_buffer`, the session and what the client has read, together, as long as both
  ends are open; `Told`: a backend that is shut down has a stop request in the channel or
  no thread. `DispatchTakes` shows that the requests `dispatch` accepts are the first ones
  that are new, `PickedCounts` that it gives each of them to the cache or to the thread.
  Results are dropped only when the connection is removed or shut down, which needs that a
  removed connection is not open on both sides.

* `WinTunProofs!TcpRelayIsPipes` — a TCP connection of the wintun proxy implements two
  `Pipe`s. Every buffer holds a run of consecutive units (`Run`); `WInv` says where each
  run begins: towards the server behind what it got, the kernel's buffer, the session,
  `rbuffer` and the socket (`UpLine`), as long as the connection to the server is open;
  towards the application behind what it got, the socket, `lbuffer` and the session
  (`DownLine`), as long as the socket may send. An end of stream that stands for the
  server's is set when all of that has been handed to the socket (`EndWhole`), which needs
  what the states of the socket tell about its owner (`Sides`) and what is empty before the
  request and before the handshake (`Early`): a connection may be handed over before its
  TCP connect has ended, closed by either side before it, and never be established. One lemma per method (`…Lemma`), over a
  weaker predicate inside of a handler (`Handling`), since units that the session does not
  take are dropped just before the connection to the server is closed.
  `TcpNoStaleHandle` — `NoStaleHandle`, from the part of `WInv` about the loop (`Shape`):
  no events are left in the half of a turn that removes connections. That includes a
  socket back in LISTEN, whose connection `do_local` closes and removes with it.
* `WinTunProofs!TcpNoLostWakeUp` — `NoStall` of the wintun proxy, where a connection waits
  for wakers of smoltcp as well as for edges of mio. `Awake`: a unit that is blocked
  towards the server has an edge or a full kernel buffer ahead, one that is blocked towards the
  application a full socket or an event, and the wakers it waits for are registered or
  have fired (`Due`, `Registered`). Before the request is written the edge of the connect
  is to come or there.
* `WinTunProofs!UdpSocketsInUse` — `SocketsInUse`. `UInv` adds that tokens are not used
  again, that closed connections are marked for this turn's `remove_closed` and that the
  socket that `do_local` is at has its entry. No method touches a connection's source and
  socket (`Keeps`); the counts follow from the cardinality of sets that gain or lose
  members (`NewConn`, `ConnsLeave`).
* `PingTunProofs!DeviceMaps` — `DeviceMapsAgree`. `DInv`: `tcp_ip2handle` and
  `tcp_handle2ip` are inverse to each other on the sockets in use (`MapsInv`), although the
  second keeps what it knew of handles that are free again, and a source has a sender if it
  has a socket, or gets it with the SYN that made one (`SendersInv`).

The assumptions are those in the modules: capacities and counts are positive naturals,
the order of the map enumerates the finite set of addresses, and the address that does not
parse (`BadIp`) is none of them; the empty label is no label of a name, and "no source" no
source; no address is named like the stop request or an invalid request (`MCPing`). The
sizes of UDP frames and buffers may also be zero. `MCProxy` asks
for `MaxIndex > 2 * Size`: pool and events can name that many indexes, and `MaxIndex` stands for
the 2^62 of the code.

A fact about all elements of a finite structure is proved by a least counterexample: the
set of places where it fails has a least member (`WellFoundedInduction`), and the step
before it does the rest (`DeliverNamed`, `Swept`, `PickedCounts`, the counts of `DnsServer`).

Only model-checked: liveness (fairness and ENABLED are outside TLAPS); `ReadsBack` of
`Proto`, whose generators and parsers are recursive over bytes; and `StreamsInOrder` of
`TunDevice`, whose invariant would have to follow every byte through sockets that change
their connection.

## 5. What the code does that a reader may not expect

The findings:

* `async_udp_name`: the async UDP proxy opens one connection per source
  and sends all its answers through the socket bound to the first target, where
  `PRINCIPLE.md` asks for the target's own name and the mio proxy uses it;
* `wintun_frame`: when the TLS session takes a part of a UDP frame, the rest is cached by
  comparing lengths (`wintun/udp.rs:204`, and the copies in the mobile app). A short rest
  of the body is cached with the whole body once more; a session that blocks before the
  first byte of the header drops the body. The frames after it are read wrongly;
* `tun_device_sender`: a socket whose handshake is reset listens again and takes the SYN
  of another source; if that source's own socket goes in the same turn, its channel goes,
  and the first data makes `unwrap` panic (`async_smoltcp/src/device.rs:314`).

The models contain these behaviours of the code as well, and TLC reaches them. The
properties except them where they say so:

* a PING client that asks for a cached address and closes in the same read leaves a
  backend in PeerClosed: `poll_ping` empties `send_buffer` after the last
  `check_status`, and PING connections have no timeout (`server/connection.rs:79`);
* a client of the mio proxy that sends and closes before the TLS handshake is over
  loses its data (`tls_conn.rs:323`; the flush of `TcpInOrder` starts at the handshake);
* if an event of the client reads the end of the handshake, nothing flushes the
  session until the next event (`proxy/tcp_server.rs:309`; `unflushed` in `ProxyTcp`);
* half a frame keeps a UDP connection whose server has closed, until the 120 second
  rule (`proxy/udp_server.rs:363`; `DeadEndLeft`);
* the mio profiler decides a new round with the results of the last
  (`proxy/net_profiler.rs:421`), joins half an answer of a lost connection to those of
  the next and ends in `unreachable!` (`:377`), and never reconnects after a reset
  that found no connection;
* one failed reconnect ends the async profiler at `resp.unwrap()`
  (`aproxy/profiler.rs:373`; `ClosedNoticed` says that nothing else does);
* a full channel of notices can block the async UDP proxies: the loop waits for a
  connection that waits for the loop (`LoopUnblocks`, `Circle` of `AWinTunUdp`). In
  awintun a late notice of a target's old socket removes the entry of its new one, and
  an empty answer makes the dispatcher drop a socket;
* in the async device a socket that closes with nothing left to read is not removed, an
  application's FIN without data is not passed on until something else wakes the stream,
  late responses of an old stream go to the new connection of the same source, and an
  upload that meets a full channel in CLOSE-WAIT is cut short (`TunDevice`);
* in the wintun proxy data read in SYN-RECEIVED counts as an end of file, and a session
  that is full before the handshake is over breaks the connection (`WinTunTcp`);
* the parsers end a stream that is cut in an unlucky place: `parse_address` reads the
  length of a name and `TrojanRequest::parse` the CRLF before they have arrived (a panic),
  `parse_endpoint` takes a short address for an invalid one (`CutBadly` of `Proto`);
* the pool asks for the server's address only when a connect fails at once
  (`idle_pool.rs:97`). A non-blocking connect to an address that the server has left is
  refused or times out later, as an event, and `ready` and `check_timeout` (`:144`) only
  drop the connection: such a pool keeps the old address (`AddrFollows` is conditional);
* a UDP packet to a name that never resolves keeps `start_udp` for ever
  (`aserver/udp.rs:37`): the loop repeats the look-up and does not read, so that it does
  not see the client's end either and outlives the other task (`TasksEndTogether` excepts
  it);
* the async server lets answers in for 60 seconds (`aserver/udp.rs:152`), and its timers
  run for each direction of a TCP connection separately, so that a download without
  upload loses its upward half;
* the DNS server answers a newly blocked name with a cached answer of the poisoned
  server until it has been renewed (`dns/server.rs:306`; `ListTakesEffect` is about
  what comes in the end), ends when a list is removed or an answer has no question,
  and ignores the aliases of a hosts line (`:134`). The one of the mobile app ends when
  the trusted server cannot be connected again (`mobile/src-tauri/src/tun/dns.rs:359`).

## 6. Plan, and what is not modelled

Done: the three mio programs, the async server, the async UDP proxies, the async device,
both profilers, both DNS servers, the protocol; the theorems of section 4, which state
every safety property of the passing runs except `StreamsInOrder` and `ReadsBack`. Worth
proving next: `StreamsInOrder`, over `DInv`.

Not modelled:

* `tokio_rustls` — an adapter of rustls to the poll traits; its users see an ordered
  stream. A model would be one of rustls and of tokio's wakers, neither of which is here.
* `aproxy/tcp.rs`, the TCP copying of `awintun` — `copy` of `async_utils.rs`, which is in
  `AServer`, between other ends.
* The cache with expiry of `resolver.rs` on the server: a hit and a miss differ in the time
  of the answer only, which `ServerConn` leaves open.
* `mobile/src-tauri/src/tun` other than `dns.rs` and `mobile/src-tauri/src/atun`,
  `mobile2/backend` — copies of the wintun, pool, resolver and TLS modules with small
  changes. A second set of models would repeat the first.
* Configuration, start-up, routes, ipset, platform calls, statistics — no state that
  changes by events, or calls of the system with no logic of their own.
* User interfaces, generated projects, data files.
