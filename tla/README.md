# Android Privacy Firewall: a TLA+ model

The firewall is an Android VPN service without a remote end.  Every packet of every app
arrives on a tun device; the service decides whether the app may talk to the address,
records what it sent, and relays the connection over a socket of its own.  The relaying is
C code derived from NetGuard (`app/src/main/cpp/network`), the rules, the records and the
screens are Java (`app/src/main/java/edu/cmu/infosec/privacyfirewall`).

This directory holds TLA+ modules for that code, the TLC configurations that check them and
the TLAPS proofs.  `PROJECT.json` maps each definition to the lines it stands for.

    tlc -config TcpRelay.cfg MCTcpSession.tla      # Tcp*.cfg: 5 to 45 s each
    tlc -config TableSafety.cfg MCSessionTable.tla # Table*.cfg: up to 50 s each
    tlc -config RulesAgree.cfg MCFirewallRules.tla # Rules*.cfg: up to 2 minutes each
    tlc -config ServiceLife.cfg MCServiceLifecycle.tla
    tlc -config SerialHalves.cfg SerialNumbers.tla
    tlapm TcpSession_proofs.tla                    # about 3 minutes
    tlapm TcpStream_proofs.tla                     # about 2 minutes more
    tlapm TcpRelay_proofs.tla                      # about 1.5 minutes more
    tlapm FirewallRules_proofs.tla                 # about 3 minutes
    tlapm SessionTable_proofs.tla                  # about 1.5 minutes
    tlapm ServiceLifecycle_proofs.tla
    tlapm TcpSessionLife_proofs.tla
    tlapm SerialNumbers_proofs.tla

## Inventory

### Native side: one thread, one list of sessions

| component | state | operations |
|---|---|---|
| event loop (`session.c`) | `ng_session` list, epoll set, `stopping`, `last_check` | `handle_events`: count and monitor, check, `epoll_wait`, dispatch; `check_allowed`; `clear` |
| TCP session (`tcp.c`) | `state`, `socks5`, `remote_seq`, `local_seq`, `acked`, windows, `forward` queue, socket, `time` | `monitor_tcp_session`, `check_tcp_session`, `check_tcp_socket`, `handle_tcp`, `queue_tcp`, the writers |
| UDP session (`udp.c`) | `state` (active, finishing, closed, blocked), socket, counters, `time` | `check_udp_session`, `check_udp_socket`, `handle_udp`, `block_udp` |
| ICMP session (`icmp.c`) | `stop`, `id`, socket, `time` | `check_icmp_session`, `check_icmp_socket`, `handle_icmp` |
| dispatch (`ip.c`) | none | `check_tun`, `handle_ip`: session limit, uid, access check, hand-over to a protocol |
| bridge (`network.c`) | `thread_id`, `pipefds`, `lock`, `jb_packet` | `jni_init`, `jni_start`, `jni_stop`, `jni_done`, call-backs to Java |
| helpers (`util.c`, `dns.c`, `dhcp.c`, `pcap.c`) | none | comparison of sequence numbers, checksums, parsing, dumps |

All handlers of sessions run in the event loop's thread.  What makes them hard is not
parallelism but order: within one batch of events the packets of the tun device and the events
of the sockets are served in any order, a packet may close the session whose event still
waits, packets are lost, repeated and overtaken, a write to the tun device fails in the middle
of a handler, the socket accepts only a part of a segment, timeouts run all the time.

A TCP session is correct when the app is told only what is true (what is confirmed was
forwarded, what was read was delivered, within the window), when it ends only completely
(descriptor closed, session removed), and when it makes progress (queued data is sent).

### Java side: three kinds of threads, three tables, two queues

| component | state | operations |
|---|---|---|
| service (`FireWallVPNService`) | `vpnInterface`, `isRunning`, `packetQueue`, `blockingIPMap` | `onCreate`, `onDestroy`, `filter`, `isAddressAllowed`, `deleteRulePair`, the scanning thread |
| monitor (`Monitor`) | none of its own | `filter`: find or insert the rule of an address, scan, insert or update the connection |
| store (`RuleDatabase`, `ConnectionDatabase`, `ApplicationDatabase`) | three SQLite tables | inserts, look-ups, read-modify-replace updates, deletes |
| screens (`MainActivity`, `DetailActivity`, their listeners) | rows as they were when loaded | switch the service, allow, deny, add, delete a rule |
| whois look-up (`traceIPAddr`) | none | asynchronous update of a rule's registrant |

The event loop calls `filter` and `isAddressAllowed` for packets; the scanning thread
starts one `Monitor` task per packet; the screens change tables and block list on the main
thread.  Block list and tables hold the same decision twice and are changed separately: that
they agree, that no update is lost and that a rule is stored once is what has to be shown.

## Plan

1. `TcpSession` (done): the heart of the relay, with proofs in `TcpSession_proofs`
   and `TcpStream_proofs`.
2. `TcpLife` (done): the life of a TCP session as the rest of the loop sees it, and
   `TcpSession` shown to implement it, by TLC and in `TcpSessionLife_proofs`.
3. `SessionTable` (done): the list of sessions, UDP and ICMP sessions, `handle_ip`, batches, the
   stop pipe, with proofs in `SessionTable_proofs`.
4. `FirewallRules` (done): block list, tables, screens and monitor in interleaved steps, with
   proofs in `FirewallRules_proofs`.
5. `ServiceLifecycle` (done): `onCreate`, `onDestroy`, start, stop and end of the thread, the
   pipe, the tun descriptor, restart, with proofs in `ServiceLifecycle_proofs`.
6. `SerialNumbers` (done): `compare_u32` and the acknowledgements in wrapping arithmetic,
   against RFC 1982, with proofs in `SerialNumbers_proofs`.
7. `Relay` (done): the promise of a session as two byte streams that reach the other side in
   order, and `TcpSession` shown to implement it, by TLC and in `TcpRelay_proofs`.
8. `LoopLife` (done): what service and loop promise each other, implemented by `SessionTable` and
   by `ServiceLifecycle`, by TLC and in the proofs of both.

| module | extends or instantiates | about |
|---|---|---|
| `TcpSession` | | one TCP session in detail |
| `TcpStages` | | the outcomes of each handler for the life of a TCP session |
| `TcpLife` | extends `TcpStages` | the same as a specification |
| `TcpSessionLife` | extends `TcpSession`, instantiates `TcpLife` | the refinement |
| `Relay` | | two streams of bytes |
| `TcpSessionRelay` | extends `TcpSession`, instantiates `Relay` | the refinement |
| `LoopLife` | | a loop as its service and its sessions see it |
| `SessionTable` | extends `TcpStages`, instantiates `LoopLife` | all sessions and the event loop |
| `FirewallRules` | | the user's decisions: block list, tables, screens, monitor |
| `ServiceLifecycle` | instantiates `LoopLife` | the service, its thread, its tun device, restarts |
| `SerialNumbers` | | the order of sequence numbers |
| `MCTcpSession` | extends `TcpSessionLife`, `TcpSessionRelay` | instances for TLC |
| `MCSessionTable`, `MCFirewallRules`, `MCServiceLifecycle` | extend the module they are named for | instances for TLC |
| `TcpSession_proofs`, `TcpSessionLife_proofs`, `SessionTable_proofs`, `SerialNumbers_proofs`, `FirewallRules_proofs`, `ServiceLifecycle_proofs` | extend the module they are named for | theorems |
| `TcpStream_proofs` | extends `TcpSession_proofs` | theorems about the app's stream |
| `TcpRelay_proofs` | extends `TcpStream_proofs`, `TcpSessionLife_proofs`, `TcpSessionRelay` | the theorem that a session is a relay |

## TcpSession

One session between its SYN and its removal, in the cycle of the event loop
`monitor -> check -> wait -> dispatch` (variable `phase`).

| variable | in the code |
|---|---|
| `tcp` | `struct tcp_session`; `age` is the time since `time`, `recv_open` whether `recv_window > 0`, `forward` the queue without its bytes |
| `socket`, `interest` | whether `ng_session.socket` is open, what epoll watches it for |
| `ready` | the events of the current batch that still wait to be served |
| `app` | the app's TCP: what it acknowledged, how far its window reaches, the end of what it sent |

| action | in the code |
|---|---|
| `MonitorSession`, `SkipMonitor` | `monitor_tcp_session`, with the keep alive and a failing `epoll_ctl` |
| `CheckSession`, `SkipCheck` | `check_tcp_session`: timeout, close, removal; skipped within 100 ms |
| `EpollWait`, `EndBatch`, `Tick` | `epoll_wait`, the end of the batch, time |
| `SocketError`, `SocketConnect`, `SocketRelay` | `check_tcp_socket`: error; connect and SOCKS5; forward, acknowledge, read |
| `TunPacket` | `handle_tcp`: new session, refusal, data, RST, SYN, FIN, ACKs |

The server, the proxy, the socket's buffers and the tun device answer in every way that the
code distinguishes.  The app is a correct TCP: it repeats segments, its acknowledgements and
window do not move back, it sends the FIN at the end of its stream.  With `Lossy` any of its
packets may be lost.  The service always configures an empty proxy address
(`FireWallVPNService.java:133`): the SOCKS5 half of `tcp.c`, which `Proxy` turns on, is reached in
another configuration only.  Stray packets may acknowledge up to `AckSlack` beyond `local_seq`.

### Runs

| configuration | instance | what it shows |
|---|---|---|
| `TcpRelay` | direct connection, in order, SYN with and without data, windows {0, 2}, 3 bytes up and 3 down, failing tun writes | `TypeOK`, `SocketMatchesState`, `ReadIsDelivered`, `WindowRespected`, `FinCompletesStream`, `StaleBlocks`, `ImplementsLife`, `ImplementsRelay` |
| `TcpLossy` | SOCKS5 proxy, losses and overtaking, stray acknowledgements | `ReadyHasSocket`, `AcksOnlyForwarded`, `QueueSorted`, `HeadNotStale`, `ConnectedFirst`, `NeverBackwards` |
| `TcpProgress` | fairness, zero timeouts | `ShutIsRemoved`, `QueueDrains` |
| `TcpLateFin` | losses | `FinCompletesStream` is violated (below) |
| `TcpMerged` | a retransmission that merges two segments | `HeadNotStale` is violated (below) |

Bounds.  The stream is three bytes in a segment of two and one of one: a partial send, a hole,
an overtaken and a repeated segment all occur.  The byte of a SYN is the one case in which the head
of the queue is stale without an app that cuts its stream anew.  `Rooms` are the answers of
`get_receive_buffer`: none, room for a part, room for all.  `MaxDown` bounds what the server
sends, `MaxAge` the age counted, one more than the longest timeout.  Timeouts are 0 to 2
instead of 30 to 3600 seconds; only their order of magnitude against each other is lost, and
`Loads` gives the scaling of `get_tcp_timeout` an empty, a full and an overfull table.

Deadlock is checked in every run of `TcpSession`: one session never stops the loop.

### What the rest of the loop sees of it

`TcpStages` reduces the states of a session to `NONE`, `ACTIVE`, `ENDING` (`TCP_CLOSING`) and
`CLOSED` (`TCP_CLOSE`), with or without a socket, and says which of them each kind of handler
may leave.  `TcpLife` makes a specification of that, and `ImplementsLife` (in `TcpSessionLife`,
checked by `TcpRelay`, proved in `TcpSessionLife_proofs`) that `TcpSession` implements it
under the mapping `Stage`.  So what `SessionTable` assumes of TCP is what the detailed module
does: for instance that no handler of a packet or an event removes a session, and that a
session with a socket is never closed by a packet while its event waits.

### What the two sides of the connection see of it

`Relay` is what a session is for, without queue, windows or sequence numbers: two streams of bytes.
A byte of the app is taken, waits in `held`, and is passed to the server; the app is told how many
were passed, and later that its stream ended and all of it was passed.  A byte of the server is
read and given.  Steps are taking, passing (in either direction, as one turn of
`check_tcp_socket` does both), connecting and ending.  Five things are promised: the server is
passed the next byte that is held and no other, so in order, without holes and without repetition;
the app is told of passed bytes only, and of all of them at once; what is taken is dropped only
with the connection; each end of stream is final, and the app's is confirmed only with nothing
held; the app is given all that is read.

`ImplementsRelay` (in `TcpSessionRelay`, checked by `TcpRelay`, proved in `TcpRelay_proofs`) says
that `TcpSession` keeps them under the mapping `RelayStage`, `UpStream`, `DownStream`: `held` are the
bytes that the segments of the queue cover and were not sent (`Held`, a set, so that overlapping
segments are one), what the app is told is `remote_seq` and what it is given `local_seq`, each
without the numbers of SYN and FIN, and a FIN of the app is confirmed when the queue is empty.
`Relay` does not promise that a byte that was lost before it was taken is missed when the stream
ends (`FinCompletesStream`, which is false with losses), nor that held bytes are ever passed: where
the head of the queue is stale they are not, and `StaleBlocks` says that this is for good.

### Fairness

`LoopStep` is weakly fair: the thread runs.  `CheckSession` is strongly fair because checks
are skipped only for 100 ms, and `Tick` because time passes.  For `QueueDrains` the server has
to cooperate: room comes back infinitely often, epoll reports it, and some send takes bytes.
`EndBatch` belongs to `LoopStep`: the tun device runs empty now and then; nothing in the code
bounds the packets it serves in one batch (`session.c:235`).  That a closed session is removed
needs no cooperation of the app or the server.

### Findings

* **A FIN is confirmed too early** (`TcpLateFin`).  `handle_tcp` takes an empty queue for a
  complete stream (`tcp.c:815`).  When the last data packet before the FIN is lost, the FIN is
  confirmed, `remote_seq` is one too high, and the retransmitted data is refused with a reset
  because the app has "closed" (`tcp.c:791`).  The test that drops packets with URG
  (`tcp.c:623`) produces the loss without any help of the device.
* **An overlapping retransmission blocks the queue** (`TcpMerged`).  `queue_tcp` compares the
  starts of segments only.  A retransmission that covers two queued segments, or arrives
  after its start was forwarded in another cut, leaves a segment below `remote_seq`
  at the head of the queue, which is never sent nor dropped; the session is stuck until
  its timeout.  That no later packet of the app and no room at the server frees it again is
  `StaleBlocks`, checked by `TcpRelay` (where the data of a SYN is the stale segment) and proved for
  every app as `StaleForGood`.

### Proofs

`TcpSession_proofs` proves, for every stream, window, timeout, initial number and every
outcome of the system calls that the constants allow (the assumptions of `TcpSession` only fix
their types and that the stream starts after the SYN):

`TypeCorrect`, `SocketsClosed`, `EventsHaveSocket`, `AcksCorrect`, `ReadsCorrect`,
`WindowCorrect`, `QueueCorrect` (invariants), `Progressive` and `ConnectsFirst` (actions).

All follow from `Invariance`: `Spec => []IInv`.  The properties are not inductive one by one.

* `Good(tcp)` collects what a session knows of itself: the queue is ordered, only its head is
  partly sent, the accounting of both directions, the state of the handshake, `acked` not beyond
  `local_seq`.  It says of the head that bytes of it were sent only if `remote_seq` is
  exactly behind them (`PartialHead`); without this a late insertion before a half sent head
  could not be excluded.
* `Agrees(tcp, app)` ties the session to the app: `acked` is not ahead of the app, and
  `acked + send_window` not beyond the window's edge.  Both parts are needed for
  `WindowRespected`: a later packet changes `send_window` without `acked` when it is old.
* `SocketMatchesState` and `ReadyHasSocket` depend on each other: an event may close the
  socket only because no second event waits, and the check closes it only outside a batch.

The proof has one lemma per action, which combines lemmas per operator (`QueueGood`,
`ForwardGood`, `AcknowledgeGood`, `ReadsGood`, ...).

`TcpSessionLife_proofs` proves the refinement, `Implementation`: `Spec => ImplementsLife`.  One
lemma per change of state and socket that `TcpStages` allows (`Monitored`, `CheckCloses`,
`CheckRemoves`, `Served`, `PacketOpens`, `PacketResets`, `PacketCloses`, `Unseen`), one per action
that names the change it is.  It needs `IInv`: that `ReadyHasSocket` holds when an event is
served, and `SocketMatchesState` when a session is removed or closed by a FIN.

`TcpStream_proofs` proves the two invariants that are true of some apps only, and what holds of
all when the first of them fails.

* `HeadStaysFresh`: `HeadNotStale`, if segments do not overlap (`Disjoint`: the app
  retransmits in the cut it sent first) and the SYN has no data (`BareSyn`: data of a SYN is
  queued with a number one too low, `tcp.c:699`).  Losses, duplicates and any order of the
  packets are allowed.  The invariant `Fresh` adds that every queued segment is one of the
  app's (`Tiled`).  A packet that is queued starts at `remote_seq` or later; what is forwarded
  before a queued segment ends before that segment starts.
* `StaleForGood`: `StaleBlocks`, for every app and any losses.  The loop in `check_tcp_socket`
  begins at the head (`RelaysBlocked`), and what is queued before a stale head would have to start
  before it, which `queue_tcp` does not accept (`TakesHead`).
* `FinComplete`: `FinCompletesStream`, if segments do not overlap, no packet is lost (`~Lossy`) and
  the stream ends somewhere (`HasEnd`, which a finite `Segments` has).  The invariant `Contiguous`
  adds to `Fresh` that the queue is the rest of what the app sent, from the last byte the server was
  sent, and that it has no hole (`Chain`): an empty queue then means a complete stream.  A SYN may
  have data: then `Contiguous` fails, but the queue has a head that is never sent (`SynHeld` until
  the SYN-ACK, `Stale` from then on), and no FIN is confirmed (`FinWaits`).

All rest on `StepStream`: as the stream sees it, every step is one of `StreamStep`, that is it
tears the session down, leaves the stream alone, opens it, connects, takes one packet or
forwards a part of the queue.  `TcpMerged` shows what fails without `Disjoint`, `TcpLateFin`
what fails with losses.  Each theorem covers the run that checks its property: `TcpRelay` is
`Disjoint` and without losses, `TcpLossy` is `Disjoint` and its SYN is bare.

`TcpRelay_proofs` proves the refinement, `RelaysStreams`: `Spec => ImplementsRelay`, without any
assumption on the app.  It goes by the cases of `StepStream`.

* `HeldFact` and `InsertHolds`: `Held` is what the segments cover, and a segment inserted at any
  place adds its own bytes and takes none away; the bytes at `sent` and below are not in it.
* `NoHole`, `ReachedFact`, `RestHolds`: the loop that forwards sends the bytes behind `sent` one
  after the other, each of them held, and the rest of the queue holds what is left.  This is where
  an ordered queue with a partly sent head (`Good`) is needed, and an induction over the queue that
  is done with the smallest segment that is not reached (`Smallest`): well-founded relations can be
  used where the induction theorems of the library, which take an operator, cannot.
* `Counts`: `remote_seq` and `local_seq` are the bytes sent and read, plus SYN and FIN.
* `DownRelay`, `OpenedRelay`, `ConnectedRelay`, `TakesRelay`, `RelaysRelay`: each case of `StepStream`
  is a step of `Relay` or none; `StepRelays` puts them together.

Only model-checked: `ShutIsRemoved` and `QueueDrains` (liveness).

## SessionTable

The list `ng_session`, the event loop and all that is called by it for any protocol.  A session
lives at an address of the heap, which is used again after `free`; so is the number of a
descriptor after `close`.

| variable | in the code |
|---|---|
| `session` | the record at each address: the flow it is searched by, its stage, `socket`, the age of `time`.  Stages are those of `TcpStages` and `BLOCKED`; for UDP `ENDING` is `UDP_FINISHING`, for ICMP it is `stop` |
| `open` | the sockets that the loop opened and nobody closed |
| `forgotten` | history: the sockets given up by an open function that failed |
| `count` | `sessions`, counted once per turn of the loop and given to every handler |
| `phase` | where the loop is; `stopped` after the pipe, `cleared` after `clear`, `dead` after a failure of its own |
| `batch`, `failed`, `served` | the array `ev` as far as it is not served, `EPOLLERR` in it, the packets read from the tun device since `epoll_wait` |
| `stop` | a byte in the pipe |
| `blocked` | the flows that `isAddressAllowed` would refuse at this moment |

| action | in the code |
|---|---|
| `Monitor`, `CheckSessions`, `SkipChecks` | counting, `monitor_tcp_session`, `check_icmp_session`, `check_udp_session`, `check_tcp_session`, the removal of sessions |
| `EpollWait`, `EpollFails`, `Tick`, `EndBatch` | `epoll_wait` (an interrupt is an empty batch), its failure, time, the end of the batch |
| `ServePipe`, `ServeSocket` | the pipe; `check_icmp_socket`, `check_udp_socket`, `check_tcp_socket` |
| `TunPacket`, `TunFails`, `TunEmpty` | `check_tun`: `handle_ip` with the limit and the access check, `handle_icmp`, `block_udp`, `handle_udp`, `handle_tcp`; failures; an empty device |
| `DomainQuery` | the end of the process in `check_domain` |
| `ChangeRules` | the screens add to and delete from the block list |
| `RequestStop`, `Clear` | `jni_stop`: the byte in the pipe; after the join, `clear` |

Flows stand for addresses and ports.  The order of the list is left out: it decides only which of
two sessions with the same key is found, and either may be.  `DhcpKey` is the flow of a DHCP
session after `check_dhcp` wrote the offered address into its key; no rule forbids it in the
instances, since no packet of it is ever asked for.  A rule that is added ends no session:
`check_allowed` runs once, before the loop, on an empty list.

An open function may fail before or after `socket()`: `protect`, `fcntl` and `connect` succeed or
fail at every call, and what was opened before the failure stays open (`OpenFails`).
`FireWallVPNService` has no method `isDomainBlocked`, so that the query for it gives no method and
the call ends the process: that is what becomes of a DNS query for an A or AAAA record
(`DomainQuery`; that other datagrams to port 53 are relayed is `UdpPacket`).  The branch that ends
the session of a blocked name (`udp.c:317`) is therefore never reached.

### Runs

| configuration | instance | what it shows |
|---|---|---|
| `TableSafety` | a TCP, an ICMP, a UDP flow that is both DNS and DHCP, and its overwritten key; two addresses and descriptors, a limit of one, batches of three, rules that change | `TypeOK`, `DescriptorsOwned`, `NoLeak`, `EventsOwned`, `OneSessionPerFlow`, `LimitHolds`, `FreshSurvives`, `RulesObeyed`, `ImplementsLoop` |
| `TableProgress` | fairness, zero timeouts, one packet per batch | `EndedRemoved`, `StopClears` |
| `TableLeak` | sockets that fail to open | `SocketsOwned` is violated (below) |

Bounds.  Every property relates at most two sessions, so two addresses show a violation if
there is one; the second address also lets a session be allocated where another was freed
while a third flow is refused.  When addresses or descriptors are used up, `OpenFails` is
what happens.  Two packets per batch let one open and the next use or end a session, with the
event of another still waiting.  With a limit of one the table is empty, full and, by the second
packet of a batch, overfull, the three cases of the scaled timeouts.  Addresses and descriptors
are interchangeable (`Interchangeable`) where only safety is checked.

The loop really stops, by request or failure, so deadlock is not checked in these runs;
`StopClears` and `EndedRemoved` take its place.

### What service and loop promise each other

Neither `SessionTable` nor `ServiceLifecycle` contains the other: the first has the service as two
actions (`RequestStop`, `Clear`), the second has the sessions as a set of sockets.  `LoopLife` is
what both must keep for the two halves to fit: a loop begins with an empty list; only a loop that
goes on opens and closes sockets of sessions; it is asked once and ends once for it, with the
sessions as they are; then, and not before, the list is cleared, all of it; whatever else ends a
loop leaves no list behind.  `SessionTable` implements it under `LoopStage`, `LoopAsked`,
`LoopList`, and so does `ServiceLifecycle` under the operators of the same names
(`ImplementsLoop` in both, each checked by TLC and proved).  A simplification in one module that
the other does not honour would break one of the two.

### Fairness

`LoopStep` and `Clear` are weakly fair: the thread runs, and `jni_stop` waits for it in
`pthread_join`.  `CheckSessions` and `Tick` are strongly fair: checks are skipped for 100 ms
only, and time passes.  `EpollWait /\ Pipe \in batch'` is strongly fair because the kernel moves
what it reported to the end of its ready list, so that with more ready descriptors than
`EPOLL_EVENTS` the pipe is not left out for ever.  Nothing is assumed of the app, which may send
packets for ever, nor of the sockets.  That the tun device runs empty now and then (`TunEmpty`
in `LoopStep`) is needed: the loop reads on while it is readable and sees the pipe only then.

### Findings

* **Sockets that fail to open leak** (`TableLeak`).  `open_udp_socket` (`udp.c:409`),
  `open_icmp_socket` (`icmp.c:277`) and `open_tcp_socket` (`tcp.c:1004`) return -1 when
  `protect_socket` fails, without closing the socket they opened, and `open_tcp_socket` does the
  same when `fcntl` fails (`tcp.c:1011`) and when `connect` fails at once, for instance because
  there is no route (`tcp.c:1067`).  `NoLeak` and its theorem say that these are the only leaks.
* **Errors of UDP sockets are not handled** (no run is about it).  `check_udp_socket` ends the
  session on `EPOLLERR` (`udp.c:71`), but the loop does not call it for such an event
  (`session.c:256`): the step of the loop that serves it changes nothing.

### Proofs

`SessionTable_proofs` proves every safety property of `TableSafety`, for any flows, timeouts and
limits and any finite set of addresses (the count is a cardinality): `TypeCorrect`,
`DescriptorsCorrect`, `NoSocketLeaks`, `EventsCorrect`, `FlowsSeparate`, `LimitKept`, `FreshKept`,
and `RulesEnforced` under the assumption that `DhcpKey` is in no rule, for nobody asks about the
address that `check_dhcp` writes into a key.

The inductive invariant `IInv` is the conjunction of the state properties with

* `Formed`: a session has a socket, or has none, as its protocol and stage demand;
* `BatchServed`: events wait only while the loop serves them, so that nothing is freed under them
  by `CheckSessions`; and one of the pipe only if there is a byte in it;
* `Counted`: the stale count differs from the table by at most the packets served in this batch.

`Becomes` says what any handler may make of one session: keep its socket or close it, never
revive it, never change its key but to `DhcpKey`.  `PacketBecomes`, `EventBecomes` and
`CheckBecomes` show it for the three kinds of handlers, and `TableBecomes` what then follows for
the whole table, so that the actions are not gone through protocol by protocol.

`LoopEndsInOrder` is the refinement of `LoopLife`.  Most actions are its `Work`; that `ServePipe` is
its `Finish`, so that the loop does not leave unasked, needs the second half of `BatchServed`.
`StopClears` and `EndedRemoved` are liveness and only model-checked.

## FirewallRules

The same decision is kept twice: the table `Connection` says which app may talk to which rule's
address and is what the user sees; the list `blockingIPMap` is what the event loop asks.  Three
change them: the main thread, the executor of `AsyncTask`, which runs one `Monitor` after
another, and Android, which kills the process.  Each access to a table or to the list is a step.
Every insert and every replace may fail (a full disk, a busy table): `insertRule`,
`insertConnection`, `updateAction` and `updateSensitive` then return false, and no caller looks.

| variable | in the code |
|---|---|
| `rules`, `conns`, `lastConn` | the tables `Rule` and `Connection`, whose ids SQLite counts up (`AUTOINCREMENT`) |
| `blocking` | `blockingIPMap`: how often it has each pair |
| `loaded` | whether `Monitor.db` is set in this process |
| `screen` | the rows of the `DetailActivity` on top, with the actions they had when loaded |
| `stale` | whether another screen was above it since then |
| `covered` | the rows of the `DetailActivity`s alive below it |
| `main`, `task` | what the handler of the main thread and the monitor task do next |
| `denied`, `unsaved` | history: the pairs whose last command in this process denied, and was not written |
| `doubled`, `raced`, `lost` | history: the pairs added twice, the addresses two wrote at once, the ids used although their rule was not inserted |

| action | in the code |
|---|---|
| `CreateMain` | `MainActivity.onCreate`: opens the tables, adds the rows with deny to the list; the notification (`Monitor.java:314`) starts it above a `DetailActivity` |
| `GoBack` | back to the `DetailActivity` below, which does not load its rows again |
| `LoadScreen` | `loadConnection` |
| `TapRow`, `ReadRow`, `ReadNoRow`, `ReplaceRow` | the switch: rule, list, then `updateAction`, which reads a row, puts the action into it and replaces it |
| `PressRow`, `UnlistPair` | the deletion: `deleteConnectionByAppIdRuleId`, then `deleteRulePair` |
| `AddRule`, `GuessRule`, `InsertGuessed`, `FindConn`, `CreateConn`, `ListPair` | `DetailAddNewRuleListener`: rule, `getNewRuleId`, `insertRule`, connection, list |
| `StartTask`, `TaskInsertRule`, `TaskScan`, `TaskCreate`, `TaskRead`, `TaskReplace` | `Monitor.filter` with `insertConnection` or `updateSensitive` |
| `WriteFails`, `InsertConnFails` | parts of these: the table stays as it is and the handler goes on |
| `ProcessDies` | a kill, or an exception nobody catches: an empty cursor (a row or a rule that is not there), a null `Monitor.db` |

Simplified are the screens: a dialog is confirmed in the step of the tap that opens it, and a
handler that refreshes the screen does so in its last step.

### Runs

| run | instance | what it checks |
|---|---|---|
| `RulesAgree` | two addresses, two apps, one screen below another | all properties below |
| `RulesDoubled` | two addresses, one app | `AllowedIsOpen` is violated: see Findings |

Two connections are ever recorded and a pair is at most twice in the list; the addresses are
interchangeable, and so are the apps.  The commands and tasks of two rows meet in every order, rows
are deleted and recorded anew within the limit, an address may get a second rule, each write may
fail, the process dies between any two steps.  A state in which two of the mishaps that `OneMishap`
counts have happened (an address raced for, a pair added twice, a command not written or its id
lost, a screen below another) is not followed further; one mishap leaves an address or an app for
which everything is promised.  With several mishaps at once the properties rest on the theorems.

| property | what it shows |
|---|---|
| `TypeOK` | no pair is fewer than zero times in the list |
| `DenyHolds` | what the user denied last in this process stays blocked, whatever else happens |
| `AgreeDeny` | what the table denies is blocked, also after a restart, unless the command was `unsaved` or the address disturbed |
| `AgreeAllow` | what is blocked is denied in the table, unless the command was `unsaved`, the pair `doubled` or the address disturbed |
| `RowsHaveRule` | the id guessed by `getNewRuleId` is that of a rule when a connection is written with it, unless the insert of the rule failed |
| `SwitchFindsRow` | `updateAction` finds the row of the screen, unless the screen was below another one or the address was raced for |

What the exceptions are is part of the result; each is a way in which the code lets list and table
drift apart:

* `raced`: addresses of which two threads wrote a rule or a row at the same time.  `updateAction` and
  `updateSensitive` read and replace whole rows, each without a transaction, so that the later one
  takes back what the other wrote, or brings a deleted row back; and a rule may be inserted twice.
* `doubled`: pairs that were added while they were in the list (`MainActivity` created a second
  time in one process, an address added that is denied already).  `deleteRulePair` removes one of
  them, and the address stays blocked although the table allows it.
* `unsaved`: pairs whose last command changed the list while its write failed.
* `lost`: ids that `getNewRuleId` guessed for a rule whose insert failed.  Rows are written with
  them, and a later rule gets the same id.  An address is `Disturbed` when it was raced for or its
  rule has such an id.
* `stale`: a screen that was below another one shows what it showed before.

The properties say that nothing else makes them disagree.  Each of the five is needed: without
`raced`, `unsaved` or `lost` in `AgreeDeny`, `doubled` in `AgreeAllow` (this is `AllowedIsOpen`) or
`stale` in `SwitchFindsRow` TLC finds the property violated.  What the code does then:

* a switch whose replace fails is not saved: `DetailActivity.java:241` ignores that `updateAction`
  returned false after the list was changed, and says "Update Action Successfully" (line 243);
* a rule that was not inserted: `DetailAddNewRuleListener.java:64` ignores that `insertRule` returned
  false; connection and pair are written with the guessed id, and the row is shown as "Not Known"
  and can be neither switched nor deleted;
* a row that was deleted on a second `DetailActivity` is still on the first one, above which the
  notification (`Monitor.java:314`) had started a `MainActivity`; tapped, `updateAction` reads an
  empty cursor (`ConnectionDatabase.java:114`), which ends the process;
* `updateSensitive` (`ConnectionDatabase.java:134`) writes back a row that it read before the user
  denied: the address is blocked until the process ends (`DenyHolds`) and allowed afterwards.

Before `MainActivity` is created in a process the list is empty: a service that Android restarted
by itself (`START_STICKY`) blocks nothing.  Nothing is promised then (`loaded` in `AgreeDeny`).
The first packet that reaches a monitor task ends that process, since `Monitor.db` is null.

### Findings

* **An allowed address stays blocked** (`RulesDoubled`).  `MainActivity.java:142` adds all denying rows
  to the static list at every `onCreate`; `deleteRulePair` ("Delete rule from block list.",
  `FireWallVPNService.java:245`) removes one pair of them.  Rotating the screen
  is enough for a second `onCreate`.

### Proofs

`FirewallRules_proofs` proves all six properties for any set of addresses and apps, any limits and
any number of screens below each other: `TypeCorrect`, `DeniedStaysBlocked`, `TableIsEnforced`,
`BlockIsVisible`, `NoDanglingRule`, `SwitchedRowExists`.  Assumed is only that `NoApp` is no app and that the limits
are numbers (`RulesAssumption`).  The properties say something between the commands; the inductive
invariant `IInv` says what holds inside of them:

* `MainJob`, `TaskJob`: the rule a handler works with is that of its address, or two wrote, or its
  insert failed (then the id is in `lost` and the command in `unsaved`); the row a task has read is
  still of its app and rule, or was deleted.
* `Tables`: an address has one rule and an app one row for it, unless it is in `raced` or the id in
  `lost`.  This is what `raced` is for: with it, each read-modify-replace writes the row that it read.
* `Loaded`: without the tables there is nothing on the screens and in the list; what is in the list
  twice is in `doubled`.
* `DenyKept`, `DenyAgrees`, `AllowAgrees`: in the middle of a command the list may differ from the
  table, but only in the command's own pair (`Switching`, `"list"`, `"unlist"`, the op `"add"`).
* `ScreensShow`: a row of any screen has a rule, and unless the screen is `stale` a connection, so that
  `updateAction` finds it; a deletion clears the screen before the next command.

There is one lemma per action, and lemmas for what the actions share: `ConnInserted`, `RuleInserted`,
`PairsAdded`, `PairRemoved`, `FirstIsMember`, `StaysDisturbed`, and `GrownAgrees`, which says what a new
rule leaves of the agreement (a row that named no rule may suddenly name one).

## ServiceLifecycle

`onCreate` and `onDestroy` are steps of the main thread with the event loop going on between
them.  They share `thread_id`, `pipefds` and the list of sessions as globals without the lock, and
descriptors by number: the loop keeps the number of its tun device in `args->tun`, and `onDestroy`
closes that device before it stops the loop.

| variable | in the code |
|---|---|
| `stage` | which call of `onCreate` or `onDestroy` comes next |
| `created` | the number of the present service; its pipe is what `pipefds` names |
| `vpnInterface` | the number of its tun device |
| `thread_id`, `joined` | the global, and the thread that `jni_stop` waits for |
| `thread` | each loop: where it is, `args->tun`, and the pipe and the file that epoll watches for it |
| `file` | what each descriptor stands for: nothing, a tun device, a socket of a session, a socket opened in vain (`Lost`), another file |
| `pipe`, `ng_session` | bytes in each pipe, sockets of the sessions |
| `asked` | history: the threads that were written to |

| action | in the code |
|---|---|
| `JniInit`, `SetupVPN`, `JniStart` | `onCreate`: `jni_init`; `establish`, which may return null; `jni_start` with its test for a running thread |
| `CloseVPN`, `JniStop`, `JoinReturns`, `Clear` | `onDestroy`: `cleanup`; `jni_stop` with the byte, the join and `clear` |
| `AttachFails`, `Setup` | the thread's start, where epoll takes or refuses the number |
| `TunEvent`, `TunReadable`, `TunEmpty`, `ReadTun`, `ReadReturns` | an event of the tun device; `is_readable` and `read` by its number; a packet that is read may open a socket, for a session or in vain |
| `EndSession`, `PipeEvent`, `End` | the check of the sessions; the pipe; the end of the thread |
| `OtherOpens`, `OtherCloses` | the rest of the process, which takes and gives back descriptors |
| `ProcessDies` | a kill, or `report_exit`, which calls a method that the service does not have |

### Run

`ServiceLife`: two creations of the service in one process, three descriptors.  Two creations let a
new service meet whatever the old one left: its thread, its byte in a pipe, its sessions, its
descriptor under the same number.  Three descriptors are a tun device, a socket and another file.
A socket that is opened in vain (see `TableLeak`) keeps its number until the process ends, whatever
the service does: it is `Lost`, no property says that it is closed, and it may use up the
descriptors.
After the last creation only the process may die, so deadlock is checked.

| property | what it shows |
|---|---|
| `TypeOK` | in particular, `jni_stop` only waits for threads |
| `ListOwned` | while `init` and `clear` work on the list without the lock no loop runs, and never two loops |
| `TunIsOwn` | outside `onDestroy` the number in `args->tun` is the loop's own device; within it, between `cleanup` and the join, it may be another file, which the loop then reads |
| `OwnStop` | a loop ends because its own service asked it to, not because of an older byte |
| `SocketsListed` | the list holds the sockets that sessions got, all of them and nothing else; none of these is left when the service is gone |
| `StopReturns` | `onDestroy` returns, unless the loop is blocked for ever in a foreign file |
| `ImplementsLoop` | the service keeps its part of `LoopLife`, and its thread that of the loop (see `SessionTable`) |

### Fairness

The thread's own steps are weakly fair.  `PipeEvent` is strongly fair as in `SessionTable`, since
events of the tun device may come again and again; `TunEmpty` is strongly fair because the device
has no packet waiting now and then.  A read of the own device returns (`ReadTun`, after
`is_readable`), a read of a foreign file need not: `ReadReturns` has no fairness, and `StopReturns`
names this exception.  It is real: `is_readable` and `read` are two calls, the device may be closed
and its number given to another file between them, which has nothing to read.  `JoinReturns` is
weakly fair.  Nothing else is assumed: the service need not be created or destroyed.

### Proofs

`ServiceLifecycle_proofs` proves the safety properties for any number of creations and any set of
descriptors: `TypeCorrect`, `ListHasOwner`, `TunOwned`, `StopsWhenAsked`, `NoSocketLeft`.  The
inductive invariant `IInv` adds what links the service to its thread:

* `OneThread`: a thread exists only between `jni_start` and the join; it is that of the present
  service, `thread_id` names it, and it listens to the present pipe.
* `OneTun`: a tun device is open from `establish` to `cleanup`, and only the present one.
* `Asked`: the byte is written in the service's own `jni_stop` and not before.
* `SessionsOfLoop`: there are sessions only while the thread runs, and then until `clear`.
* `Heard`: while `jni_stop` waits, the byte stays in the pipe until the thread has read it, so that
  the loop was asked to end whenever it ends.

`ListOwned` and `TunIsOwn` follow, and so does `LoopsInTurn`, the refinement of `LoopLife`.  `StopReturns` is liveness and only model-checked.

## SerialNumbers

`TcpSession` counts bytes without wrapping.  `SerialNumbers` is what it leaves out: `compare_u32`
as the code computes it, with signed numbers of any width (`Half` is 2^31 in the code), the window,
and the ACKs of an app that acknowledges what it got.  The subtractions of `compare_u32` may
overflow, which C leaves undefined; builds wrap, or take the second test for false, and with both
the result is the same wherever the theorems and the run use it.

| theorem (`SerialNumbers_proofs`) | |
|---|---|
| `CompareWithinHalf` | within one half `compare_u32` is the order of RFC 1982 and that of the integers, except at a distance of `Half - 1` |
| `CompareAcrossZero` | across zero it is right as well |
| `CompareAcrossHalf` | across the half it is wrong for every pair |
| `NoFutureAckBelowHalf` | a connection whose numbers stay below the half is never reset for a future ACK |

The last follows from `BelowInv`: start, `acked` and `local_seq` are in the order of the stream as
integers, which needs that each ACK is taken for what it is, which needs `CompareWithinHalf`.
It is what justifies the integers of `TcpSession`.

Finding (`SerialHalves`, arithmetic modulo 16): **connections are reset when they pass 2^31.**
`local_seq` begins at a number of `rand()`, below 2^31, and passes 2^31 after at most 2 GB.  When
an ACK of earlier data arrives after it did, `compare_u32` takes it for later than `local_seq`, and
`handle_tcp` resets the connection for a "future ACK" (`tcp.c:889`, `tcp.c:906`).  Data is in
flight nearly always, so nearly every download that passes the number ends there.

## What is not modelled

* Sequence numbers that wrap around, within `TcpSession` (`SerialNumbers` has their order for the
  data to the app; the other direction and the queue use the same comparison); contents of
  packets, headers, checksums, the bytes of the SOCKS5 messages, names in DNS answers.
* Memory, the data of a SYN whose session is freed included.
* Of the table: the bytes of datagrams, the ids of echo requests, packets that `handle_ip` refuses
  for their headers (they change nothing), the closing of the loop's own descriptors.  Two pings
  to one address share a session and the id of the first: no property is about this.
* Of the rules: the owners of addresses (`traceIPAddr`) and the table of applications, which no
  decision depends on; `MainAddNewRuleListener`, which nothing installs
  (`MainActivity.java:160`); the length of `packetQueue`.
* Of the service: failures of `pipe()` and of the write to it; the scanning threads, one for each
  `onCreate`, which are never interrupted and all feed the one executor; `jni_done`
  and `stopVPN`, which nothing calls.
* Of the screens: a dialog that waits for its confirmation while another screen or a task goes on,
  and a refresh that runs after the handler: both are part of the step of the tap.
* pcap, `/proc` parsing, the screens' layout and
  animation, which keep no state that matters to the rest.
