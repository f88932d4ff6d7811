----------------------------- MODULE TcpSession -----------------------------
(***************************************************************************)
(* One TCP session of the tunnel (tcp.c, with the part of the event loop   *)
(* of session.c that drives it).  The firewall terminates the app's TCP    *)
(* connection on the tun device and relays its bytes over a socket of its  *)
(* own to the server.  The handlers all run in one thread, the event loop, *)
(* which repeats                                                           *)
(*                                                                         *)
(*      monitor  ->  check  ->  wait (epoll_wait)  ->  dispatch            *)
(*                                                                         *)
(* In dispatch it serves, in any order, the packets queued on the tun      *)
(* device and the event that epoll_wait returned for the socket; a packet  *)
(* may therefore change the session between the moment epoll_wait          *)
(* returned and the moment the socket's event is served.                   *)
(*                                                                         *)
(* The app is a correct TCP peer: it retransmits, its acknowledgements and *)
(* the right edge of its window never move back.  With Lossy its packets   *)
(* may be lost in the device's transmit queue (or dropped by the URG test  *)
(* of handle_tcp), so that a later one is seen before a retransmitted      *)
(* earlier one.  Sequence numbers do not wrap around in this module.       *)
(***************************************************************************)
EXTENDS Integers, Sequences, SequencesExt

CONSTANTS
    Segments,       \* the app's byte stream, cut in [seq, len] segments
    SynLens,        \* how many bytes of data a SYN may carry
    Lossy,          \* whether packets of the app may be lost
    Windows,        \* the windows the app advertises
    AckSlack,       \* how far beyond local_seq a stray ack may lie
    RemoteStart,    \* the app's initial sequence number
    LocalStart,     \* the session's own initial sequence number, rand()
    MaxDown,        \* how many bytes the server sends
    Mss,            \* the app's maximum segment size
    Rooms,          \* the values of get_receive_buffer
    Proxy,          \* whether a SOCKS5 proxy is configured
    WriteOk,        \* the possible outcomes of a write to the tun device
    InitTimeout, IdleTimeout, CloseTimeout, KeepTimeout,
    MaxAge,         \* time is not counted beyond this age of a session
    MaxSessions,    \* the event loop's session limit
    Loads           \* the session counts that a check may be given

Segment == [seq : Nat, len : Nat \ {0}]

ASSUME StreamAssumption ==
    /\ Segments \subseteq Segment
    /\ RemoteStart \in Nat
    /\ LocalStart \in Nat
    /\ \A g \in Segments : g.seq > RemoteStart
    /\ SynLens \subseteq Nat
    /\ Lossy \in BOOLEAN

ASSUME PeerAssumption ==
    /\ Windows \subseteq Nat
    /\ AckSlack \in Nat
    /\ MaxDown \in Nat
    /\ Mss \in Nat \ {0}
    /\ Rooms \subseteq Nat
    /\ Proxy \in BOOLEAN
    /\ WriteOk \subseteq BOOLEAN

ASSUME TimeAssumption ==
    /\ InitTimeout \in Nat
    /\ IdleTimeout \in Nat
    /\ CloseTimeout \in Nat
    /\ KeepTimeout \in Nat
    /\ MaxAge \in Nat
    /\ MaxSessions \in Nat \ {0}
    /\ Loads \subseteq Nat

VARIABLES
    tcp,        \* struct tcp_session; state "NONE" when there is no session
    socket,     \* whether the session's socket is open (socket >= 0)
    interest,   \* what epoll watches the socket for, {} when it does not
    ready,      \* the events epoll_wait returned and not served yet
    phase,      \* where the event loop is
    app         \* what the app's TCP has sent and been told

vars == <<tcp, socket, interest, ready, phase, app>>

-----------------------------------------------------------------------------
(* The session.                                                            *)

Transfer == {"ESTABLISHED", "CLOSE_WAIT"}
Shut     == {"CLOSING", "CLOSE"}
States   == {"NONE", "LISTEN", "SYN_RECV", "FIN_WAIT1", "LAST_ACK"}
                \cup Transfer \cup Shut
Socks5   == {"NONE", "HELLO", "AUTH", "CONNECT", "CONNECTED", "FAILED"}
Queued   == [seq : Nat, len : Nat \ {0}, sent : Nat]
Session  == [state : States, socks5 : Socks5, age : Nat,
             remote_seq : Nat, local_seq : Nat, acked : Nat,
             send_window : Nat, recv_open : BOOLEAN,
             sent : Nat, received : Nat, forward : Seq(Queued)]

\* A session that is neither absent nor being torn down.
Live == tcp.state \notin {"NONE"} \cup Shut

NoSession ==
    [state |-> "NONE", socks5 |-> "NONE", age |-> 0,
     remote_seq |-> 0, local_seq |-> 0, acked |-> 0,
     send_window |-> 0, recv_open |-> FALSE,
     sent |-> 0, received |-> 0, forward |-> << >>]

\* The app before it has a SYN-ACK, or after its connection was reset.
NoApp == [open |-> FALSE, ack |-> 0, edge |-> 0, nxt |-> 0]

Init ==
    /\ tcp = NoSession
    /\ socket = FALSE
    /\ interest = {}
    /\ ready = {}
    /\ phase = "monitor"
    /\ app = NoApp

\* Mutant: a failing write to the tun device goes unnoticed.
WriteTcpUnchecked(t, ok) == t

\* write_syn_ack, write_ack, write_data and write_fin_ack: a failing write to
\* the tun device starts the teardown.
WriteTcp(t, ok) == IF ok THEN t ELSE [t EXCEPT !.state = "CLOSING"]

\* Mutant: a reset closes the session without the step that closes its socket.
write_rst_closes(t) == [t EXCEPT !.state = "CLOSE"]

write_rst(t) == IF t.state = "CLOSE" THEN t ELSE [t EXCEPT !.state = "CLOSING"]

\* Mutant: the bytes in flight are not deducted.
get_send_window_whole(t) == t.send_window

get_send_window(t) ==
    LET behind == IF t.acked <= t.local_seq THEN t.local_seq - t.acked ELSE t.acked
    IN  IF behind < t.send_window THEN t.send_window - behind ELSE 0

\* C division truncates towards zero.
CDiv(a, b) == IF a < 0 THEN -((-a) \div b) ELSE a \div b

get_tcp_timeout(t, sessions) ==
    LET timeout == IF t.state \in {"LISTEN", "SYN_RECV"} THEN InitTimeout
                   ELSE IF t.state = "ESTABLISHED" THEN IdleTimeout
                   ELSE CloseTimeout
        scale   == 100 - (sessions * 100) \div MaxSessions
    IN  CDiv(timeout * scale, 100)

SegmentEnd(g) == g.seq + g.len

\* Mutant: data that starts before remote_seq is sent as well.
SendableBehind(t, room, j) ==
    /\ j <= Len(t.forward)
    /\ \A i \in 1..j :
          /\ t.forward[i].seq + t.forward[i].sent
                <= IF i = 1 THEN t.remote_seq ELSE SegmentEnd(t.forward[i - 1])
          /\ SegmentEnd(t.forward[i]) - t.remote_seq < room

\* The first j queued segments follow remote_seq without a hole and fit in
\* the room of the socket's send buffer, in which the last byte stays free.
Sendable(t, room, j) ==
    /\ j <= Len(t.forward)
    /\ \A i \in 1..j :
          /\ t.forward[i].seq + t.forward[i].sent
                = IF i = 1 THEN t.remote_seq ELSE SegmentEnd(t.forward[i - 1])
          /\ SegmentEnd(t.forward[i]) - t.remote_seq < room

\* get_receive_window, reduced to whether the window is open.
WindowOpens(t, room) ==
    FoldLeft(LAMBDA n, g : n + (g.len - g.sent), 0, t.forward) < room

\* Mutant: the search passes a segment with the same seq.
InsertionPointAfter(queue, seq, n) ==
    /\ n \in 0..Len(queue)
    /\ \A i \in 1..n : queue[i].seq <= seq
    /\ n < Len(queue) => queue[n + 1].seq > seq

\* Where the search of queue_tcp stops: behind the n segments that start
\* before seq, at the first one that does not.
InsertionPoint(queue, seq, n) ==
    /\ n \in 0..Len(queue)
    /\ \A i \in 1..n : queue[i].seq < seq
    /\ n < Len(queue) => queue[n + 1].seq >= seq

\* Mutant: data that was forwarded already is queued again.
queue_tcp_old(t, seq, len, n) ==
    IF n < Len(t.forward) /\ t.forward[n + 1].seq = seq THEN t
    ELSE [t EXCEPT !.forward =
             InsertAt(@, n + 1, [seq |-> seq, len |-> len, sent |-> 0])]

\* A segment that was forwarded, or whose seq is in the queue, changes nothing
\* (a longer one replaces the data of the queued one but not its len).
queue_tcp(t, seq, len, n) ==
    IF \/ seq < t.remote_seq
       \/ n < Len(t.forward) /\ t.forward[n + 1].seq = seq
    THEN t
    ELSE [t EXCEPT !.forward =
             InsertAt(@, n + 1, [seq |-> seq, len |-> len, sent |-> 0])]

-----------------------------------------------------------------------------
(* The event loop: monitor, check, wait.                                   *)

CanForward(t, room) == t.forward # << >> /\ Sendable(t, room, 1)

\* What monitor_tcp_session asks epoll to watch.
WatchIn(t)  == \/ t.state = "LISTEN" /\ t.socks5 # "NONE"
               \/ t.state \in Transfer /\ get_send_window(t) > 0
\* Mutant: a socket is watched for room only until it is connected.
WatchOutConnect(t, room) == t.state = "LISTEN" /\ t.socks5 = "NONE"

WatchOut(t, room) == \/ t.state = "LISTEN" /\ t.socks5 = "NONE"
                     \/ t.state \in Transfer /\ CanForward(t, room)
Watched(t, room) == {"ERR"} \cup {e \in {"IN"} : WatchIn(t)}
                            \cup {e \in {"OUT"} : WatchOut(t, room)}

\* monitor_tcp_session.  probe: a keep alive is due (at most one in 100 ms
\* while the send window is closed); modified: epoll_ctl succeeds.  interest is
\* what epoll watches, hence the old events after a failure.
MonitorSession ==
    /\ phase = "monitor"
    /\ socket
    /\ interest # {}
    /\ \E room \in Rooms, probe, modified \in BOOLEAN, ok \in WriteOk :
          LET events == Watched(tcp, room)
              closed == tcp.state \in Transfer /\ get_send_window(tcp) = 0
              probed == IF closed /\ probe THEN WriteTcp(tcp, ok) ELSE tcp
          IN  /\ interest' = IF modified THEN events ELSE interest
              /\ tcp' = IF events # interest /\ ~modified
                        THEN [probed EXCEPT !.state = "CLOSING"]
                        ELSE probed
    /\ phase' = "check"
    /\ UNCHANGED <<socket, ready, app>>

\* Sessions without a socket are not monitored.  Nor does it change anything
\* to monitor a socket that epoll_ctl could not add, which epoll never reports.
SkipMonitor ==
    /\ phase = "monitor"
    /\ ~socket \/ interest = {}
    /\ phase' = "check"
    /\ UNCHANGED <<tcp, socket, interest, ready, app>>

\* The checks are skipped when the last ones are less than 100 ms ago.
SkipCheck ==
    /\ phase = "check"
    /\ phase' = "wait"
    /\ UNCHANGED <<tcp, socket, interest, ready, app>>

\* check_tcp_session: the idle timeout, then the closing of the socket, the
\* accounting, and the removal of a session closed for KeepTimeout.
CheckSession ==
    /\ phase = "check"
    /\ tcp.state # "NONE"
    /\ \E sessions \in Loads :
          LET idle    == /\ tcp.state \notin Shut
                         /\ tcp.age > get_tcp_timeout(tcp, sessions)
              closing == idle \/ tcp.state = "CLOSING"
              checked == IF closing THEN [tcp EXCEPT !.state = "CLOSE", !.age = 0]
                                    ELSE tcp
              settled == IF checked.state = "CLOSE"
                         THEN [checked EXCEPT !.sent = 0, !.received = 0]
                         ELSE checked
              remove  == settled.state = "CLOSE" /\ settled.age > KeepTimeout
          IN  /\ tcp' = IF remove THEN NoSession ELSE settled
              /\ socket' = (socket /\ ~closing)
              /\ interest' = IF closing THEN {} ELSE interest
    /\ phase' = "wait"
    /\ UNCHANGED <<ready, app>>

\* epoll_wait.  A hang-up is reported whether it is watched or not, and so is
\* an error, which makes check_tcp_socket ignore the other events.
EpollWait ==
    /\ phase = "wait"
    /\ ready' \in IF socket /\ interest # {}
                  THEN {{"ERR"}} \cup (SUBSET ((interest \ {"ERR"}) \cup {"HUP"}))
                  ELSE {{}}
    /\ phase' = "dispatch"
    /\ UNCHANGED <<tcp, socket, interest, app>>

\* Time passes while the loop waits.
Tick ==
    /\ phase = "wait"
    /\ tcp.state # "NONE"
    /\ tcp.age < MaxAge
    /\ tcp' = [tcp EXCEPT !.age = @ + 1]
    /\ UNCHANGED <<socket, interest, ready, phase, app>>

\* Mutant: the batch is left with an event that was not served.
EndBatchEarly ==
    /\ phase = "dispatch"
    /\ phase' = "monitor"
    /\ UNCHANGED <<tcp, socket, interest, ready, app>>

\* All events of the batch were served.
EndBatch ==
    /\ phase = "dispatch"
    /\ ready = {}
    /\ phase' = "monitor"
    /\ UNCHANGED <<tcp, socket, interest, ready, app>>

-----------------------------------------------------------------------------
(* check_tcp_socket: the event of the session's socket.                    *)

SocketError ==
    /\ phase = "dispatch"
    /\ "ERR" \in ready
    /\ tcp' = write_rst([tcp EXCEPT !.age = 0])
    /\ ready' = {}
    /\ UNCHANGED <<socket, interest, phase, app>>

\* Mutant: authentication is taken for the proxy's connection to the server.
Socks5StepShort == {<<"HELLO", "accept", "CONNECT">>,  <<"HELLO", "auth", "AUTH">>,
                    <<"AUTH", "accept", "CONNECTED">>, <<"CONNECT", "accept", "CONNECTED">>}

\* The proxy's answers that take the SOCKS5 handshake forward.
Socks5Step == {<<"HELLO", "accept", "CONNECT">>,  <<"HELLO", "auth", "AUTH">>,
               <<"AUTH", "accept", "CONNECT">>,   <<"CONNECT", "accept", "CONNECTED">>}
Answers == {"accept", "auth", "refuse", "error"}

\* What the event does to the handshake.  A recv error resets the session but
\* leaves socks5 alone; any answer out of place resets it and clears socks5.
Handshake(t, answer) ==
    IF t.socks5 = "NONE"
    THEN IF "OUT" \in ready
         THEN [t EXCEPT !.socks5 = IF Proxy THEN "HELLO" ELSE "CONNECTED"]
         ELSE t
    ELSE IF "IN" \notin ready THEN t
    ELSE IF answer = "error" THEN write_rst(t)
    ELSE IF \E next \in Socks5 : <<t.socks5, answer, next>> \in Socks5Step
    THEN [t EXCEPT !.socks5 =
             CHOOSE next \in Socks5 : <<t.socks5, answer, next>> \in Socks5Step]
    ELSE write_rst([t EXCEPT !.socks5 = "FAILED"])

\* Mutant: the keep alive's decrement of remote_seq is left in.
SynAckBack(t) == [t EXCEPT !.remote_seq = @ - 1]

\* The server (or the proxy) is connected: the app gets its SYN-ACK.
SynAck(t) == [t EXCEPT !.remote_seq = @ + 1]

SocketConnect ==
    /\ phase = "dispatch"
    /\ ready # {} /\ "ERR" \notin ready
    /\ tcp.state = "LISTEN"
    /\ \E answer \in Answers, sent \in BOOLEAN, ok \in WriteOk :
          LET t == Handshake(tcp, answer)
          IN  \/ /\ t.socks5 \in {"NONE", "FAILED"}
                 /\ tcp' = t
                 /\ app' = app
              \/ /\ t.socks5 \in {"HELLO", "AUTH", "CONNECT"}
                 /\ tcp' = IF sent THEN t ELSE write_rst(t)
                 /\ app' = app
              \/ /\ t.socks5 = "CONNECTED"
                 /\ ok
                 /\ tcp' = [SynAck(t) EXCEPT !.state = "SYN_RECV", !.age = 0,
                                             !.local_seq = @ + 1]
                 /\ app' = [open |-> TRUE, ack |-> t.local_seq + 1,
                            edge |-> t.local_seq + 1 + t.send_window,
                            nxt  |-> RemoteStart + 1]
              \/ /\ t.socks5 = "CONNECTED"
                 /\ ~ok
                 /\ tcp' = WriteTcp(SynAck(t), ok)
                 /\ app' = app
    /\ ready' = {}
    /\ UNCHANGED <<socket, interest, phase>>

\* Mutant: a segment of which a part was sent is taken off the queue.
ForwardPartOnly(t, j, k) ==
    LET upto == IF j = 0 THEN t.remote_seq + k ELSE SegmentEnd(t.forward[j]) + k
    IN  [t EXCEPT !.remote_seq = upto,
                  !.sent = @ + (upto - t.remote_seq),
                  !.forward = SubSeq(@, IF k = 0 THEN j + 1 ELSE j + 2, Len(@))]

\* j whole segments and k bytes of the next one are sent to the server.
Forward(t, j, k) ==
    LET rest == SubSeq(t.forward, j + 1, Len(t.forward))
        upto == IF j = 0 THEN t.remote_seq + k ELSE SegmentEnd(t.forward[j]) + k
    IN  [t EXCEPT !.remote_seq = upto,
                  !.sent = @ + (upto - t.remote_seq),
                  !.forward = IF k = 0 THEN rest
                              ELSE <<[rest[1] EXCEPT !.sent = @ + k]>> \o Tail(rest)]

\* The forwarding loop ends when no segment can be sent, after a partial send
\* of k bytes, or when send fails: EAGAIN, or an error that resets the session.
ForwardLoop(t, room, j, k, failed) ==
    /\ Sendable(t, room, j)
    /\ k > 0 \/ failed => Sendable(t, room, j + 1)
    /\ k > 0 => k < t.forward[j + 1].len - t.forward[j + 1].sent
    /\ ~(k > 0 /\ failed)

\* Mutant: an emptied queue is taken for the app's FIN in any state.
AcknowledgeFin(t, fwd, opens, ok) ==
    LET acked == IF fwd /\ t.forward = << >> THEN [t EXCEPT !.remote_seq = @ + 1] ELSE t
    IN  WriteTcp([acked EXCEPT !.recv_open = opens, !.age = IF ok THEN 0 ELSE @], ok)

\* The end of forwarding: the new receive window, and the acknowledgement of
\* what was forwarded, which covers the app's FIN once the queue is empty.
Acknowledge(t, fwd, opens, ok) ==
    LET fin   == fwd /\ t.forward = << >> /\ t.state = "CLOSE_WAIT"
        acked == IF fin THEN [t EXCEPT !.remote_seq = @ + 1] ELSE t
    IN  IF fwd \/ (~t.recv_open /\ opens)
        THEN WriteTcp([acked EXCEPT !.recv_open = opens, !.age = IF ok THEN 0 ELSE @], ok)
        ELSE [t EXCEPT !.recv_open = opens]

\* The read at the end of the handler: at most the smaller of mss and the send
\* window, whatever the socket holds.  t is the session after forwarding.
Readable(t) == t.state \in Transfer /\ "IN" \in ready /\ get_send_window(t) > 0

ReadNothing(t) ==
    /\ ~Readable(t)
    /\ tcp' = t
    /\ UNCHANGED <<socket, interest>>

\* recv fails: EAGAIN, or an error that resets the session.
ReadFails(t) ==
    /\ Readable(t)
    /\ \E again \in BOOLEAN :
          LET r == [t EXCEPT !.age = 0]
          IN  tcp' = IF again THEN r ELSE write_rst(r)
    /\ UNCHANGED <<socket, interest>>

ReadData(t) ==
    /\ Readable(t)
    /\ \E n \in 1..Mss, ok \in WriteOk :
          /\ n <= get_send_window(t)
          /\ t.received + n <= MaxDown
          /\ LET r == [t EXCEPT !.age = 0, !.received = @ + n]
             IN  tcp' = IF ok THEN [r EXCEPT !.local_seq = @ + n]
                              ELSE WriteTcp(r, ok)
    /\ UNCHANGED <<socket, interest>>

\* The server closed: the app gets a FIN, or a reset when data is still queued
\* for the server.  The socket is closed in either case.
ReadEof(t) ==
    /\ Readable(t)
    /\ \E ok \in WriteOk :
          LET r == [t EXCEPT !.age = 0]
          IN  tcp' = IF t.forward # << >> THEN write_rst(r)
                     ELSE IF ~ok THEN WriteTcp(r, ok)
                     ELSE [r EXCEPT !.local_seq = @ + 1,
                                    !.state = IF @ = "ESTABLISHED" THEN "FIN_WAIT1"
                                              ELSE "LAST_ACK"]
    /\ socket' = FALSE
    /\ interest' = {}

\* What the forwarding loop may send: whole segments, then a part of one.
Partials == {0} \cup UNION {1..(tcp.forward[i].len - 1) : i \in DOMAIN tcp.forward}
Sends ==
    {s \in [whole : 0..Len(tcp.forward), part : Partials, failed : BOOLEAN] :
        IF "OUT" \in ready
        THEN \E room \in Rooms : ForwardLoop(tcp, room, s.whole, s.part, s.failed)
        ELSE s.whole = 0 /\ s.part = 0 /\ ~s.failed}

AfterSend(s) == LET f == Forward(tcp, s.whole, s.part)
                IN  IF s.failed THEN write_rst(f) ELSE f

\* Any state but LISTEN: forward, acknowledge, read.
SocketRelay ==
    /\ phase = "dispatch"
    /\ ready # {} /\ "ERR" \notin ready
    /\ tcp.state # "LISTEN"
    /\ \E s \in Sends :
       \E opens \in {WindowOpens(AfterSend(s), room) : room \in Rooms}, ok \in WriteOk :
          LET t == Acknowledge(AfterSend(s), s.whole + s.part > 0, opens, ok)
          IN  \/ ReadNothing(t)
              \/ ReadFails(t)
              \/ ReadData(t)
              \/ ReadEof(t)
    /\ ready' = {}
    /\ UNCHANGED <<phase, app>>

-----------------------------------------------------------------------------
(* handle_tcp: a packet of the app.                                        *)

\* Where the app's stream ends.
StreamEnd == CHOOSE e \in {RemoteStart + 1} \cup {SegmentEnd(g) : g \in Segments} :
                \A g \in Segments : SegmentEnd(g) <= e

\* A packet that acknowledges ack and advertises window w.  Only a stray
\* packet acknowledges more than local_seq.
Packet(flag, seq, len, ack, w) ==
    [flag |-> flag, seq |-> seq, len |-> len, ack_seq |-> ack, window |-> w]

\* The SYN, sent again until the app has the SYN-ACK.
SynPackets == {Packet("SYN", RemoteStart, l, 0, w) : l \in SynLens, w \in Windows}
AppMaySyn  == ~app.open \/ tcp.state = "SYN_RECV"

\* An ACK, FIN or RST without data, or with the segment g of the stream.
AppPackets ==
    LET acks == app.ack..(tcp.local_seq + AckSlack)
    IN  {Packet(f, StreamEnd, 0, a, w) : f \in {"ACK", "RST", "FIN"}, a \in acks, w \in Windows}
          \cup {Packet(f, g.seq, g.len, a, w) :
                   f \in {"ACK", "FIN"}, g \in Segments, a \in acks, w \in Windows}

\* Unless packets are lost the stream arrives in order, and the FIN last.
AppMaySend(p) ==
    /\ app.open
    /\ p.ack_seq + p.window >= app.edge
    /\ p.flag = "FIN" => p.seq + p.len = StreamEnd
    /\ Lossy \/ p.flag = "RST" \/ (p.flag = "ACK" /\ p.len = 0) \/ p.seq <= app.nxt

Arriving == {p \in SynPackets : AppMaySyn} \cup {p \in AppPackets : AppMaySend(p)}

\* What the app's TCP is after it sent the packet.
Told(p) ==
    IF p.flag = "RST" THEN NoApp
    ELSE IF p.flag = "SYN" \/ p.ack_seq > tcp.local_seq THEN app
    ELSE [app EXCEPT !.ack = p.ack_seq, !.edge = p.ack_seq + p.window,
                     !.nxt = IF p.len > 0 /\ @ < p.seq + p.len
                             THEN p.seq + p.len ELSE @]

\* A SYN without a session opens one, unless its socket cannot be opened.
\* That epoll does not take the socket (interest stays empty) goes unnoticed.
NewSession(p) ==
    /\ tcp.state = "NONE"
    /\ p.flag = "SYN"
    /\ \E room \in Rooms :
          LET t == [NoSession EXCEPT
                       !.state = "LISTEN",
                       !.send_window = p.window,
                       !.remote_seq = p.seq,
                       !.local_seq = LocalStart,
                       !.forward = IF p.len = 0 THEN << >>
                                   ELSE <<[seq |-> p.seq, len |-> p.len, sent |-> 0]>>]
          IN  tcp' = [t EXCEPT !.recv_open = WindowOpens(t, room)]
    /\ socket' = TRUE
    /\ interest' \in {{"OUT", "ERR"}, {}}
    /\ app' = NoApp

\* Mutant: the idle clock is reset before the session is found closed.
RefusedSeen(p) ==
    /\ \/ tcp.state = "NONE" /\ p.flag # "SYN"
       \/ tcp.state \in Shut
    /\ app' = NoApp
    /\ tcp' = [tcp EXCEPT !.age = 0]
    /\ UNCHANGED <<socket, interest>>

\* A packet of an unknown session, or of one that was closed, is answered by
\* a reset that leaves the session alone.
Refused(p) ==
    /\ \/ tcp.state = "NONE" /\ p.flag # "SYN"
       \/ tcp.state \in Shut
    /\ app' = NoApp
    /\ UNCHANGED <<tcp, socket, interest>>

\* The session's idle clock and send window after any other packet.
Seen(p) == [tcp EXCEPT !.age = 0, !.send_window = p.window]

\* Data after the app's FIN, or after the server closed.
RefuseData(p) ==
    /\ Live
    /\ p.len > 0
    /\ ~socket \/ tcp.state = "CLOSE_WAIT"
    /\ tcp' = write_rst(Seen(p))

\* Mutant: the data of a FIN packet is not queued.
TakenNoFin(p, n) == IF p.len > 0 /\ p.flag # "FIN"
                    THEN queue_tcp(Seen(p), p.seq, p.len, n) ELSE Seen(p)

\* The packet's data is queued before its flags are looked at.
Accepts(p) == Live /\ (p.len > 0 => socket /\ tcp.state # "CLOSE_WAIT")
Taken(p, n) == IF p.len > 0 THEN queue_tcp(Seen(p), p.seq, p.len, n) ELSE Seen(p)
InOrder(p) == p.flag = "SYN" \/ p.ack_seq = tcp.local_seq

ReceiveReset(p, t) ==
    /\ p.flag = "RST"
    /\ tcp' = [t EXCEPT !.state = "CLOSING"]

\* Mutant: a repeated SYN starts the stream again.
RepeatedSynRestarts(p, t) ==
    /\ p.flag = "SYN"
    /\ tcp' = [t EXCEPT !.remote_seq = p.seq]

RepeatedSyn(p, t) ==
    /\ p.flag = "SYN"
    /\ tcp' = t

\* A FIN is confirmed at once when nothing is queued for the server; in
\* FIN_WAIT1 it ends the session.  In any other state it has no effect.
ReceiveFin(p, t) ==
    /\ p.flag = "FIN"
    /\ InOrder(p)
    /\ LET confirmed == [t EXCEPT !.remote_seq = @ + 1]
       IN  \/ /\ t.state = "ESTABLISHED" /\ t.forward = << >>
              /\ \E ok \in WriteOk :
                    tcp' = IF ok THEN [confirmed EXCEPT !.state = "CLOSE_WAIT"]
                                 ELSE WriteTcp(confirmed, ok)
           \/ /\ t.state = "ESTABLISHED" /\ t.forward # << >>
              /\ tcp' = [t EXCEPT !.state = "CLOSE_WAIT"]
           \/ /\ t.state = "FIN_WAIT1"
              /\ \E ok \in WriteOk :
                    tcp' = IF ok THEN [confirmed EXCEPT !.state = "CLOSE"]
                                 ELSE WriteTcp(confirmed, ok)
           \/ /\ t.state \notin {"ESTABLISHED", "FIN_WAIT1"}
              /\ tcp' = t

ReceiveAck(p, t) ==
    /\ p.flag = "ACK"
    /\ InOrder(p)
    /\ tcp' = [t EXCEPT !.acked = p.ack_seq,
                        !.state = IF @ = "SYN_RECV" THEN "ESTABLISHED"
                                  ELSE IF @ = "LAST_ACK" THEN "CLOSING" ELSE @]

\* An acknowledgement of less than local_seq: one below it is a keep alive,
\* an older one moves acked forward.  The packet's FIN is not looked at.
ReceiveOldAck(p, t) ==
    /\ p.flag \in {"ACK", "FIN"}
    /\ p.ack_seq < tcp.local_seq
    /\ tcp' = IF p.ack_seq + 1 # tcp.local_seq /\ p.ack_seq > t.acked
              THEN [t EXCEPT !.acked = p.ack_seq] ELSE t

ReceiveFutureAck(p, t) ==
    /\ p.flag \in {"ACK", "FIN"}
    /\ p.ack_seq > tcp.local_seq
    /\ tcp' = write_rst(t)

\* The session was found and its data, if any, was taken.
Receive(p) ==
    /\ Accepts(p)
    /\ \E n \in 0..Len(tcp.forward) :
          /\ InsertionPoint(tcp.forward, p.seq, n)
          /\ LET t == Taken(p, n)
             IN  \/ ReceiveReset(p, t)
                 \/ RepeatedSyn(p, t)
                 \/ ReceiveFin(p, t)
                 \/ ReceiveAck(p, t)
                 \/ ReceiveOldAck(p, t)
                 \/ ReceiveFutureAck(p, t)

TunPacket ==
    /\ phase = "dispatch"
    /\ \E p \in Arriving :
          \/ NewSession(p)
          \/ Refused(p)
          \/ RefuseData(p) /\ app' = Told(p) /\ UNCHANGED <<socket, interest>>
          \/ Receive(p) /\ app' = Told(p) /\ UNCHANGED <<socket, interest>>
    /\ UNCHANGED <<ready, phase>>

-----------------------------------------------------------------------------

Next ==
    \/ MonitorSession \/ SkipMonitor
    \/ SkipCheck \/ CheckSession
    \/ Tick \/ EpollWait
    \/ SocketError \/ SocketConnect \/ SocketRelay \/ TunPacket
    \/ EndBatch

Spec == Init /\ [][Next]_vars

(* Fairness.  The loop's thread takes its next step, time passes, and the  *)
(* checks are not skipped for ever (only for 100 ms).  The server keeps    *)
(* reading: room in its socket's buffer comes back, epoll reports it, and  *)
(* the send that follows takes bytes.  The tun device runs empty now and   *)
(* then, which ends the dispatch (EndBatch).                               *)
LoopStep == MonitorSession \/ SkipMonitor \/ SkipCheck \/ EpollWait \/ EndBatch
                \/ SocketError \/ SocketConnect \/ SocketRelay

Fairness ==
    /\ WF_vars(LoopStep)
    /\ SF_vars(CheckSession)
    /\ SF_vars(Tick)
    /\ SF_vars(MonitorSession /\ "OUT" \in interest')
    /\ SF_vars(EpollWait /\ "OUT" \in ready')
    /\ SF_vars(SocketRelay /\ tcp'.remote_seq > tcp.remote_seq)

FairSpec == Spec /\ Fairness

-----------------------------------------------------------------------------
(* Properties.                                                             *)

TypeOK ==
    /\ tcp \in Session
    /\ socket \in BOOLEAN
    /\ interest \in SUBSET {"IN", "OUT", "ERR"}
    /\ ready \in SUBSET {"IN", "OUT", "ERR", "HUP"}
    /\ phase \in {"monitor", "check", "wait", "dispatch"}
    /\ app \in [open : BOOLEAN, ack : Nat, edge : Nat, nxt : Nat]

\* The socket is open exactly while the state needs it: a session ends up in
\* CLOSE, and is removed, only after its socket was closed (no descriptor
\* leaks), and a session that still relays to the server has one.
SocketMatchesState ==
    /\ tcp.state \in {"LISTEN", "SYN_RECV"} \cup Transfer => socket
    /\ tcp.state \in {"NONE", "FIN_WAIT1", "LAST_ACK", "CLOSE"} => ~socket

\* An event that epoll_wait returned and that is still to be served belongs to
\* a session that exists and whose socket is open (ev.data.ptr points to it),
\* whatever the packets served before it did to the session.
ReadyHasSocket == ready # {} => socket /\ phase = "dispatch" /\ tcp.state # "NONE"

\* The app is told of exactly the bytes that were written to the server's
\* socket: remote_seq counts the SYN, the bytes sent, and after a FIN one more
\* as soon as the queue is empty, never while bytes are queued.
AcksOnlyForwarded ==
    /\ tcp.state = "LISTEN" => tcp.sent = 0 /\ tcp.remote_seq = RemoteStart
    /\ tcp.state \in {"SYN_RECV", "ESTABLISHED", "FIN_WAIT1"}
          => tcp.remote_seq = RemoteStart + 1 + tcp.sent
    /\ tcp.state \in {"CLOSE_WAIT", "LAST_ACK"}
          => tcp.remote_seq = RemoteStart + 1 + tcp.sent
                                + (IF tcp.forward = << >> THEN 1 ELSE 0)

\* Every byte read from the server was written to the app: local_seq counts the
\* SYN, the bytes read, and the FIN that follows the last of them.
ReadIsDelivered ==
    /\ tcp.state = "LISTEN" => tcp.local_seq = LocalStart /\ tcp.received = 0
    /\ tcp.state \in {"SYN_RECV"} \cup Transfer
          => tcp.local_seq = LocalStart + 1 + tcp.received
    /\ tcp.state \in {"FIN_WAIT1", "LAST_ACK"}
          => tcp.local_seq = LocalStart + 1 + tcp.received + 1

\* The app is never sent a byte beyond the right edge of the window it offered,
\* although acked and send_window come from different packets.
WindowRespected ==
    tcp.state \in Transfer => tcp.local_seq <= app.edge

\* The queue is in the order of the stream, without two segments of the same
\* seq; only its head may be partly sent, and no segment in it is all sent.
Ordered(queue) ==
    /\ \A i, j \in 1..Len(queue) : i < j => queue[i].seq < queue[j].seq
    /\ \A i \in 1..Len(queue) : /\ queue[i].sent < queue[i].len
                                /\ i > 1 => queue[i].sent = 0

QueueSorted == Ordered(tcp.forward)

\* "Always forward data" (tcp.c:410): the head of the queue is never behind
\* remote_seq, where no later packet of the app could make it sendable again.
HeadNotStale ==
    tcp.state \in {"SYN_RECV"} \cup Transfer /\ tcp.forward # << >>
        => tcp.forward[1].seq + tcp.forward[1].sent >= tcp.remote_seq

\* The head of the queue is behind remote_seq.
Stale(t) ==
    /\ t.state \notin {"NONE", "LISTEN"} \cup Shut
    /\ t.forward # << >>
    /\ t.forward[1].seq + t.forward[1].sent < t.remote_seq

\* Where the head of the queue is stale, because a SYN had data or segments
\* overlap, it stays so: nothing that the app sends and no room at the server
\* makes another byte go to the server in the life of the session.
StaleBlocks == [][Stale(tcp) /\ Live' => Stale(tcp)' /\ tcp'.sent = tcp.sent]_vars

\* remote_seq counts "confirmed bytes received" (network.h:148): the app's FIN
\* is confirmed only when the whole stream before it was forwarded.
FinCompletesStream ==
    tcp.state \in {"CLOSE_WAIT", "LAST_ACK"} /\ tcp.forward = << >>
        => RemoteStart + 1 + tcp.sent = StreamEnd

\* The app gets its SYN-ACK only in the step in which the server, or with a
\* proxy configured the proxy's last answer, confirmed the connection.
ConnectedFirst ==
    [][tcp.state = "LISTEN" /\ tcp'.state = "SYN_RECV"
          => /\ "ERR" \notin ready
             /\ IF Proxy THEN tcp.socks5 = "CONNECT" /\ "IN" \in ready
                         ELSE tcp.socks5 = "NONE" /\ "OUT" \in ready]_vars

\* What either side was told never goes back in the life of a session: neither
\* the bytes confirmed to the app, nor those sent to it, nor those it confirmed.
NeverBackwards ==
    [][Live /\ tcp'.state # "NONE"
          => /\ tcp'.remote_seq >= tcp.remote_seq
             /\ tcp'.local_seq >= tcp.local_seq
             /\ tcp'.acked >= tcp.acked]_vars

\* A session that is being torn down is removed from the session list, however
\* often the app still sends to it.
ShutIsRemoved == tcp.state \in Shut ~> tcp.state = "NONE"

\* Bytes queued on an open connection are all forwarded in the end, unless the
\* session is torn down.
QueueDrains == tcp.state \in Transfer /\ tcp.forward # << >>
                  ~> tcp.forward = << >> \/ ~Live

=============================================================================
