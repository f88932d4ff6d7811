--------------------------- MODULE TcpStream_proofs ---------------------------
(***************************************************************************)
(* Theorems about the app's stream in TcpSession that need more of the app *)
(* than the code can count on: that it cuts its stream always in the same  *)
(* way, and that none of its packets is lost.  Without the first the head  *)
(* of the queue may be stale, without the second a FIN may overtake data;  *)
(* the runs TcpMerged and TcpLateFin show both.  That a stale head then    *)
(* stays needs neither.                                                    *)
(***************************************************************************)
EXTENDS TcpSession_proofs

\* The app retransmits what it sent before, in the same segments.
Disjoint == \A g, h \in Segments :
               g = h \/ SegmentEnd(g) <= h.seq \/ SegmentEnd(h) <= g.seq

\* A SYN has no data.
BareSyn == SynLens \subseteq {0}

-----------------------------------------------------------------------------
(* What a step does to the app's stream.                                   *)

\* The session is torn down, removed or was not there.
Down == tcp'.state \in Shut \cup {"NONE"}

\* The step is not about the stream.
Stays ==
    /\ tcp'.forward = tcp.forward /\ tcp'.remote_seq = tcp.remote_seq
    /\ tcp'.sent = tcp.sent /\ tcp'.received = tcp.received
    /\ tcp'.state = tcp.state /\ app' = app

\* A SYN opened a session; its data is all there is in the queue.
Opened ==
    /\ tcp.state = "NONE" /\ tcp'.state = "LISTEN"
    /\ BareSyn => tcp'.forward = << >>
    /\ tcp'.forward # << >> => tcp'.forward[1].seq + tcp'.forward[1].sent = tcp'.remote_seq
    /\ app' = NoApp

\* The app got its SYN-ACK.
Connected ==
    /\ tcp.state = "LISTEN" /\ tcp'.state = "SYN_RECV"
    /\ tcp'.forward = tcp.forward /\ tcp'.remote_seq = tcp.remote_seq + 1
    /\ tcp'.sent = tcp.sent /\ tcp'.received = tcp.received
    /\ app'.nxt = RemoteStart + 1

\* The packet p was taken.
Takes(p) ==
    /\ Accepts(p)
    /\ \E n \in 0..Len(tcp.forward) :
          /\ InsertionPoint(tcp.forward, p.seq, n)
          /\ tcp'.forward = IF p.len > 0 THEN queue_tcp(tcp, p.seq, p.len, n).forward
                                         ELSE tcp.forward
    /\ tcp'.sent = tcp.sent /\ tcp'.received = tcp.received
    /\ tcp'.forward # << >> => tcp'.remote_seq = tcp.remote_seq
    /\ \/ tcp'.state = tcp.state
       \/ tcp.state = "SYN_RECV" /\ tcp'.state = "ESTABLISHED"
       \/ /\ tcp.state = "ESTABLISHED" /\ tcp'.state = "CLOSE_WAIT"
          /\ p.flag = "FIN" /\ p.ack_seq = tcp.local_seq
    /\ p.ack_seq <= tcp.local_seq \/ p.flag = "SYN"
    /\ p.flag # "RST"
    /\ app' = Told(p)

\* j whole segments and k bytes of the next one were forwarded.
Forwards(room, j, k, failed) ==
    /\ ForwardLoop(tcp, room, j, k, failed)
    /\ tcp'.forward = Forward(tcp, j, k).forward
    /\ tcp'.sent = Forward(tcp, j, k).sent
    /\ tcp'.forward # << >> => tcp'.remote_seq = Forward(tcp, j, k).remote_seq

\* The queue was forwarded, as far as it could be; the server's end is taken
\* only with an empty queue.
Relays ==
    /\ tcp.state \in {"SYN_RECV"} \cup Transfer
    /\ \E room : \E j \in 0..Len(tcp.forward), k \in Nat, failed \in BOOLEAN :
          Forwards(room, j, k, failed)
    /\ \/ tcp'.state = tcp.state
       \/ tcp.state = "ESTABLISHED" /\ tcp'.state = "FIN_WAIT1"
       \/ tcp.state = "CLOSE_WAIT" /\ tcp'.state = "LAST_ACK"
    /\ tcp'.state # tcp.state => tcp'.forward = << >>
    /\ tcp'.received >= tcp.received
    /\ app' = app

\* All that a step may do to the stream.
StreamStep ==
    Down \/ Stays \/ Opened \/ Connected \/ Relays \/ \E p \in Arriving : Takes(p)

\* monitor_tcp_session.
LEMMA MonitorStream ==
    ASSUME IInv, MonitorSession
    PROVE  Down \/ Stays
<1>1. PICK room \in Rooms, probe \in BOOLEAN, modified \in BOOLEAN, ok \in WriteOk :
         LET events == Watched(tcp, room)
             closed == tcp.state \in Transfer /\ get_send_window(tcp) = 0
             probed == IF closed /\ probe THEN WriteTcp(tcp, ok) ELSE tcp
         IN  tcp' = IF events # interest /\ ~modified
                    THEN [probed EXCEPT !.state = "CLOSING"]
                    ELSE probed
  BY DEF MonitorSession
<1> DEFINE closed == tcp.state \in Transfer /\ get_send_window(tcp) = 0
           probed == IF closed /\ probe THEN WriteTcp(tcp, ok) ELSE tcp
<1>2. tcp' = probed \/ tcp' = [probed EXCEPT !.state = "CLOSING"]
  BY <1>1
<1>3. probed \in Session /\ (probed = tcp \/ probed.state = "CLOSING")
  BY Typing, WriteFails DEF WriteTcp
<1> HIDE DEF probed
<1>4. tcp' = tcp \/ tcp'.state = "CLOSING"
  BY <1>2, <1>3 DEF Session
<1>5. app' = app
  BY DEF MonitorSession
<1>6. QED
  BY <1>4, <1>5 DEF Down, Stays, Shut

\* check_tcp_session.
LEMMA CheckStream ==
    ASSUME IInv, CheckSession
    PROVE  Down \/ Stays
<1> DEFINE closed == [tcp EXCEPT !.state = "CLOSE", !.age = 0]
           settled(t) == [t EXCEPT !.sent = 0, !.received = 0]
<1>1. closed \in Session /\ closed.state = "CLOSE"
  BY Typing DEF Session, States, Shut
<1>2. \/ tcp' \in {tcp, NoSession, closed, settled(closed)}
      \/ tcp.state = "CLOSE" /\ tcp' = settled(tcp)
  BY DEF CheckSession
<1> HIDE DEF closed
<1>3. settled(closed).state = "CLOSE" /\ (tcp.state = "CLOSE" => settled(tcp).state = "CLOSE")
  BY <1>1, Typing DEF Session
<1> HIDE DEF settled
<1>4. tcp' = tcp \/ tcp'.state \in {"NONE", "CLOSE"}
  BY <1>1, <1>2, <1>3 DEF NoSession
<1>5. app' = app
  BY DEF CheckSession
<1>6. QED
  BY <1>4, <1>5 DEF Down, Stays, Shut

\* The handshake with the server or the proxy.
LEMMA ConnectStream ==
    ASSUME IInv, SocketConnect
    PROVE  Down \/ Stays \/ Connected
<1>1. PICK answer \in Answers, sent \in BOOLEAN, ok \in WriteOk :
         LET t == Handshake(tcp, answer)
         IN  \/ tcp' = t /\ app' = app
             \/ tcp' = write_rst(t)
             \/ /\ tcp' = [SynAck(t) EXCEPT !.state = "SYN_RECV", !.age = 0,
                                            !.local_seq = @ + 1]
                /\ app' = [open |-> TRUE, ack |-> t.local_seq + 1,
                           edge |-> t.local_seq + 1 + t.send_window,
                           nxt  |-> RemoteStart + 1]
             \/ tcp' = WriteTcp(SynAck(t), FALSE)
  <2>1. \A b \in BOOLEAN : ~b <=> b = FALSE
    OBVIOUS
  <2>2. WriteOk \subseteq BOOLEAN
    BY PeerAssumption
  <2>3. QED
    BY <2>1, <2>2 DEF SocketConnect
<1> DEFINE t == Handshake(tcp, answer)
<1>2. tcp.state = "LISTEN"
  BY DEF SocketConnect
<1>3. /\ t \in Session /\ t.state \in {"LISTEN", "CLOSING"}
      /\ t.remote_seq = tcp.remote_seq /\ t.sent = tcp.sent /\ t.forward = tcp.forward
      /\ t.received = tcp.received
  BY <1>2, HandshakeFact
<1>4. \/ tcp' = t /\ app' = app
      \/ tcp' = write_rst(t)
      \/ /\ tcp' = [SynAck(t) EXCEPT !.state = "SYN_RECV", !.age = 0, !.local_seq = @ + 1]
         /\ app' = [open |-> TRUE, ack |-> t.local_seq + 1,
                    edge |-> t.local_seq + 1 + t.send_window,
                    nxt  |-> RemoteStart + 1]
      \/ tcp' = WriteTcp(SynAck(t), FALSE)
  BY <1>1
<1> HIDE DEF t
<1>5. /\ SynAck(t) \in Session /\ SynAck(t).forward = t.forward
      /\ SynAck(t).sent = t.sent /\ SynAck(t).remote_seq = t.remote_seq + 1
      /\ SynAck(t).received = t.received
  BY <1>3, SMTT(20) DEF SynAck, Session
<1>6. CASE tcp' = t /\ app' = app
  BY <1>2, <1>3, <1>6 DEF Down, Stays, Shut
<1>7. CASE tcp' = write_rst(t) \/ tcp' = WriteTcp(SynAck(t), FALSE)
  BY <1>3, <1>5, <1>7 DEF write_rst, WriteTcp, Session, Down, Shut
<1>8. CASE /\ tcp' = [SynAck(t) EXCEPT !.state = "SYN_RECV", !.age = 0, !.local_seq = @ + 1]
           /\ app' = [open |-> TRUE, ack |-> t.local_seq + 1,
                      edge |-> t.local_seq + 1 + t.send_window,
                      nxt  |-> RemoteStart + 1]
  BY <1>2, <1>3, <1>5, <1>8 DEF Connected, Session
<1>9. QED
  BY <1>4, <1>6, <1>7, <1>8

\* The read at the end of check_tcp_socket: the stream to the server is left
\* alone, and the server's end is taken only with an empty queue.
LEMMA ReadStream ==
    ASSUME NEW t \in Session,
           ReadNothing(t) \/ ReadFails(t) \/ ReadData(t) \/ ReadEof(t)
    PROVE  \/ tcp'.state = "CLOSING"
           \/ t.state = "CLOSE" /\ tcp' = t
           \/ /\ tcp'.forward = t.forward /\ tcp'.remote_seq = t.remote_seq
              /\ tcp'.sent = t.sent /\ tcp'.received >= t.received
              /\ \/ tcp'.state = t.state
                 \/ t.state = "ESTABLISHED" /\ tcp'.state = "FIN_WAIT1"
                 \/ t.state = "CLOSE_WAIT" /\ tcp'.state = "LAST_ACK"
              /\ tcp'.state # t.state => t.forward = << >>
<1> DEFINE r == [t EXCEPT !.age = 0]
<1>0. t.received \in Nat
  BY DEF Session
<1>1. /\ r \in Session /\ r.forward = t.forward /\ r.remote_seq = t.remote_seq
      /\ r.sent = t.sent /\ r.received = t.received /\ r.state = t.state
  BY DEF Session
<1>2. CASE ReadNothing(t)
  BY <1>0, <1>2 DEF ReadNothing
<1>3. CASE ReadFails(t)
  <2>1. tcp' = r \/ (tcp' = write_rst(r) /\ r.state \in Transfer)
    BY <1>1, <1>3 DEF ReadFails, Readable
  <2> HIDE DEF r
  <2>2. QED
    BY <1>0, <1>1, <2>1 DEF write_rst, Session, Transfer
<1>4. CASE ReadData(t)
  <2>1. PICK n \in 1..Mss, ok \in WriteOk :
           LET x == [t EXCEPT !.age = 0, !.received = @ + n]
           IN  tcp' = IF ok THEN [x EXCEPT !.local_seq = @ + n] ELSE WriteTcp(x, ok)
    BY <1>4 DEF ReadData
  <2> DEFINE x == [t EXCEPT !.age = 0, !.received = @ + n]
  <2>2. x \in Session
    <3>1. n \in Nat /\ t.received \in Nat
      BY PeerAssumption DEF Session
    <3>2. t.received + n \in Nat
      BY <3>1
    <3>3. QED
      BY <3>2 DEF Session
  <2>3. /\ x.forward = t.forward /\ x.remote_seq = t.remote_seq
        /\ x.sent = t.sent /\ x.state = t.state /\ x.received >= t.received
    <3>1. n \in Nat
      BY PeerAssumption
    <3>2. x.received = t.received + n
      BY DEF Session
    <3>3. QED
      BY <1>0, <3>1, <3>2 DEF Session
  <2>4. tcp' = [x EXCEPT !.local_seq = @ + n] \/ tcp' = [x EXCEPT !.state = "CLOSING"]
    BY <2>1 DEF WriteTcp
  <2> HIDE DEF x
  <2>5. QED
    BY <2>2, <2>3, <2>4 DEF Session
<1>5. CASE ReadEof(t)
  <2>1. \/ tcp' = write_rst(r)
        \/ tcp' = [r EXCEPT !.state = "CLOSING"]
        \/ /\ t.forward = << >>
           /\ tcp' = [r EXCEPT !.local_seq = @ + 1,
                               !.state = IF @ = "ESTABLISHED" THEN "FIN_WAIT1"
                                         ELSE "LAST_ACK"]
    <3>1. PICK ok \in WriteOk :
             tcp' = IF t.forward # << >> THEN write_rst(r)
                    ELSE IF ~ok THEN WriteTcp(r, ok)
                    ELSE [r EXCEPT !.local_seq = @ + 1,
                                   !.state = IF @ = "ESTABLISHED" THEN "FIN_WAIT1"
                                             ELSE "LAST_ACK"]
      BY <1>5 DEF ReadEof
    <3> HIDE DEF r
    <3>2. QED
      BY <3>1 DEF WriteTcp
  <2>2. r.state \in Transfer
    BY <1>1, <1>5 DEF ReadEof, Readable
  <2> DEFINE x == [r EXCEPT !.local_seq = @ + 1,
                            !.state = IF @ = "ESTABLISHED" THEN "FIN_WAIT1"
                                      ELSE "LAST_ACK"]
  <2> HIDE DEF r
  <2>3. /\ x.forward = r.forward /\ x.remote_seq = r.remote_seq
        /\ x.sent = r.sent /\ x.received = r.received
        /\ x.state = IF r.state = "ESTABLISHED" THEN "FIN_WAIT1" ELSE "LAST_ACK"
    BY <1>1 DEF Session
  <2> HIDE DEF x
  <2>4. CASE tcp' = write_rst(r) \/ tcp' = [r EXCEPT !.state = "CLOSING"]
    BY <1>1, <2>2, <2>4 DEF write_rst, Session, Transfer
  <2>5. CASE t.forward = << >> /\ tcp' = x
    BY <1>0, <1>1, <2>2, <2>3, <2>5 DEF Transfer
  <2>6. QED
    BY <2>1, <2>4, <2>5 DEF x
<1>6. QED
  BY <1>2, <1>3, <1>4, <1>5

\* What the acknowledgement does to the stream.
Confirmed(x, u) ==
    /\ u \in Session /\ u.forward = x.forward /\ u.sent = x.sent
    /\ u.received = x.received
    /\ u.state \in {x.state, "CLOSING"}
    /\ u.forward # << >> => u.remote_seq = x.remote_seq

LEMMA AcknowledgeStream ==
    ASSUME NEW x \in Session, NEW fwd \in BOOLEAN, NEW opens \in BOOLEAN, NEW ok \in BOOLEAN
    PROVE  Confirmed(x, Acknowledge(x, fwd, opens, ok))
<1> DEFINE u == Acknowledge(x, fwd, opens, ok)
           fin == fwd /\ x.forward = << >> /\ x.state = "CLOSE_WAIT"
<1>1. /\ u \in Session /\ u.forward = x.forward /\ u.sent = x.sent
      /\ u.received = x.received
      /\ u.remote_seq = IF fin THEN x.remote_seq + 1 ELSE x.remote_seq
      /\ u.state \in {x.state, "CLOSING"}
  BY AcknowledgeFact
<1> HIDE DEF u
<1>2. u.forward # << >> => u.remote_seq = x.remote_seq
  BY <1>1
<1>3. QED
  BY <1>1, <1>2 DEF u, Confirmed

\* Forwarding, acknowledging and reading.
LEMMA RelayStream ==
    ASSUME IInv, SocketRelay
    PROVE  Down \/ Relays
<1>1. ready # {} /\ tcp.state # "LISTEN" /\ app' = app
  BY DEF SocketRelay
<1>2. tcp.state \in {"SYN_RECV", "CLOSING"} \cup Transfer
  BY <1>1, Typing DEF IInv, ReadyHasSocket, SocketMatchesState, States, Shut
<1>3. PICK s \in Sends :
         \E opens \in {WindowOpens(AfterSend(s), room) : room \in Rooms}, ok \in WriteOk :
            LET t == Acknowledge(AfterSend(s), s.whole + s.part > 0, opens, ok)
            IN  ReadNothing(t) \/ ReadFails(t) \/ ReadData(t) \/ ReadEof(t)
  BY DEF SocketRelay
<1>4. PICK opens \in {WindowOpens(AfterSend(s), room) : room \in Rooms}, ok \in WriteOk :
         LET t == Acknowledge(AfterSend(s), s.whole + s.part > 0, opens, ok)
         IN  ReadNothing(t) \/ ReadFails(t) \/ ReadData(t) \/ ReadEof(t)
  BY <1>3
<1>5. opens \in BOOLEAN /\ ok \in BOOLEAN
  BY <1>4, WindowOpensType, PeerAssumption
<1> DEFINE j == s.whole
           k == s.part
           f == Forward(tcp, j, k)
           a == AfterSend(s)
           fwd == j + k > 0
           t == Acknowledge(a, fwd, opens, ok)
<1>6. tcp.forward \in Seq(Queued) /\ Good(tcp)
  BY Typing DEF IInv, Session
<1>7. j \in 0..Len(tcp.forward) /\ k \in Nat /\ s.failed \in BOOLEAN
  <2>1. \A i \in DOMAIN tcp.forward : tcp.forward[i].len \in Nat
    <3> TAKE i \in DOMAIN tcp.forward
    <3>1. tcp.forward[i] \in Queued
      BY <1>6
    <3>2. QED
      BY <3>1 DEF Queued
  <2>2. Partials \subseteq Nat
    BY <2>1 DEF Partials
  <2>3. s \in [whole : 0..Len(tcp.forward), part : Partials, failed : BOOLEAN]
    BY DEF Sends
  <2>4. QED
    BY <2>2, <2>3
<1>8. PICK room : ForwardLoop(tcp, room, j, k, s.failed)
  <2>1. CASE "OUT" \in ready
    BY <2>1 DEF Sends
  <2>2. CASE "OUT" \notin ready
    <3>1. j = 0 /\ k = 0 /\ ~s.failed
      BY <2>2 DEF Sends
    <3>2. ForwardLoop(tcp, 0, j, k, s.failed)
      BY <1>6, <3>1 DEF ForwardLoop, Sendable
    <3>3. QED
      BY <3>2
  <2>3. QED
    BY <2>1, <2>2
<1>9. fwd \in BOOLEAN
  BY <1>7
<1> HIDE DEF j, k
<1>10. f \in Session /\ f.state = tcp.state /\ f.received = tcp.received
  BY <1>1, <1>6, <1>7, <1>8, ForwardGood
<1>11. a = IF s.failed THEN write_rst(f) ELSE f
  BY DEF AfterSend, j, k
<1> HIDE DEF f, a, fwd
<1>12. /\ a \in Session /\ a.forward = f.forward /\ a.sent = f.sent
       /\ a.remote_seq = f.remote_seq /\ a.state \in {f.state, "CLOSING"}
       /\ a.received = f.received
  <2>1. f.state \in States
    BY <1>10 DEF Session
  <2>2. a = f \/ a = [f EXCEPT !.state = "CLOSING"]
    BY <1>11 DEF write_rst
  <2>3. QED
    BY <1>10, <2>2 DEF Session, States, Shut
<1>13. /\ t \in Session /\ t.forward = a.forward /\ t.sent = a.sent
       /\ t.received = a.received
       /\ t.state \in {a.state, "CLOSING"}
       /\ t.forward # << >> => t.remote_seq = a.remote_seq
  <2> HIDE DEF t
  <2>1. a \in Session
    BY <1>12
  <2>2. fwd \in BOOLEAN /\ opens \in BOOLEAN /\ ok \in BOOLEAN
    BY <1>5, <1>9
  <2>3. /\ t \in Session /\ t.forward = a.forward /\ t.sent = a.sent
        /\ t.received = a.received
        /\ t.state \in {a.state, "CLOSING"}
        /\ t.forward # << >> => t.remote_seq = a.remote_seq
    <3>1. Confirmed(a, t)
      BY <2>1, <2>2, AcknowledgeStream DEF t
    <3>2. QED
      BY <3>1 DEF Confirmed
  <2>4. QED
    BY <2>3
<1>14. ReadNothing(t) \/ ReadFails(t) \/ ReadData(t) \/ ReadEof(t)
  BY <1>4 DEF a, fwd, j, k
<1> HIDE DEF t
<1>15. CASE tcp'.state = "CLOSING" \/ tcp.state = "CLOSING" \/ t.state = "CLOSING"
  <2>1. t.state = "CLOSING" => ~Readable(t)
    BY SMTT(20) DEF Readable, Transfer
  <2>2. t.state = "CLOSING" => tcp' = t
    BY <1>14, <2>1 DEF ReadNothing, ReadFails, ReadData, ReadEof
  <2>3. tcp'.state = "CLOSING"
    BY <1>10, <1>12, <1>13, <1>15, <2>2
  <2>4. QED
    BY <2>3 DEF Down, Shut
<1>16. CASE tcp'.state # "CLOSING" /\ tcp.state # "CLOSING" /\ t.state # "CLOSING"
  <2>1. t.state = tcp.state /\ tcp.state \in {"SYN_RECV"} \cup Transfer
    BY <1>2, <1>10, <1>12, <1>13, <1>16
  <2>2. t.state # "CLOSE"
    BY <2>1 DEF Transfer
  <2>3. /\ tcp'.forward = t.forward /\ tcp'.remote_seq = t.remote_seq
        /\ tcp'.sent = t.sent /\ tcp'.received >= t.received
        /\ \/ tcp'.state = t.state
           \/ t.state = "ESTABLISHED" /\ tcp'.state = "FIN_WAIT1"
           \/ t.state = "CLOSE_WAIT" /\ tcp'.state = "LAST_ACK"
        /\ tcp'.state # t.state => t.forward = << >>
    BY <1>13, <1>14, <1>16, <2>2, ReadStream
  <2>4. /\ tcp'.forward = f.forward /\ tcp'.sent = f.sent
        /\ tcp'.forward # << >> => tcp'.remote_seq = f.remote_seq
    BY <1>12, <1>13, <2>3
  <2>5. Forwards(room, j, k, s.failed)
    <3>1. ForwardLoop(tcp, room, j, k, s.failed)
      BY <1>8
    <3>2. /\ tcp'.forward = Forward(tcp, j, k).forward
          /\ tcp'.sent = Forward(tcp, j, k).sent
          /\ tcp'.forward # << >> => tcp'.remote_seq = Forward(tcp, j, k).remote_seq
      BY <2>4, Zenon DEF f
    <3>3. QED
      BY <3>1, <3>2 DEF Forwards
  <2>6. tcp'.received >= tcp.received /\ (tcp'.state # tcp.state => tcp'.forward = << >>)
    BY <1>10, <1>12, <1>13, <2>1, <2>3
  <2>7. QED
    BY <1>1, <1>7, <2>1, <2>3, <2>5, <2>6 DEF Relays
<1>17. QED
  BY <1>15, <1>16

\* What the app's packets carry.
LEMMA ArrivesFact ==
    ASSUME IInv, NEW p \in Arriving
    PROVE  /\ p.flag = "SYN" => p.len \in SynLens
           /\ p.len > 0 /\ p.flag # "SYN"
                 => \E g \in Segments : g.seq = p.seq /\ g.len = p.len
           /\ p.flag = "FIN" => p.seq + p.len = StreamEnd
           /\ p.flag = "FIN" \/ (p.flag = "ACK" /\ p.len > 0)
                 => Lossy \/ p.seq <= app.nxt
<1>1. CASE p \in SynPackets /\ AppMaySyn
  <2>1. PICK l \in SynLens, w \in Windows : p = Packet("SYN", RemoteStart, l, 0, w)
    BY <1>1 DEF SynPackets
  <2>2. QED
    BY <2>1 DEF Packet
<1>2. CASE p \in AppPackets /\ AppMaySend(p)
  <2> DEFINE acks == app.ack..(tcp.local_seq + AckSlack)
  <2>1. /\ p.flag = "FIN" => p.seq + p.len = StreamEnd
        /\ Lossy \/ p.flag = "RST" \/ (p.flag = "ACK" /\ p.len = 0) \/ p.seq <= app.nxt
    BY <1>2 DEF AppMaySend
  <2>2. CASE \E f \in {"ACK", "RST", "FIN"}, a \in acks, w \in Windows :
                p = Packet(f, StreamEnd, 0, a, w)
    <3>1. p.len = 0 /\ p.flag # "SYN"
      BY <2>2 DEF Packet
    <3>2. QED
      BY <2>1, <3>1
  <2>3. CASE \E f \in {"ACK", "FIN"}, g \in Segments, a \in acks, w \in Windows :
                p = Packet(f, g.seq, g.len, a, w)
    <3>1. PICK f \in {"ACK", "FIN"}, g \in Segments, a \in acks, w \in Windows :
             p = Packet(f, g.seq, g.len, a, w)
      BY <2>3
    <3>2. p.flag = f /\ p.seq = g.seq /\ p.len = g.len
      BY <3>1 DEF Packet
    <3>3. QED
      BY <2>1, <3>2
  <2>4. QED
    BY <1>2, <2>2, <2>3 DEF AppPackets
<1>3. QED
  BY <1>1, <1>2 DEF Arriving

\* The data was forwarded, or is in the queue.
Had(t, seq, n) ==
    \/ seq < t.remote_seq
    \/ n < Len(t.forward) /\ t.forward[n + 1].seq = seq

\* The queue after queue_tcp.
LEMMA QueueFact ==
    ASSUME NEW t \in Session, NEW seq, NEW len, NEW n
    PROVE  /\ Had(t, seq, n) => queue_tcp(t, seq, len, n).forward = t.forward
           /\ ~Had(t, seq, n)
                 => queue_tcp(t, seq, len, n).forward
                       = InsertAt(t.forward, n + 1, [seq |-> seq, len |-> len, sent |-> 0])
<1> DEFINE r == InsertAt(t.forward, n + 1, [seq |-> seq, len |-> len, sent |-> 0])
           u == queue_tcp(t, seq, len, n)
<1>1. CASE Had(t, seq, n)
  BY <1>1 DEF queue_tcp, Had
<1>2. CASE ~Had(t, seq, n)
  <2>1. u = [t EXCEPT !.forward = r]
    BY <1>2 DEF queue_tcp, Had
  <2> HIDE DEF r, u
  <2>2. u.forward = r
    BY <2>1 DEF Session
  <2>3. QED
    BY <1>2, <2>2 DEF r, u
<1>3. QED
  BY <1>1, <1>2

\* What a packet's data does to the queue.
Queues(p, n, t) ==
    /\ t \in Session
    /\ t.state = tcp.state /\ t.remote_seq = tcp.remote_seq
    /\ t.sent = tcp.sent /\ t.received = tcp.received
    /\ t.forward = IF p.len > 0 THEN queue_tcp(tcp, p.seq, p.len, n).forward
                                ELSE tcp.forward

LEMMA TakenStream ==
    ASSUME IInv, NEW p \in Arriving, Accepts(p),
           NEW n \in 0..Len(tcp.forward), InsertionPoint(tcp.forward, p.seq, n)
    PROVE  Queues(p, n, Taken(p, n))
<1> DEFINE s == Seen(p)
           t == Taken(p, n)
           u == queue_tcp(s, p.seq, p.len, n)
<1>1. /\ s \in Session /\ s.state = tcp.state /\ s.remote_seq = tcp.remote_seq
      /\ s.sent = tcp.sent /\ s.received = tcp.received /\ s.forward = tcp.forward
  BY Typing, PacketFact DEF Seen, Session
<1>2. t = IF p.len > 0 THEN u ELSE s
  BY DEF Taken
<1>3. t \in Session /\ t.state = tcp.state /\ t.remote_seq = tcp.remote_seq
  BY TakenGood DEF Good
<1>4. tcp \in Session
  BY Typing
<1> HIDE DEF s
<1>5. u.sent = tcp.sent /\ u.received = tcp.received
  BY <1>1 DEF queue_tcp, Session
<1>6. u.forward = queue_tcp(tcp, p.seq, p.len, n).forward
  <2> DEFINE r == InsertAt(tcp.forward, n + 1, [seq |-> p.seq, len |-> p.len, sent |-> 0])
             v == InsertAt(s.forward, n + 1, [seq |-> p.seq, len |-> p.len, sent |-> 0])
             w == queue_tcp(tcp, p.seq, p.len, n)
  <2>1. /\ Had(tcp, p.seq, n) => w.forward = tcp.forward
        /\ ~Had(tcp, p.seq, n) => w.forward = r
    BY <1>4, QueueFact
  <2>2. /\ Had(s, p.seq, n) => u.forward = s.forward
        /\ ~Had(s, p.seq, n) => u.forward = v
    BY <1>1, QueueFact
  <2>3. (Had(s, p.seq, n) <=> Had(tcp, p.seq, n)) /\ v = r
    BY <1>1, Zenon DEF Had
  <2> HIDE DEF r, v, w, u
  <2>4. u.forward = w.forward
    BY <1>1, <2>1, <2>2, <2>3
  <2>5. QED
    BY <2>4 DEF w
<1> HIDE DEF t, u
<1>7. CASE p.len > 0
  BY <1>2, <1>3, <1>5, <1>6, <1>7 DEF Queues, t
<1>8. CASE ~(p.len > 0)
  BY <1>1, <1>2, <1>3, <1>8 DEF Queues, t
<1>9. QED
  BY <1>7, <1>8

\* A packet of a live session (handle_tcp).
LEMMA ReceiveStream ==
    ASSUME IInv, NEW p \in Arriving, Receive(p), app' = Told(p)
    PROVE  Down \/ Takes(p)
<1>1. Accepts(p) /\ Live
  BY DEF Receive, Accepts
<1>2. PICK n \in 0..Len(tcp.forward) :
         /\ InsertionPoint(tcp.forward, p.seq, n)
         /\ LET t == Taken(p, n)
            IN  \/ ReceiveReset(p, t)
                \/ RepeatedSyn(p, t)
                \/ ReceiveFin(p, t)
                \/ ReceiveAck(p, t)
                \/ ReceiveOldAck(p, t)
                \/ ReceiveFutureAck(p, t)
  BY DEF Receive
<1> DEFINE t == Taken(p, n)
<1>3. Queues(p, n, t)
  BY <1>1, <1>2, TakenStream
<1>4. \/ ReceiveReset(p, t)
      \/ RepeatedSyn(p, t)
      \/ ReceiveFin(p, t)
      \/ ReceiveAck(p, t)
      \/ ReceiveOldAck(p, t)
      \/ ReceiveFutureAck(p, t)
  BY <1>2
<1> HIDE DEF t
<1>5. /\ t \in Session /\ t.remote_seq \in Nat /\ t.state \in States
      /\ t.state \notin Shut
      /\ tcp.local_seq \in Nat
      /\ p.flag # "SYN" => p.ack_seq \in Nat
  BY <1>1, <1>3, Typing, PacketFact DEF Queues, Session, Live
<1> DEFINE Same ==
              /\ tcp'.forward = t.forward /\ tcp'.sent = t.sent
              /\ tcp'.received = t.received
              /\ tcp'.forward # << >> => tcp'.remote_seq = t.remote_seq
              /\ \/ tcp'.state = t.state
                 \/ t.state = "SYN_RECV" /\ tcp'.state = "ESTABLISHED"
                 \/ /\ t.state = "ESTABLISHED" /\ tcp'.state = "CLOSE_WAIT"
                    /\ p.flag = "FIN" /\ p.ack_seq = tcp.local_seq
              /\ p.ack_seq <= tcp.local_seq \/ p.flag = "SYN"
              /\ p.flag # "RST"
<1>6. ASSUME Same PROVE Takes(p)
  <2>1. /\ tcp'.forward = IF p.len > 0 THEN queue_tcp(tcp, p.seq, p.len, n).forward
                                       ELSE tcp.forward
        /\ tcp'.sent = tcp.sent /\ tcp'.received = tcp.received
        /\ tcp'.forward # << >> => tcp'.remote_seq = tcp.remote_seq
    BY <1>3, <1>6 DEF Queues
  <2>2. \/ tcp'.state = tcp.state
        \/ tcp.state = "SYN_RECV" /\ tcp'.state = "ESTABLISHED"
        \/ /\ tcp.state = "ESTABLISHED" /\ tcp'.state = "CLOSE_WAIT"
           /\ p.flag = "FIN" /\ p.ack_seq = tcp.local_seq
    BY <1>3, <1>6 DEF Queues
  <2>3. QED
    BY <1>1, <1>2, <1>6, <2>1, <2>2 DEF Takes
<1>7. CASE ReceiveReset(p, t) \/ ReceiveFutureAck(p, t)
  BY <1>5, <1>7 DEF ReceiveReset, ReceiveFutureAck, write_rst, Session, Down, Shut
<1>8. CASE RepeatedSyn(p, t)
  BY <1>6, <1>8 DEF RepeatedSyn
<1>9. CASE ReceiveFin(p, t)
  <2>1. p.flag = "FIN" /\ p.ack_seq = tcp.local_seq
    BY <1>9 DEF ReceiveFin, InOrder
  <2> DEFINE c == [t EXCEPT !.remote_seq = @ + 1]
             w == [c EXCEPT !.state = "CLOSE_WAIT"]
             d == [c EXCEPT !.state = "CLOSE"]
             v == [t EXCEPT !.state = "CLOSE_WAIT"]
  <2>2. \/ /\ t.state = "ESTABLISHED" /\ t.forward = << >>
           /\ \E ok \in WriteOk : tcp' = IF ok THEN w ELSE WriteTcp(c, ok)
        \/ t.state = "ESTABLISHED" /\ t.forward # << >> /\ tcp' = v
        \/ /\ t.state = "FIN_WAIT1"
           /\ \E ok \in WriteOk : tcp' = IF ok THEN d ELSE WriteTcp(c, ok)
        \/ tcp' = t
    BY <1>9, Zenon DEF ReceiveFin
  <2>3. /\ c \in Session
        /\ c.state = t.state /\ c.forward = t.forward /\ c.sent = t.sent
        /\ c.received = t.received
    <3>1. t.remote_seq + 1 \in Nat
      BY <1>5
    <3>2. QED
      BY <1>5, <3>1 DEF Session
  <2>4. /\ v.state = "CLOSE_WAIT" /\ v.forward = t.forward /\ v.sent = t.sent
        /\ v.remote_seq = t.remote_seq /\ v.received = t.received
    BY <1>5 DEF Session
  <2> HIDE DEF c, v
  <2>5. /\ w.state = "CLOSE_WAIT" /\ w.forward = t.forward /\ w.sent = t.sent
        /\ w.received = t.received
        /\ d.state = "CLOSE"
        /\ [c EXCEPT !.state = "CLOSING"].state = "CLOSING"
    BY <2>3 DEF Session
  <2> HIDE DEF w, d
  <2>6. \/ tcp' = w /\ t.state = "ESTABLISHED" /\ t.forward = << >>
        \/ tcp' = v /\ t.state = "ESTABLISHED"
        \/ tcp' = d \/ tcp' = [c EXCEPT !.state = "CLOSING"]
        \/ tcp' = t
    BY <2>2 DEF WriteTcp
  <2>7. CASE tcp' = w /\ t.state = "ESTABLISHED" /\ t.forward = << >>
    <3>1. Same
      BY <1>5, <2>1, <2>5, <2>7
    <3>2. QED
      BY <1>6, <3>1
  <2>8. CASE tcp' = v /\ t.state = "ESTABLISHED"
    <3>1. Same
      BY <1>5, <2>1, <2>4, <2>8
    <3>2. QED
      BY <1>6, <3>1
  <2>9. CASE tcp' = d \/ tcp' = [c EXCEPT !.state = "CLOSING"]
    BY <2>5, <2>9 DEF Down, Shut
  <2>10. CASE tcp' = t
    <3>1. Same
      BY <1>5, <2>1, <2>10
    <3>2. QED
      BY <1>6, <3>1
  <2>11. QED
    BY <2>6, <2>7, <2>8, <2>9, <2>10
<1>10. CASE ReceiveAck(p, t)
  <2> DEFINE st == IF t.state = "SYN_RECV" THEN "ESTABLISHED"
                   ELSE IF t.state = "LAST_ACK" THEN "CLOSING" ELSE t.state
  <2>1. /\ p.flag = "ACK" /\ p.ack_seq = tcp.local_seq
        /\ tcp' = [t EXCEPT !.acked = p.ack_seq, !.state = st]
    BY <1>10 DEF ReceiveAck, InOrder
  <2> HIDE DEF st
  <2>2. /\ tcp'.state = st /\ tcp'.forward = t.forward /\ tcp'.sent = t.sent
        /\ tcp'.remote_seq = t.remote_seq /\ tcp'.received = t.received
    BY <1>5, <2>1 DEF Session
  <2>3. \/ st = "CLOSING" \/ st = t.state
        \/ t.state = "SYN_RECV" /\ st = "ESTABLISHED"
    BY DEF st
  <2>4. Down \/ Same
    BY <1>5, <2>1, <2>2, <2>3 DEF Down, Shut
  <2>5. QED
    BY <1>6, <2>4
<1>11. CASE ReceiveOldAck(p, t)
  <2>1. /\ p.flag \in {"ACK", "FIN"} /\ p.ack_seq < tcp.local_seq
        /\ tcp' = t \/ tcp' = [t EXCEPT !.acked = p.ack_seq]
    BY <1>11 DEF ReceiveOldAck
  <2>2. /\ tcp'.state = t.state /\ tcp'.forward = t.forward /\ tcp'.sent = t.sent
        /\ tcp'.remote_seq = t.remote_seq /\ tcp'.received = t.received
    BY <1>5, <2>1 DEF Session
  <2>3. Same
    BY <1>5, <2>1, <2>2
  <2>4. QED
    BY <1>6, <2>3
<1>12. QED
  BY <1>4, <1>7, <1>8, <1>9, <1>10, <1>11

\* Any packet read from the tun device.
LEMMA PacketStream ==
    ASSUME IInv, TunPacket
    PROVE  Down \/ Opened \/ \E p \in Arriving : Takes(p)
<1>1. PICK p \in Arriving :
         \/ NewSession(p)
         \/ Refused(p)
         \/ RefuseData(p) /\ app' = Told(p) /\ UNCHANGED <<socket, interest>>
         \/ Receive(p) /\ app' = Told(p) /\ UNCHANGED <<socket, interest>>
  BY DEF TunPacket
<1>2. CASE NewSession(p)
  <2> DEFINE data == IF p.len = 0 THEN << >>
                     ELSE <<[seq |-> p.seq, len |-> p.len, sent |-> 0]>>
             t == [NoSession EXCEPT !.state = "LISTEN", !.send_window = p.window,
                                    !.remote_seq = p.seq, !.local_seq = LocalStart,
                                    !.forward = data]
  <2>1. /\ tcp.state = "NONE" /\ app' = NoApp
        /\ \E room \in Rooms : tcp' = [t EXCEPT !.recv_open = WindowOpens(t, room)]
    BY <1>2 DEF NewSession
  <2>2. BareSyn => data = << >>
    BY <1>2, ArrivesFact DEF NewSession, BareSyn
  <2>3. data # << >> => data[1].seq + data[1].sent = p.seq
    <3>1. p.seq \in Nat
      BY <1>2, PacketFact, StreamAssumption DEF NewSession
    <3>2. data # << >> => data[1].seq = p.seq /\ data[1].sent = 0
      OBVIOUS
    <3>3. QED
      BY <3>1, <3>2
  <2> HIDE DEF data
  <2>4. tcp'.state = "LISTEN" /\ tcp'.forward = data /\ tcp'.remote_seq = p.seq
    BY <2>1 DEF NoSession
  <2>5. QED
    BY <2>1, <2>2, <2>3, <2>4 DEF Opened
<1>3. CASE Refused(p)
  BY <1>3 DEF Refused, Down
<1>4. CASE RefuseData(p)
  <2>1. Live /\ tcp' = write_rst(Seen(p))
    BY <1>4 DEF RefuseData
  <2>2. Seen(p) \in Session /\ Seen(p).state = tcp.state
    BY Typing, PacketFact DEF Seen, Session
  <2>3. tcp' = [Seen(p) EXCEPT !.state = "CLOSING"]
    BY <2>1, <2>2 DEF write_rst, Live, Shut
  <2>4. QED
    BY <2>2, <2>3 DEF Session, Down, Shut
<1>5. CASE Receive(p) /\ app' = Told(p)
  BY <1>5, ReceiveStream
<1>6. QED
  BY <1>1, <1>2, <1>3, <1>4, <1>5

\* Any step.
LEMMA StepStream ==
    ASSUME IInv, [Next]_vars
    PROVE  StreamStep
<1>1. CASE MonitorSession
  BY <1>1, MonitorStream DEF StreamStep
<1>2. CASE CheckSession
  BY <1>2, CheckStream DEF StreamStep
<1>3. CASE SkipMonitor \/ SkipCheck \/ EpollWait \/ EndBatch \/ UNCHANGED vars
  <2>1. tcp' = tcp /\ app' = app
    BY <1>3 DEF SkipMonitor, SkipCheck, EpollWait, EndBatch, vars
  <2>2. QED
    BY <2>1 DEF StreamStep, Stays
<1>4. CASE Tick
  <2>1. tcp' = [tcp EXCEPT !.age = @ + 1] /\ app' = app
    BY <1>4 DEF Tick
  <2>2. QED
    BY <2>1, Typing DEF StreamStep, Stays, Session
<1>5. CASE SocketError
  <2> DEFINE r == [tcp EXCEPT !.age = 0]
  <2>1. tcp' = write_rst(r)
    BY <1>5 DEF SocketError
  <2>2. r \in Session
    BY Typing DEF Session
  <2> HIDE DEF r
  <2>3. Down
    BY <2>1, <2>2 DEF write_rst, Session, Down, Shut
  <2>4. QED
    BY <2>3 DEF StreamStep
<1>6. CASE SocketConnect
  BY <1>6, ConnectStream DEF StreamStep
<1>7. CASE SocketRelay
  BY <1>7, RelayStream DEF StreamStep
<1>8. CASE TunPacket
  BY <1>8, PacketStream DEF StreamStep
<1>9. QED
  BY <1>1, <1>2, <1>3, <1>4, <1>5, <1>6, <1>7, <1>8 DEF Next

-----------------------------------------------------------------------------
(* What the queue becomes.                                                 *)

\* The queue v is what is left of the queue q after j whole segments and k
\* bytes of the next one were sent.
Advances(q, v, j, k) ==
    /\ Len(v) = Len(q) - j
    /\ \A i \in 1..Len(v) : /\ v[i].seq = q[j + i].seq /\ v[i].len = q[j + i].len
                            /\ v[i].sent = q[j + i].sent + (IF i = 1 THEN k ELSE 0)

\* A partial send changes the head only.
LEMMA PartShape ==
    ASSUME NEW q \in Seq(Queued), Len(q) > 0, NEW k \in Nat
    PROVE  Advances(q, <<[q[1] EXCEPT !.sent = @ + k]>> \o Tail(q), 0, k)
<1> DEFINE e == [q[1] EXCEPT !.sent = @ + k]
           rest == Tail(q)
           u == <<e>> \o rest
<1>1. q[1] \in Queued
  OBVIOUS
<1>2. e \in Queued /\ e.seq = q[1].seq /\ e.len = q[1].len /\ e.sent = q[1].sent + k
  <2> DEFINE Sent(h) == [h EXCEPT !.sent = @ + k]
  <2>1. ASSUME NEW h \in Queued
        PROVE  /\ Sent(h) \in Queued /\ Sent(h).seq = h.seq /\ Sent(h).len = h.len
               /\ Sent(h).sent = h.sent + k
    <3>1. h.sent + k \in Nat
      BY DEF Queued
    <3>2. QED
      BY <3>1 DEF Queued
  <2>2. e = Sent(q[1])
    OBVIOUS
  <2> HIDE DEF Sent, e
  <2>3. QED
    BY <1>1, <2>1, <2>2
<1> HIDE DEF e
<1>3. /\ rest \in Seq(Queued) /\ Len(rest) = Len(q) - 1
      /\ \A i \in 1..(Len(q) - 1) : rest[i] = q[i + 1]
  OBVIOUS
<1> HIDE DEF rest
<1>4. /\ Len(u) = Len(q) /\ u[1] = e
      /\ \A i \in 2..Len(q) : u[i] = rest[i - 1]
  BY <1>2, <1>3
<1> HIDE DEF u
<1>5. ASSUME NEW i \in 1..Len(u)
      PROVE  /\ u[i].seq = q[0 + i].seq /\ u[i].len = q[0 + i].len
             /\ u[i].sent = q[0 + i].sent + (IF i = 1 THEN k ELSE 0)
  <2>1. 0 + i = i
    OBVIOUS
  <2>2. CASE i = 1
    BY <1>2, <1>4, <2>1, <2>2
  <2>3. CASE i # 1
    <3>1. i \in 2..Len(q) /\ i - 1 \in 1..(Len(q) - 1) /\ (i - 1) + 1 = i
      BY <1>4, <2>3
    <3>2. u[i] = q[i]
      BY <1>3, <1>4, <3>1
    <3>3. q[i] \in Queued
      BY <3>1
    <3>4. q[i].sent + 0 = q[i].sent
      BY <3>3, SMTT(20) DEF Queued
    <3>5. QED
      BY <2>1, <2>3, <3>2, <3>4
  <2>4. QED
    BY <2>2, <2>3
<1>6. Len(u) = Len(q) - 0
  BY <1>4
<1>7. QED
  BY <1>5, <1>6 DEF Advances, u, e, rest

\* The queue and the count of bytes sent after forwarding.  A partial send
\* starts where the whole segments before it end.
Sent(j, k) ==
    LET q == tcp.forward
        start == IF j = 0 THEN tcp.remote_seq ELSE SegmentEnd(q[j])
    IN  /\ Advances(q, tcp'.forward, j, k)
        /\ k > 0 => j < Len(q) /\ q[j + 1].seq + q[j + 1].sent = start
        /\ tcp'.sent = tcp.sent + ((start + k) - tcp.remote_seq)
        /\ tcp'.forward # << >> => tcp'.remote_seq = start + k

LEMMA ForwardShape ==
    ASSUME IInv, NEW room, NEW j \in 0..Len(tcp.forward), NEW k \in Nat,
           NEW failed \in BOOLEAN, Forwards(room, j, k, failed)
    PROVE  Sent(j, k)
<1> DEFINE q == tcp.forward
           rest == SubSeq(q, j + 1, Len(q))
           part == <<[rest[1] EXCEPT !.sent = @ + k]>> \o Tail(rest)
           start == IF j = 0 THEN tcp.remote_seq ELSE SegmentEnd(q[j])
           upto == IF j = 0 THEN tcp.remote_seq + k ELSE SegmentEnd(q[j]) + k
           queue == IF k = 0 THEN rest ELSE part
           u == Forward(tcp, j, k)
<1>1. tcp \in Session /\ q \in Seq(Queued)
  BY Typing DEF Session
<1>2. u = [tcp EXCEPT !.remote_seq = upto, !.sent = @ + (upto - tcp.remote_seq),
                      !.forward = queue]
  BY DEF Forward
<1>3. upto = start + k
  OBVIOUS
<1>4. /\ rest \in Seq(Queued) /\ Len(rest) = Len(q) - j
      /\ \A i \in 1..(Len(q) - j) : rest[i] = q[j + i]
  BY <1>1
<1>5. ASSUME k > 0
      PROVE  j < Len(q) /\ q[j + 1].seq + q[j + 1].sent = start
  <2>1. Sendable(tcp, room, j + 1)
    BY <1>5 DEF Forwards, ForwardLoop
  <2>2. j + 1 <= Len(q)
    BY <2>1 DEF Sendable
  <2>3. q[j + 1].seq + q[j + 1].sent
           = IF j + 1 = 1 THEN tcp.remote_seq ELSE SegmentEnd(q[(j + 1) - 1])
    BY <2>1 DEF Sendable
  <2>4. (j + 1) - 1 = j /\ (j + 1 = 1 <=> j = 0)
    OBVIOUS
  <2>5. q[j + 1].seq + q[j + 1].sent = start
    BY <2>3, <2>4, Zenon
  <2>6. QED
    BY <1>1, <2>2, <2>5
<1> HIDE DEF rest, start, upto
<1>6. Advances(q, queue, j, k)
  <2>1. CASE k = 0
    <3>1. queue = rest
      BY <2>1
    <3>2. ASSUME NEW i \in 1..Len(rest)
          PROVE  /\ rest[i].seq = q[j + i].seq /\ rest[i].len = q[j + i].len
                 /\ rest[i].sent = q[j + i].sent + (IF i = 1 THEN k ELSE 0)
      <4>1. rest[i] = q[j + i] /\ rest[i] \in Queued
        BY <1>1, <1>4
      <4>2. q[j + i].sent \in Nat
        BY <4>1 DEF Queued
      <4>3. QED
        BY <2>1, <4>1, <4>2
    <3>3. QED
      BY <1>4, <3>1, <3>2 DEF Advances
  <2>2. CASE k > 0
    <3>1. Len(rest) > 0
      BY <1>1, <1>4, <1>5, <2>2
    <3>2. Advances(rest, part, 0, k)
      BY <1>4, <3>1, PartShape
    <3>3. queue = part
      BY <2>2
    <3> HIDE DEF part, queue
    <3>4. Len(part) = Len(q) - j
      BY <1>1, <1>4, <3>2 DEF Advances
    <3>5. ASSUME NEW i \in 1..Len(part)
          PROVE  /\ part[i].seq = q[j + i].seq /\ part[i].len = q[j + i].len
                 /\ part[i].sent = q[j + i].sent + (IF i = 1 THEN k ELSE 0)
      <4>1. /\ part[i].seq = rest[0 + i].seq /\ part[i].len = rest[0 + i].len
            /\ part[i].sent = rest[0 + i].sent + (IF i = 1 THEN k ELSE 0)
        BY <3>2 DEF Advances
      <4>2. 0 + i = i /\ rest[i] = q[j + i]
        BY <1>4, <3>4
      <4>3. QED
        BY <4>1, <4>2, Zenon
    <3>6. QED
      BY <3>3, <3>4, <3>5 DEF Advances
  <2>3. QED
    BY <2>1, <2>2
<1> HIDE DEF queue, u
<1>7. /\ u.forward = queue /\ u.remote_seq = upto
      /\ u.sent = tcp.sent + (upto - tcp.remote_seq)
  BY <1>1, <1>2 DEF Session
<1>8. /\ tcp'.forward = queue
      /\ tcp'.sent = tcp.sent + (upto - tcp.remote_seq)
      /\ tcp'.forward # << >> => tcp'.remote_seq = upto
  BY <1>7 DEF Forwards, u
<1>9. QED
  BY <1>3, <1>5, <1>6, <1>8, Zenon DEF Sent, start, q

\* The queue v is the queue q with e behind its first n segments.
Inserted(q, v, n, e) ==
    /\ Len(v) = Len(q) + 1
    /\ \A i \in 1..(Len(q) + 1) :
          v[i] = IF i <= n THEN q[i] ELSE IF i = n + 1 THEN e ELSE q[i - 1]

LEMMA InsertedFact ==
    ASSUME NEW q \in Seq(Queued), NEW n \in 0..Len(q), NEW e \in Queued
    PROVE  Inserted(q, InsertAt(q, n + 1, e), n, e)
<1> DEFINE v == InsertAt(q, n + 1, e)
<1>1. /\ Len(v) = Len(q) + 1
      /\ \A i \in 1..(Len(q) + 1) :
            v[i] = IF i <= n THEN q[i] ELSE IF i = n + 1 THEN e ELSE q[i - 1]
  BY InsertFact
<1> HIDE DEF v
<1>2. Inserted(q, v, n, e)
  BY <1>1 DEF Inserted
<1>3. QED
  BY <1>2 DEF v

\* The queue after a packet was taken, with n of its segments before the
\* packet's: it stays as it is if the packet brings nothing that is missing.
Known(p, n) == p.len = 0 \/ Had(tcp, p.seq, n)

Grown(p, n) ==
    /\ InsertionPoint(tcp.forward, p.seq, n)
    /\ IF Known(p, n) THEN tcp'.forward = tcp.forward
       ELSE Inserted(tcp.forward, tcp'.forward, n,
                     [seq |-> p.seq, len |-> p.len, sent |-> 0])

LEMMA TakesQueue ==
    ASSUME IInv, NEW p \in Arriving, Takes(p)
    PROVE  \E n \in 0..Len(tcp.forward) : Grown(p, n)
<1> DEFINE q == tcp.forward
           e == [seq |-> p.seq, len |-> p.len, sent |-> 0]
<1>1. PICK n \in 0..Len(q) :
         /\ InsertionPoint(q, p.seq, n)
         /\ tcp'.forward = IF p.len > 0 THEN queue_tcp(tcp, p.seq, p.len, n).forward ELSE q
  BY DEF Takes
<1>2. /\ tcp \in Session /\ q \in Seq(Queued) /\ tcp.remote_seq \in Nat
      /\ p.len \in Nat
      /\ p.len > 0 => p.seq \in Nat
  BY Typing, PacketFact DEF Session
<1>3. CASE Known(p, n)
  <2>1. tcp'.forward = q
    <3>1. CASE p.len = 0
      BY <1>1, <3>1
    <3>2. CASE p.len # 0
      <4>1. p.len > 0 /\ Had(tcp, p.seq, n)
        BY <1>2, <1>3, <3>2 DEF Known
      <4>2. tcp \in Session
        BY <1>2
      <4> DEFINE w == queue_tcp(tcp, p.seq, p.len, n)
      <4>3. /\ Had(tcp, p.seq, n) => w.forward = tcp.forward
            /\ ~Had(tcp, p.seq, n) => w.forward = InsertAt(q, n + 1, e)
        BY <4>2, QueueFact
      <4>4. QED
        BY <1>1, <4>1, <4>3
    <3>3. QED
      BY <3>1, <3>2
  <2>2. QED
    BY <1>1, <1>3, <2>1 DEF Grown
<1>4. CASE ~Known(p, n)
  <2>1. p.len > 0 /\ e \in Queued
    BY <1>2, <1>4 DEF Known, Queued
  <2>2. tcp'.forward = InsertAt(q, n + 1, e)
    BY <1>1, <1>2, <1>4, <2>1, QueueFact DEF Known
  <2> HIDE DEF e, q
  <2>3. Inserted(q, tcp'.forward, n, e)
    <3>1. Inserted(q, InsertAt(q, n + 1, e), n, e)
      BY <1>1, <1>2, <2>1, InsertedFact
    <3>2. QED
      BY <2>2, <3>1
  <2>4. Grown(p, n)
    BY <1>1, <1>4, <2>3 DEF Grown, q, e
  <2>5. QED
    BY <1>1, <2>4 DEF q
<1>5. QED
  BY <1>3, <1>4

-----------------------------------------------------------------------------
(* The head of the queue.                                                  *)

\* Before the app has its SYN-ACK it sends nothing but its SYN.
Untouched == tcp.state = "LISTEN" => tcp.forward = << >> /\ ~app.open

\* The data of the app's SYN is the head of the queue before the app has its
\* SYN-ACK, and stale as soon as it has.
SynHeld(t) ==
    /\ t.state = "LISTEN"
    /\ t.forward # << >>
    /\ t.forward[1].seq + t.forward[1].sent <= t.remote_seq

\* Every queued segment is one of the app's.
Tiled(q) == \A i \in 1..Len(q) : \E g \in Segments : g.seq = q[i].seq /\ g.len = q[i].len

Ahead(t) == t.forward # << >> => t.forward[1].seq + t.forward[1].sent >= t.remote_seq

\* The invariant: HeadNotStale holds in every state of a live session, since
\* nothing is queued before the SYN-ACK, and after it only segments that do not
\* overlap.
Fresh == IInv /\ Untouched /\ (Live => Tiled(tcp.forward) /\ Ahead(tcp))

\* Of two segments the one that starts first ends before the other starts.
LEMMA SegmentsApart ==
    ASSUME Disjoint, NEW g \in Segments, NEW h \in Segments, g.seq < h.seq
    PROVE  SegmentEnd(g) <= h.seq
<1>1. /\ g.seq \in Nat /\ g.len \in Nat /\ g.len # 0
      /\ h.seq \in Nat /\ h.len \in Nat /\ h.len # 0
  BY StreamAssumption DEF Segment
<1>2. g = h \/ SegmentEnd(g) <= h.seq \/ SegmentEnd(h) <= g.seq
  BY DEF Disjoint
<1>3. QED
  BY <1>1, <1>2 DEF SegmentEnd

\* So it is with two queued segments.
LEMMA QueueApart ==
    ASSUME Disjoint, NEW q \in Seq(Queued), Ordered(q), Tiled(q),
           NEW i \in 1..Len(q), NEW m \in 1..Len(q), i < m
    PROVE  SegmentEnd(q[i]) <= q[m].seq
<1>1. PICK g \in Segments : g.seq = q[i].seq /\ g.len = q[i].len
  BY DEF Tiled
<1>2. PICK h \in Segments : h.seq = q[m].seq /\ h.len = q[m].len
  BY DEF Tiled
<1>3. q[i].seq < q[m].seq
  BY DEF Ordered
<1>4. SegmentEnd(g) <= h.seq
  BY <1>1, <1>2, <1>3, SegmentsApart
<1>5. QED
  BY <1>1, <1>2, <1>4 DEF SegmentEnd

\* The fields of a queued segment.
LEMMA QueueTypes ==
    ASSUME NEW q \in Seq(Queued), Ordered(q)
    PROVE  \A i \in 1..Len(q) : /\ q[i].seq \in Nat /\ q[i].len \in Nat
                                /\ q[i].sent \in Nat /\ q[i].sent < q[i].len
                                /\ SegmentEnd(q[i]) \in Nat
                                /\ q[i].seq + q[i].sent < SegmentEnd(q[i])
                                /\ i > 1 => q[i].sent = 0
<1> TAKE i \in 1..Len(q)
<1>1. q[i] \in Queued
  OBVIOUS
<1>2. q[i].seq \in Nat /\ q[i].len \in Nat /\ q[i].sent \in Nat
  BY <1>1 DEF Queued
<1>3. QED
  BY <1>2 DEF Ordered, SegmentEnd

\* The fields of its head.
LEMMA HeadTypes ==
    ASSUME NEW q \in Seq(Queued), q # << >>
    PROVE  q[1].seq \in Nat /\ q[1].sent \in Nat
<1>1. 1 \in 1..Len(q)
  OBVIOUS
<1>2. q[1] \in Queued
  BY <1>1
<1>3. QED
  BY <1>2 DEF Queued

\* Before the SYN-ACK the queue is empty, or holds the data of the SYN.
LEMMA UntouchedStep ==
    ASSUME IInv, IInv', Untouched, StreamStep
    PROVE  /\ Untouched' \/ SynHeld(tcp')
           /\ BareSyn => Untouched'
<1>0. tcp'.remote_seq \in Nat
  BY DEF IInv, Good, Session
<1>1. CASE Down \/ Connected \/ Relays
  BY <1>1 DEF Down, Connected, Relays, Untouched, Transfer, Shut
<1>2. CASE Opened
  BY <1>2, <1>0 DEF Opened, Untouched, SynHeld, NoApp
<1>3. CASE Stays
  BY <1>3 DEF Stays, Untouched
<1>4. CASE \E p \in Arriving : Takes(p)
  <2>1. PICK p \in Arriving : Takes(p)
    BY <1>4
  <2> SUFFICES ASSUME tcp'.state = "LISTEN"
               PROVE  /\ Untouched' \/ SynHeld(tcp')
                      /\ BareSyn => Untouched'
    BY DEF Untouched
  <2>2. tcp.state = "LISTEN" /\ tcp.forward = << >> /\ ~app.open
    BY <2>1 DEF Takes, Untouched
  <2>3. p.flag = "SYN"
    BY <2>2, PacketFact
  <2>4. Told(p) = app /\ p.len \in SynLens
    BY <2>3, ArrivesFact, ToldFact
  <2>5. ~app'.open
    BY <2>1, <2>2, <2>4 DEF Takes
  <2>6. PICK n \in 0..Len(tcp.forward) : Grown(p, n)
    BY <2>1, TakesQueue
  <2>7. CASE Known(p, n)
    BY <2>2, <2>5, <2>6, <2>7 DEF Grown, Untouched
  <2>8. CASE ~Known(p, n)
    <3>1. ~BareSyn
      BY <2>4, <2>8 DEF Known, BareSyn
    <3>2. n = 0 /\ Len(tcp.forward) = 0
      BY <2>2
    <3> DEFINE e == [seq |-> p.seq, len |-> p.len, sent |-> 0]
    <3>3. Inserted(tcp.forward, tcp'.forward, 0, e)
      BY <2>6, <2>8, <3>2 DEF Grown
    <3>4. e.seq = p.seq /\ e.sent = 0
      OBVIOUS
    <3> HIDE DEF e
    <3>5. Len(tcp'.forward) = 1 /\ tcp'.forward[1] = e
      BY <3>2, <3>3 DEF Inserted
    <3>6. tcp'.forward # << >> /\ tcp'.remote_seq = tcp.remote_seq
      BY <2>1, <3>5 DEF Takes
    <3>7. tcp.remote_seq = RemoteStart /\ p.seq = RemoteStart /\ RemoteStart \in Nat
      BY <2>2, <2>3, PacketFact, StreamAssumption DEF IInv, Good, Confirms
    <3>8. SynHeld(tcp')
      BY <3>4, <3>5, <3>6, <3>7 DEF SynHeld
    <3>9. QED
      BY <3>1, <3>8
  <2>9. QED
    BY <2>7, <2>8
<1>5. QED
  BY <1>1, <1>2, <1>3, <1>4 DEF StreamStep

\* After the SYN-ACK remote_seq is beyond the SYN.
LEMMA BehindSyn ==
    ASSUME IInv, Live, tcp.state # "LISTEN"
    PROVE  tcp.remote_seq > RemoteStart /\ RemoteStart \in Nat
<1>1. tcp.sent \in Nat /\ RemoteStart \in Nat
  BY Typing, StreamAssumption DEF Session
<1>2. tcp.state \in {"SYN_RECV", "ESTABLISHED", "FIN_WAIT1", "CLOSE_WAIT", "LAST_ACK"}
  BY Typing DEF Session, States, Transfer, Live, Shut
<1>3. \/ tcp.remote_seq = RemoteStart + 1 + tcp.sent
      \/ tcp.remote_seq = RemoteStart + 1 + tcp.sent + 1
  BY <1>1, <1>2 DEF IInv, Good, Confirms
<1>4. QED
  BY <1>1, <1>3

\* A packet's data is queued at or beyond remote_seq.
LEMMA TakesFresh ==
    ASSUME Fresh, tcp.state # "LISTEN", NEW p \in Arriving, Takes(p)
    PROVE  Tiled(tcp'.forward) /\ Ahead(tcp')
<1> DEFINE q == tcp.forward
           v == tcp'.forward
           e == [seq |-> p.seq, len |-> p.len, sent |-> 0]
<1>1. Tiled(q) /\ Ahead(tcp)
  BY DEF Fresh, Takes, Accepts
<1>2. PICK n \in 0..Len(q) : Grown(p, n)
  BY TakesQueue DEF Fresh
<1>3. v # << >> => tcp'.remote_seq = tcp.remote_seq
  BY DEF Takes
<1>4. q \in Seq(Queued)
  BY Typing DEF Fresh, Session
<1>5. CASE Known(p, n)
  <2>1. v = q
    BY <1>2, <1>5 DEF Grown
  <2>2. QED
    BY <1>1, <1>3, <2>1 DEF Ahead
<1>6. CASE ~Known(p, n)
  <2>1. Inserted(q, v, n, e)
    BY <1>2, <1>6 DEF Grown
  <2>2. p.len \in Nat /\ p.len > 0 /\ p.flag # "SYN"
    <3>1. p.len \in Nat /\ p.len > 0 /\ ~(p.seq < tcp.remote_seq)
      BY <1>6, PacketFact DEF Fresh, Known, Had
    <3>2. tcp.remote_seq > RemoteStart /\ RemoteStart \in Nat
      BY BehindSyn DEF Fresh, Takes, Accepts
    <3>3. p.flag = "SYN" => p.seq = RemoteStart
      BY PacketFact DEF Fresh
    <3>4. QED
      BY <3>1, <3>2, <3>3
  <2>3. PICK g \in Segments : g.seq = p.seq /\ g.len = p.len
    BY <2>2, ArrivesFact DEF Fresh
  <2>4. p.seq \in Nat /\ tcp.remote_seq \in Nat /\ p.seq >= tcp.remote_seq
    BY <1>6, <2>2, PacketFact, Typing DEF Fresh, Known, Had
  <2>5. e.seq = p.seq /\ e.len = p.len /\ e.sent = 0
    OBVIOUS
  <2> HIDE DEF q, v, e
  <2>6. Tiled(v)
    <3> SUFFICES ASSUME NEW i \in 1..Len(v)
                 PROVE  \E h \in Segments : h.seq = v[i].seq /\ h.len = v[i].len
      BY DEF Tiled
    <3>1. i \in 1..(Len(q) + 1)
      BY <2>1 DEF Inserted
    <3>2. v[i] = IF i <= n THEN q[i] ELSE IF i = n + 1 THEN e ELSE q[i - 1]
      BY <2>1, <3>1 DEF Inserted
    <3>3. CASE i = n + 1
      <4>1. v[i] = e
        BY <3>2, <3>3
      <4>2. QED
        BY <2>3, <2>5, <4>1
    <3>4. CASE i <= n
      <4>1. v[i] = q[i] /\ i \in 1..Len(q)
        BY <3>1, <3>2, <3>4
      <4>2. QED
        BY <1>1, <4>1 DEF Tiled
    <3>5. CASE i > n + 1
      <4>1. v[i] = q[i - 1] /\ i - 1 \in 1..Len(q)
        BY <1>2, <3>1, <3>2, <3>5
      <4>2. QED
        BY <1>1, <4>1 DEF Tiled
    <3>6. QED
      BY <3>1, <3>3, <3>4, <3>5
  <2>7. v # << >> => v[1].seq + v[1].sent >= tcp.remote_seq
    <3>1. v[1] = IF 1 <= n THEN q[1] ELSE IF 1 = n + 1 THEN e ELSE q[1 - 1]
      BY <1>4, <2>1 DEF Inserted
    <3>2. CASE n = 0
      <4>1. v[1] = e
        BY <3>1, <3>2
      <4>2. QED
        BY <2>4, <2>5, <4>1
    <3>3. CASE n # 0
      <4>1. v[1] = q[1] /\ q # << >>
        BY <1>2, <1>4, <3>1, <3>3
      <4>2. QED
        BY <1>1, <4>1 DEF Ahead, q
    <3>4. QED
      BY <3>2, <3>3
  <2>8. QED
    BY <1>3, <2>6, <2>7 DEF Ahead, v
<1>7. QED
  BY <1>5, <1>6

\* What is left of the queue starts where the segments sent end, or later.
LEMMA SentFresh ==
    ASSUME Fresh, Disjoint, Live, tcp' \in Session,
           NEW j \in 0..Len(tcp.forward), NEW k \in Nat, Sent(j, k)
    PROVE  Tiled(tcp'.forward) /\ Ahead(tcp')
<1> DEFINE q == tcp.forward
           v == tcp'.forward
           start == IF j = 0 THEN tcp.remote_seq ELSE SegmentEnd(q[j])
<1>1. Tiled(q) /\ Ahead(tcp)
  BY DEF Fresh
<1>2. q \in Seq(Queued) /\ Ordered(q) /\ tcp.remote_seq \in Nat
  BY Typing DEF Fresh, Session
<1>3. /\ Advances(q, v, j, k)
      /\ k > 0 => j < Len(q) /\ q[j + 1].seq + q[j + 1].sent = start
      /\ v # << >> => tcp'.remote_seq = start + k
  BY DEF Sent
<1>4. q # << >> => q[1].seq + q[1].sent >= tcp.remote_seq
  BY <1>1 DEF Ahead
<1>5. j # 0 => SegmentEnd(q[j]) \in Nat
  BY <1>2, QueueTypes
<1>6. start \in Nat
  BY <1>2, <1>5
<1>7. j < Len(q) => q[j + 1].seq + q[j + 1].sent >= start
  <2> SUFFICES ASSUME j < Len(q)
               PROVE  q[j + 1].seq + q[j + 1].sent >= start
    OBVIOUS
  <2>1. CASE j = 0
    BY <1>2, <1>4, <2>1
  <2>2. CASE j # 0
    <3>1. j \in 1..Len(q) /\ j + 1 \in 1..Len(q) /\ j < j + 1
      BY <1>2, <2>2
    <3>2. SegmentEnd(q[j]) <= q[j + 1].seq
      BY <1>1, <1>2, <3>1, QueueApart
    <3>3. q[j + 1].seq \in Nat /\ q[j + 1].sent \in Nat
      BY <1>2, <3>1, QueueTypes
    <3> HIDE DEF q
    <3>4. QED
      BY <1>5, <2>2, <3>2, <3>3
  <2>3. QED
    BY <2>1, <2>2
<1> HIDE DEF start, q, v
<1>8. Tiled(v)
  <2> SUFFICES ASSUME NEW i \in 1..Len(v)
               PROVE  \E h \in Segments : h.seq = v[i].seq /\ h.len = v[i].len
    BY DEF Tiled
  <2>1. v[i].seq = q[j + i].seq /\ v[i].len = q[j + i].len /\ j + i \in 1..Len(q)
    BY <1>2, <1>3 DEF Advances, q
  <2>2. QED
    BY <1>1, <2>1 DEF Tiled
<1>9. ASSUME v # << >>
      PROVE  v[1].seq + v[1].sent >= start + k
  <2>1. v \in Seq(Queued)
    BY DEF v, Session
  <2>2. 1 \in 1..Len(v) /\ j < Len(q) /\ j + 1 \in 1..Len(q)
    BY <1>2, <1>3, <1>9, <2>1 DEF Advances, q
  <2>3. v[1].seq = q[j + 1].seq /\ v[1].sent = q[j + 1].sent + k
    BY <1>3, <2>2 DEF Advances
  <2>4. q[j + 1].seq \in Nat /\ q[j + 1].sent \in Nat
    BY <1>2, <2>2, QueueTypes DEF q
  <2>5. QED
    BY <1>6, <1>7, <2>2, <2>3, <2>4, SMTT(20)
<1>10. QED
  BY <1>3, <1>8, <1>9 DEF Ahead, v

\* Every step keeps the head of the queue at or beyond remote_seq, unless a SYN
\* brought data.
LEMMA FreshStep ==
    ASSUME Fresh, Disjoint, Untouched', [Next]_vars
    PROVE  Fresh'
<1>1. IInv' /\ StreamStep
  BY Inductive, StepStream DEF Fresh
<1>2. Untouched'
  OBVIOUS
<1>3. ASSUME Live'
      PROVE  Tiled(tcp'.forward) /\ Ahead(tcp')
  <2>1. CASE Down
    BY <1>3, <2>1 DEF Live, Down
  <2>2. CASE Opened \/ Connected
    <3>1. tcp'.forward = << >>
      BY <1>2, <2>2 DEF Opened, Connected, Fresh, Untouched
    <3>2. QED
      BY <3>1 DEF Tiled, Ahead
  <2>3. CASE Stays
    BY <1>3, <2>3 DEF Stays, Fresh, Live, Tiled, Ahead
  <2>4. CASE \E p \in Arriving : Takes(p)
    <3>1. CASE tcp.state = "LISTEN"
      <4>1. tcp'.state = "LISTEN"
        BY <2>4, <3>1 DEF Takes
      <4>2. tcp'.forward = << >>
        BY <1>2, <4>1 DEF Untouched
      <4>3. QED
        BY <4>2 DEF Tiled, Ahead
    <3>2. CASE tcp.state # "LISTEN"
      BY <2>4, <3>2, TakesFresh
    <3>3. QED
      BY <3>1, <3>2
  <2>5. CASE Relays
    <3>1. PICK room : \E j \in 0..Len(tcp.forward), k \in Nat, failed \in BOOLEAN :
                         Forwards(room, j, k, failed)
      BY <2>5 DEF Relays
    <3>2. PICK j \in 0..Len(tcp.forward), k \in Nat, failed \in BOOLEAN :
                  Forwards(room, j, k, failed)
      BY <3>1
    <3>3. Sent(j, k)
      BY <3>2, ForwardShape DEF Fresh
    <3>4. Live
      BY <2>5 DEF Relays, Live, Transfer, Shut
    <3>5. tcp' \in Session
      BY <1>1 DEF IInv, Good
    <3>6. QED
      BY <3>3, <3>4, <3>5, SentFresh
  <2>6. QED
    BY <1>1, <2>1, <2>2, <2>3, <2>4, <2>5 DEF StreamStep
<1>4. QED
  BY <1>1, <1>2, <1>3 DEF Fresh

\* The head of the queue never falls behind remote_seq (the condition under
\* which the loop of check_tcp_socket stops for ever), if the app's segments
\* do not overlap and its SYN has no data.
THEOREM HeadStaysFresh == Disjoint /\ BareSyn /\ Spec => []HeadNotStale
<1> SUFFICES ASSUME Disjoint, BareSyn
             PROVE  Spec => []HeadNotStale
  OBVIOUS
<1>1. Init => Fresh
  <2> SUFFICES ASSUME Init PROVE Fresh
    OBVIOUS
  <2>1. IInv
    BY InitGood
  <2>2. Untouched /\ ~Live
    BY DEF Init, NoSession, Untouched, Live
  <2>3. QED
    BY <2>1, <2>2 DEF Fresh
<1>2. Fresh /\ [Next]_vars => Fresh'
  BY FreshStep, UntouchedStep, StepStream, Inductive DEF Fresh
<1>3. Fresh => HeadNotStale
  <2> SUFFICES ASSUME Fresh, tcp.state \in {"SYN_RECV"} \cup Transfer
               PROVE  Ahead(tcp)
    BY DEF HeadNotStale, Ahead
  <2>1. Live
    BY DEF Live, Transfer, Shut
  <2>2. QED
    BY <2>1 DEF Fresh
<1>4. QED
  BY <1>1, <1>2, <1>3, PTL DEF Spec

-----------------------------------------------------------------------------
(* A stale head.                                                           *)

\* A packet is queued behind a head that starts at remote_seq or before it, if
\* at all.
LEMMA TakesHead ==
    ASSUME IInv, NEW p \in Arriving, Takes(p), tcp.forward # << >>,
           tcp.forward[1].seq + tcp.forward[1].sent <= tcp.remote_seq
    PROVE  /\ tcp'.forward # << >> /\ tcp'.forward[1] = tcp.forward[1]
           /\ tcp'.remote_seq = tcp.remote_seq /\ tcp'.sent = tcp.sent
<1> DEFINE q == tcp.forward
           v == tcp'.forward
           e == [seq |-> p.seq, len |-> p.len, sent |-> 0]
<1>1. /\ q \in Seq(Queued) /\ Ordered(q) /\ tcp.remote_seq \in Nat
      /\ q # << >> /\ q[1].seq + q[1].sent <= tcp.remote_seq
  BY Typing DEF Session
<1>2. 1 \in 1..Len(q) /\ q[1].seq \in Nat /\ q[1].sent \in Nat
  BY <1>1, HeadTypes
<1>3. PICK n \in 0..Len(q) : Grown(p, n)
  BY TakesQueue
<1>4. v # << >> /\ v[1] = q[1]
  <2>1. CASE Known(p, n)
    BY <1>1, <1>3, <2>1 DEF Grown
  <2>2. CASE ~Known(p, n)
    <3>1. /\ p.seq \in Nat /\ ~(p.seq < tcp.remote_seq)
          /\ ~(n < Len(q) /\ q[n + 1].seq = p.seq)
      BY <2>2, PacketFact DEF Known, Had
    <3>2. InsertionPoint(q, p.seq, n) /\ Inserted(q, v, n, e)
      BY <1>3, <2>2 DEF Grown
    <3> HIDE DEF q, v, e
    <3>3. n # 0
      <4>1. n = 0 => q[1].seq >= p.seq /\ q[1].seq # p.seq
        BY <1>2, <3>1, <3>2 DEF InsertionPoint
      <4>2. QED
        BY <1>1, <1>2, <3>1, <4>1
    <3>4. Len(v) = Len(q) + 1 /\ v[1] = q[1]
      BY <1>2, <3>2, <3>3 DEF Inserted
    <3>5. Len(q) \in Nat /\ v # << >>
      BY <1>1, <3>4
    <3>6. QED
      BY <3>4, <3>5
  <2>3. QED
    BY <2>1, <2>2
<1>5. tcp'.remote_seq = tcp.remote_seq /\ tcp'.sent = tcp.sent
  BY <1>4 DEF Takes
<1>6. QED
  BY <1>4, <1>5

\* So no packet that is taken moves a stale head.
LEMMA TakesBlocked ==
    ASSUME IInv, Stale(tcp), NEW p \in Arriving, Takes(p)
    PROVE  Stale(tcp') /\ tcp'.sent = tcp.sent
<1>1. /\ tcp.forward # << >> /\ tcp.remote_seq \in Nat
      /\ tcp.forward[1].seq + tcp.forward[1].sent < tcp.remote_seq
  BY Typing DEF Session, Stale
<1>2. tcp.forward[1].seq + tcp.forward[1].sent <= tcp.remote_seq
  <2>1. tcp.forward \in Seq(Queued)
    BY Typing DEF Session
  <2>2. tcp.forward[1].seq \in Nat /\ tcp.forward[1].sent \in Nat
    BY <1>1, <2>1, HeadTypes
  <2>3. QED
    BY <1>1, <2>2
<1>3. /\ tcp'.forward # << >> /\ tcp'.forward[1] = tcp.forward[1]
      /\ tcp'.remote_seq = tcp.remote_seq /\ tcp'.sent = tcp.sent
  BY <1>1, <1>2, TakesHead
<1>4. tcp'.state \in {tcp.state, "ESTABLISHED", "CLOSE_WAIT"}
  BY DEF Takes
<1>5. QED
  BY <1>1, <1>3, <1>4 DEF Stale, Shut

\* Nothing can be sent while the head is stale.
LEMMA RelaysBlocked ==
    ASSUME IInv, Stale(tcp), Relays
    PROVE  Stale(tcp') /\ tcp'.sent = tcp.sent
<1> DEFINE q == tcp.forward
           v == tcp'.forward
<1>1. /\ q \in Seq(Queued) /\ tcp.remote_seq \in Nat /\ tcp.sent \in Nat
      /\ q # << >> /\ q[1].seq + q[1].sent < tcp.remote_seq
  BY Typing DEF Session, Stale
<1>2. 1 \in 1..Len(q) /\ q[1] \in Queued
  BY <1>1
<1>3. PICK room : \E j \in 0..Len(tcp.forward), k \in Nat, failed \in BOOLEAN :
                     Forwards(room, j, k, failed)
  BY DEF Relays
<1>4. PICK j \in 0..Len(tcp.forward), k \in Nat, failed \in BOOLEAN :
              Forwards(room, j, k, failed)
  BY <1>3
<1>5. ~(q[1].seq + q[1].sent = tcp.remote_seq)
  <2>1. q[1].seq \in Nat /\ q[1].sent \in Nat
    BY <1>2 DEF Queued
  <2>2. QED
    BY <1>1, <2>1
<1>6. \A i \in Nat : i > 0 => ~Sendable(tcp, room, i)
  <2> SUFFICES ASSUME NEW i \in Nat, i > 0, Sendable(tcp, room, i)
               PROVE  FALSE
    OBVIOUS
  <2>1. 1 \in 1..i
    OBVIOUS
  <2>2. q[1].seq + q[1].sent = tcp.remote_seq
    BY <2>1 DEF Sendable
  <2>3. QED
    BY <1>5, <2>2
<1>7. j = 0 /\ k = 0
  <2>1. Sendable(tcp, room, j) /\ (k > 0 => Sendable(tcp, room, j + 1))
    BY <1>4 DEF Forwards, ForwardLoop
  <2>2. j \in Nat /\ j + 1 \in Nat /\ j + 1 > 0
    BY <1>4
  <2>3. QED
    BY <1>4, <1>6, <2>1, <2>2
<1>8. /\ Advances(q, v, 0, 0)
      /\ tcp'.sent = tcp.sent + ((tcp.remote_seq + 0) - tcp.remote_seq)
      /\ v # << >> => tcp'.remote_seq = tcp.remote_seq + 0
  BY <1>4, <1>7, ForwardShape DEF Sent
<1> HIDE DEF q, v
<1>9. Len(v) = Len(q) /\ v[1].seq = q[1].seq /\ v[1].sent = q[1].sent
  <2>1. Len(v) = Len(q) - 0 /\ Len(q) \in Nat
    BY <1>1, <1>8 DEF Advances
  <2>2. 1 \in 1..Len(v) /\ 0 + 1 = 1
    BY <1>2, <2>1
  <2>3. v[1].seq = q[0 + 1].seq /\ v[1].sent = q[0 + 1].sent + 0
    BY <1>8, <2>2 DEF Advances
  <2>4. q[1].sent \in Nat
    BY <1>2 DEF Queued
  <2>5. QED
    BY <2>1, <2>2, <2>3, <2>4
<1>10. v # << >> /\ tcp'.remote_seq = tcp.remote_seq /\ tcp'.sent = tcp.sent
  <2>1. v # << >>
    BY <1>2, <1>9
  <2>2. QED
    BY <1>1, <1>8, <2>1
<1>11. tcp'.state \notin {"NONE", "LISTEN"} \cup Shut
  BY DEF Relays, Transfer, Shut
<1>12. QED
  BY <1>1, <1>9, <1>10, <1>11 DEF Stale, q, v

\* A stale head stays as long as the session lives.
LEMMA StaleStep ==
    ASSUME IInv, [Next]_vars, Stale(tcp), Live'
    PROVE  Stale(tcp') /\ tcp'.sent = tcp.sent
<1>1. StreamStep
  BY StepStream
<1>2. CASE Down
  BY <1>2 DEF Down, Live
<1>3. CASE Stays
  BY <1>3 DEF Stays, Stale
<1>4. CASE Opened \/ Connected
  BY <1>4 DEF Opened, Connected, Stale
<1>5. CASE Relays
  BY <1>5, RelaysBlocked
<1>6. CASE \E p \in Arriving : Takes(p)
  BY <1>6, TakesBlocked
<1>7. QED
  BY <1>1, <1>2, <1>3, <1>4, <1>5, <1>6 DEF StreamStep

\* The data of a SYN becomes such a head.
LEMMA SynHeldStep ==
    ASSUME IInv, [Next]_vars, SynHeld(tcp), Live'
    PROVE  SynHeld(tcp') \/ Stale(tcp')
<1>1. StreamStep
  BY StepStream
<1>2. CASE Down
  BY <1>2 DEF Down, Live
<1>3. CASE Stays
  BY <1>3 DEF Stays, SynHeld
<1>4. CASE Opened \/ Relays
  BY <1>4 DEF Opened, Relays, SynHeld, Transfer
<1>5. CASE Connected
  <2>1. /\ tcp.forward # << >> /\ tcp.remote_seq \in Nat /\ tcp.forward \in Seq(Queued)
        /\ tcp.forward[1].seq + tcp.forward[1].sent <= tcp.remote_seq
    BY Typing DEF Session, SynHeld
  <2>2. tcp.forward[1].seq \in Nat /\ tcp.forward[1].sent \in Nat
    BY <2>1, HeadTypes
  <2>3. tcp.forward[1].seq + tcp.forward[1].sent < tcp.remote_seq + 1
    BY <2>1, <2>2
  <2>4. QED
    BY <1>5, <2>1, <2>3 DEF Connected, Stale, Shut
<1>6. CASE \E p \in Arriving : Takes(p)
  <2>1. PICK p \in Arriving : Takes(p)
    BY <1>6
  <2>2. /\ tcp'.forward # << >> /\ tcp'.forward[1] = tcp.forward[1]
        /\ tcp'.remote_seq = tcp.remote_seq
    BY <2>1, TakesHead DEF SynHeld
  <2>3. tcp'.state = "LISTEN"
    BY <2>1 DEF Takes, SynHeld
  <2>4. QED
    BY <2>2, <2>3 DEF SynHeld
<1>7. QED
  BY <1>1, <1>2, <1>3, <1>4, <1>5, <1>6 DEF StreamStep

\* Once the head of the queue is stale the session forwards nothing any more
\* (the condition on the head in check_tcp_socket, tcp.c:699), whatever the app
\* sends: no assumption on its segments or its SYN.
THEOREM StaleForGood == Spec => StaleBlocks
<1>1. ASSUME IInv, [Next]_vars, Stale(tcp), Live'
      PROVE  Stale(tcp') /\ tcp'.sent = tcp.sent
  BY <1>1, StaleStep
<1>2. IInv /\ [Next]_vars => [Stale(tcp) /\ Live' => Stale(tcp)' /\ tcp'.sent = tcp.sent]_vars
  BY <1>1 DEF Stale
<1>3. QED
  BY <1>2, Invariance, PTL DEF Spec, StaleBlocks

-----------------------------------------------------------------------------
(* The end of the stream.                                                  *)

\* The app's stream has an end: one segment after which there is no other.
HasEnd == \E e \in {RemoteStart + 1} \cup {SegmentEnd(g) : g \in Segments} :
             \A g \in Segments : SegmentEnd(g) <= e

\* The queue q continues the stream from the byte r on, without a hole, and
\* ends before the byte e.
Chain(q, r, e) ==
    IF q = << >> THEN r = e
    ELSE /\ q[1].seq + q[1].sent = r
         /\ SegmentEnd(q[Len(q)]) = e
         /\ \A i \in 1..(Len(q) - 1) : q[i + 1].seq = SegmentEnd(q[i])

\* No segment goes over the byte e.
Cut(e) == \A g \in Segments : g.seq < e => SegmentEnd(g) <= e

\* The invariant: what the app sent and the server was not sent is in the
\* queue, and after the app's FIN that is the rest of the stream.
Whole ==
    Live /\ tcp.state # "LISTEN"
        => /\ Chain(tcp.forward, RemoteStart + 1 + tcp.sent, app.nxt)
           /\ Cut(app.nxt)
           /\ app.nxt <= StreamEnd
           /\ tcp.state \in {"CLOSE_WAIT", "LAST_ACK"} => app.nxt = StreamEnd

Contiguous == Fresh /\ Whole

\* StreamEnd is where the last segment ends.
LEMMA StreamEndFact ==
    ASSUME HasEnd
    PROVE  /\ StreamEnd \in Nat
           /\ RemoteStart + 1 <= StreamEnd
           /\ \A g \in Segments : SegmentEnd(g) <= StreamEnd
<1>1. /\ StreamEnd \in {RemoteStart + 1} \cup {SegmentEnd(g) : g \in Segments}
      /\ \A g \in Segments : SegmentEnd(g) <= StreamEnd
  BY DEF HasEnd, StreamEnd
<1>2. \A g \in Segments : SegmentEnd(g) \in Nat /\ RemoteStart + 1 <= SegmentEnd(g)
  <2> TAKE g \in Segments
  <2>1. g.seq \in Nat /\ g.len \in Nat /\ g.seq > RemoteStart /\ RemoteStart \in Nat
    BY StreamAssumption DEF Segment
  <2>2. QED
    BY <2>1 DEF SegmentEnd
<1>3. RemoteStart + 1 \in Nat
  BY StreamAssumption
<1>4. CASE StreamEnd = RemoteStart + 1
  BY <1>1, <1>3, <1>4
<1>5. CASE \E g \in Segments : StreamEnd = SegmentEnd(g)
  BY <1>1, <1>2, <1>5
<1>6. QED
  BY <1>1, <1>4, <1>5

\* All that is queued ends before the end of the chain.
LEMMA ChainBound ==
    ASSUME Disjoint, NEW q \in Seq(Queued), Ordered(q), Tiled(q),
           NEW r \in Nat, NEW e \in Nat, Chain(q, r, e)
    PROVE  r <= e /\ \A i \in 1..Len(q) : q[i].seq < e
<1>1. CASE q = << >>
  BY <1>1 DEF Chain
<1>2. CASE q # << >>
  <2>1. /\ Len(q) \in 1..Len(q) /\ 1 \in 1..Len(q)
        /\ q[1].seq + q[1].sent = r /\ SegmentEnd(q[Len(q)]) = e
    BY <1>2 DEF Chain
  <2>2. \A i \in 1..Len(q) : q[i].seq < SegmentEnd(q[i])
    <3> TAKE i \in 1..Len(q)
    <3>1. /\ q[i].seq \in Nat /\ q[i].sent \in Nat /\ SegmentEnd(q[i]) \in Nat
          /\ q[i].seq + q[i].sent < SegmentEnd(q[i])
      BY QueueTypes
    <3>2. QED
      BY <3>1
  <2>3. \A i \in 1..Len(q) : SegmentEnd(q[i]) <= e
    <3> TAKE i \in 1..Len(q)
    <3>1. CASE i = Len(q)
      BY <2>1, <3>1
    <3>2. CASE i # Len(q)
      <4>1. SegmentEnd(q[i]) <= q[Len(q)].seq
        BY <2>1, <3>2, QueueApart
      <4>2. SegmentEnd(q[i]) \in Nat /\ q[Len(q)].seq \in Nat
        BY <2>1, QueueTypes
      <4>3. QED
        BY <2>1, <2>2, <4>1, <4>2
    <3>3. QED
      BY <3>1, <3>2
  <2>4. \A i \in 1..Len(q) : q[i].seq < e
    <3> TAKE i \in 1..Len(q)
    <3>1. q[i].seq \in Nat /\ SegmentEnd(q[i]) \in Nat
      BY QueueTypes
    <3>2. QED
      BY <2>2, <2>3, <3>1
  <2>5. r <= e
    <3>1. /\ q[1].seq + q[1].sent < SegmentEnd(q[1]) /\ SegmentEnd(q[1]) \in Nat
      BY <2>1, QueueTypes
    <3>2. QED
      BY <2>1, <2>3, <3>1
  <2>6. QED
    BY <2>4, <2>5
<1>3. QED
  BY <1>1, <1>2

\* A segment inside the chain is in the queue.
LEMMA ChainKnows ==
    ASSUME Disjoint, NEW q \in Seq(Queued), Ordered(q), Tiled(q),
           NEW r \in Nat, NEW e \in Nat, Chain(q, r, e),
           NEW g \in Segments, r <= g.seq, g.seq < e,
           NEW n \in 0..Len(q), InsertionPoint(q, g.seq, n)
    PROVE  n < Len(q) /\ q[n + 1].seq = g.seq
<1>1. g.seq \in Nat
  BY StreamAssumption DEF Segment
<1>2. q # << >>
  BY <1>1 DEF Chain
<1>3. /\ q[1].seq + q[1].sent = r /\ SegmentEnd(q[Len(q)]) = e
      /\ \A i \in 1..(Len(q) - 1) : q[i + 1].seq = SegmentEnd(q[i])
  BY <1>2 DEF Chain
<1>4. n < Len(q) => q[n + 1].seq >= g.seq /\ q[n + 1].seq \in Nat /\ q[n + 1].sent \in Nat
  <2>1. n < Len(q) => n + 1 \in 1..Len(q)
    OBVIOUS
  <2>2. QED
    BY <2>1, QueueTypes DEF InsertionPoint
<1>5. CASE n = 0
  <2>1. n < Len(q)
    BY <1>2, <1>5
  <2>2. n + 1 = 1
    BY <1>5
  <2>3. QED
    BY <1>1, <1>3, <1>4, <2>1, <2>2
<1>6. CASE n # 0
  <2>1. n \in 1..Len(q) /\ q[n].seq < g.seq
    BY <1>6 DEF InsertionPoint
  <2>2. PICK h \in Segments : h.seq = q[n].seq /\ h.len = q[n].len
    BY <2>1 DEF Tiled
  <2>3. SegmentEnd(h) <= g.seq
    BY <2>1, <2>2, SegmentsApart
  <2>4. SegmentEnd(q[n]) <= g.seq /\ SegmentEnd(q[n]) \in Nat
    BY <2>1, <2>2, <2>3, QueueTypes DEF SegmentEnd
  <2>5. n # Len(q)
    BY <1>1, <1>3, <2>4
  <2>6. n \in 1..(Len(q) - 1)
    BY <2>1, <2>5
  <2>7. q[n + 1].seq = SegmentEnd(q[n])
    BY <1>3, <2>6
  <2>8. QED
    BY <1>1, <1>4, <2>4, <2>6, <2>7
<1>7. QED
  BY <1>5, <1>6

\* A segment that starts where the chain ends extends it.
LEMMA ChainAppend ==
    ASSUME NEW q \in Seq(Queued), Ordered(q), NEW r \in Nat, NEW e \in Nat,
           Chain(q, r, e), NEW s, s.seq = e, s.sent = 0,
           NEW v, Inserted(q, v, Len(q), s)
    PROVE  Chain(v, r, SegmentEnd(s))
<1>1. Len(v) = Len(q) + 1 /\ v # << >>
  BY DEF Inserted
<1>2. v[Len(q) + 1] = s /\ \A i \in 1..Len(q) : v[i] = q[i]
  BY DEF Inserted
<1>3. v[1].seq + v[1].sent = r
  <2>1. CASE q = << >>
    BY <1>2, <2>1 DEF Chain
  <2>2. CASE q # << >>
    BY <1>2, <2>2 DEF Chain
  <2>3. QED
    BY <2>1, <2>2
<1>4. SegmentEnd(v[Len(v)]) = SegmentEnd(s)
  BY <1>1, <1>2
<1>5. ASSUME NEW i \in 1..(Len(v) - 1)
      PROVE  v[i + 1].seq = SegmentEnd(v[i])
  <2>1. i \in 1..Len(q) /\ q # << >>
    BY <1>1
  <2>2. CASE i = Len(q)
    <3>1. v[i] = q[i] /\ v[i + 1] = s
      BY <1>2, <2>1, <2>2
    <3>2. SegmentEnd(q[i]) = e
      BY <2>1, <2>2 DEF Chain
    <3>3. QED
      BY <3>1, <3>2
  <2>3. CASE i # Len(q)
    <3>1. i \in 1..(Len(q) - 1) /\ i + 1 \in 1..Len(q)
      BY <2>1, <2>3
    <3>2. v[i] = q[i] /\ v[i + 1] = q[i + 1]
      BY <1>2, <3>1
    <3>3. q[i + 1].seq = SegmentEnd(q[i])
      BY <2>1, <3>1 DEF Chain
    <3>4. QED
      BY <3>2, <3>3
  <2>4. QED
    BY <2>2, <2>3
<1>6. QED
  BY <1>1, <1>3, <1>4, <1>5 DEF Chain

\* What is left of a chain is a chain.
LEMMA SentChain ==
    ASSUME Contiguous, Live, tcp.state # "LISTEN", tcp' \in Session,
           NEW j \in 0..Len(tcp.forward), NEW k \in Nat, Sent(j, k)
    PROVE  Chain(tcp'.forward, RemoteStart + 1 + tcp'.sent, app.nxt)
<1> DEFINE q == tcp.forward
           v == tcp'.forward
           start == IF j = 0 THEN tcp.remote_seq ELSE SegmentEnd(q[j])
           r == RemoteStart + 1 + tcp.sent
           e == app.nxt
<1>1. /\ q \in Seq(Queued) /\ Ordered(q) /\ v \in Seq(Queued)
      /\ tcp.remote_seq \in Nat /\ tcp.sent \in Nat /\ RemoteStart \in Nat
  BY Typing, StreamAssumption DEF Contiguous, Fresh, Session
<1>2. Chain(q, r, e)
  BY DEF Contiguous, Whole
<1>3. /\ Advances(q, v, j, k)
      /\ k > 0 => j < Len(q) /\ q[j + 1].seq + q[j + 1].sent = start
      /\ tcp'.sent = tcp.sent + ((start + k) - tcp.remote_seq)
  BY DEF Sent
<1>4. start \in Nat
  BY <1>1, QueueTypes
<1>5. CASE q = << >>
  <2>1. j = 0 /\ k = 0 /\ Len(v) = 0
    BY <1>1, <1>3, <1>5 DEF Advances
  <2>2. v = << >> /\ tcp'.sent = tcp.sent
    BY <1>1, <1>3, <2>1
  <2>3. QED
    BY <1>2, <1>5, <2>2 DEF Chain
<1>6. CASE q # << >>
  <2>1. tcp.remote_seq = r
    <3>1. Confirms(tcp) /\ tcp.state \in States
      BY Typing DEF Contiguous, Fresh, IInv, Good
    <3>2. tcp.state \in {"SYN_RECV", "ESTABLISHED", "FIN_WAIT1", "CLOSE_WAIT", "LAST_ACK"}
      BY <3>1 DEF Live, States, Transfer, Shut
    <3>3. QED
      BY <1>1, <1>6, <3>1, <3>2 DEF Confirms
  <2>2. RemoteStart + 1 + tcp'.sent = start + k
    BY <1>1, <1>3, <1>4, <2>1
  <2>3. /\ q[1].seq + q[1].sent = r /\ SegmentEnd(q[Len(q)]) = e
        /\ \A i \in 1..(Len(q) - 1) : q[i + 1].seq = SegmentEnd(q[i])
    BY <1>2, <1>6 DEF Chain
  <2>4. CASE v = << >>
    <3>1. j = Len(q) /\ j # 0 /\ k = 0
      BY <1>1, <1>3, <1>6, <2>4 DEF Advances
    <3>2. start + k = e
      BY <1>4, <2>3, <3>1
    <3>3. QED
      BY <2>2, <2>4, <3>2 DEF Chain
  <2>5. CASE v # << >>
    <3>1. Len(v) = Len(q) - j /\ Len(v) \in 1..Len(q) /\ j < Len(q) /\ 1 \in 1..Len(v)
      <4>1. Len(v) = Len(q) - j
        BY <1>3 DEF Advances
      <4>2. Len(v) \in Nat /\ Len(v) # 0 /\ Len(q) \in Nat
        BY <1>1, <2>5
      <4> HIDE DEF q, v
      <4>3. QED
        BY <4>1, <4>2
    <3>2. q[j + 1].seq + q[j + 1].sent = start
      <4>1. CASE j = 0
        BY <2>1, <2>3, <4>1
      <4>2. CASE j # 0
        <5>1. j \in 1..(Len(q) - 1) /\ j + 1 \in 1..Len(q) /\ j + 1 > 1
          BY <3>1, <4>2
        <5>2. q[j + 1].seq = SegmentEnd(q[j])
          BY <2>3, <5>1
        <5>3. q[j + 1].sent = 0 /\ q[j + 1].seq \in Nat
          BY <1>1, <5>1, QueueTypes
        <5>4. QED
          BY <4>2, <5>2, <5>3
      <4>3. QED
        BY <4>1, <4>2
    <3>3. v[1].seq + v[1].sent = start + k
      <4>1. v[1].seq = q[j + 1].seq /\ v[1].sent = q[j + 1].sent + k
        <5> HIDE DEF q, v
        <5>1. QED
          BY <1>3, <3>1 DEF Advances
      <4>2. j + 1 \in 1..Len(q)
        BY <1>1, <3>1
      <4>3. q[j + 1].seq \in Nat /\ q[j + 1].sent \in Nat
        BY <1>1, <4>2, QueueTypes
      <4> HIDE DEF start, q, v
      <4>4. QED
        BY <1>4, <3>2, <4>1, <4>3
    <3>4. \A i \in 1..Len(v) : /\ v[i].seq = q[j + i].seq
                               /\ SegmentEnd(v[i]) = SegmentEnd(q[j + i])
      <4> HIDE DEF q, v
      <4>1. QED
        BY <1>3 DEF Advances, SegmentEnd
    <3>5. SegmentEnd(v[Len(v)]) = e
      <4>1. j + Len(v) = Len(q) /\ Len(v) \in 1..Len(v)
        BY <3>1
      <4> HIDE DEF q, v, e
      <4>2. SegmentEnd(v[Len(v)]) = SegmentEnd(q[j + Len(v)])
        BY <3>4, <4>1
      <4>3. QED
        BY <2>3, <4>1, <4>2
    <3>6. ASSUME NEW i \in 1..(Len(v) - 1)
          PROVE  v[i + 1].seq = SegmentEnd(v[i])
      <4>1. /\ i \in 1..Len(v) /\ i + 1 \in 1..Len(v)
            /\ j + i \in 1..(Len(q) - 1) /\ (j + i) + 1 = j + (i + 1)
        BY <3>1
      <4>2. q[(j + i) + 1].seq = SegmentEnd(q[j + i])
        BY <2>3, <4>1
      <4>3. v[i + 1].seq = q[j + (i + 1)].seq /\ SegmentEnd(v[i]) = SegmentEnd(q[j + i])
        BY <3>4, <4>1
      <4>4. QED
        BY <4>1, <4>2, <4>3
    <3> HIDE DEF start, q, v, e
    <3>7. Chain(v, start + k, e)
      BY <2>5, <3>3, <3>5, <3>6 DEF Chain
    <3>8. QED
      BY <2>2, <3>7 DEF v, e
  <2>6. QED
    BY <2>4, <2>5
<1>7. QED
  BY <1>5, <1>6

\* The app's count of what it sent.
LEMMA ToldNext ==
    ASSUME NEW p, p.flag # "RST", p.ack_seq <= tcp.local_seq \/ p.flag = "SYN",
           p.flag # "SYN" => p.ack_seq \in Nat, tcp.local_seq \in Nat, app \in AppType
    PROVE  Told(p).nxt = IF p.flag # "SYN" /\ p.len > 0 /\ app.nxt < p.seq + p.len
                         THEN p.seq + p.len ELSE app.nxt
<1>1. CASE p.flag = "SYN"
  BY <1>1 DEF Told
<1>2. CASE p.flag # "SYN"
  <2> DEFINE nxt == IF p.len > 0 /\ app.nxt < p.seq + p.len THEN p.seq + p.len ELSE app.nxt
  <2>1. ~(p.ack_seq > tcp.local_seq)
    BY <1>2
  <2>2. Told(p) = [app EXCEPT !.ack = p.ack_seq, !.edge = p.ack_seq + p.window, !.nxt = nxt]
    BY <1>2, <2>1 DEF Told
  <2> HIDE DEF nxt
  <2>3. Told(p).nxt = nxt
    BY <2>2 DEF AppType
  <2>4. QED
    BY <1>2, <2>3 DEF nxt
<1>3. QED
  BY <1>1, <1>2

\* A SYN or a packet without data leaves the chain alone, and a FIN without data
\* comes after all that was queued.
LEMMA EmptyWhole ==
    ASSUME Contiguous, HasEnd, ~Lossy, tcp.state # "LISTEN",
           NEW p \in Arriving, Takes(p), p.len = 0 \/ p.flag = "SYN"
    PROVE  Whole'
<1>0. tcp'.forward = tcp.forward
  <2>1. PICK n \in 0..Len(tcp.forward) : Grown(p, n)
    BY TakesQueue DEF Contiguous, Fresh
  <2>2. p.flag = "SYN" => p.seq = RemoteStart
    BY PacketFact DEF Contiguous, Fresh
  <2>3. tcp.remote_seq > RemoteStart /\ RemoteStart \in Nat
    BY BehindSyn DEF Contiguous, Fresh, Takes, Accepts
  <2>4. Known(p, n)
    BY <2>2, <2>3, Typing DEF Contiguous, Fresh, Session, Known, Had
  <2>5. QED
    BY <2>1, <2>4 DEF Grown
<1>1. /\ tcp'.forward = tcp.forward /\ tcp'.sent = tcp.sent /\ Live
      /\ app' = Told(p)
  BY <1>0 DEF Takes, Accepts
<1>2. app'.nxt = app.nxt /\ app.nxt \in Nat
  <2>1. /\ p.flag # "SYN" => p.ack_seq \in Nat
        /\ tcp.local_seq \in Nat /\ app \in AppType
    BY PacketFact, Typing DEF Contiguous, Fresh
  <2>2. p.flag # "RST" /\ (p.ack_seq <= tcp.local_seq \/ p.flag = "SYN")
    BY DEF Takes
  <2>3. Told(p).nxt = app.nxt
    BY <2>1, <2>2, ToldNext
  <2>4. QED
    BY <1>1, <2>1, <2>3 DEF AppType
<1> SUFFICES ASSUME Live', tcp'.state # "LISTEN"
             PROVE  /\ Chain(tcp'.forward, RemoteStart + 1 + tcp'.sent, app'.nxt)
                    /\ Cut(app'.nxt)
                    /\ app'.nxt <= StreamEnd
                    /\ tcp'.state \in {"CLOSE_WAIT", "LAST_ACK"} => app'.nxt = StreamEnd
  BY DEF Whole
<1>3. tcp.state # "LISTEN"
  BY DEF Takes
<1>4. /\ Chain(tcp.forward, RemoteStart + 1 + tcp.sent, app.nxt)
      /\ Cut(app.nxt)
      /\ app.nxt <= StreamEnd
      /\ tcp.state \in {"CLOSE_WAIT", "LAST_ACK"} => app.nxt = StreamEnd
  BY <1>1, <1>3 DEF Contiguous, Whole
<1>5. tcp'.state \in {"CLOSE_WAIT", "LAST_ACK"} => app.nxt = StreamEnd
  <2>1. \/ tcp'.state = tcp.state
        \/ tcp'.state = "ESTABLISHED"
        \/ p.flag = "FIN"
    BY DEF Takes
  <2>2. CASE p.flag = "FIN"
    <3>1. p.seq + p.len = StreamEnd /\ p.seq <= app.nxt /\ p.len = 0
      BY <2>2, ArrivesFact DEF Contiguous, Fresh
    <3>2. StreamEnd \in Nat
      BY StreamEndFact
    <3>3. p.seq \in Nat
      <4>1. p \in AppPackets /\ AppMaySend(p)
        BY <2>2 DEF Arriving, SynPackets, Packet
      <4>2. p.seq = StreamEnd \/ \E g \in Segments : p.seq = g.seq
        BY <4>1 DEF AppPackets, Packet
      <4>3. QED
        BY <3>2, <4>2, StreamAssumption DEF Segment
    <3>4. QED
      BY <1>2, <1>4, <3>1, <3>2, <3>3
  <2>3. QED
    BY <1>4, <2>1, <2>2
<1>6. QED
  BY <1>1, <1>2, <1>4, <1>5

\* A packet with data extends the chain, or brings what is in it already.
LEMMA DataWhole ==
    ASSUME Contiguous, Disjoint, HasEnd, ~Lossy,
           NEW p \in Arriving, Takes(p), p.len # 0, p.flag # "SYN"
    PROVE  Whole'
<1> SUFFICES ASSUME Live', tcp'.state # "LISTEN"
             PROVE  /\ Chain(tcp'.forward, RemoteStart + 1 + tcp'.sent, app'.nxt)
                    /\ Cut(app'.nxt)
                    /\ app'.nxt <= StreamEnd
                    /\ tcp'.state \in {"CLOSE_WAIT", "LAST_ACK"} => app'.nxt = StreamEnd
  BY DEF Whole
<1> DEFINE q == tcp.forward
           v == tcp'.forward
           r == RemoteStart + 1 + tcp.sent
           e == app.nxt
           s == [seq |-> p.seq, len |-> p.len, sent |-> 0]
<1>1. p.len > 0 /\ p.len \in Nat /\ p.seq \in Nat /\ p.flag \in {"ACK", "FIN"}
  BY PacketFact, ArrivesFact DEF Contiguous, Fresh, Takes
<1>2. PICK g \in Segments : g.seq = p.seq /\ g.len = p.len
  BY <1>1, ArrivesFact DEF Contiguous, Fresh
<1>3. p.seq <= e
  BY <1>1, ArrivesFact DEF Contiguous, Fresh
<1>4. Live /\ socket /\ tcp.state # "CLOSE_WAIT" /\ tcp.state # "LISTEN"
  BY <1>1 DEF Takes, Accepts
<1>5. tcp.state \in {"SYN_RECV", "ESTABLISHED"}
  <2>1. tcp.state \in States /\ tcp.state \notin {"FIN_WAIT1", "LAST_ACK"}
    BY <1>4, Typing DEF Contiguous, Fresh, IInv, SocketMatchesState
  <2>2. QED
    BY <1>4, <2>1 DEF Live, States, Transfer, Shut
<1>6. /\ q \in Seq(Queued) /\ Ordered(q) /\ Tiled(q)
      /\ tcp.sent \in Nat /\ RemoteStart \in Nat /\ e \in Nat
      /\ tcp.local_seq \in Nat /\ app \in AppType
  BY <1>4, Typing, StreamAssumption DEF Contiguous, Fresh, Session, AppType
<1>7. /\ Chain(q, r, e) /\ Cut(e) /\ e <= StreamEnd
  BY <1>4 DEF Contiguous, Whole
<1>8. tcp.remote_seq = r /\ r \in Nat
  BY <1>5, <1>6 DEF Contiguous, Fresh, IInv, Good, Confirms
<1>9. tcp'.sent = tcp.sent /\ app' = Told(p)
  BY DEF Takes
<1>10. app'.nxt = IF e < p.seq + p.len THEN p.seq + p.len ELSE e
  <2>1. p.flag # "SYN" => p.ack_seq \in Nat
    BY PacketFact DEF Contiguous, Fresh
  <2>2. p.flag # "RST" /\ (p.ack_seq <= tcp.local_seq \/ p.flag = "SYN")
    BY DEF Takes
  <2>3. QED
    BY <1>1, <1>6, <1>9, <2>1, <2>2, ToldNext
<1>11. SegmentEnd(g) = p.seq + p.len /\ SegmentEnd(s) = p.seq + p.len
  BY <1>2 DEF SegmentEnd
<1>12. PICK n \in 0..Len(q) : Grown(p, n)
  BY TakesQueue DEF Contiguous, Fresh
<1>13. InsertionPoint(q, p.seq, n)
  BY <1>12 DEF Grown
<1>14. StreamEnd \in Nat /\ p.seq + p.len <= StreamEnd
  BY <1>11, StreamEndFact
<1>15. r <= e /\ \A i \in 1..Len(q) : q[i].seq < e
  BY <1>6, <1>7, <1>8, ChainBound
<1>16. s.seq = p.seq /\ s.sent = 0
  OBVIOUS
<1> HIDE DEF q, v, r, e, s
<1>17. /\ Chain(v, r, app'.nxt) /\ Cut(app'.nxt) /\ app'.nxt <= StreamEnd
       /\ app'.nxt \in Nat /\ p.seq + p.len <= app'.nxt
  <2>1. CASE p.seq < e
    <3>1. p.seq + p.len <= e
      BY <1>2, <1>7, <1>11, <2>1 DEF Cut
    <3>2. app'.nxt = e
      BY <1>1, <1>6, <1>10, <3>1
    <3>3. Known(p, n)
      <4>1. CASE p.seq < tcp.remote_seq
        BY <4>1 DEF Known, Had
      <4>2. CASE ~(p.seq < tcp.remote_seq)
        <5>1. r <= g.seq /\ g.seq < e /\ InsertionPoint(q, g.seq, n)
          BY <1>1, <1>2, <1>8, <1>13, <2>1, <4>2
        <5>2. n < Len(q) /\ q[n + 1].seq = g.seq
          BY <1>6, <1>7, <1>8, <5>1, ChainKnows
        <5>3. QED
          BY <1>2, <5>2 DEF Known, Had, q
      <4>3. QED
        BY <4>1, <4>2
    <3>4. v = q
      BY <1>12, <3>3 DEF Grown, v, q
    <3>5. QED
      BY <1>6, <1>7, <3>1, <3>2, <3>4
  <2>2. CASE p.seq = e
    <3>1. app'.nxt = p.seq + p.len /\ p.seq + p.len \in Nat /\ p.seq < p.seq + p.len
      BY <1>1, <1>10, <2>2
    <3>2. n = Len(q)
      <4>1. n < Len(q) => q[n + 1].seq >= p.seq /\ n + 1 \in 1..Len(q)
        BY <1>6, <1>13 DEF InsertionPoint
      <4>2. n < Len(q) => q[n + 1].seq < e /\ q[n + 1].seq \in Nat
        BY <1>6, <1>15, <4>1, QueueTypes
      <4>3. QED
        BY <1>1, <1>6, <2>2, <4>1, <4>2
    <3>3. ~Known(p, n)
      BY <1>1, <1>6, <1>8, <1>15, <2>2, <3>2 DEF Known, Had, q
    <3>4. Inserted(q, v, Len(q), s)
      BY <1>12, <3>2, <3>3 DEF Grown, v, q, s
    <3>5. Chain(v, r, SegmentEnd(s))
      BY <1>6, <1>7, <1>8, <1>16, <2>2, <3>4, ChainAppend
    <3>6. Cut(app'.nxt)
      <4> SUFFICES ASSUME NEW h \in Segments, h.seq < app'.nxt
                   PROVE  SegmentEnd(h) <= app'.nxt
        BY DEF Cut
      <4>1. h.seq \in Nat /\ h.len \in Nat /\ SegmentEnd(h) \in Nat
        BY StreamAssumption DEF Segment, SegmentEnd
      <4>2. CASE h.seq < e
        <5>1. SegmentEnd(h) <= e
          BY <1>7, <4>2 DEF Cut
        <5>2. QED
          BY <1>6, <2>2, <3>1, <4>1, <5>1
      <4>3. CASE h.seq = e
        <5>1. h = g \/ SegmentEnd(g) <= h.seq \/ SegmentEnd(h) <= g.seq
          BY DEF Disjoint
        <5>2. h.len # 0
          BY StreamAssumption DEF Segment
        <5>3. ~(SegmentEnd(g) <= h.seq) /\ ~(SegmentEnd(h) <= g.seq)
          BY <1>1, <1>2, <1>11, <2>2, <4>1, <4>3, <5>2 DEF SegmentEnd
        <5>4. QED
          BY <1>11, <3>1, <5>1, <5>3
      <4>4. CASE h.seq > e
        <5>1. g.seq < h.seq
          BY <1>2, <2>2, <4>4
        <5>2. SegmentEnd(g) <= h.seq
          BY <5>1, SegmentsApart
        <5>3. QED
          BY <1>11, <3>1, <4>1, <5>2
      <4>5. QED
        BY <1>6, <4>1, <4>2, <4>3, <4>4
    <3>7. QED
      BY <1>11, <1>14, <3>1, <3>5, <3>6
  <2>3. QED
    BY <1>1, <1>3, <1>6, <2>1, <2>2
<1>18. tcp'.state \in {"CLOSE_WAIT", "LAST_ACK"} => app'.nxt = StreamEnd
  <2> SUFFICES ASSUME tcp'.state \in {"CLOSE_WAIT", "LAST_ACK"}
               PROVE  app'.nxt = StreamEnd
    OBVIOUS
  <2>1. p.flag = "FIN"
    BY <1>5 DEF Takes
  <2>2. p.seq + p.len = StreamEnd
    BY <2>1, ArrivesFact DEF Contiguous, Fresh
  <2>3. QED
    BY <1>14, <1>17, <2>2
<1>19. QED
  BY <1>9, <1>17, <1>18 DEF v, r

\* Every step keeps the chain, unless a SYN brought data.
LEMMA WholeStep ==
    ASSUME Contiguous, Disjoint, HasEnd, ~Lossy, Untouched', [Next]_vars
    PROVE  Contiguous'
<1>1. Fresh' /\ IInv' /\ StreamStep
  BY FreshStep, StepStream DEF Contiguous, Fresh
<1>2. Whole'
  <2>1. CASE Down \/ Opened
    BY <2>1 DEF Down, Opened, Whole, Live
  <2>2. CASE Stays
    BY <2>2 DEF Stays, Contiguous, Whole, Live
  <2>3. CASE Connected
    <3>1. /\ tcp'.forward = << >> /\ tcp'.sent = tcp.sent /\ app'.nxt = RemoteStart + 1
          /\ tcp'.state = "SYN_RECV"
      BY <2>3 DEF Connected, Contiguous, Fresh, Untouched
    <3>2. tcp.sent = 0 /\ RemoteStart \in Nat
      BY <2>3, StreamAssumption DEF Connected, Contiguous, Fresh, IInv, Good, Confirms
    <3>3. Chain(tcp'.forward, RemoteStart + 1 + tcp'.sent, app'.nxt)
      BY <3>1, <3>2 DEF Chain
    <3>4. Cut(RemoteStart + 1)
      <4>1. \A g \in Segments : g.seq \in Nat /\ g.seq > RemoteStart
        BY StreamAssumption DEF Segment
      <4>2. QED
        BY <3>2, <4>1 DEF Cut
    <3>5. QED
      BY <3>1, <3>3, <3>4, StreamEndFact DEF Whole
  <2>4. CASE Relays
    <3>1. PICK room : \E j \in 0..Len(tcp.forward), k \in Nat, failed \in BOOLEAN :
                         Forwards(room, j, k, failed)
      BY <2>4 DEF Relays
    <3>2. PICK j \in 0..Len(tcp.forward), k \in Nat, failed \in BOOLEAN :
                  Forwards(room, j, k, failed)
      BY <3>1
    <3>3. Sent(j, k)
      BY <3>2, ForwardShape DEF Contiguous, Fresh
    <3>4. Live /\ tcp.state # "LISTEN"
      BY <2>4 DEF Relays, Live, Transfer, Shut
    <3>5. tcp' \in Session
      BY <1>1 DEF IInv, Good
    <3>6. Chain(tcp'.forward, RemoteStart + 1 + tcp'.sent, app'.nxt) /\ app'.nxt = app.nxt
      BY <2>4, <3>3, <3>4, <3>5, SentChain DEF Relays
    <3>7. tcp'.state \in {"CLOSE_WAIT", "LAST_ACK"} => tcp.state \in {"CLOSE_WAIT", "LAST_ACK"}
      BY <2>4 DEF Relays
    <3>8. QED
      BY <3>4, <3>6, <3>7 DEF Contiguous, Whole
  <2>5. CASE \E p \in Arriving : Takes(p)
    <3>1. CASE tcp.state = "LISTEN"
      BY <2>5, <3>1 DEF Takes, Whole
    <3>2. CASE tcp.state # "LISTEN"
      BY <2>5, <3>2, EmptyWhole, DataWhole
    <3>3. QED
      BY <3>1, <3>2
  <2>6. QED
    BY <1>1, <2>1, <2>2, <2>3, <2>4, <2>5 DEF StreamStep
<1>3. QED
  BY <1>1, <1>2 DEF Contiguous

\* The queue continues the stream, or data of the SYN blocks it, so that it is
\* never empty and no FIN of the app is confirmed.
FinWaits == IInv /\ (Live => Contiguous \/ SynHeld(tcp) \/ Stale(tcp))

LEMMA FinWaitsStep ==
    ASSUME FinWaits, Disjoint, HasEnd, ~Lossy, [Next]_vars
    PROVE  FinWaits'
<1>1. IInv' /\ StreamStep
  BY Inductive, StepStream DEF FinWaits
<1> SUFFICES ASSUME Live'
             PROVE  Contiguous' \/ SynHeld(tcp') \/ Stale(tcp')
  BY <1>1 DEF FinWaits
<1>2. Contiguous \/ SynHeld(tcp) \/ Stale(tcp)
  <2>1. ~Live => Contiguous
    BY DEF FinWaits, Contiguous, Fresh, Untouched, Whole, Live, Shut
  <2>2. QED
    BY <2>1 DEF FinWaits
<1>3. CASE Contiguous
  BY <1>1, <1>3, UntouchedStep, WholeStep DEF Contiguous, Fresh
<1>4. CASE SynHeld(tcp)
  BY <1>4, SynHeldStep DEF FinWaits
<1>5. CASE Stale(tcp)
  BY <1>5, StaleStep DEF FinWaits
<1>6. QED
  BY <1>2, <1>3, <1>4, <1>5

\* The app's FIN is confirmed only when its whole stream was forwarded
\* (remote_seq, network.h:148), if the app's segments do not overlap and none
\* of its packets is lost on the way to handle_tcp.
THEOREM FinComplete ==
    Disjoint /\ HasEnd /\ ~Lossy /\ Spec => []FinCompletesStream
<1> SUFFICES ASSUME Disjoint, HasEnd, ~Lossy
             PROVE  Spec => []FinCompletesStream
  OBVIOUS
<1>1. Init => FinWaits
  <2> SUFFICES ASSUME Init PROVE FinWaits
    OBVIOUS
  <2>1. IInv
    BY InitGood
  <2>2. ~Live
    BY DEF Init, NoSession, Live
  <2>3. QED
    BY <2>1, <2>2 DEF FinWaits
<1>2. FinWaits /\ [Next]_vars => FinWaits'
  BY FinWaitsStep
<1>3. FinWaits => FinCompletesStream
  <2> SUFFICES ASSUME FinWaits, tcp.state \in {"CLOSE_WAIT", "LAST_ACK"},
                      tcp.forward = << >>
               PROVE  RemoteStart + 1 + tcp.sent = StreamEnd
    BY DEF FinCompletesStream
  <2>1. Live /\ tcp.state # "LISTEN"
    BY DEF Live, Shut
  <2>2. Contiguous
    BY <2>1 DEF FinWaits, SynHeld, Stale
  <2>3. Chain(tcp.forward, RemoteStart + 1 + tcp.sent, app.nxt) /\ app.nxt = StreamEnd
    BY <2>1, <2>2 DEF Contiguous, Whole
  <2>4. QED
    BY <2>3 DEF Chain
<1>4. QED
  BY <1>1, <1>2, <1>3, PTL DEF Spec
=============================================================================
