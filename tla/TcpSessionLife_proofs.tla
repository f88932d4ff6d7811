------------------------ MODULE TcpSessionLife_proofs ------------------------
(***************************************************************************)
(* TcpSession implements TcpLife, for every value of the constants: what   *)
(* SessionTable assumes of a TCP session is true of the detailed one.      *)
(***************************************************************************)
EXTENDS TcpSessionLife, TcpSession_proofs

\* The session as the table sees it.
Viewed == [stage |-> Stage, socket |-> socket]

\* A step of the detailed session is one of the table's, or none.
LifeStep == Life!Next \/ UNCHANGED Viewed

-----------------------------------------------------------------------------
(* Changes of the state that the table allows.                             *)

\* The fields of what is seen.
LEMMA ViewedFact ==
    /\ Viewed = [stage |-> Stage, socket |-> socket]
    /\ Viewed' = [stage |-> Stage', socket |-> socket']
    /\ Viewed.stage = Stage /\ Viewed.socket = socket
  BY DEF Viewed

\* A change of the stage and the socket.
LEMMA Turned ==
    ASSUME NEW st, NEW so, Stage' = st, socket' = so
    PROVE  Viewed' = Life!At(st, so)
  BY ViewedFact DEF Life!At

\* A reset.
LEMMA ResetFact ==
    ASSUME Stage' = "ENDING", socket' = socket
    PROVE  Viewed' = Life!Reset(Viewed)
  BY DEF Life!Reset, Viewed

\* The table's actions, of what is seen.
LEMMA Actions ==
    /\ Life!Monitor <=> Viewed.socket /\ Viewed' \in Life!MonitorSteps(Viewed)
    /\ Life!Check   <=> Viewed' \in Life!CheckSteps(Viewed)
    /\ Life!Event   <=> Viewed.socket /\ Viewed' \in Life!EventSteps(Viewed)
    /\ Life!Packet  <=> Viewed' \in Life!PacketSteps(Viewed)
  BY DEF Life!Monitor, Life!Check, Life!Event, Life!Packet, Viewed

\* Stages and sockets are among those that the table knows.
LEMMA StageFact ==
    /\ Stage \in {"NONE", "ACTIVE", "ENDING", "CLOSED"}
    /\ Stage = "NONE"   <=> tcp.state = "NONE"
    /\ Stage = "ENDING" <=> tcp.state = "CLOSING"
    /\ Stage = "CLOSED" <=> tcp.state = "CLOSE"
  BY DEF Stage

LEMMA StageNextFact ==
    /\ Stage' \in {"NONE", "ACTIVE", "ENDING", "CLOSED"}
    /\ Stage' = "NONE"   <=> tcp'.state = "NONE"
    /\ Stage' = "ENDING" <=> tcp'.state = "CLOSING"
    /\ Stage' = "CLOSED" <=> tcp'.state = "CLOSE"
  BY DEF Stage

\* Nothing that is seen changes.
LEMMA Unseen ==
    ASSUME tcp'.state = tcp.state, socket' = socket
    PROVE  LifeStep
  BY DEF LifeStep, Viewed, Stage

\* monitor_tcp_session: a session with a socket may be reset.
LEMMA Monitored ==
    ASSUME socket, tcp'.state = "CLOSING", socket' = socket
    PROVE  LifeStep
<1>1. Viewed' \in Life!MonitorSteps(Viewed)
  BY ResetFact, StageNextFact DEF Life!MonitorSteps
<1>2. Viewed.socket
  BY ViewedFact
<1>3. QED
  BY <1>1, <1>2, Actions DEF LifeStep, Life!Next

\* check_tcp_session closes a session with its socket.
LEMMA CheckCloses ==
    ASSUME tcp.state \notin {"NONE", "CLOSE"}, tcp'.state = "CLOSE", socket' = FALSE
    PROVE  LifeStep
<1>1. Viewed' = Life!Closed
  BY Turned, StageNextFact DEF Life!Closed
<1>2. Viewed.stage \in {"ACTIVE", "ENDING"}
  BY ViewedFact, StageFact
<1>3. Viewed' \in Life!CheckSteps(Viewed)
  BY <1>1, <1>2 DEF Life!CheckSteps
<1>4. QED
  BY <1>3, Actions DEF LifeStep, Life!Next

\* check_tcp_session removes a session that was closed before.
LEMMA CheckRemoves ==
    ASSUME tcp.state = "CLOSE", tcp'.state = "NONE", socket' = FALSE
    PROVE  LifeStep
<1>1. Viewed' = Life!Absent
  BY Turned, StageNextFact DEF Life!Absent
<1>2. Viewed.stage = "CLOSED"
  BY ViewedFact, StageFact
<1>3. Viewed' \in Life!CheckSteps(Viewed)
  BY <1>1, <1>2 DEF Life!CheckSteps
<1>4. QED
  BY <1>3, Actions DEF LifeStep, Life!Next

\* check_tcp_socket: a session that relays may be reset, or lose its socket.
LEMMA Served ==
    ASSUME socket, socket' \in BOOLEAN,
           tcp.state \notin {"NONE", "CLOSING", "CLOSE"},
           tcp'.state \notin {"NONE", "CLOSE"},
           socket' = socket \/ socket' = FALSE
    PROVE  LifeStep
<1>1. Viewed.stage = "ACTIVE" /\ Viewed.socket
  BY ViewedFact, StageFact
<1>2. CASE tcp'.state # "CLOSING" /\ socket' = socket
  <2>1. UNCHANGED Viewed
    BY <1>1, <1>2, StageFact, StageNextFact, ViewedFact
  <2>2. QED
    BY <2>1 DEF LifeStep
<1>3. CASE tcp'.state = "CLOSING" \/ socket' = FALSE
  <2>1. Stage' \in {"ACTIVE", "ENDING"}
    BY StageNextFact
  <2>2. \/ Viewed' = Life!At("ACTIVE", FALSE)
        \/ Viewed' = Life!At("ENDING", TRUE)
        \/ Viewed' = Life!At("ENDING", FALSE)
    BY <1>3, <2>1, Turned, StageNextFact
  <2>3. Viewed' \in Life!EventSteps(Viewed)
    BY <1>1, <2>2 DEF Life!EventSteps
  <2>4. QED
    BY <1>1, <2>3, Actions DEF LifeStep, Life!Next
<1>4. QED
  BY <1>2, <1>3

\* handle_tcp: a SYN opens a session.
LEMMA PacketOpens ==
    ASSUME tcp.state = "NONE", tcp'.state = "LISTEN", socket' = TRUE
    PROVE  LifeStep
<1>1. Viewed' = Life!At("ACTIVE", TRUE)
  BY Turned, StageNextFact
<1>2. Viewed.stage = "NONE"
  BY ViewedFact, StageFact
<1>3. Viewed' \in Life!PacketSteps(Viewed)
  BY <1>1, <1>2 DEF Life!PacketSteps
<1>4. QED
  BY <1>3, Actions DEF LifeStep, Life!Next

\* handle_tcp: a packet resets a session.
LEMMA PacketResets ==
    ASSUME Live, tcp'.state = "CLOSING", socket' = socket
    PROVE  LifeStep
<1>1. Viewed' = Life!Reset(Viewed)
  BY ResetFact, StageNextFact
<1>2. Viewed.stage = "ACTIVE"
  BY ViewedFact, StageFact DEF Live, Shut
<1>3. Viewed' \in Life!PacketSteps(Viewed)
  BY <1>1, <1>2 DEF Life!PacketSteps
<1>4. QED
  BY <1>3, Actions DEF LifeStep, Life!Next

\* handle_tcp: the app's FIN closes a session that the server closed before.
LEMMA PacketCloses ==
    ASSUME Live, ~socket, tcp'.state = "CLOSE", socket' = FALSE
    PROVE  LifeStep
<1>1. Viewed' = Life!Closed
  BY Turned, StageNextFact DEF Life!Closed
<1>2. Viewed.stage = "ACTIVE" /\ ~Viewed.socket
  BY ViewedFact, StageFact DEF Live, Shut
<1>3. Viewed' \in Life!PacketSteps(Viewed)
  BY <1>1, <1>2 DEF Life!PacketSteps
<1>4. QED
  BY <1>3, Actions DEF LifeStep, Life!Next

-----------------------------------------------------------------------------
(* The actions.                                                            *)

\* monitor_tcp_session: only a failure changes the state, to CLOSING.
LEMMA MonitorLives ==
    ASSUME IInv, MonitorSession
    PROVE  LifeStep
<1>1. PICK room \in Rooms, probe \in BOOLEAN, modified \in BOOLEAN, ok \in WriteOk :
         LET events == Watched(tcp, room)
             closed == tcp.state \in Transfer /\ get_send_window(tcp) = 0
             probed == IF closed /\ probe THEN WriteTcp(tcp, ok) ELSE tcp
         IN  tcp' = IF events # interest /\ ~modified
                    THEN [probed EXCEPT !.state = "CLOSING"]
                    ELSE probed
  BY DEF MonitorSession
<1> DEFINE closed == tcp.state \in Transfer /\ get_send_window(tcp) = 0
           probed == IF closed /\ probe THEN WriteTcp(tcp, ok) ELSE tcp
<1>2. tcp' = probed \/ tcp' = [probed EXCEPT !.state = "CLOSING"]
  BY <1>1
<1>3. probed \in Session /\ (probed = tcp \/ probed.state = "CLOSING")
  BY Typing, WriteFails DEF WriteTcp
<1> HIDE DEF probed
<1>4. tcp' = tcp \/ tcp'.state = "CLOSING"
  BY <1>2, <1>3 DEF Session
<1>5. socket /\ socket' = socket
  BY DEF MonitorSession
<1>6. QED
  BY <1>4, <1>5, Unseen, Monitored

\* check_tcp_session: a session that it closes is not removed by it, since its
\* clock starts again.
LEMMA CheckLives ==
    ASSUME IInv, CheckSession
    PROVE  LifeStep
<1>1. PICK sessions \in Loads :
         LET idle    == /\ tcp.state \notin Shut
                        /\ tcp.age > get_tcp_timeout(tcp, sessions)
             closing == idle \/ tcp.state = "CLOSING"
             checked == IF closing THEN [tcp EXCEPT !.state = "CLOSE", !.age = 0]
                                   ELSE tcp
             settled == IF checked.state = "CLOSE"
                        THEN [checked EXCEPT !.sent = 0, !.received = 0]
                        ELSE checked
             remove  == settled.state = "CLOSE" /\ settled.age > KeepTimeout
         IN  /\ tcp' = IF remove THEN NoSession ELSE settled
             /\ socket' = (socket /\ ~closing)
  BY DEF CheckSession
<1> DEFINE closing == \/ /\ tcp.state \notin Shut
                         /\ tcp.age > get_tcp_timeout(tcp, sessions)
                      \/ tcp.state = "CLOSING"
           checked == IF closing THEN [tcp EXCEPT !.state = "CLOSE", !.age = 0] ELSE tcp
           settled == IF checked.state = "CLOSE"
                      THEN [checked EXCEPT !.sent = 0, !.received = 0] ELSE checked
           remove  == settled.state = "CLOSE" /\ settled.age > KeepTimeout
<1>2. tcp' = (IF remove THEN NoSession ELSE settled) /\ socket' = (socket /\ ~closing)
  BY <1>1
<1>3. tcp.state # "NONE" /\ socket \in BOOLEAN
  BY DEF CheckSession, IInv, TypeOK
<1>4. CASE closing
  <2>1. checked = [tcp EXCEPT !.state = "CLOSE", !.age = 0] /\ tcp.state # "CLOSE"
    BY <1>4 DEF Shut
  <2> HIDE DEF closing
  <2>2. checked \in Session /\ checked.state = "CLOSE" /\ checked.age = 0
    BY <2>1, Typing DEF Session, States, Shut
  <2> HIDE DEF checked
  <2>3. settled.state = "CLOSE" /\ settled.age = 0
    BY <2>2 DEF Session
  <2> HIDE DEF settled
  <2>4. tcp' = settled
    BY <1>2, <2>3, TimeAssumption
  <2>5. socket' = FALSE
    BY <1>2, <1>4
  <2>6. QED
    BY <1>3, <2>1, <2>3, <2>4, <2>5, CheckCloses
<1>5. CASE ~closing
  <2>1. checked = tcp /\ socket' = socket
    BY <1>2, <1>3, <1>5
  <2> HIDE DEF closing, checked
  <2>2. settled.state = tcp.state
    BY <2>1, Typing DEF Session
  <2> HIDE DEF settled
  <2>3. CASE remove
    <3>1. tcp'.state = "NONE" /\ tcp.state = "CLOSE"
      BY <1>2, <2>2, <2>3 DEF NoSession
    <3>2. socket' = FALSE
      BY <1>3, <2>1, <3>1 DEF IInv, SocketMatchesState
    <3>3. QED
      BY <3>1, <3>2, CheckRemoves
  <2>4. CASE ~remove
    BY <1>2, <2>1, <2>2, <2>4, Unseen
  <2>5. QED
    BY <2>3, <2>4
<1>6. QED
  BY <1>4, <1>5

\* Time changes nothing that is seen.
LEMMA TickLives ==
    ASSUME IInv, Tick
    PROVE  LifeStep
<1>1. tcp'.state = tcp.state /\ socket' = socket
  BY Typing DEF Tick, Session
<1>2. QED
  BY <1>1, Unseen

\* EPOLLERR in check_tcp_socket resets the session.
LEMMA SocketErrorLives ==
    ASSUME IInv, SocketError
    PROVE  LifeStep
<1> DEFINE r == [tcp EXCEPT !.age = 0]
<1>1. r \in Session /\ r.state = tcp.state
  BY Typing DEF Session
<1>2. tcp' = write_rst(r) /\ ready # {} /\ socket' = socket
  BY DEF SocketError
<1> HIDE DEF r
<1>3. socket /\ tcp.state \notin {"NONE", "CLOSE"} /\ socket \in BOOLEAN
  BY <1>2 DEF IInv, TypeOK, ReadyHasSocket, SocketMatchesState
<1>4. tcp'.state = "CLOSING"
  BY <1>1, <1>2, <1>3 DEF write_rst, Session
<1>5. CASE tcp.state = "CLOSING"
  BY <1>2, <1>4, <1>5, Unseen
<1>6. CASE tcp.state # "CLOSING"
  BY <1>2, <1>3, <1>4, <1>6, Served
<1>7. QED
  BY <1>5, <1>6

\* The handshake (check_tcp_socket in TCP_LISTEN) keeps the socket.
LEMMA SocketConnectLives ==
    ASSUME IInv, SocketConnect
    PROVE  LifeStep
<1>1. PICK answer \in Answers, sent \in BOOLEAN, ok \in WriteOk :
         LET t == Handshake(tcp, answer)
         IN  \/ tcp' = t
             \/ tcp' = write_rst(t)
             \/ tcp' = [SynAck(t) EXCEPT !.state = "SYN_RECV", !.age = 0,
                                         !.local_seq = @ + 1]
             \/ tcp' = WriteTcp(SynAck(t), FALSE)
  <2>1. \A b \in BOOLEAN : ~b <=> b = FALSE
    OBVIOUS
  <2>2. WriteOk \subseteq BOOLEAN
    BY PeerAssumption
  <2>3. QED
    BY <2>1, <2>2 DEF SocketConnect
<1> DEFINE t == Handshake(tcp, answer)
<1>2. tcp.state = "LISTEN" /\ ready # {} /\ socket' = socket
  BY DEF SocketConnect
<1>3. t \in Session /\ t.state \in {"LISTEN", "CLOSING"}
  BY <1>2, HandshakeFact
<1>4. \/ tcp' = t
      \/ tcp' = write_rst(t)
      \/ tcp' = [SynAck(t) EXCEPT !.state = "SYN_RECV", !.age = 0, !.local_seq = @ + 1]
      \/ tcp' = WriteTcp(SynAck(t), FALSE)
  BY <1>1
<1> HIDE DEF t
<1>5. SynAck(t) \in Session
  BY <1>3 DEF SynAck, Session
<1>6. tcp'.state \in {"LISTEN", "CLOSING", "SYN_RECV"}
  BY <1>3, <1>4, <1>5 DEF write_rst, WriteTcp, Session
<1>7. socket /\ socket \in BOOLEAN
  BY <1>2 DEF IInv, TypeOK, ReadyHasSocket
<1>8. QED
  BY <1>2, <1>6, <1>7, Served

\* Relaying (check_tcp_socket): nothing is read in TCP_CLOSING, so that only a
\* session that is not torn down yet can lose its socket.
LEMMA SocketRelayLives ==
    ASSUME IInv, SocketRelay
    PROVE  LifeStep
<1>1. ready # {} /\ tcp.state # "LISTEN"
  BY DEF SocketRelay
<1>2. /\ socket /\ socket \in BOOLEAN
      /\ tcp.state \in {"SYN_RECV", "CLOSING"} \cup Transfer
  BY <1>1, Typing DEF IInv, TypeOK, ReadyHasSocket, SocketMatchesState, States, Shut
<1>3. PICK s \in Sends :
         \E opens \in {WindowOpens(AfterSend(s), room) : room \in Rooms}, ok \in WriteOk :
            LET t == Acknowledge(AfterSend(s), s.whole + s.part > 0, opens, ok)
            IN  ReadNothing(t) \/ ReadFails(t) \/ ReadData(t) \/ ReadEof(t)
  BY DEF SocketRelay
<1>4. PICK opens \in {WindowOpens(AfterSend(s), room) : room \in Rooms}, ok \in WriteOk :
         LET t == Acknowledge(AfterSend(s), s.whole + s.part > 0, opens, ok)
         IN  ReadNothing(t) \/ ReadFails(t) \/ ReadData(t) \/ ReadEof(t)
  BY <1>3
<1> DEFINE t == Acknowledge(AfterSend(s), s.whole + s.part > 0, opens, ok)
<1>5. opens \in BOOLEAN /\ ok \in BOOLEAN
  BY <1>4, WindowOpensType, PeerAssumption
<1>6. Good(tcp) /\ Agrees(tcp, app) /\ tcp.state \in {"SYN_RECV"} \cup Transfer \cup Shut
  BY <1>2 DEF IInv, Shut
<1>7. Relayed(tcp, t)
  BY <1>5, <1>6, RelayGood
<1>8. ReadNothing(t) \/ ReadFails(t) \/ ReadData(t) \/ ReadEof(t)
  BY <1>4
<1> HIDE DEF t
<1>9. Good(t) /\ t.state \in {tcp.state, "CLOSING"}
  BY <1>7 DEF Relayed
<1>10. CASE tcp.state = "CLOSING"
  <2>1. t.state = "CLOSING" /\ ~Readable(t)
    BY <1>9, <1>10, SMTT(20) DEF Readable, Transfer
  <2>2. tcp' = t /\ socket' = socket
    BY <1>8, <2>1 DEF ReadNothing, ReadFails, ReadData, ReadEof
  <2>3. QED
    BY <1>10, <2>1, <2>2, Unseen
<1>11. CASE tcp.state # "CLOSING"
  <2>1. Agrees(t, app)
    BY <1>1, <1>6, <1>7, RelayedAgrees
  <2>2. /\ app \in [open : BOOLEAN, ack : Nat, edge : Nat, nxt : Nat]
        /\ interest \in SUBSET {"IN", "OUT", "ERR"}
    BY DEF IInv, TypeOK
  <2>3. t.state \in {"SYN_RECV", "CLOSING"} \cup Transfer
    BY <1>2, <1>9
  <2>4. /\ socket' \in BOOLEAN
        /\ \/ socket' /\ tcp'.state \in {"SYN_RECV", "CLOSING"} \cup Transfer
           \/ ~socket' /\ tcp'.state \in {"FIN_WAIT1", "LAST_ACK", "CLOSING"}
    BY <1>2, <1>8, <1>9, <2>1, <2>2, <2>3, ReadsGood
  <2>5. QED
    BY <1>2, <1>11, <2>4, Served DEF Transfer
<1>12. QED
  BY <1>10, <1>11

\* A packet of a session that is found (handle_tcp): its socket stays as it
\* is, and only a FIN in FIN_WAIT1, without a socket, closes it.
LEMMA ReceiveLives ==
    ASSUME IInv, NEW p \in Arriving, Receive(p), UNCHANGED socket
    PROVE  LifeStep
<1>1. Accepts(p) /\ Live
  BY DEF Receive, Accepts
<1>2. PICK n \in 0..Len(tcp.forward) :
         /\ InsertionPoint(tcp.forward, p.seq, n)
         /\ LET t == Taken(p, n)
            IN  \/ ReceiveReset(p, t)
                \/ RepeatedSyn(p, t)
                \/ ReceiveFin(p, t)
                \/ ReceiveAck(p, t)
                \/ ReceiveOldAck(p, t)
                \/ ReceiveFutureAck(p, t)
  BY DEF Receive
<1> DEFINE t == Taken(p, n)
<1>3. /\ Good(t)
      /\ t.state = tcp.state /\ t.remote_seq = tcp.remote_seq
      /\ t.local_seq = tcp.local_seq /\ t.acked = tcp.acked
      /\ t.send_window = p.window
  BY <1>1, <1>2, TakenGood
<1>4. \/ ReceiveReset(p, t) \/ RepeatedSyn(p, t) \/ ReceiveFin(p, t)
      \/ ReceiveAck(p, t) \/ ReceiveOldAck(p, t) \/ ReceiveFutureAck(p, t)
  BY <1>2
<1> HIDE DEF t
<1>5. t \in Session /\ t.state \notin {"NONE", "CLOSING", "CLOSE"}
  BY <1>1, <1>3 DEF Good, Live, Shut
<1>6. CASE ReceiveFin(p, t)
  <2>1. \/ tcp'.state = tcp.state \/ tcp'.state = "CLOSING"
        \/ tcp.state = "ESTABLISHED" /\ tcp'.state = "CLOSE_WAIT"
        \/ tcp.state = "FIN_WAIT1" /\ tcp'.state = "CLOSE"
    BY <1>1, <1>3, <1>6, ReceiveFinStep
  <2>2. tcp.state = "FIN_WAIT1" => ~socket /\ socket' = FALSE
    BY DEF IInv, TypeOK, SocketMatchesState
  <2>3. tcp.state = "ESTABLISHED" /\ tcp'.state = "CLOSE_WAIT" => UNCHANGED Viewed
    BY DEF Viewed, Stage
  <2>4. QED
    BY <1>1, <2>1, <2>2, <2>3, Unseen, PacketResets, PacketCloses DEF LifeStep
<1>7. CASE ReceiveAck(p, t)
  <2>1. \/ tcp'.state = tcp.state \/ tcp'.state = "CLOSING"
        \/ tcp.state = "SYN_RECV" /\ tcp'.state = "ESTABLISHED"
    BY <1>1, <1>3, <1>7, ReceiveAckStep
  <2>2. tcp.state = "SYN_RECV" /\ tcp'.state = "ESTABLISHED" => UNCHANGED Viewed
    BY DEF Viewed, Stage
  <2>3. QED
    BY <1>1, <2>1, <2>2, Unseen, PacketResets DEF LifeStep
<1>8. CASE ReceiveReset(p, t) \/ RepeatedSyn(p, t) \/ ReceiveOldAck(p, t)
             \/ ReceiveFutureAck(p, t)
  <2>1. \/ tcp' = t
        \/ tcp' = [t EXCEPT !.state = "CLOSING"]
        \/ tcp' = [t EXCEPT !.acked = p.ack_seq]
    BY <1>5, <1>8 DEF ReceiveReset, RepeatedSyn, ReceiveOldAck, ReceiveFutureAck, write_rst
  <2>2. tcp'.state = tcp.state \/ tcp'.state = "CLOSING"
    BY <1>3, <1>5, <2>1 DEF Session
  <2>3. QED
    BY <1>1, <2>2, Unseen, PacketResets
<1>9. QED
  BY <1>4, <1>6, <1>7, <1>8

\* Any packet of the app.
LEMMA TunPacketLives ==
    ASSUME IInv, TunPacket
    PROVE  LifeStep
<1>1. PICK p \in Arriving :
         \/ NewSession(p)
         \/ Refused(p)
         \/ RefuseData(p) /\ UNCHANGED <<socket, interest>>
         \/ Receive(p) /\ UNCHANGED <<socket, interest>>
  BY DEF TunPacket
<1>2. CASE NewSession(p)
  <2> DEFINE t == [NoSession EXCEPT !.state = "LISTEN", !.send_window = p.window,
                                    !.remote_seq = p.seq, !.local_seq = LocalStart,
                                    !.forward = IF p.len = 0 THEN << >>
                                                ELSE <<[seq |-> p.seq, len |-> p.len,
                                                        sent |-> 0]>>]
  <2>1. PICK room \in Rooms : tcp' = [t EXCEPT !.recv_open = WindowOpens(t, room)]
    BY <1>2, Zenon DEF NewSession
  <2>2. t.state = "LISTEN"
    BY DEF NoSession
  <2>3. tcp'.state = t.state
    BY <2>1
  <2> HIDE DEF t
  <2>4. tcp.state = "NONE" /\ socket' = TRUE
    BY <1>2 DEF NewSession
  <2>5. QED
    BY <2>2, <2>3, <2>4, PacketOpens
<1>3. CASE Refused(p)
  BY <1>3, Unseen DEF Refused
<1>4. CASE RefuseData(p) /\ UNCHANGED <<socket, interest>>
  <2>1. Live /\ tcp' = write_rst(Seen(p))
    BY <1>4 DEF RefuseData
  <2>2. Seen(p) \in Session /\ Seen(p).state = tcp.state
    BY Typing, PacketFact DEF Seen, Session
  <2>3. tcp'.state = "CLOSING"
    BY <2>1, <2>2 DEF write_rst, Session, Live, Shut
  <2>4. QED
    BY <1>4, <2>1, <2>3, PacketResets
<1>5. CASE Receive(p) /\ UNCHANGED <<socket, interest>>
  BY <1>5, ReceiveLives
<1>6. QED
  BY <1>1, <1>2, <1>3, <1>4, <1>5

-----------------------------------------------------------------------------
(* The refinement.                                                         *)

\* Without a session there is nothing to see.
LEMMA InitLives ==
    ASSUME Init
    PROVE  Life!Init
<1>1. Stage = "NONE" /\ socket = FALSE
  BY DEF Init, NoSession, Stage
<1>2. QED
  BY <1>1 DEF Life!Init, Life!Absent, Life!At

\* Every step of the detailed session is seen as one of the table's, or not.
LEMMA StepLives ==
    ASSUME IInv, [Next]_vars
    PROVE  LifeStep
<1>1. CASE MonitorSession
  BY <1>1, MonitorLives
<1>2. CASE CheckSession
  BY <1>2, CheckLives
<1>3. CASE Tick
  BY <1>3, TickLives
<1>4. CASE SocketError
  BY <1>4, SocketErrorLives
<1>5. CASE SocketConnect
  BY <1>5, SocketConnectLives
<1>6. CASE SocketRelay
  BY <1>6, SocketRelayLives
<1>7. CASE TunPacket
  BY <1>7, TunPacketLives
<1>8. CASE UNCHANGED <<tcp, socket>>
  BY <1>8, Unseen
<1>9. QED
  BY <1>1, <1>2, <1>3, <1>4, <1>5, <1>6, <1>7, <1>8
     DEF Next, SkipMonitor, SkipCheck, EpollWait, EndBatch, vars

\* Whatever the app, the server and the clock do, a session leaves the list
\* only by the stages of TcpStages, with its socket closed; SessionTable may
\* stand on them.
THEOREM Implementation == Spec => ImplementsLife
<1>1. Init => Life!Init
  BY InitLives
<1>2. IInv /\ [Next]_vars => [Life!Next]_[stage |-> Stage, socket |-> socket]
  BY StepLives DEF LifeStep, Viewed
<1>3. QED
  BY <1>1, <1>2, Invariance, PTL DEF Spec, ImplementsLife, Life!Spec
=============================================================================
