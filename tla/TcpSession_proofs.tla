-------------------------- MODULE TcpSession_proofs --------------------------
(***************************************************************************)
(* Theorems about TcpSession, for every value of its constants.            *)
(***************************************************************************)
EXTENDS TcpSession, TLAPS

-----------------------------------------------------------------------------
(* The queue.                                                              *)

\* Insertion at position n + 1 keeps what is before it and shifts the rest.
LEMMA InsertFact ==
    ASSUME NEW q \in Seq(Queued), NEW n \in 0..Len(q), NEW e \in Queued
    PROVE  /\ InsertAt(q, n + 1, e) \in Seq(Queued)
           /\ Len(InsertAt(q, n + 1, e)) = Len(q) + 1
           /\ \A i \in 1..(Len(q) + 1) :
                 InsertAt(q, n + 1, e)[i] = IF i <= n THEN q[i]
                                            ELSE IF i = n + 1 THEN e ELSE q[i - 1]
<1> DEFINE front == SubSeq(q, 1, n)
           back  == SubSeq(q, n + 1, Len(q))
<1>1. /\ front \in Seq(Queued) /\ Len(front) = n
      /\ \A i \in 1..n : front[i] = q[i]
  OBVIOUS
<1>2. /\ back \in Seq(Queued) /\ Len(back) = Len(q) - n
      /\ \A i \in 1..(Len(q) - n) : back[i] = q[n + i]
  OBVIOUS
<1>3. InsertAt(q, n + 1, e) = (front \o <<e>>) \o back
  <2>1. (n + 1) - 1 = n
    OBVIOUS
  <2>2. QED
    BY <2>1, Zenon DEF InsertAt
<1> HIDE DEF front, back
<1> DEFINE head == front \o <<e>>
<1>4. /\ head \in Seq(Queued) /\ Len(head) = n + 1
      /\ \A i \in 1..n : head[i] = q[i]
      /\ head[n + 1] = e
  BY <1>1
<1> HIDE DEF head
<1> DEFINE all == head \o back
<1>5. /\ all \in Seq(Queued) /\ Len(all) = Len(q) + 1
      /\ \A i \in 1..(n + 1) : all[i] = head[i]
      /\ \A i \in 1..(Len(q) - n) : all[n + 1 + i] = back[i]
  BY <1>2, <1>4
<1>6. \A i \in (n + 2)..(Len(q) + 1) : all[i] = q[i - 1]
  <2> TAKE i \in (n + 2)..(Len(q) + 1)
  <2> DEFINE k == i - (n + 1)
  <2>1. k \in 1..(Len(q) - n) /\ n + 1 + k = i /\ n + k = i - 1
    OBVIOUS
  <2> HIDE DEF all, k
  <2>2. all[n + 1 + k] = back[k]
    BY <1>5, <2>1
  <2>3. back[k] = q[n + k]
    BY <1>2, <2>1
  <2>4. QED
    BY <2>1, <2>2, <2>3, Zenon
<1> HIDE DEF all
<1>7. InsertAt(q, n + 1, e) = all
  BY <1>3 DEF all, head
<1>8. QED
  BY <1>4, <1>5, <1>6, <1>7

\* Insertion keeps the queue in order, when a partly sent head stays the head.
LEMMA InsertOrdered ==
    ASSUME NEW q \in Seq(Queued), NEW seq \in Nat, NEW len \in Nat \ {0},
           NEW n \in 0..Len(q),
           Ordered(q), InsertionPoint(q, seq, n),
           ~(n < Len(q) /\ q[n + 1].seq = seq),
           Len(q) > 0 /\ q[1].sent > 0 => q[1].seq < seq
    PROVE  Ordered(InsertAt(q, n + 1, [seq |-> seq, len |-> len, sent |-> 0]))
<1> DEFINE e == [seq |-> seq, len |-> len, sent |-> 0]
           r == InsertAt(q, n + 1, e)
<1>1. e \in Queued /\ e.seq = seq /\ e.len = len /\ e.sent = 0
  BY DEF Queued
<1> HIDE DEF e
<1>2. /\ r \in Seq(Queued)
      /\ Len(r) = Len(q) + 1
      /\ \A i \in 1..(Len(q) + 1) :
            r[i] = IF i <= n THEN q[i] ELSE IF i = n + 1 THEN e ELSE q[i - 1]
  BY <1>1, InsertFact
<1> HIDE DEF r
<1>3. \A i \in 1..Len(q) : /\ q[i].seq \in Nat /\ q[i].len \in Nat /\ q[i].sent \in Nat
  <2> TAKE i \in 1..Len(q)
  <2>1. q[i] \in Queued
    OBVIOUS
  <2>2. QED
    BY <2>1 DEF Queued
<1>4. \A i \in (n + 1)..Len(q) : seq < q[i].seq
  <2> TAKE i \in (n + 1)..Len(q)
  <2>1. seq < q[n + 1].seq
    BY <1>3 DEF InsertionPoint
  <2>2. i = n + 1 \/ q[n + 1].seq < q[i].seq
    BY DEF Ordered
  <2>3. QED
    BY <1>3, <2>1, <2>2
<1>5. \A i, j \in 1..Len(r) : i < j => r[i].seq < r[j].seq
  <2> SUFFICES ASSUME NEW i \in 1..Len(r), NEW j \in 1..Len(r), i < j
               PROVE  r[i].seq < r[j].seq
    OBVIOUS
  <2>1. CASE j <= n
    <3>1. /\ r[i] = q[i] /\ r[j] = q[j]
          /\ i \in 1..Len(q) /\ j \in 1..Len(q)
      BY <1>2, <2>1
    <3>2. QED
      BY <3>1 DEF Ordered
  <2>2. CASE j = n + 1
    BY <1>1, <1>2, <2>2 DEF InsertionPoint
  <2>3. CASE i = n + 1
    BY <1>1, <1>2, <1>4, <2>3
  <2>4. CASE i <= n /\ j > n + 1
    BY <1>2, <2>4 DEF Ordered
  <2>5. CASE i > n + 1
    <3>1. /\ r[i] = q[i - 1] /\ r[j] = q[j - 1]
          /\ i - 1 \in 1..Len(q) /\ j - 1 \in 1..Len(q) /\ i - 1 < j - 1
      BY <1>2, <2>5
    <3>2. QED
      BY <3>1 DEF Ordered
  <2>6. QED
    BY <2>1, <2>2, <2>3, <2>4, <2>5
<1>6. \A i \in 1..Len(r) : r[i].sent < r[i].len /\ (i > 1 => r[i].sent = 0)
  <2> TAKE i \in 1..Len(r)
  <2>1. CASE i <= n
    BY <1>2, <2>1 DEF Ordered
  <2>2. CASE i = n + 1
    <3>1. r[i] = e
      BY <1>2, <2>2
    <3>2. QED
      BY <1>1, <3>1
  <2>3. CASE i > n + 1
    <3>1. r[i] = q[i - 1] /\ i - 1 \in 1..Len(q)
      BY <1>2, <2>3
    <3>2. q[i - 1].sent < q[i - 1].len
      BY <3>1 DEF Ordered
    <3>3. q[i - 1].sent = 0
      <4>1. CASE i - 1 > 1
        BY <3>1, <4>1 DEF Ordered
      <4>2. CASE i - 1 = 1
        <5>1. n = 0 /\ seq < q[1].seq
          BY <1>4, <2>3, <3>1, <4>2
        <5>2. QED
          BY <1>3, <3>1, <4>2, <5>1
      <4>3. QED
        BY <3>1, <4>1, <4>2
    <3>4. QED
      BY <3>1, <3>2, <3>3
  <2>4. QED
    BY <1>2, <2>1, <2>2, <2>3
<1>7. QED
  BY <1>5, <1>6 DEF Ordered, r, e

-----------------------------------------------------------------------------
(* The inductive invariant.                                                *)

\* Live, of a session t.
LiveSession(t) == t.state \notin {"NONE"} \cup Shut

\* A partly sent head of the queue continues the stream at remote_seq: what
\* queue_tcp lets in therefore never goes before it.
PartialHead(t) ==
    LiveSession(t) /\ t.forward # << >> /\ t.forward[1].sent > 0
        => /\ t.state # "LISTEN"
           /\ t.remote_seq = t.forward[1].seq + t.forward[1].sent

\* AcksOnlyForwarded and ReadIsDelivered, of a session t.
Confirms(t) ==
    /\ t.state = "LISTEN" => t.sent = 0 /\ t.remote_seq = RemoteStart
    /\ t.state \in {"SYN_RECV", "ESTABLISHED", "FIN_WAIT1"}
          => t.remote_seq = RemoteStart + 1 + t.sent
    /\ t.state \in {"CLOSE_WAIT", "LAST_ACK"}
          => t.remote_seq = RemoteStart + 1 + t.sent
                                + (IF t.forward = << >> THEN 1 ELSE 0)

Delivers(t) ==
    /\ t.state = "LISTEN" => t.local_seq = LocalStart /\ t.received = 0
    /\ t.state \in {"SYN_RECV"} \cup Transfer
          => t.local_seq = LocalStart + 1 + t.received
    /\ t.state \in {"FIN_WAIT1", "LAST_ACK"}
          => t.local_seq = LocalStart + 1 + t.received + 1

\* The SOCKS5 handshake goes as far as the session's state says.
Handshaken(t) ==
    t.state = "LISTEN"
        => t.socks5 \in IF Proxy THEN {"NONE", "HELLO", "AUTH", "CONNECT"} ELSE {"NONE"}


\* What holds of the session alone.
Good(t) ==
    /\ t \in Session
    /\ Ordered(t.forward)
    /\ PartialHead(t)
    /\ Confirms(t)
    /\ Delivers(t)
    /\ Handshaken(t)
    /\ LiveSession(t) => t.acked <= t.local_seq

\* What relates the session t to what the app a was told.
Agrees(t, a) ==
    /\ LiveSession(t) /\ t.state # "LISTEN" => a.open /\ a.ack <= t.local_seq
    /\ t.state \in Transfer => /\ t.acked <= a.ack
                               /\ t.acked + t.send_window <= a.edge
                               /\ t.local_seq <= a.edge

IInv ==
    /\ Good(tcp)
    /\ Agrees(tcp, app)
    /\ TypeOK
    /\ SocketMatchesState
    /\ ReadyHasSocket

-----------------------------------------------------------------------------
(* What the operators on a session keep.                                   *)

\* A session being torn down only has to be well formed.
LEMMA ShutGood ==
    ASSUME NEW t \in Session, Ordered(t.forward), NEW u \in Session,
           u.state \in Shut \cup {"NONE"}, u.forward = t.forward
    PROVE  Good(u) /\ \A a : Agrees(u, a)
  BY DEF Good, PartialHead, Confirms, Delivers, Handshaken, LiveSession, Agrees,
         Shut, Transfer

\* A reset keeps the session's data and starts its teardown.
LEMMA ResetGood ==
    ASSUME NEW t \in Session, Ordered(t.forward)
    PROVE  /\ write_rst(t) \in Session
           /\ write_rst(t).state = IF t.state = "CLOSE" THEN "CLOSE" ELSE "CLOSING"
           /\ Good(write_rst(t))
           /\ \A a : Agrees(write_rst(t), a)
<1>1. /\ write_rst(t) \in Session
      /\ write_rst(t).state = IF t.state = "CLOSE" THEN "CLOSE" ELSE "CLOSING"
      /\ write_rst(t).forward = t.forward
  BY DEF write_rst, Session, States, Shut
<1>2. write_rst(t).state \in Shut \cup {"NONE"}
  BY <1>1 DEF Shut
<1>3. QED
  BY <1>1, <1>2, ShutGood

\* So does a failing write to the tun device.
LEMMA WriteFails ==
    ASSUME NEW t \in Session, Ordered(t.forward)
    PROVE  /\ WriteTcp(t, FALSE) \in Session
           /\ WriteTcp(t, FALSE).state = "CLOSING"
           /\ Good(WriteTcp(t, FALSE))
           /\ \A a : Agrees(WriteTcp(t, FALSE), a)
<1>1. /\ WriteTcp(t, FALSE) \in Session
      /\ WriteTcp(t, FALSE).state = "CLOSING"
      /\ WriteTcp(t, FALSE).forward = t.forward
  BY DEF WriteTcp, Session, States, Shut
<1>2. WriteTcp(t, FALSE).state \in Shut \cup {"NONE"}
  BY <1>1 DEF Shut
<1>3. QED
  BY <1>1, <1>2, ShutGood

\* The clock of a session, its send window and its receive window matter to
\* no other part of it.
LEMMA ClockGood ==
    ASSUME NEW t, Good(t), NEW u \in Session,
           u.state = t.state, u.socks5 = t.socks5, u.remote_seq = t.remote_seq,
           u.local_seq = t.local_seq, u.acked = t.acked, u.sent = t.sent,
           u.received = t.received, u.forward = t.forward
    PROVE  Good(u)
  BY DEF Good, PartialHead, Confirms, Delivers, Handshaken, LiveSession

\* queue_tcp changes the queue only, and keeps what holds of the session.
LEMMA QueueGood ==
    ASSUME NEW t, Good(t), LiveSession(t), t.state \notin {"CLOSE_WAIT", "LAST_ACK"},
           NEW seq \in Nat, NEW len \in Nat \ {0}, NEW n \in 0..Len(t.forward),
           InsertionPoint(t.forward, seq, n)
    PROVE  LET u == queue_tcp(t, seq, len, n)
           IN  /\ Good(u)
               /\ u.state = t.state /\ u.remote_seq = t.remote_seq
               /\ u.local_seq = t.local_seq /\ u.acked = t.acked
               /\ u.send_window = t.send_window
<1> DEFINE q == t.forward
           e == [seq |-> seq, len |-> len, sent |-> 0]
           r == InsertAt(q, n + 1, e)
           u == queue_tcp(t, seq, len, n)
<1>1. /\ t \in Session /\ t.forward \in Seq(Queued) /\ t.remote_seq \in Nat
      /\ Ordered(t.forward) /\ PartialHead(t)
  BY DEF Good, Session
<1>2. CASE seq < t.remote_seq \/ (n < Len(t.forward) /\ t.forward[n + 1].seq = seq)
  <2>1. u = t
    BY <1>2 DEF queue_tcp
  <2>2. QED
    BY <2>1
<1>3. CASE ~(seq < t.remote_seq \/ (n < Len(t.forward) /\ t.forward[n + 1].seq = seq))
  <2>1. u = [t EXCEPT !.forward = r]
    BY <1>3 DEF queue_tcp
  <2>2. e \in Queued /\ e.seq = seq /\ e.sent = 0
    BY DEF Queued
  <2>3. /\ r \in Seq(Queued) /\ Len(r) = Len(t.forward) + 1
        /\ r[1] = IF n = 0 THEN e ELSE t.forward[1]
    <3> HIDE DEF e
    <3>1. q \in Seq(Queued) /\ n \in 0..Len(q)
      BY <1>1
    <3> HIDE DEF q
    <3>2. /\ r \in Seq(Queued) /\ Len(r) = Len(q) + 1
          /\ \A i \in 1..(Len(q) + 1) :
                r[i] = IF i <= n THEN q[i] ELSE IF i = n + 1 THEN e ELSE q[i - 1]
      BY <2>2, <3>1, InsertFact
    <3> HIDE DEF r
    <3>3. /\ r \in Seq(Queued) /\ Len(r) = Len(q) + 1
          /\ r[1] = IF n = 0 THEN e ELSE q[1]
      BY <3>1, <3>2
    <3>4. QED
      BY <3>3 DEF q
  <2>4. Len(t.forward) > 0 /\ t.forward[1].sent > 0 => t.forward[1].seq < seq
    <3> SUFFICES ASSUME Len(t.forward) > 0, t.forward[1].sent > 0
                 PROVE  t.forward[1].seq < seq
      OBVIOUS
    <3>1. t.forward[1] \in Queued
      BY <1>1
    <3>2. t.forward[1].seq \in Nat /\ t.forward[1].sent \in Nat
      BY <3>1 DEF Queued
    <3>3. t.remote_seq = t.forward[1].seq + t.forward[1].sent
      BY <1>1 DEF PartialHead
    <3>4. QED
      BY <1>1, <1>3, <3>2, <3>3
  <2>5. Ordered(r)
    BY <1>1, <1>3, <2>4, InsertOrdered
  <2> HIDE DEF r, e
  <2>6. /\ u \in Session /\ u.forward = r
        /\ u.state = t.state /\ u.socks5 = t.socks5 /\ u.remote_seq = t.remote_seq
        /\ u.local_seq = t.local_seq /\ u.acked = t.acked /\ u.sent = t.sent
        /\ u.received = t.received /\ u.send_window = t.send_window
    BY <1>1, <2>1, <2>3 DEF Session
  <2> HIDE DEF u
  <2>7. PartialHead(u)
    <3> SUFFICES ASSUME u.forward[1].sent > 0
                 PROVE  /\ u.state # "LISTEN"
                        /\ u.remote_seq = u.forward[1].seq + u.forward[1].sent
      BY DEF PartialHead
    <3>1. n # 0 /\ u.forward[1] = t.forward[1]
      BY <2>2, <2>3, <2>6
    <3>2. t.forward # << >>
      BY <1>1, <3>1
    <3>3. QED
      BY <1>1, <2>6, <3>1, <3>2 DEF PartialHead
  <2>8. Confirms(u) /\ Delivers(u) /\ Handshaken(u)
    BY <2>6 DEF Good, Confirms, Delivers, Handshaken
  <2>9. QED
    BY <2>5, <2>6, <2>7, <2>8 DEF Good, LiveSession, u
<1>4. QED
  BY <1>2, <1>3

\* The end of the whole segments that can be sent lies beyond remote_seq.
LEMMA SendableEnd ==
    ASSUME NEW t \in Session, Ordered(t.forward), NEW room,
           NEW j \in 1..Len(t.forward), Sendable(t, room, j)
    PROVE  SegmentEnd(t.forward[j]) \in Nat /\ SegmentEnd(t.forward[j]) > t.remote_seq
<1> DEFINE q == t.forward
<1>1. q \in Seq(Queued) /\ t.remote_seq \in Nat
  BY DEF Session
<1>2. \A i \in 1..Len(q) : /\ q[i].seq \in Nat /\ q[i].len \in Nat /\ q[i].sent \in Nat
                           /\ SegmentEnd(q[i]) \in Nat
                           /\ q[i].sent < q[i].len
                           /\ i > 1 => q[i].sent = 0
  <2> TAKE i \in 1..Len(q)
  <2>1. q[i] \in Queued
    BY <1>1
  <2>2. q[i].seq \in Nat /\ q[i].len \in Nat /\ q[i].sent \in Nat
    BY <2>1 DEF Queued
  <2>3. QED
    BY <2>2 DEF Ordered, SegmentEnd
<1>3. \A i \in 1..j :
         q[i].seq + q[i].sent = IF i = 1 THEN t.remote_seq ELSE SegmentEnd(q[i - 1])
  BY DEF Sendable
<1>4. SegmentEnd(q[1]) > t.remote_seq
  <2>1. q[1].seq + q[1].sent = t.remote_seq
    BY <1>3
  <2>2. QED
    BY <1>1, <1>2, <2>1 DEF SegmentEnd
<1>5. CASE j = 1
  BY <1>2, <1>4, <1>5
<1>6. CASE j # 1
  <2>1. 2 \in 1..j /\ 2 \in 1..Len(q) /\ 1 \in 1..Len(q)
    BY <1>1, <1>6
  <2>2. q[2].seq + q[2].sent = SegmentEnd(q[1])
    BY <1>3, <2>1
  <2>3. q[2].seq > t.remote_seq
    BY <1>1, <1>2, <1>4, <2>1, <2>2
  <2>4. q[2].seq <= q[j].seq
    <3>1. CASE j = 2
      BY <1>2, <2>1, <3>1
    <3>2. CASE j # 2
      <4>1. q[2].seq < q[j].seq
        BY <1>6, <2>1, <3>2 DEF Ordered
      <4>2. QED
        BY <1>2, <2>1, <4>1
    <3>3. QED
      BY <3>1, <3>2
  <2> HIDE DEF q
  <2>5. q[j].seq > t.remote_seq
    BY <1>1, <1>2, <2>1, <2>3, <2>4 DEF q
  <2>6. SegmentEnd(q[j]) > t.remote_seq
    BY <1>1, <1>2, <2>5 DEF SegmentEnd, q
  <2>7. QED
    BY <1>2, <2>6 DEF q
<1>7. QED
  BY <1>5, <1>6

\* What is left of an ordered queue is ordered.
LEMMA RestOrdered ==
    ASSUME NEW q \in Seq(Queued), Ordered(q), NEW j \in 0..Len(q)
    PROVE  LET rest == SubSeq(q, j + 1, Len(q))
           IN  /\ rest \in Seq(Queued) /\ Len(rest) = Len(q) - j
               /\ Ordered(rest)
               /\ j < Len(q) => rest[1] = q[j + 1]
<1> DEFINE rest == SubSeq(q, j + 1, Len(q))
<1>1. /\ rest \in Seq(Queued) /\ Len(rest) = Len(q) - j
      /\ \A i \in 1..(Len(q) - j) : rest[i] = q[j + i]
  OBVIOUS
<1> HIDE DEF rest
<1>2. Ordered(rest)
  <2>1. \A i, k \in 1..Len(rest) : i < k => rest[i].seq < rest[k].seq
    <3> SUFFICES ASSUME NEW i \in 1..Len(rest), NEW k \in 1..Len(rest), i < k
                 PROVE  rest[i].seq < rest[k].seq
      OBVIOUS
    <3>1. /\ rest[i] = q[j + i] /\ rest[k] = q[j + k]
          /\ j + i \in 1..Len(q) /\ j + k \in 1..Len(q) /\ j + i < j + k
      BY <1>1
    <3>2. QED
      BY <3>1 DEF Ordered
  <2>2. \A i \in 1..Len(rest) : /\ rest[i].sent < rest[i].len
                                /\ i > 1 => rest[i].sent = 0
    <3> TAKE i \in 1..Len(rest)
    <3>1. rest[i] = q[j + i] /\ j + i \in 1..Len(q) /\ (i > 1 => j + i > 1)
      BY <1>1
    <3>2. QED
      BY <3>1 DEF Ordered
  <2>3. QED
    BY <2>1, <2>2 DEF Ordered
<1>3. j < Len(q) => rest[1] = q[j + 1]
  BY <1>1
<1>4. QED
  BY <1>1, <1>2, <1>3 DEF rest

\* A part of the head is sent.
LEMMA PartOrdered ==
    ASSUME NEW q \in Seq(Queued), Ordered(q), Len(q) > 0,
           NEW k \in Nat, k < q[1].len - q[1].sent
    PROVE  LET u == <<[q[1] EXCEPT !.sent = @ + k]>> \o Tail(q)
           IN  /\ u \in Seq(Queued) /\ Len(u) = Len(q)
               /\ Ordered(u)
               /\ u[1].seq = q[1].seq /\ u[1].sent = q[1].sent + k
<1> DEFINE e == [q[1] EXCEPT !.sent = @ + k]
           rest == Tail(q)
           u == <<e>> \o rest
<1>1. q[1] \in Queued
  OBVIOUS
<1>2. /\ e \in Queued /\ e.seq = q[1].seq /\ e.len = q[1].len
      /\ e.sent = q[1].sent + k /\ e.sent < e.len
  <2> DEFINE Sent(h) == [h EXCEPT !.sent = @ + k]
  <2>1. ASSUME NEW h \in Queued, k < h.len - h.sent
        PROVE  /\ Sent(h) \in Queued /\ Sent(h).seq = h.seq /\ Sent(h).len = h.len
               /\ Sent(h).sent = h.sent + k /\ Sent(h).sent < h.len
    <3>1. h.seq \in Nat /\ h.len \in Nat \ {0} /\ h.sent \in Nat
      BY DEF Queued
    <3>2. h.sent + k \in Nat /\ h.sent + k < h.len
      BY <2>1, <3>1
    <3>3. /\ Sent(h).seq = h.seq /\ Sent(h).len = h.len
          /\ Sent(h).sent = h.sent + k
      BY DEF Queued
    <3>4. Sent(h) \in Queued
      BY <3>2 DEF Queued
    <3>5. QED
      BY <3>2, <3>3, <3>4
  <2>2. e = Sent(q[1])
    OBVIOUS
  <2> HIDE DEF Sent, e
  <2>3. QED
    BY <1>1, <2>1, <2>2
<1> HIDE DEF e
<1>3. /\ rest \in Seq(Queued) /\ Len(rest) = Len(q) - 1
      /\ \A i \in 1..(Len(q) - 1) : rest[i] = q[i + 1]
  OBVIOUS
<1> HIDE DEF rest
<1>4. /\ u \in Seq(Queued) /\ Len(u) = Len(q)
      /\ u[1] = e
      /\ \A i \in 2..Len(q) : u[i] = rest[i - 1]
  BY <1>2, <1>3
<1> HIDE DEF u
<1>5. \A i \in 2..Len(q) : u[i] = q[i]
  <2> TAKE i \in 2..Len(q)
  <2>1. i - 1 \in 1..(Len(q) - 1) /\ (i - 1) + 1 = i
    OBVIOUS
  <2>2. QED
    BY <1>3, <1>4, <2>1
<1>6. \A i \in 1..Len(q) : /\ u[i].seq = q[i].seq
                           /\ u[i].sent < u[i].len
                           /\ i > 1 => u[i].sent = 0
  <2> TAKE i \in 1..Len(q)
  <2>1. CASE i = 1
    BY <1>2, <1>4, <2>1
  <2>2. CASE i > 1
    <3>1. u[i] = q[i]
      BY <1>5, <2>2
    <3>2. QED
      BY <2>2, <3>1 DEF Ordered
  <2>3. QED
    BY <2>1, <2>2
<1>7. Ordered(u)
  BY <1>4, <1>6 DEF Ordered
<1>8. QED
  BY <1>2, <1>4, <1>7 DEF u, e, rest

\* Forwarding moves remote_seq and the count of bytes sent by as much, and
\* leaves an ordered queue whose partly sent head continues at remote_seq.
LEMMA ForwardGood ==
    ASSUME NEW t, Good(t), t.state # "LISTEN", NEW room,
           NEW j \in 0..Len(t.forward), NEW k \in Nat, NEW failed \in BOOLEAN,
           ForwardLoop(t, room, j, k, failed)
    PROVE  LET u == Forward(t, j, k)
           IN  /\ u \in Session
               /\ Ordered(u.forward)
               /\ PartialHead(u)
               /\ u.remote_seq >= t.remote_seq
               /\ u.sent = t.sent + (u.remote_seq - t.remote_seq)
               /\ t.forward = << >> => j = 0 /\ k = 0
               /\ j = 0 /\ k = 0 => u.remote_seq = t.remote_seq /\ u.forward = t.forward
               /\ u.state = t.state /\ u.socks5 = t.socks5
               /\ u.local_seq = t.local_seq /\ u.acked = t.acked
               /\ u.send_window = t.send_window /\ u.received = t.received
<1> DEFINE q == t.forward
           rest == SubSeq(q, j + 1, Len(q))
           part == <<[rest[1] EXCEPT !.sent = @ + k]>> \o Tail(rest)
           upto == IF j = 0 THEN t.remote_seq + k ELSE SegmentEnd(q[j]) + k
           queue == IF k = 0 THEN rest ELSE part
           u == Forward(t, j, k)
<1>1. /\ t \in Session /\ q \in Seq(Queued) /\ Ordered(q)
      /\ t.remote_seq \in Nat /\ t.sent \in Nat
  BY DEF Good, Session
<1>2. u = [t EXCEPT !.remote_seq = upto, !.sent = @ + (upto - t.remote_seq),
                    !.forward = queue]
  BY DEF Forward
<1>3. /\ rest \in Seq(Queued) /\ Len(rest) = Len(q) - j
      /\ Ordered(rest)
      /\ j < Len(q) => rest[1] = q[j + 1]
  BY <1>1, RestOrdered
<1>4. upto \in Nat /\ upto >= t.remote_seq
  <2>1. CASE j = 0
    BY <1>1, <2>1
  <2>2. CASE j # 0
    <3>1. j \in 1..Len(t.forward) /\ Sendable(t, room, j)
      BY <2>2 DEF ForwardLoop
    <3>2. SegmentEnd(q[j]) \in Nat /\ SegmentEnd(q[j]) > t.remote_seq
      BY <1>1, <3>1, SendableEnd
    <3> HIDE DEF q
    <3>3. QED
      BY <1>1, <2>2, <3>2
  <2>3. QED
    BY <2>1, <2>2
<1>5. ASSUME k > 0
      PROVE  /\ j < Len(q)
             /\ k < rest[1].len - rest[1].sent
             /\ rest[1].seq + rest[1].sent + k = upto
  <2>1. Sendable(t, room, j + 1)
    BY <1>5 DEF ForwardLoop
  <2>2. j + 1 <= Len(q)
    BY <2>1 DEF Sendable
  <2>3. j < Len(q) /\ rest[1] = q[j + 1] /\ j + 1 \in 1..Len(q)
    BY <1>1, <1>3, <2>2
  <2>4. k < rest[1].len - rest[1].sent
    BY <1>5, <2>3 DEF ForwardLoop
  <2>5. q[j + 1].seq + q[j + 1].sent
           = IF j + 1 = 1 THEN t.remote_seq ELSE SegmentEnd(q[(j + 1) - 1])
    BY <2>1 DEF Sendable
  <2>6. (j + 1) - 1 = j /\ (j + 1 = 1 <=> j = 0)
    OBVIOUS
  <2>7. rest[1].seq + rest[1].sent = IF j = 0 THEN t.remote_seq ELSE SegmentEnd(q[j])
    BY <2>3, <2>5, <2>6, Zenon
  <2> HIDE DEF rest, q
  <2>8. rest[1].seq + rest[1].sent + k = upto
    <3>1. CASE j = 0
      BY <2>7, <3>1
    <3>2. CASE j # 0
      BY <2>7, <3>2
    <3>3. QED
      BY <3>1, <3>2
  <2>9. QED
    BY <2>3, <2>4, <2>8
<1> HIDE DEF rest
<1>6. ASSUME k > 0
      PROVE  /\ part \in Seq(Queued) /\ Ordered(part)
             /\ part[1].seq = rest[1].seq /\ part[1].sent = rest[1].sent + k
  <2>1. Len(rest) > 0
    BY <1>1, <1>3, <1>5, <1>6
  <2>2. QED
    BY <1>3, <1>5, <1>6, <2>1, PartOrdered
<1>7. queue \in Seq(Queued) /\ Ordered(queue)
  BY <1>3, <1>6
<1>8. j = 0 /\ k = 0 => queue = q /\ upto = t.remote_seq
  BY <1>1 DEF rest
<1>9. q = << >> => j = 0 /\ k = 0
  BY <1>1, <1>5
<1>10. queue # << >> /\ queue[1].sent > 0
          => (j = 0 /\ k = 0) \/ upto = queue[1].seq + queue[1].sent
  <2> SUFFICES ASSUME queue # << >>, queue[1].sent > 0, ~(j = 0 /\ k = 0)
               PROVE  upto = queue[1].seq + queue[1].sent
    OBVIOUS
  <2>1. CASE k = 0
    <3>1. j > 0 /\ queue = rest /\ j < Len(q)
      BY <1>1, <1>3, <2>1
    <3>2. queue[1] = q[j + 1] /\ j + 1 \in 1..Len(q) /\ j + 1 > 1
      BY <1>1, <1>3, <3>1
    <3>3. queue[1].sent = 0
      BY <1>1, <3>2 DEF Ordered
    <3>4. QED
      BY <3>3
  <2>2. CASE k > 0
    <3>1. rest[1] \in Queued
      BY <1>3, <1>5, <2>2
    <3>2. rest[1].seq \in Nat /\ rest[1].sent \in Nat
      BY <3>1 DEF Queued
    <3>3. queue = part
      BY <2>2
    <3> HIDE DEF queue, part, upto
    <3>4. QED
      BY <1>4, <1>5, <1>6, <2>2, <3>2, <3>3
  <2>3. QED
    BY <2>1, <2>2
<1> HIDE DEF q, part, upto, queue, u
<1>11. /\ u \in Session /\ u.forward = queue /\ u.remote_seq = upto
       /\ u.sent = t.sent + (upto - t.remote_seq)
       /\ u.state = t.state /\ u.socks5 = t.socks5
       /\ u.local_seq = t.local_seq /\ u.acked = t.acked
       /\ u.send_window = t.send_window /\ u.received = t.received
  <2>1. t.sent + (upto - t.remote_seq) \in Nat
    BY <1>1, <1>4
  <2>2. QED
    BY <1>1, <1>2, <1>4, <1>7, <2>1 DEF Session
<1>12. PartialHead(u)
  <2> SUFFICES ASSUME LiveSession(u), u.forward # << >>, u.forward[1].sent > 0
               PROVE  /\ u.state # "LISTEN"
                      /\ u.remote_seq = u.forward[1].seq + u.forward[1].sent
    BY DEF PartialHead
  <2>1. CASE j = 0 /\ k = 0
    <3>1. u.forward = t.forward /\ u.remote_seq = t.remote_seq /\ u.state = t.state
      BY <1>8, <1>11, <2>1 DEF q
    <3>2. QED
      BY <3>1 DEF Good, PartialHead, LiveSession
  <2>2. CASE ~(j = 0 /\ k = 0)
    BY <1>10, <1>11, <2>2
  <2>3. QED
    BY <2>1, <2>2
<1>13. QED
  BY <1>4, <1>7, <1>8, <1>9, <1>11, <1>12 DEF q, u

\* Whether the receive window is open is a Boolean.
LEMMA WindowOpensType ==
    ASSUME NEW t, NEW room
    PROVE  WindowOpens(t, room) \in BOOLEAN
<1> DEFINE n == FoldLeft(LAMBDA m, g : m + (g.len - g.sent), 0, t.forward)
<1>1. WindowOpens(t, room) = (n < room)
  BY Zenon DEF WindowOpens
<1> HIDE DEF n
<1>2. (n < room) \in BOOLEAN
  OBVIOUS
<1>3. QED
  BY <1>1, <1>2

\* A write to the tun device changes the state only, if it fails.
LEMMA WriteFact ==
    ASSUME NEW t \in Session, NEW ok \in BOOLEAN
    PROVE  LET u == WriteTcp(t, ok)
           IN  /\ u \in Session
               /\ u.state \in {t.state, "CLOSING"}
               /\ u.socks5 = t.socks5 /\ u.remote_seq = t.remote_seq
               /\ u.local_seq = t.local_seq /\ u.acked = t.acked
               /\ u.send_window = t.send_window /\ u.sent = t.sent
               /\ u.received = t.received /\ u.forward = t.forward
<1>1. CASE ok
  BY <1>1 DEF WriteTcp
<1>2. CASE ~ok
  BY <1>2 DEF WriteTcp, Session, States, Shut
<1>3. QED
  BY <1>1, <1>2

\* The session u that forwarding and acknowledging make of the session t.
Relayed(t, u) ==
    /\ Good(u)
    /\ u.state \in {t.state, "CLOSING"}
    /\ u.remote_seq >= t.remote_seq
    /\ u.local_seq = t.local_seq /\ u.acked = t.acked
    /\ u.send_window = t.send_window

\* The acknowledgement after forwarding changes remote_seq, the clock, the
\* receive window and, if it fails, the state.
LEMMA AcknowledgeFact ==
    ASSUME NEW f \in Session, NEW fwd \in BOOLEAN, NEW opens \in BOOLEAN, NEW ok \in BOOLEAN
    PROVE  LET u   == Acknowledge(f, fwd, opens, ok)
               fin == fwd /\ f.forward = << >> /\ f.state = "CLOSE_WAIT"
           IN  /\ u \in Session
               /\ u.forward = f.forward /\ u.socks5 = f.socks5
               /\ u.local_seq = f.local_seq /\ u.acked = f.acked
               /\ u.send_window = f.send_window
               /\ u.received = f.received /\ u.sent = f.sent
               /\ u.remote_seq = IF fin THEN f.remote_seq + 1 ELSE f.remote_seq
               /\ u.state \in {f.state, "CLOSING"}
<1> DEFINE fin == fwd /\ f.forward = << >> /\ f.state = "CLOSE_WAIT"
           u == Acknowledge(f, fwd, opens, ok)
<1>0. f.remote_seq \in Nat
  BY DEF Session
<1>1. CASE fwd \/ (~f.recv_open /\ opens)
  <2> DEFINE a == IF fin THEN [f EXCEPT !.remote_seq = @ + 1] ELSE f
             age == IF ok THEN 0 ELSE a.age
             b == [a EXCEPT !.recv_open = opens, !.age = age]
  <2>1. u = WriteTcp(b, ok)
    BY <1>1 DEF Acknowledge
  <2>2. /\ a \in Session
        /\ a.remote_seq = IF fin THEN f.remote_seq + 1 ELSE f.remote_seq
        /\ a.state = f.state /\ a.socks5 = f.socks5
        /\ a.local_seq = f.local_seq /\ a.acked = f.acked
        /\ a.send_window = f.send_window /\ a.sent = f.sent
        /\ a.received = f.received /\ a.forward = f.forward
    <3>1. CASE fin
      <4>1. a = [f EXCEPT !.remote_seq = f.remote_seq + 1] /\ f.remote_seq + 1 \in Nat
        BY <1>0, <3>1
      <4> HIDE DEF a, fin, u
      <4>2. QED
        BY <3>1, <4>1 DEF Session
    <3>2. CASE ~fin
      BY <3>2
    <3>3. QED
      BY <3>1, <3>2
  <2> HIDE DEF a, u
  <2>3. age \in Nat
    BY <2>2 DEF Session
  <2> HIDE DEF age
  <2>4. /\ b \in Session
        /\ b.state = a.state
        /\ b.socks5 = a.socks5 /\ b.remote_seq = a.remote_seq
        /\ b.local_seq = a.local_seq /\ b.acked = a.acked
        /\ b.send_window = a.send_window /\ b.sent = a.sent
        /\ b.received = a.received /\ b.forward = a.forward
    <3>1. a \in Session
      BY <2>2
    <3>2. QED
      BY <2>3, <3>1 DEF Session
  <2> HIDE DEF b, fin
  <2>5. /\ u \in Session
        /\ u.state \in {b.state, "CLOSING"}
        /\ u.socks5 = b.socks5 /\ u.remote_seq = b.remote_seq
        /\ u.local_seq = b.local_seq /\ u.acked = b.acked
        /\ u.send_window = b.send_window /\ u.sent = b.sent
        /\ u.received = b.received /\ u.forward = b.forward
    <3>1. b \in Session
      BY <2>4
    <3> DEFINE w == WriteTcp(b, ok)
    <3>2. /\ w \in Session
          /\ w.state \in {b.state, "CLOSING"}
          /\ w.socks5 = b.socks5 /\ w.remote_seq = b.remote_seq
          /\ w.local_seq = b.local_seq /\ w.acked = b.acked
          /\ w.send_window = b.send_window /\ w.sent = b.sent
          /\ w.received = b.received /\ w.forward = b.forward
      BY <3>1, WriteFact
    <3>3. u = w
      BY <2>1
    <3> HIDE DEF w
    <3>4. QED
      BY <3>2, <3>3
  <2>6. /\ u \in Session
        /\ u.forward = f.forward /\ u.socks5 = f.socks5
        /\ u.local_seq = f.local_seq /\ u.acked = f.acked
        /\ u.send_window = f.send_window
        /\ u.received = f.received /\ u.sent = f.sent
        /\ u.remote_seq = IF fin THEN f.remote_seq + 1 ELSE f.remote_seq
        /\ u.state \in {f.state, "CLOSING"}
    BY <2>2, <2>4, <2>5
  <2>7. QED
    BY <2>6 DEF u, fin
<1>2. CASE ~(fwd \/ (~f.recv_open /\ opens))
  <2>1. u = [f EXCEPT !.recv_open = opens] /\ ~fin
    BY <1>2 DEF Acknowledge
  <2>2. QED
    BY <1>0, <2>1 DEF Session
<1>3. QED
  BY <1>1, <1>2

\* The acknowledgement counts the app's FIN exactly when that makes remote_seq
\* what Confirms says of an empty queue.  f is t after the forwarding loop.
LEMMA AcknowledgeGood ==
    ASSUME NEW t, Good(t), t.state \in {"SYN_RECV"} \cup Transfer \cup Shut,
           NEW f \in Session,
           Ordered(f.forward), PartialHead(f), f.remote_seq >= t.remote_seq,
           f.sent = t.sent + (f.remote_seq - t.remote_seq),
           f.state \in {t.state, "CLOSING"}, f.socks5 = t.socks5,
           f.local_seq = t.local_seq, f.acked = t.acked,
           f.send_window = t.send_window, f.received = t.received,
           NEW fwd \in BOOLEAN, NEW opens \in BOOLEAN, NEW ok \in BOOLEAN,
           t.forward = << >> => ~fwd,
           ~fwd => f.remote_seq = t.remote_seq /\ f.forward = t.forward
    PROVE  Relayed(t, Acknowledge(f, fwd, opens, ok))
<1> DEFINE fin == fwd /\ f.forward = << >> /\ f.state = "CLOSE_WAIT"
           u == Acknowledge(f, fwd, opens, ok)
<1>1. /\ t \in Session /\ t.remote_seq \in Nat /\ f.remote_seq \in Nat
      /\ t.sent \in Nat /\ f.sent \in Nat /\ RemoteStart \in Nat
  BY StreamAssumption DEF Good, Session
<1>2. /\ u \in Session
      /\ u.forward = f.forward /\ u.socks5 = f.socks5 /\ u.local_seq = f.local_seq
      /\ u.acked = f.acked /\ u.send_window = f.send_window
      /\ u.received = f.received /\ u.sent = f.sent
      /\ u.remote_seq = IF fin THEN f.remote_seq + 1 ELSE f.remote_seq
      /\ u.state \in {f.state, "CLOSING"}
  BY AcknowledgeFact
<1> HIDE DEF u
<1>3. CASE u.state \in Shut \cup {"NONE"}
  <2>1. Good(u)
    BY <1>2, <1>3, ShutGood
  <2>2. QED
    BY <1>1, <1>2, <2>1 DEF Relayed, u
<1>4. CASE u.state \notin Shut \cup {"NONE"}
  <2>1. u.state = t.state /\ f.state = t.state
    BY <1>2, <1>4 DEF Shut
  <2>2. PartialHead(u)
    BY <1>2, <2>1 DEF PartialHead, LiveSession
  <2>3. Confirms(u)
    <3>1. Confirms(t) /\ t.sent + (f.remote_seq - t.remote_seq) = f.sent
      BY DEF Good
    <3>2. CASE t.state \in {"SYN_RECV", "ESTABLISHED"}
      <4>1. t.remote_seq = RemoteStart + 1 + t.sent /\ u.remote_seq = f.remote_seq
        BY <1>2, <2>1, <3>1, <3>2 DEF Confirms
      <4>2. u.remote_seq = RemoteStart + 1 + u.sent
        BY <1>1, <1>2, <3>1, <4>1
      <4>3. QED
        BY <2>1, <3>2, <4>2 DEF Confirms
    <3>3. CASE t.state = "CLOSE_WAIT" /\ fwd
      <4>1. t.remote_seq = RemoteStart + 1 + t.sent
        BY <1>1, <3>1, <3>3 DEF Confirms
      <4>2. f.remote_seq = RemoteStart + 1 + u.sent
        BY <1>1, <1>2, <3>1, <4>1
      <4>3. CASE f.forward = << >>
        BY <1>1, <1>2, <2>1, <3>3, <4>2, <4>3 DEF Confirms
      <4>4. CASE f.forward # << >>
        BY <1>1, <1>2, <2>1, <3>3, <4>2, <4>4 DEF Confirms
      <4>5. QED
        BY <4>3, <4>4
    <3>4. CASE t.state = "CLOSE_WAIT" /\ ~fwd
      <4>1. u.remote_seq = t.remote_seq /\ u.sent = t.sent /\ u.forward = t.forward
        BY <1>1, <1>2, <3>1, <3>4
      <4>2. QED
        BY <2>1, <3>1, <4>1 DEF Confirms
    <3>5. QED
      BY <1>4, <2>1, <3>2, <3>3, <3>4 DEF Transfer
  <2>4. Delivers(u) /\ Handshaken(u)
    BY <1>2, <2>1 DEF Good, Delivers, Handshaken
  <2>5. Good(u)
    BY <1>2, <2>1, <2>2, <2>3, <2>4 DEF Good, LiveSession
  <2>6. QED
    BY <1>1, <1>2, <2>5 DEF Relayed, u
<1>5. QED
  BY <1>3, <1>4

\* Forwarding and acknowledging, as SocketRelay does them.
LEMMA RelayGood ==
    ASSUME Good(tcp), tcp.state \in {"SYN_RECV"} \cup Transfer \cup Shut,
           NEW s \in Sends, NEW opens \in BOOLEAN, NEW ok \in BOOLEAN
    PROVE  Relayed(tcp, Acknowledge(AfterSend(s), s.whole + s.part > 0, opens, ok))
<1> DEFINE j == s.whole
           k == s.part
           f == Forward(tcp, j, k)
           a == AfterSend(s)
           fwd == j + k > 0
<1>1. tcp \in Session /\ tcp.forward \in Seq(Queued) /\ tcp.state # "LISTEN"
  BY DEF Good, Session, Transfer, Shut
<1>2. j \in 0..Len(tcp.forward) /\ k \in Nat /\ s.failed \in BOOLEAN
  <2>1. \A i \in DOMAIN tcp.forward : tcp.forward[i].len \in Nat
    <3> TAKE i \in DOMAIN tcp.forward
    <3>1. tcp.forward[i] \in Queued
      BY <1>1
    <3>2. QED
      BY <3>1 DEF Queued
  <2>2. Partials \subseteq Nat
    BY <2>1 DEF Partials
  <2>3. s \in [whole : 0..Len(tcp.forward), part : Partials, failed : BOOLEAN]
    BY DEF Sends
  <2>4. QED
    BY <2>2, <2>3
<1>3. PICK room : ForwardLoop(tcp, room, j, k, s.failed)
  <2>1. CASE "OUT" \in ready
    BY <2>1 DEF Sends
  <2>2. CASE "OUT" \notin ready
    <3>1. j = 0 /\ k = 0 /\ ~s.failed
      BY <2>2 DEF Sends
    <3>2. ForwardLoop(tcp, 0, j, k, s.failed)
      BY <1>1, <3>1 DEF ForwardLoop, Sendable
    <3>3. QED
      BY <3>2
  <2>3. QED
    BY <2>1, <2>2
<1> HIDE DEF j, k
<1>4. /\ f \in Session
      /\ Ordered(f.forward)
      /\ PartialHead(f)
      /\ f.remote_seq >= tcp.remote_seq
      /\ f.sent = tcp.sent + (f.remote_seq - tcp.remote_seq)
      /\ tcp.forward = << >> => j = 0 /\ k = 0
      /\ j = 0 /\ k = 0 => f.remote_seq = tcp.remote_seq /\ f.forward = tcp.forward
      /\ f.state = tcp.state /\ f.socks5 = tcp.socks5
      /\ f.local_seq = tcp.local_seq /\ f.acked = tcp.acked
      /\ f.send_window = tcp.send_window /\ f.received = tcp.received
  BY <1>1, <1>2, <1>3, ForwardGood
<1>5. a = IF s.failed THEN write_rst(f) ELSE f
  BY DEF AfterSend, j, k
<1>6. /\ fwd \in BOOLEAN
      /\ ~fwd => j = 0 /\ k = 0
      /\ j = 0 /\ k = 0 => ~fwd
  BY <1>2
<1> HIDE DEF f, a, fwd
<1>7. /\ a \in Session
      /\ a.state \in {tcp.state, "CLOSING"}
      /\ a.socks5 = f.socks5 /\ a.remote_seq = f.remote_seq /\ a.sent = f.sent
      /\ a.local_seq = f.local_seq /\ a.acked = f.acked
      /\ a.send_window = f.send_window /\ a.received = f.received
      /\ a.forward = f.forward
  <2>1. CASE s.failed /\ f.state # "CLOSE"
    <3>1. a = [f EXCEPT !.state = "CLOSING"]
      BY <1>5, <2>1 DEF write_rst
    <3>2. QED
      BY <1>4, <3>1 DEF Session, States, Shut
  <2>2. CASE ~(s.failed /\ f.state # "CLOSE")
    <3>1. a = f
      BY <1>5, <2>2 DEF write_rst
    <3>2. QED
      BY <1>4, <3>1
  <2>3. QED
    BY <2>1, <2>2
<1>8. PartialHead(a)
  BY <1>4, <1>7 DEF PartialHead, LiveSession, Shut
<1>9. Relayed(tcp, Acknowledge(a, fwd, opens, ok))
  BY <1>4, <1>6, <1>7, <1>8, AcknowledgeGood
<1>10. QED
  BY <1>9 DEF a, fwd, j, k

\* What the app was told still fits a session that was relayed.
LEMMA RelayedAgrees ==
    ASSUME NEW t, NEW u, NEW a, Agrees(t, a), Relayed(t, u), t.state # "LISTEN"
    PROVE  Agrees(u, a)
  BY DEF Agrees, Relayed, LiveSession, Shut, Transfer

\* Data read from the server stays within the window, and is counted in
\* local_seq as it is counted in received.
LEMMA ReadGood ==
    ASSUME NEW t, Good(t), t.state \in Transfer,
           NEW a \in [open : BOOLEAN, ack : Nat, edge : Nat, nxt : Nat], Agrees(t, a),
           NEW n \in Nat, n <= get_send_window(t)
    PROVE  LET u == [t EXCEPT !.age = 0, !.received = @ + n, !.local_seq = @ + n]
           IN  Good(u) /\ Agrees(u, a) /\ u.state = t.state
<1> DEFINE u == [t EXCEPT !.age = 0, !.received = @ + n, !.local_seq = @ + n]
<1>1. /\ t \in Session /\ t.local_seq \in Nat /\ t.received \in Nat
      /\ t.acked \in Nat /\ t.send_window \in Nat
      /\ a.ack \in Nat /\ a.edge \in Nat /\ LocalStart \in Nat
  BY StreamAssumption DEF Good, Session
<1>2. /\ u \in Session
      /\ u.state = t.state /\ u.socks5 = t.socks5 /\ u.remote_seq = t.remote_seq
      /\ u.local_seq = t.local_seq + n /\ u.received = t.received + n
      /\ u.acked = t.acked /\ u.send_window = t.send_window
      /\ u.sent = t.sent /\ u.forward = t.forward
  <2>1. t.received + n \in Nat /\ t.local_seq + n \in Nat
    BY <1>1
  <2>2. QED
    BY <1>1, <2>1 DEF Session
<1> HIDE DEF u
<1>3. t.local_seq = LocalStart + 1 + t.received /\ t.acked <= t.local_seq
  BY DEF Good, Delivers, LiveSession, Transfer, Shut
<1>4. /\ a.open /\ a.ack <= t.local_seq
      /\ t.acked <= a.ack /\ t.acked + t.send_window <= a.edge
      /\ t.local_seq <= a.edge
  BY DEF Agrees, LiveSession, Transfer, Shut
<1>5. u.local_seq <= a.edge
  BY <1>1, <1>2, <1>3, <1>4 DEF get_send_window
<1>6. Delivers(u)
  BY <1>1, <1>2, <1>3 DEF Delivers, Transfer
<1>7. Good(u)
  <2>1. PartialHead(u) /\ Confirms(u) /\ Handshaken(u)
    BY <1>2 DEF Good, PartialHead, Confirms, Handshaken, LiveSession
  <2>2. u.acked <= u.local_seq
    BY <1>1, <1>2, <1>3
  <2>3. QED
    BY <1>2, <1>6, <2>1, <2>2 DEF Good
<1>8. Agrees(u, a)
  BY <1>1, <1>2, <1>4, <1>5 DEF Agrees
<1>9. QED
  BY <1>2, <1>7, <1>8 DEF u

\* The server's FIN takes a number of its own, after the last byte read.
LEMMA EofGood ==
    ASSUME NEW t, Good(t), t.state \in Transfer, t.forward = << >>,
           NEW a \in [open : BOOLEAN, ack : Nat, edge : Nat, nxt : Nat], Agrees(t, a)
    PROVE  LET u == [t EXCEPT !.age = 0, !.local_seq = @ + 1,
                              !.state = IF @ = "ESTABLISHED" THEN "FIN_WAIT1"
                                        ELSE "LAST_ACK"]
           IN  /\ Good(u) /\ Agrees(u, a)
               /\ u.state \in {"FIN_WAIT1", "LAST_ACK"}
<1> DEFINE st == IF t.state = "ESTABLISHED" THEN "FIN_WAIT1" ELSE "LAST_ACK"
           u == [t EXCEPT !.age = 0, !.local_seq = @ + 1, !.state = st]
<1>1. /\ t \in Session /\ t.local_seq \in Nat /\ t.received \in Nat /\ t.acked \in Nat
      /\ t.remote_seq \in Nat /\ t.sent \in Nat
      /\ a.ack \in Nat /\ LocalStart \in Nat
  BY StreamAssumption DEF Good, Session
<1>2. st \in {"FIN_WAIT1", "LAST_ACK"} /\ st \in States
  BY DEF States
<1>3. st = "FIN_WAIT1" <=> t.state = "ESTABLISHED"
  OBVIOUS
<1> HIDE DEF st
<1>4. /\ u \in Session
      /\ u.state = st /\ u.remote_seq = t.remote_seq
      /\ u.local_seq = t.local_seq + 1 /\ u.received = t.received
      /\ u.acked = t.acked /\ u.sent = t.sent /\ u.forward = t.forward
  <2>1. t.local_seq + 1 \in Nat
    BY <1>1
  <2>2. QED
    BY <1>1, <1>2, <2>1 DEF Session
<1> HIDE DEF u
<1>5. /\ t.local_seq = LocalStart + 1 + t.received /\ t.acked <= t.local_seq
      /\ a.open /\ a.ack <= t.local_seq
  BY DEF Good, Delivers, Agrees, LiveSession, Transfer, Shut
<1>6. Delivers(u)
  BY <1>1, <1>2, <1>4, <1>5 DEF Delivers, Transfer
<1>7. Confirms(u)
  <2>1. Confirms(t)
    BY DEF Good
  <2>2. CASE t.state = "ESTABLISHED"
    BY <1>3, <1>4, <2>1, <2>2 DEF Confirms
  <2>3. CASE t.state = "CLOSE_WAIT"
    BY <1>2, <1>3, <1>4, <2>1, <2>3 DEF Confirms
  <2>4. QED
    BY <2>2, <2>3 DEF Transfer
<1>8. PartialHead(u) /\ Handshaken(u)
  BY <1>2, <1>4 DEF PartialHead, Handshaken
<1>9. Good(u)
  <2>1. u.acked <= u.local_seq
    BY <1>1, <1>4, <1>5
  <2>2. Ordered(u.forward)
    BY <1>4 DEF Good
  <2>3. QED
    BY <1>4, <1>6, <1>7, <1>8, <2>1, <2>2 DEF Good
<1>10. Agrees(u, a)
  BY <1>1, <1>2, <1>4, <1>5 DEF Agrees, Transfer
<1>11. QED
  BY <1>2, <1>4, <1>9, <1>10 DEF u, st

\* Every outcome of the read at the end of SocketRelay.
LEMMA ReadsGood ==
    ASSUME NEW t, Good(t), Agrees(t, app),
           app \in [open : BOOLEAN, ack : Nat, edge : Nat, nxt : Nat],
           socket, t.state \in {"SYN_RECV", "CLOSING"} \cup Transfer,
           interest \in SUBSET {"IN", "OUT", "ERR"},
           ReadNothing(t) \/ ReadFails(t) \/ ReadData(t) \/ ReadEof(t)
    PROVE  /\ Good(tcp') /\ Agrees(tcp', app)
           /\ socket' \in BOOLEAN /\ interest' \in SUBSET {"IN", "OUT", "ERR"}
           /\ \/ socket' /\ tcp'.state \in {"SYN_RECV", "CLOSING"} \cup Transfer
              \/ ~socket' /\ tcp'.state \in {"FIN_WAIT1", "LAST_ACK", "CLOSING"}
           /\ tcp'.remote_seq >= t.remote_seq
           /\ tcp'.local_seq >= t.local_seq
           /\ tcp'.acked >= t.acked
<1> DEFINE r == [t EXCEPT !.age = 0]
<1>1. /\ t \in Session /\ Ordered(t.forward)
      /\ t.remote_seq \in Nat /\ t.local_seq \in Nat /\ t.acked \in Nat
  BY DEF Good, Session
<1>2. /\ r \in Session /\ r.state = t.state /\ r.socks5 = t.socks5
      /\ r.remote_seq = t.remote_seq /\ r.local_seq = t.local_seq
      /\ r.acked = t.acked /\ r.send_window = t.send_window
      /\ r.sent = t.sent /\ r.received = t.received /\ r.forward = t.forward
  BY <1>1 DEF Session
<1>3. Good(r) /\ Agrees(r, app)
  <2>1. Good(r)
    BY <1>2, ClockGood
  <2>2. Agrees(r, app)
    BY <1>2 DEF Agrees, LiveSession
  <2>3. QED
    BY <2>1, <2>2
<1>4. CASE ReadNothing(t)
  BY <1>1, <1>4 DEF ReadNothing
<1>5. CASE ReadFails(t)
  <2>1. PICK again \in BOOLEAN : tcp' = IF again THEN r ELSE write_rst(r)
    BY <1>5 DEF ReadFails
  <2>2. socket' = socket /\ interest' = interest
    BY <1>5 DEF ReadFails
  <2> HIDE DEF r
  <2>3. CASE again
    BY <1>1, <1>2, <1>3, <2>1, <2>2, <2>3
  <2>4. CASE ~again
    <3>1. tcp' = write_rst(r) /\ r.state # "CLOSE"
      BY <1>2, <2>1, <2>4 DEF Transfer
    <3>2. /\ tcp'.state = "CLOSING" /\ Good(tcp') /\ Agrees(tcp', app)
      BY <1>1, <1>2, <3>1, ResetGood
    <3>3. tcp'.remote_seq = r.remote_seq /\ tcp'.local_seq = r.local_seq
          /\ tcp'.acked = r.acked
      BY <1>2, <3>1 DEF write_rst, Session
    <3>4. QED
      BY <1>1, <1>2, <2>2, <3>2, <3>3
  <2>5. QED
    BY <2>3, <2>4
<1>6. CASE ReadData(t)
  <2>1. t.state \in Transfer /\ socket' = socket /\ interest' = interest
    BY <1>6 DEF ReadData, Readable
  <2>2. PICK n \in 1..Mss, ok \in WriteOk :
           /\ n <= get_send_window(t)
           /\ LET x == [t EXCEPT !.age = 0, !.received = @ + n]
              IN  tcp' = IF ok THEN [x EXCEPT !.local_seq = @ + n]
                               ELSE WriteTcp(x, ok)
    BY <1>6 DEF ReadData
  <2> DEFINE x == [t EXCEPT !.age = 0, !.received = @ + n]
             u == [t EXCEPT !.age = 0, !.received = @ + n, !.local_seq = @ + n]
  <2>3. n \in Nat /\ ok \in BOOLEAN
    BY PeerAssumption
  <2>4. CASE ok
    <3>1. tcp' = u
      BY <1>1, <2>2, <2>4 DEF Session
    <3>2. Good(u) /\ Agrees(u, app) /\ u.state = t.state
      BY <2>1, <2>2, <2>3, ReadGood
    <3>3. /\ u.remote_seq = t.remote_seq /\ u.local_seq = t.local_seq + n
          /\ u.acked = t.acked
      BY <1>1 DEF Session
    <3> HIDE DEF u
    <3>4. QED
      BY <1>1, <2>1, <2>3, <3>1, <3>2, <3>3
  <2>5. CASE ~ok
    <3>1. t.received + n \in Nat
      BY <1>1, <2>3 DEF Session
    <3>2. /\ x \in Session /\ x.forward = t.forward
          /\ x.remote_seq = t.remote_seq /\ x.local_seq = t.local_seq
          /\ x.acked = t.acked
      BY <1>1, <3>1 DEF Session
    <3>3. tcp' = WriteTcp(x, FALSE)
      BY <2>2, <2>3, <2>5
    <3> HIDE DEF x
    <3>4. tcp'.state = "CLOSING" /\ Good(tcp') /\ Agrees(tcp', app)
      BY <1>1, <3>2, <3>3, WriteFails
    <3>5. /\ tcp'.remote_seq = x.remote_seq /\ tcp'.local_seq = x.local_seq
          /\ tcp'.acked = x.acked
      BY <3>2, <3>3, WriteFact
    <3>6. QED
      BY <1>1, <2>1, <3>2, <3>4, <3>5
  <2>6. QED
    BY <2>4, <2>5
<1>7. CASE ReadEof(t)
  <2>1. t.state \in Transfer /\ ~socket' /\ interest' = {} /\ socket' \in BOOLEAN
    BY <1>7 DEF ReadEof, Readable
  <2> DEFINE u == [t EXCEPT !.age = 0, !.local_seq = @ + 1,
                            !.state = IF @ = "ESTABLISHED" THEN "FIN_WAIT1"
                                      ELSE "LAST_ACK"]
  <2>2. PICK ok \in WriteOk :
           tcp' = IF t.forward # << >> THEN write_rst(r)
                  ELSE IF ~ok THEN WriteTcp(r, ok)
                  ELSE [r EXCEPT !.local_seq = @ + 1,
                                 !.state = IF @ = "ESTABLISHED" THEN "FIN_WAIT1"
                                           ELSE "LAST_ACK"]
    BY <1>7 DEF ReadEof
  <2>3. ok \in BOOLEAN
    BY PeerAssumption
  <2>4. CASE t.forward # << >>
    <3>1. tcp' = write_rst(r) /\ r.state # "CLOSE"
      BY <1>2, <2>1, <2>2, <2>4 DEF Transfer
    <3> HIDE DEF r
    <3>2. tcp'.state = "CLOSING" /\ Good(tcp') /\ Agrees(tcp', app)
      BY <1>1, <1>2, <3>1, ResetGood
    <3>3. tcp'.remote_seq = r.remote_seq /\ tcp'.local_seq = r.local_seq
          /\ tcp'.acked = r.acked
      BY <1>2, <3>1 DEF write_rst, Session
    <3>4. QED
      BY <1>1, <1>2, <2>1, <3>2, <3>3
  <2>5. CASE t.forward = << >> /\ ~ok
    <3>1. tcp' = WriteTcp(r, FALSE)
      BY <2>2, <2>3, <2>5
    <3> HIDE DEF r
    <3>2. tcp'.state = "CLOSING" /\ Good(tcp') /\ Agrees(tcp', app)
      BY <1>1, <1>2, <3>1, WriteFails
    <3>3. /\ tcp'.remote_seq = r.remote_seq /\ tcp'.local_seq = r.local_seq
          /\ tcp'.acked = r.acked
      BY <1>2, <3>1, WriteFact
    <3>4. QED
      BY <1>1, <1>2, <2>1, <3>2, <3>3
  <2>6. CASE t.forward = << >> /\ ok
    <3>1. tcp' = u
      BY <1>1, <2>2, <2>6 DEF Session
    <3>2. Good(u) /\ Agrees(u, app) /\ u.state \in {"FIN_WAIT1", "LAST_ACK"}
      BY <2>1, <2>6, EofGood
    <3>3. /\ u.remote_seq = t.remote_seq /\ u.local_seq = t.local_seq + 1
          /\ u.acked = t.acked
      BY <1>1 DEF Session
    <3> HIDE DEF u
    <3>4. QED
      BY <1>1, <2>1, <3>1, <3>2, <3>3
  <2>7. QED
    BY <2>4, <2>5, <2>6
<1>8. QED
  BY <1>4, <1>5, <1>6, <1>7

-----------------------------------------------------------------------------
(* The actions.                                                            *)

\* What NeverBackwards says of a step.
Steady == Live /\ tcp'.state # "NONE"
             => /\ tcp'.remote_seq >= tcp.remote_seq
                /\ tcp'.local_seq >= tcp.local_seq
                /\ tcp'.acked >= tcp.acked

AppType == [open : BOOLEAN, ack : Nat, edge : Nat, nxt : Nat]

\* IInv gives the types of the fields that are compared.
LEMMA Typing ==
    ASSUME IInv
    PROVE  /\ tcp \in Session /\ Ordered(tcp.forward)
           /\ tcp.remote_seq \in Nat /\ tcp.local_seq \in Nat /\ tcp.acked \in Nat
           /\ tcp.state \in States
           /\ app \in AppType /\ app.ack \in Nat /\ app.edge \in Nat
  BY DEF IInv, Good, TypeOK, Session, AppType

\* Without a session the invariant holds.
LEMMA InitGood == Init => IInv
<1> SUFFICES ASSUME Init PROVE IInv
  OBVIOUS
<1>1. /\ tcp.state = "NONE" /\ tcp.forward = << >>
      /\ ~socket /\ ready = {} /\ phase = "monitor"
  BY DEF Init, NoSession
<1>2. tcp \in Session
  BY DEF Init, NoSession, Session, States, Socks5
<1>3. Good(tcp) /\ Agrees(tcp, app)
  BY <1>1, <1>2, ShutGood DEF Ordered
<1>4. TypeOK
  BY <1>2 DEF TypeOK, Init, NoApp
<1>5. SocketMatchesState /\ ReadyHasSocket
  BY <1>1 DEF SocketMatchesState, ReadyHasSocket, Transfer
<1>6. QED
  BY <1>3, <1>4, <1>5 DEF IInv

\* Steps that leave the session and its socket alone.
LEMMA IdleStep ==
    ASSUME IInv, UNCHANGED <<tcp, socket, interest, app>>,
           ready' \in SUBSET {"IN", "OUT", "ERR", "HUP"},
           phase' \in {"monitor", "check", "wait", "dispatch"},
           ready' # {} => socket /\ phase' = "dispatch"
    PROVE  IInv' /\ Steady
<1>1. Good(tcp') /\ Agrees(tcp', app')
  BY DEF IInv
<1>2. TypeOK' /\ SocketMatchesState'
  BY DEF IInv, TypeOK, SocketMatchesState
<1>3. ReadyHasSocket'
  BY DEF IInv, ReadyHasSocket, SocketMatchesState
<1>4. Steady
  BY Typing DEF Steady
<1>5. QED
  BY <1>1, <1>2, <1>3, <1>4 DEF IInv

\* The error event of the socket (EPOLLERR in check_tcp_socket) keeps the
\* invariant.
LEMMA SocketErrorStep ==
    ASSUME IInv, SocketError
    PROVE  IInv' /\ Steady
<1> DEFINE r == [tcp EXCEPT !.age = 0]
<1>1. /\ r \in Session /\ Ordered(r.forward) /\ r.state = tcp.state
      /\ r.remote_seq = tcp.remote_seq /\ r.local_seq = tcp.local_seq
      /\ r.acked = tcp.acked
  BY Typing DEF Session
<1>2. /\ tcp' = write_rst(r) /\ ready' = {} /\ ready # {}
      /\ UNCHANGED <<socket, interest, phase, app>>
  BY DEF SocketError
<1> HIDE DEF r
<1>3. /\ tcp' \in Session /\ tcp'.state \in Shut
      /\ tcp'.state = IF tcp.state = "CLOSE" THEN "CLOSE" ELSE "CLOSING"
      /\ Good(tcp') /\ Agrees(tcp', app')
  BY <1>1, <1>2, ResetGood DEF Shut
<1>4. tcp'.remote_seq = r.remote_seq /\ tcp'.local_seq = r.local_seq /\ tcp'.acked = r.acked
  BY <1>1, <1>2 DEF write_rst, Session
<1>5. Steady
  BY <1>1, <1>4, Typing DEF Steady
<1>6. TypeOK' /\ ReadyHasSocket'
  BY <1>2, <1>3 DEF IInv, TypeOK, ReadyHasSocket
<1>7. SocketMatchesState'
  BY <1>2, <1>3 DEF IInv, SocketMatchesState, Transfer
<1>8. QED
  BY <1>3, <1>5, <1>6, <1>7 DEF IInv

\* Forwarding, acknowledging and reading (check_tcp_socket) keep the
\* invariant.
LEMMA SocketRelayStep ==
    ASSUME IInv, SocketRelay
    PROVE  IInv' /\ Steady
<1>1. /\ ready # {} /\ tcp.state # "LISTEN"
      /\ ready' = {} /\ phase' = phase /\ app' = app
  BY DEF SocketRelay
<1>2. /\ socket /\ tcp.state \in {"SYN_RECV", "CLOSING"} \cup Transfer
      /\ interest \in SUBSET {"IN", "OUT", "ERR"}
  BY <1>1, Typing DEF IInv, TypeOK, ReadyHasSocket, SocketMatchesState, States, Shut
<1>2a. PICK s \in Sends :
          \E opens \in {WindowOpens(AfterSend(s), room) : room \in Rooms}, ok \in WriteOk :
             LET t == Acknowledge(AfterSend(s), s.whole + s.part > 0, opens, ok)
             IN  ReadNothing(t) \/ ReadFails(t) \/ ReadData(t) \/ ReadEof(t)
  BY DEF SocketRelay
<1>3. PICK opens \in {WindowOpens(AfterSend(s), room) : room \in Rooms}, ok \in WriteOk :
         LET t == Acknowledge(AfterSend(s), s.whole + s.part > 0, opens, ok)
         IN  ReadNothing(t) \/ ReadFails(t) \/ ReadData(t) \/ ReadEof(t)
  BY <1>2a
<1> DEFINE t == Acknowledge(AfterSend(s), s.whole + s.part > 0, opens, ok)
<1>4. opens \in BOOLEAN /\ ok \in BOOLEAN
  BY <1>3, WindowOpensType, PeerAssumption
<1>5. Good(tcp) /\ Agrees(tcp, app)
  BY DEF IInv
<1>6. tcp.state \in {"SYN_RECV"} \cup Transfer \cup Shut
  BY <1>2 DEF Shut
<1>7. Relayed(tcp, t)
  BY <1>3, <1>4, <1>5, <1>6, RelayGood
<1>8. ReadNothing(t) \/ ReadFails(t) \/ ReadData(t) \/ ReadEof(t)
  BY <1>3
<1> HIDE DEF t
<1>9. Good(t) /\ Agrees(t, app) /\ t.state \in {"SYN_RECV", "CLOSING"} \cup Transfer
  <2>1. Agrees(t, app)
    BY <1>1, <1>5, <1>7, RelayedAgrees
  <2>2. QED
    BY <1>2, <1>7, <2>1 DEF Relayed
<1>10. app \in [open : BOOLEAN, ack : Nat, edge : Nat, nxt : Nat]
  BY Typing DEF AppType
<1>11. /\ Good(tcp') /\ Agrees(tcp', app)
       /\ socket' \in BOOLEAN /\ interest' \in SUBSET {"IN", "OUT", "ERR"}
       /\ \/ socket' /\ tcp'.state \in {"SYN_RECV", "CLOSING"} \cup Transfer
          \/ ~socket' /\ tcp'.state \in {"FIN_WAIT1", "LAST_ACK", "CLOSING"}
       /\ tcp'.remote_seq >= t.remote_seq
       /\ tcp'.local_seq >= t.local_seq
       /\ tcp'.acked >= t.acked
  BY <1>2, <1>8, <1>9, <1>10, ReadsGood
<1>12. Steady
  <2>1. /\ t.remote_seq \in Nat /\ t.local_seq \in Nat /\ t.acked \in Nat
        /\ tcp'.remote_seq \in Nat /\ tcp'.local_seq \in Nat /\ tcp'.acked \in Nat
    BY <1>9, <1>11 DEF Good, Session
  <2>2. QED
    BY <1>7, <1>11, <2>1, Typing DEF Steady, Relayed
<1>13. TypeOK'
  BY <1>1, <1>11 DEF IInv, TypeOK, Good
<1>14. SocketMatchesState'
  BY <1>11 DEF SocketMatchesState, Transfer
<1>15. ReadyHasSocket'
  BY <1>1 DEF ReadyHasSocket
<1>16. QED
  BY <1>1, <1>11, <1>12, <1>13, <1>14, <1>15 DEF IInv

\* monitor_tcp_session keeps the invariant: the keep alive moves nothing.
LEMMA MonitorStep ==
    ASSUME IInv, MonitorSession
    PROVE  IInv' /\ Steady
<1>1. PICK room \in Rooms, probe \in BOOLEAN, modified \in BOOLEAN, ok \in WriteOk :
         LET events == Watched(tcp, room)
             closed == tcp.state \in Transfer /\ get_send_window(tcp) = 0
             probed == IF closed /\ probe THEN WriteTcp(tcp, ok) ELSE tcp
         IN  /\ interest' = IF modified THEN events ELSE interest
             /\ tcp' = IF events # interest /\ ~modified
                       THEN [probed EXCEPT !.state = "CLOSING"]
                       ELSE probed
  BY DEF MonitorSession
<1> DEFINE closed == tcp.state \in Transfer /\ get_send_window(tcp) = 0
           probed == IF closed /\ probe THEN WriteTcp(tcp, ok) ELSE tcp
<1>2. /\ socket /\ phase = "monitor" /\ phase' = "check"
      /\ UNCHANGED <<socket, ready, app>>
  BY DEF MonitorSession
<1>3. ok \in BOOLEAN
  BY PeerAssumption
<1>4. /\ probed \in Session /\ probed.state \in {tcp.state, "CLOSING"}
      /\ probed.remote_seq = tcp.remote_seq /\ probed.local_seq = tcp.local_seq
      /\ probed.acked = tcp.acked /\ probed.forward = tcp.forward
      /\ probed = tcp \/ probed.state = "CLOSING"
  <2>1. CASE closed /\ probe /\ ~ok
    <3>1. probed = WriteTcp(tcp, FALSE)
      BY <1>3, <2>1
    <3> HIDE DEF probed
    <3>2. QED
      BY <3>1, WriteFact, WriteFails, Typing
  <2>2. CASE ~(closed /\ probe /\ ~ok)
    <3>1. probed = tcp
      BY <1>3, <2>2 DEF WriteTcp
    <3>2. QED
      BY <3>1, Typing
  <2>3. QED
    BY <2>1, <2>2
<1>5. tcp' = probed \/ tcp' = [probed EXCEPT !.state = "CLOSING"]
  BY <1>1
<1> HIDE DEF probed
<1>6. /\ tcp' \in Session /\ tcp'.state \in {tcp.state, "CLOSING"}
      /\ tcp'.remote_seq = tcp.remote_seq /\ tcp'.local_seq = tcp.local_seq
      /\ tcp'.acked = tcp.acked /\ tcp'.forward = tcp.forward
      /\ tcp' = tcp \/ tcp'.state = "CLOSING"
  <2>1. CASE tcp' = probed
    BY <1>4, <2>1
  <2>2. CASE tcp' = [probed EXCEPT !.state = "CLOSING"]
    BY <1>4, <2>2 DEF Session, States, Shut
  <2>3. QED
    BY <1>5, <2>1, <2>2
<1>7. Good(tcp') /\ Agrees(tcp', app')
  <2>1. CASE tcp' = tcp
    BY <1>2, <2>1 DEF IInv
  <2>2. CASE tcp'.state = "CLOSING"
    <3>1. tcp'.state \in Shut \cup {"NONE"}
      BY <2>2 DEF Shut
    <3>2. QED
      BY <1>6, <3>1, ShutGood, Typing
  <2>3. QED
    BY <1>6, <2>1, <2>2
<1>8. Steady
  BY <1>6, Typing DEF Steady
<1>9. TypeOK'
  <2>1. interest' \in SUBSET {"IN", "OUT", "ERR"}
    BY <1>1 DEF Watched, IInv, TypeOK
  <2>2. QED
    BY <1>2, <1>6, <2>1 DEF IInv, TypeOK
<1>10. SocketMatchesState' /\ ReadyHasSocket'
  BY <1>2, <1>6 DEF IInv, SocketMatchesState, ReadyHasSocket, Transfer
<1>11. QED
  BY <1>7, <1>8, <1>9, <1>10 DEF IInv

\* check_tcp_session keeps the invariant: it closes the socket with the
\* session.
LEMMA CheckStep ==
    ASSUME IInv, CheckSession
    PROVE  IInv' /\ Steady
<1>1. PICK sessions \in Loads :
         LET idle    == /\ tcp.state \notin Shut
                        /\ tcp.age > get_tcp_timeout(tcp, sessions)
             closing == idle \/ tcp.state = "CLOSING"
             checked == IF closing THEN [tcp EXCEPT !.state = "CLOSE", !.age = 0]
                                   ELSE tcp
             settled == IF checked.state = "CLOSE"
                        THEN [checked EXCEPT !.sent = 0, !.received = 0]
                        ELSE checked
             remove  == settled.state = "CLOSE" /\ settled.age > KeepTimeout
         IN  /\ tcp' = IF remove THEN NoSession ELSE settled
             /\ socket' = (socket /\ ~closing)
             /\ interest' = IF closing THEN {} ELSE interest
  BY DEF CheckSession
<1> DEFINE closing == \/ /\ tcp.state \notin Shut
                         /\ tcp.age > get_tcp_timeout(tcp, sessions)
                      \/ tcp.state = "CLOSING"
           checked == IF closing THEN [tcp EXCEPT !.state = "CLOSE", !.age = 0] ELSE tcp
           settled == IF checked.state = "CLOSE"
                      THEN [checked EXCEPT !.sent = 0, !.received = 0] ELSE checked
<1>2. /\ tcp' = settled \/ (tcp' = NoSession /\ settled.state = "CLOSE"
                              /\ settled.age > KeepTimeout)
      /\ socket' = (socket /\ ~closing)
      /\ interest' = IF closing THEN {} ELSE interest
  BY <1>1
<1>3. phase = "check" /\ phase' = "wait" /\ ready' = ready /\ app' = app /\ ready = {}
  BY DEF CheckSession, IInv, ReadyHasSocket
<1> HIDE DEF closing
<1>4. /\ checked \in Session /\ checked.forward = tcp.forward
      /\ checked.remote_seq = tcp.remote_seq /\ checked.local_seq = tcp.local_seq
      /\ checked.acked = tcp.acked
      /\ closing => checked.state = "CLOSE"
      /\ ~closing => checked = tcp
  BY Typing DEF Session, States, Shut
<1> HIDE DEF checked
<1>5. /\ settled \in Session /\ settled.forward = tcp.forward
      /\ settled.remote_seq = tcp.remote_seq /\ settled.local_seq = tcp.local_seq
      /\ settled.acked = tcp.acked
      /\ closing => settled.state = "CLOSE"
      /\ settled = tcp \/ settled.state = "CLOSE"
      /\ ~closing => settled.state = tcp.state
  <2>1. CASE checked.state = "CLOSE"
    BY <1>4, <2>1 DEF Session
  <2>2. CASE checked.state # "CLOSE"
    BY <1>4, <2>2
  <2>3. QED
    BY <2>1, <2>2
<1> HIDE DEF settled
<1>6. CASE tcp' = settled
  <2>1. Good(tcp') /\ Agrees(tcp', app')
    <3>1. CASE settled = tcp
      BY <1>3, <1>6, <3>1 DEF IInv
    <3>2. CASE settled.state = "CLOSE"
      <4>1. settled.state \in Shut \cup {"NONE"}
        BY <3>2 DEF Shut
      <4>2. QED
        BY <1>5, <1>6, <4>1, ShutGood, Typing
    <3>3. QED
      BY <1>5, <3>1, <3>2
  <2>2. Steady
    BY <1>5, <1>6, Typing DEF Steady
  <2>3. TypeOK' /\ ReadyHasSocket'
    BY <1>2, <1>3, <1>5, <1>6 DEF IInv, TypeOK, ReadyHasSocket
  <2>4. SocketMatchesState'
    BY <1>2, <1>5, <1>6 DEF IInv, SocketMatchesState, Transfer
  <2>5. QED
    BY <2>1, <2>2, <2>3, <2>4 DEF IInv
<1>7. CASE tcp' = NoSession /\ settled.state = "CLOSE" /\ settled.age > KeepTimeout
  <2>1. /\ tcp'.state = "NONE" /\ tcp'.forward = << >> /\ tcp' \in Session
    BY <1>7 DEF NoSession, Session, States, Socks5
  <2>2. Good(tcp') /\ Agrees(tcp', app')
    BY <2>1, ShutGood DEF Ordered
  <2>3. ~socket'
    <3>1. CASE closing
      BY <1>2, <3>1
    <3>2. CASE ~closing
      BY <1>2, <1>5, <1>7, <3>2 DEF IInv, SocketMatchesState
    <3>3. QED
      BY <3>1, <3>2
  <2>4. TypeOK' /\ ReadyHasSocket'
    BY <1>2, <1>3, <2>1 DEF IInv, TypeOK, ReadyHasSocket
  <2>5. SocketMatchesState' /\ Steady
    BY <2>1, <2>3 DEF SocketMatchesState, Steady, Transfer
  <2>6. QED
    BY <2>2, <2>4, <2>5 DEF IInv
<1>8. QED
  BY <1>2, <1>6, <1>7

\* Time that passes keeps the invariant.
LEMMA TickStep ==
    ASSUME IInv, Tick
    PROVE  IInv' /\ Steady
<1>1. tcp' = [tcp EXCEPT !.age = @ + 1] /\ tcp.age + 1 \in Nat
  BY Typing DEF Tick, Session
<1>2. UNCHANGED <<socket, interest, ready, phase, app>>
  BY DEF Tick
<1>3. /\ tcp' \in Session
      /\ tcp'.state = tcp.state /\ tcp'.socks5 = tcp.socks5
      /\ tcp'.remote_seq = tcp.remote_seq /\ tcp'.local_seq = tcp.local_seq
      /\ tcp'.acked = tcp.acked /\ tcp'.sent = tcp.sent
      /\ tcp'.received = tcp.received /\ tcp'.forward = tcp.forward
      /\ tcp'.send_window = tcp.send_window
  BY <1>1, Typing DEF Session
<1>4. Good(tcp) /\ Agrees(tcp, app)
  BY DEF IInv
<1>5. Good(tcp')
  BY <1>3, <1>4, ClockGood
<1>6. Agrees(tcp', app')
  BY <1>2, <1>3, <1>4 DEF Agrees, LiveSession
<1>7. Steady
  BY <1>3, Typing DEF Steady
<1>8. TypeOK' /\ SocketMatchesState' /\ ReadyHasSocket'
  BY <1>2, <1>3 DEF IInv, TypeOK, SocketMatchesState, ReadyHasSocket
<1>9. QED
  BY <1>5, <1>6, <1>7, <1>8 DEF IInv

\* What the handshake may come to in LISTEN.
LEMMA HandshakeFact ==
    ASSUME IInv, tcp.state = "LISTEN", NEW answer
    PROVE  LET t == Handshake(tcp, answer)
           IN  /\ t \in Session
               /\ t.state \in {"LISTEN", "CLOSING"}
               /\ t.remote_seq = tcp.remote_seq /\ t.local_seq = tcp.local_seq
               /\ t.acked = tcp.acked /\ t.sent = tcp.sent
               /\ t.received = tcp.received /\ t.forward = tcp.forward
               /\ t.socks5 = "FAILED" => t.state = "CLOSING"
               /\ t.socks5 = "CONNECTED"
                     => /\ t.state = "LISTEN"
                        /\ IF Proxy THEN tcp.socks5 = "CONNECT" /\ "IN" \in ready
                                    ELSE tcp.socks5 = "NONE" /\ "OUT" \in ready
               /\ t.state = "LISTEN" /\ t.socks5 # "CONNECTED" => Handshaken(t)
<1> DEFINE t == Handshake(tcp, answer)
<1>1. tcp \in Session
  BY Typing
<1>2. tcp.socks5 \in IF Proxy THEN {"NONE", "HELLO", "AUTH", "CONNECT"} ELSE {"NONE"}
  BY DEF IInv, Good, Handshaken
<1>3. ASSUME NEW v \in Socks5
      PROVE  LET u == [tcp EXCEPT !.socks5 = v]
             IN  /\ u \in Session /\ u.socks5 = v
                 /\ u.state = tcp.state
                 /\ u.remote_seq = tcp.remote_seq /\ u.local_seq = tcp.local_seq
                 /\ u.acked = tcp.acked /\ u.sent = tcp.sent
                 /\ u.received = tcp.received /\ u.forward = tcp.forward
  BY <1>1 DEF Session
<1>4. ASSUME NEW u \in Session, u.state = "LISTEN"
      PROVE  /\ write_rst(u) \in Session /\ write_rst(u).state = "CLOSING"
             /\ write_rst(u).socks5 = u.socks5
             /\ write_rst(u).remote_seq = u.remote_seq
             /\ write_rst(u).local_seq = u.local_seq
             /\ write_rst(u).acked = u.acked /\ write_rst(u).sent = u.sent
             /\ write_rst(u).received = u.received /\ write_rst(u).forward = u.forward
  BY <1>4 DEF write_rst, Session, States, Shut
<1>5. CASE tcp.socks5 = "NONE" /\ "OUT" \in ready
  <2> DEFINE v == IF Proxy THEN "HELLO" ELSE "CONNECTED"
  <2>1. t = [tcp EXCEPT !.socks5 = v] /\ v \in Socks5
    BY <1>5 DEF Handshake, Socks5
  <2>2. (v = "HELLO" /\ Proxy) \/ (v = "CONNECTED" /\ ~Proxy)
    OBVIOUS
  <2> HIDE DEF v, t
  <2>3. QED
    BY <1>3, <1>5, <2>1, <2>2 DEF Handshaken, t
<1>6. CASE ~(tcp.socks5 = "NONE" /\ "OUT" \in ready)
           /\ (tcp.socks5 = "NONE" \/ "IN" \notin ready)
  <2>1. t = tcp
    BY <1>6 DEF Handshake
  <2> HIDE DEF t
  <2>2. QED
    BY <1>1, <1>2, <2>1 DEF Handshaken, t
<1>7. CASE tcp.socks5 # "NONE" /\ "IN" \in ready /\ answer = "error"
  <2>1. t = write_rst(tcp)
    BY <1>7 DEF Handshake
  <2> HIDE DEF t
  <2>2. t.socks5 # "CONNECTED" /\ t.socks5 # "FAILED"
    BY <1>1, <1>2, <1>4, <2>1
  <2>3. QED
    BY <1>1, <1>4, <2>1, <2>2 DEF t
<1>8. CASE tcp.socks5 # "NONE" /\ "IN" \in ready /\ answer # "error"
           /\ \E next \in Socks5 : <<tcp.socks5, answer, next>> \in Socks5Step
  <2> DEFINE v == CHOOSE next \in Socks5 : <<tcp.socks5, answer, next>> \in Socks5Step
  <2>1. t = [tcp EXCEPT !.socks5 = v]
    BY <1>8 DEF Handshake
  <2>2. v \in Socks5 /\ <<tcp.socks5, answer, v>> \in Socks5Step
    BY <1>8
  <2> HIDE DEF v, t
  <2>3. /\ v \in {"CONNECT", "AUTH", "CONNECTED"}
        /\ v = "CONNECTED" => tcp.socks5 = "CONNECT"
    BY <2>2 DEF Socks5Step
  <2>4. Proxy
    BY <1>2, <1>8
  <2>5. QED
    BY <1>3, <1>8, <2>1, <2>2, <2>3, <2>4 DEF Handshaken, t
<1>9. CASE tcp.socks5 # "NONE" /\ "IN" \in ready /\ answer # "error"
           /\ ~(\E next \in Socks5 : <<tcp.socks5, answer, next>> \in Socks5Step)
  <2> DEFINE u == [tcp EXCEPT !.socks5 = "FAILED"]
  <2>1. t = write_rst(u)
    BY <1>9 DEF Handshake
  <2>2. "FAILED" \in Socks5
    BY DEF Socks5
  <2> HIDE DEF t
  <2>3. /\ u \in Session /\ u.socks5 = "FAILED"
        /\ u.state = tcp.state
        /\ u.remote_seq = tcp.remote_seq /\ u.local_seq = tcp.local_seq
        /\ u.acked = tcp.acked /\ u.sent = tcp.sent
        /\ u.received = tcp.received /\ u.forward = tcp.forward
    BY <1>3, <2>2
  <2> HIDE DEF u
  <2>4. QED
    BY <1>4, <2>1, <2>3 DEF t
<1>10. QED
  BY <1>5, <1>6, <1>7, <1>8, <1>9

\* The condition that ConnectedFirst puts on the step to SYN_RECV.
Connects ==
    /\ "ERR" \notin ready
    /\ IF Proxy THEN tcp.socks5 = "CONNECT" /\ "IN" \in ready
                ELSE tcp.socks5 = "NONE" /\ "OUT" \in ready

\* The connect event and the SOCKS5 handshake keep the invariant; the SYN-ACK
\* establishes what the app was told.
LEMMA SocketConnectStep ==
    ASSUME IInv, SocketConnect
    PROVE  IInv' /\ Steady /\ (tcp'.state = "SYN_RECV" => Connects)
<1>1. /\ tcp.state = "LISTEN" /\ ready # {} /\ "ERR" \notin ready /\ ready' = {}
      /\ UNCHANGED <<socket, interest, phase>>
  BY DEF SocketConnect
<1>2. socket
  BY <1>1 DEF IInv, SocketMatchesState
<1>3. /\ RemoteStart \in Nat /\ LocalStart \in Nat
      /\ tcp.remote_seq = RemoteStart /\ tcp.sent = 0
      /\ tcp.local_seq = LocalStart /\ tcp.received = 0
      /\ tcp.acked \in Nat /\ tcp.acked <= tcp.local_seq
      /\ Ordered(tcp.forward) /\ PartialHead(tcp) /\ Handshaken(tcp)
  BY <1>1, StreamAssumption, Typing
     DEF IInv, Good, Confirms, Delivers, LiveSession, Shut
<1>4. PICK answer \in Answers, sent \in BOOLEAN, ok \in WriteOk :
         LET t == Handshake(tcp, answer)
         IN  \/ /\ t.socks5 \in {"NONE", "FAILED"}
                /\ tcp' = t
                /\ app' = app
             \/ /\ t.socks5 \in {"HELLO", "AUTH", "CONNECT"}
                /\ tcp' = IF sent THEN t ELSE write_rst(t)
                /\ app' = app
             \/ /\ t.socks5 = "CONNECTED"
                /\ ok
                /\ tcp' = [SynAck(t) EXCEPT !.state = "SYN_RECV", !.age = 0,
                                            !.local_seq = @ + 1]
                /\ app' = [open |-> TRUE, ack |-> t.local_seq + 1,
                           edge |-> t.local_seq + 1 + t.send_window,
                           nxt  |-> RemoteStart + 1]
             \/ /\ t.socks5 = "CONNECTED"
                /\ ~ok
                /\ tcp' = WriteTcp(SynAck(t), ok)
                /\ app' = app
  BY DEF SocketConnect
<1> DEFINE t == Handshake(tcp, answer)
<1>5. /\ t \in Session
      /\ t.state \in {"LISTEN", "CLOSING"}
      /\ t.remote_seq = tcp.remote_seq /\ t.local_seq = tcp.local_seq
      /\ t.acked = tcp.acked /\ t.sent = tcp.sent
      /\ t.received = tcp.received /\ t.forward = tcp.forward
      /\ t.socks5 = "FAILED" => t.state = "CLOSING"
      /\ t.socks5 = "CONNECTED"
            => /\ t.state = "LISTEN"
               /\ IF Proxy THEN tcp.socks5 = "CONNECT" /\ "IN" \in ready
                           ELSE tcp.socks5 = "NONE" /\ "OUT" \in ready
      /\ t.state = "LISTEN" /\ t.socks5 # "CONNECTED" => Handshaken(t)
  BY <1>1, HandshakeFact
<1>6. \/ /\ t.socks5 \in {"NONE", "FAILED", "HELLO", "AUTH", "CONNECT"}
         /\ tcp' \in {t, write_rst(t)} /\ app' = app
      \/ /\ t.socks5 = "CONNECTED" /\ ok
         /\ tcp' = [SynAck(t) EXCEPT !.state = "SYN_RECV", !.age = 0, !.local_seq = @ + 1]
         /\ app' = [open |-> TRUE, ack |-> t.local_seq + 1,
                    edge |-> t.local_seq + 1 + t.send_window,
                    nxt  |-> RemoteStart + 1]
      \/ /\ t.socks5 = "CONNECTED" /\ ~ok
         /\ tcp' = WriteTcp(SynAck(t), FALSE) /\ app' = app
  <2>1. ok \in BOOLEAN
    BY PeerAssumption
  <2> HIDE DEF t
  <2>2. QED
    BY <1>4, <2>1 DEF t
<1> HIDE DEF t
<1>7. ASSUME Good(tcp'), Agrees(tcp', app'), app' \in AppType,
             tcp'.state \in {"LISTEN", "CLOSING", "SYN_RECV"}
      PROVE  IInv'
  <2>1. TypeOK'
    BY <1>1, <1>7 DEF IInv, TypeOK, Good, AppType
  <2>2. SocketMatchesState' /\ ReadyHasSocket'
    BY <1>1, <1>2, <1>7 DEF SocketMatchesState, ReadyHasSocket, Transfer
  <2>3. QED
    BY <1>7, <2>1, <2>2 DEF IInv
<1>8. CASE tcp' = t /\ t.socks5 # "CONNECTED" /\ app' = app
  <2>1. Good(tcp')
    <3>1. CASE t.state = "LISTEN"
      BY <1>3, <1>5, <1>8, <1>1, <3>1
         DEF Good, PartialHead, Confirms, Delivers, LiveSession, Transfer, Shut
    <3>2. CASE t.state = "CLOSING"
      <4>1. t.state \in Shut \cup {"NONE"}
        BY <3>2 DEF Shut
      <4>2. QED
        BY <1>3, <1>5, <1>8, <4>1, ShutGood
    <3>3. QED
      BY <1>5, <3>1, <3>2
  <2>2. Agrees(tcp', app')
    BY <1>5, <1>8 DEF Agrees, LiveSession, Shut, Transfer
  <2>3. IInv'
    BY <1>5, <1>7, <1>8, <2>1, <2>2, Typing
  <2>4. QED
    BY <1>3, <1>5, <1>8, <2>3 DEF Steady
<1>9. CASE tcp' = write_rst(t) /\ app' = app
  <2>1. t.state # "CLOSE" /\ Ordered(t.forward)
    BY <1>3, <1>5
  <2>2. tcp'.state = "CLOSING" /\ Good(tcp') /\ Agrees(tcp', app')
    BY <1>5, <1>9, <2>1, ResetGood
  <2>3. tcp'.remote_seq = t.remote_seq /\ tcp'.local_seq = t.local_seq
        /\ tcp'.acked = t.acked
    BY <1>5, <1>9 DEF write_rst, Session
  <2>4. IInv'
    BY <1>7, <1>9, <2>2, Typing
  <2>5. QED
    BY <1>3, <1>5, <2>2, <2>3, <2>4 DEF Steady
<1>10. CASE /\ t.socks5 = "CONNECTED" /\ ok
            /\ tcp' = [SynAck(t) EXCEPT !.state = "SYN_RECV", !.age = 0,
                                        !.local_seq = @ + 1]
            /\ app' = [open |-> TRUE, ack |-> t.local_seq + 1,
                       edge |-> t.local_seq + 1 + t.send_window,
                       nxt  |-> RemoteStart + 1]
  <2>1. /\ SynAck(t) \in Session /\ SynAck(t).remote_seq = t.remote_seq + 1
        /\ SynAck(t).local_seq = t.local_seq /\ SynAck(t).acked = t.acked
        /\ SynAck(t).sent = t.sent /\ SynAck(t).received = t.received
        /\ SynAck(t).forward = t.forward
    BY <1>3, <1>5 DEF SynAck, Session
  <2> DEFINE a == SynAck(t)
  <2>2. a \in Session /\ a.local_seq + 1 \in Nat
    BY <1>3, <1>5, <2>1
  <2>3. tcp' = [a EXCEPT !.state = "SYN_RECV", !.age = 0, !.local_seq = a.local_seq + 1]
    BY <1>10
  <2> HIDE DEF a
  <2>4. /\ tcp' \in Session /\ tcp'.state = "SYN_RECV"
        /\ tcp'.local_seq = a.local_seq + 1 /\ tcp'.remote_seq = a.remote_seq
        /\ tcp'.acked = a.acked /\ tcp'.sent = a.sent
        /\ tcp'.received = a.received /\ tcp'.forward = a.forward
    BY <2>2, <2>3 DEF Session, States
  <2>5. /\ tcp'.local_seq = LocalStart + 1 /\ tcp'.remote_seq = RemoteStart + 1
        /\ tcp'.acked = tcp.acked /\ tcp'.sent = 0
        /\ tcp'.received = 0 /\ tcp'.forward = tcp.forward
    BY <1>3, <1>5, <2>1, <2>4 DEF a
  <2>6. Good(tcp')
    <3>1. PartialHead(tcp')
      BY <1>1, <1>3, <2>5 DEF PartialHead, LiveSession, Shut
    <3>2. Confirms(tcp') /\ Delivers(tcp') /\ Handshaken(tcp')
      BY <1>3, <2>4, <2>5 DEF Confirms, Delivers, Handshaken, Transfer
    <3>3. QED
      BY <1>3, <2>4, <2>5, <3>1, <3>2 DEF Good
  <2>7. app' \in AppType /\ app'.open /\ app'.ack = tcp'.local_seq
    BY <1>3, <1>5, <1>10, <2>5 DEF AppType, Session
  <2>8. Agrees(tcp', app')
    BY <1>3, <2>4, <2>5, <2>7 DEF Agrees, Transfer
  <2>9. IInv'
    BY <1>7, <2>4, <2>6, <2>7, <2>8
  <2>10. QED
    BY <1>1, <1>3, <1>5, <1>10, <2>5, <2>9 DEF Steady, Connects
<1>11. CASE t.socks5 = "CONNECTED" /\ tcp' = WriteTcp(SynAck(t), FALSE) /\ app' = app
  <2>1. /\ SynAck(t) \in Session /\ SynAck(t).remote_seq = t.remote_seq + 1
        /\ SynAck(t).local_seq = t.local_seq /\ SynAck(t).acked = t.acked
        /\ SynAck(t).forward = t.forward
    BY <1>3, <1>5 DEF SynAck, Session
  <2> DEFINE a == SynAck(t)
  <2>2. a \in Session /\ Ordered(a.forward) /\ tcp' = WriteTcp(a, FALSE)
    BY <1>3, <1>5, <1>11, <2>1
  <2> HIDE DEF a
  <2>3. tcp'.state = "CLOSING" /\ Good(tcp') /\ Agrees(tcp', app')
    BY <2>2, WriteFails
  <2>4. /\ tcp'.remote_seq = a.remote_seq /\ tcp'.local_seq = a.local_seq
        /\ tcp'.acked = a.acked
    BY <2>2, WriteFact
  <2>5. IInv'
    BY <1>7, <1>11, <2>3, Typing
  <2>6. QED
    BY <1>3, <1>5, <2>1, <2>3, <2>4, <2>5 DEF Steady, a
<1>12. QED
  BY <1>6, <1>8, <1>9, <1>10, <1>11

\* What the app's packets are, and when a SYN may come.
LEMMA PacketFact ==
    ASSUME IInv, NEW p \in Arriving
    PROVE  /\ p.flag \in {"SYN", "ACK", "FIN", "RST"}
           /\ p.window \in Nat
           /\ p.len \in Nat
           /\ p.len > 0 => p.seq \in Nat /\ p.flag # "RST"
           /\ p.flag = "SYN" => /\ p.seq = RemoteStart
                                /\ ~app.open \/ tcp.state = "SYN_RECV"
           /\ p.flag # "SYN" => /\ app.open
                                /\ p.ack_seq \in Nat
                                /\ app.ack <= p.ack_seq
                                /\ app.edge <= p.ack_seq + p.window
<1>1. CASE p \in SynPackets /\ AppMaySyn
  <2>1. PICK l \in SynLens, w \in Windows : p = Packet("SYN", RemoteStart, l, 0, w)
    BY <1>1 DEF SynPackets
  <2>2. l \in Nat /\ w \in Nat /\ RemoteStart \in Nat
    BY StreamAssumption, PeerAssumption
  <2>3. QED
    BY <1>1, <2>1, <2>2 DEF Packet, AppMaySyn
<1>2. CASE p \in AppPackets /\ AppMaySend(p)
  <2>1. /\ app.ack \in Nat /\ app.edge \in Nat /\ tcp.local_seq \in Nat
        /\ AckSlack \in Nat
    BY Typing, PeerAssumption
  <2>2. \A a \in app.ack..(tcp.local_seq + AckSlack) : a \in Nat /\ app.ack <= a
    BY <2>1
  <2>3. app.open /\ p.ack_seq + p.window >= app.edge
    BY <1>2 DEF AppMaySend
  <2>4. CASE \E f \in {"ACK", "RST", "FIN"}, a \in app.ack..(tcp.local_seq + AckSlack),
                w \in Windows : p = Packet(f, StreamEnd, 0, a, w)
    <3>1. PICK f \in {"ACK", "RST", "FIN"}, a \in app.ack..(tcp.local_seq + AckSlack),
               w \in Windows : p = Packet(f, StreamEnd, 0, a, w)
      BY <2>4
    <3>2. /\ p.flag = f /\ p.len = 0 /\ p.ack_seq = a /\ p.window = w
      BY <3>1 DEF Packet
    <3>3. a \in Nat /\ app.ack <= a /\ w \in Nat
      BY <2>2, PeerAssumption
    <3>4. QED
      BY <2>1, <2>3, <3>2, <3>3
  <2>5. CASE \E f \in {"ACK", "FIN"}, g \in Segments,
                a \in app.ack..(tcp.local_seq + AckSlack),
                w \in Windows : p = Packet(f, g.seq, g.len, a, w)
    <3>1. PICK f \in {"ACK", "FIN"}, g \in Segments,
               a \in app.ack..(tcp.local_seq + AckSlack),
               w \in Windows : p = Packet(f, g.seq, g.len, a, w)
      BY <2>5
    <3>2. /\ p.flag = f /\ p.seq = g.seq /\ p.len = g.len
          /\ p.ack_seq = a /\ p.window = w
      BY <3>1 DEF Packet
    <3>3. a \in Nat /\ app.ack <= a /\ w \in Nat
      BY <2>2, PeerAssumption
    <3>4. g.seq \in Nat /\ g.len \in Nat
      BY StreamAssumption DEF Segment
    <3>5. QED
      BY <2>1, <2>3, <3>2, <3>3, <3>4
  <2>6. QED
    BY <1>2, <2>4, <2>5 DEF AppPackets
<1>3. QED
  BY <1>1, <1>2 DEF Arriving

\* The app after a packet.
LEMMA ToldFact ==
    ASSUME IInv, NEW p \in Arriving
    PROVE  /\ Told(p) \in AppType
           /\ p.flag = "SYN" \/ p.ack_seq > tcp.local_seq
                 => p.flag = "RST" \/ Told(p) = app
           /\ p.flag \in {"ACK", "FIN"} /\ p.ack_seq <= tcp.local_seq
                 => /\ Told(p).open /\ Told(p).ack = p.ack_seq
                    /\ Told(p).edge = p.ack_seq + p.window
<1>1. app \in AppType /\ tcp.local_seq \in Nat
  BY Typing
<1>2. CASE p.flag = "RST"
  BY <1>2 DEF Told, NoApp, AppType
<1>3. CASE p.flag # "RST" /\ (p.flag = "SYN" \/ p.ack_seq > tcp.local_seq)
  <2>1. Told(p) = app
    BY <1>3 DEF Told
  <2>2. p.flag = "SYN" \/ ~(p.ack_seq <= tcp.local_seq)
    BY <1>1, <1>3, PacketFact
  <2>3. QED
    BY <1>1, <2>1, <2>2
<1>4. CASE p.flag \notin {"RST", "SYN"} /\ ~(p.ack_seq > tcp.local_seq)
  <2> DEFINE nxt == IF p.len > 0 /\ app.nxt < p.seq + p.len THEN p.seq + p.len ELSE app.nxt
  <2>1. Told(p) = [app EXCEPT !.ack = p.ack_seq, !.edge = p.ack_seq + p.window, !.nxt = nxt]
    BY <1>4 DEF Told
  <2>2. /\ p.ack_seq \in Nat /\ p.window \in Nat /\ p.len \in Nat
        /\ p.len > 0 => p.seq \in Nat
        /\ app.open
    BY <1>4, PacketFact
  <2>3. nxt \in Nat /\ p.ack_seq + p.window \in Nat
    BY <1>1, <2>2 DEF AppType
  <2> HIDE DEF nxt
  <2>4. QED
    BY <1>1, <1>4, <2>1, <2>2, <2>3 DEF AppType
<1>5. QED
  BY <1>2, <1>3, <1>4, PacketFact

\* The session after it took the packet's data.
LEMMA TakenGood ==
    ASSUME IInv, NEW p \in Arriving, Accepts(p),
           NEW n \in 0..Len(tcp.forward), InsertionPoint(tcp.forward, p.seq, n)
    PROVE  LET t == Taken(p, n)
           IN  /\ Good(t)
               /\ t.state = tcp.state /\ t.remote_seq = tcp.remote_seq
               /\ t.local_seq = tcp.local_seq /\ t.acked = tcp.acked
               /\ t.send_window = p.window
<1> DEFINE s == Seen(p)
           t == Taken(p, n)
<1>1. /\ s \in Session /\ s.state = tcp.state /\ s.socks5 = tcp.socks5
      /\ s.remote_seq = tcp.remote_seq /\ s.local_seq = tcp.local_seq
      /\ s.acked = tcp.acked /\ s.send_window = p.window
      /\ s.sent = tcp.sent /\ s.received = tcp.received /\ s.forward = tcp.forward
  BY Typing, PacketFact DEF Seen, Session
<1>2. Good(tcp)
  BY DEF IInv
<1> HIDE DEF s
<1>3. Good(s)
  BY <1>1, <1>2, ClockGood
<1>4. CASE p.len = 0
  <2>1. t = s
    BY <1>4 DEF Taken, s
  <2> HIDE DEF t
  <2>2. QED
    BY <1>1, <1>3, <2>1 DEF t
<1>5. CASE p.len # 0
  <2>1. p.len \in Nat \ {0} /\ p.seq \in Nat /\ p.len > 0
    BY <1>5, PacketFact
  <2>2. t = queue_tcp(s, p.seq, p.len, n)
    BY <2>1 DEF Taken, s
  <2>3. LiveSession(s) /\ socket /\ s.state # "CLOSE_WAIT"
    BY <1>1, <2>1 DEF Accepts, Live, LiveSession
  <2>4. s.state # "LAST_ACK"
    BY <1>1, <2>3 DEF IInv, SocketMatchesState
  <2>5. n \in 0..Len(s.forward) /\ InsertionPoint(s.forward, p.seq, n)
    BY <1>1
  <2> HIDE DEF t
  <2>6. QED
    BY <1>1, <1>3, <2>1, <2>2, <2>3, <2>4, <2>5, QueueGood DEF t
<1>6. QED
  BY <1>4, <1>5

\* A session that took a packet of its app agrees with what the app was told.
LEMMA TakenAgrees ==
    ASSUME IInv, Live, NEW p \in Arriving, p.flag # "RST",
           p.flag = "SYN" \/ p.ack_seq <= tcp.local_seq,
           NEW t, t.state = tcp.state, t.local_seq = tcp.local_seq,
           t.acked = tcp.acked, t.send_window = p.window
    PROVE  Agrees(t, Told(p))
<1>1. /\ tcp.local_seq \in Nat /\ tcp.acked \in Nat
      /\ app.ack \in Nat /\ app.edge \in Nat /\ p.window \in Nat
  BY Typing, PacketFact
<1>2. Agrees(tcp, app)
  BY DEF IInv
<1>3. tcp.state \in Transfer => tcp.state # "LISTEN" /\ tcp.state # "SYN_RECV"
  BY DEF Transfer
<1>4. LiveSession(tcp)
  BY DEF Live, LiveSession
<1>5. CASE p.flag = "SYN"
  <2>1. Told(p) = app /\ (~app.open \/ tcp.state = "SYN_RECV")
    BY <1>5, ToldFact, PacketFact
  <2>2. tcp.state \notin Transfer
    BY <1>2, <1>3, <1>4, <2>1 DEF Agrees
  <2>3. QED
    BY <1>2, <2>1, <2>2 DEF Agrees, LiveSession
<1>6. CASE p.flag # "SYN"
  <2>1. /\ Told(p).open /\ Told(p).ack = p.ack_seq
        /\ Told(p).edge = p.ack_seq + p.window
        /\ p.ack_seq \in Nat /\ app.ack <= p.ack_seq
        /\ app.edge <= p.ack_seq + p.window /\ p.ack_seq <= tcp.local_seq
    BY <1>6, ToldFact, PacketFact
  <2>2. LiveSession(t) /\ t.state # "LISTEN"
           => Told(p).open /\ Told(p).ack <= t.local_seq
    BY <2>1
  <2>3. ASSUME t.state \in Transfer
        PROVE  /\ t.acked <= Told(p).ack
               /\ t.acked + t.send_window <= Told(p).edge
               /\ t.local_seq <= Told(p).edge
    <3>1. tcp.acked <= app.ack /\ tcp.local_seq <= app.edge
      BY <1>2, <2>3 DEF Agrees
    <3>2. QED
      BY <1>1, <2>1, <3>1
  <2>4. QED
    BY <2>2, <2>3 DEF Agrees
<1>7. QED
  BY <1>5, <1>6

\* What a packet of a live session must come to, for the invariant to hold.
LEMMA ReceiveTo ==
    ASSUME IInv, Live, NEW p \in Arriving, app' = Told(p),
           UNCHANGED <<socket, interest, ready, phase>>, phase = "dispatch",
           Good(tcp'), Agrees(tcp', app'),
           \/ tcp'.state = tcp.state \/ tcp'.state = "CLOSING"
           \/ tcp.state = "SYN_RECV" /\ tcp'.state = "ESTABLISHED"
           \/ tcp.state = "ESTABLISHED" /\ tcp'.state = "CLOSE_WAIT"
           \/ tcp.state = "FIN_WAIT1" /\ tcp'.state = "CLOSE"
    PROVE  IInv'
<1>1. TypeOK'
  BY ToldFact DEF IInv, TypeOK, Good, AppType
<1>2. SocketMatchesState'
  BY DEF IInv, SocketMatchesState, Transfer, Live
<1>3. ReadyHasSocket'
  BY DEF IInv, ReadyHasSocket, Live
<1>4. QED
  BY <1>1, <1>2, <1>3 DEF IInv

\* A FIN of the app keeps the invariant: remote_seq counts it only with an
\* empty queue.
LEMMA ReceiveFinStep ==
    ASSUME IInv, Live, NEW p \in Arriving, NEW t, Good(t),
           t.state = tcp.state, t.remote_seq = tcp.remote_seq,
           t.local_seq = tcp.local_seq, t.acked = tcp.acked, t.send_window = p.window,
           ReceiveFin(p, t)
    PROVE  /\ Good(tcp') /\ Agrees(tcp', Told(p))
           /\ \/ tcp'.state = tcp.state \/ tcp'.state = "CLOSING"
              \/ tcp.state = "ESTABLISHED" /\ tcp'.state = "CLOSE_WAIT"
              \/ tcp.state = "FIN_WAIT1" /\ tcp'.state = "CLOSE"
           /\ tcp'.remote_seq >= tcp.remote_seq
           /\ tcp'.local_seq >= tcp.local_seq
           /\ tcp'.acked >= tcp.acked
<1> DEFINE c == [t EXCEPT !.remote_seq = @ + 1]
           w == [c EXCEPT !.state = "CLOSE_WAIT"]
           d == [c EXCEPT !.state = "CLOSE"]
           v == [t EXCEPT !.state = "CLOSE_WAIT"]
<1>1. /\ t \in Session /\ Ordered(t.forward)
      /\ t.remote_seq \in Nat /\ t.local_seq \in Nat /\ t.acked \in Nat
      /\ t.sent \in Nat /\ RemoteStart \in Nat
      /\ t.acked <= t.local_seq
  BY StreamAssumption DEF Good, Session, Live, LiveSession
<1>2. p.flag = "FIN" /\ p.ack_seq = tcp.local_seq
  BY DEF ReceiveFin, InOrder
<1>3. Agrees(t, Told(p))
  BY <1>1, <1>2, TakenAgrees
<1>4. /\ c \in Session /\ c.state = t.state /\ c.remote_seq = t.remote_seq + 1
      /\ c.local_seq = t.local_seq /\ c.acked = t.acked /\ c.sent = t.sent
      /\ c.received = t.received /\ c.forward = t.forward
      /\ c.send_window = t.send_window
  <2>1. t.remote_seq + 1 \in Nat
    BY <1>1
  <2> HIDE DEF w, d, v
  <2>2. QED
    BY <1>1, <2>1 DEF Session
<1>5. /\ w \in Session /\ w.state = "CLOSE_WAIT" /\ w.remote_seq = t.remote_seq + 1
      /\ w.local_seq = t.local_seq /\ w.acked = t.acked /\ w.sent = t.sent
      /\ w.received = t.received /\ w.forward = t.forward
      /\ w.send_window = t.send_window
  <2> HIDE DEF c
  <2>1. QED
    BY <1>4 DEF Session, States, Transfer
<1>6. /\ d \in Session /\ d.state = "CLOSE" /\ d.remote_seq = t.remote_seq + 1
      /\ d.local_seq = t.local_seq /\ d.acked = t.acked /\ d.forward = t.forward
  <2> HIDE DEF c
  <2>1. QED
    BY <1>4 DEF Session, States, Shut
<1>7. /\ v \in Session /\ v.state = "CLOSE_WAIT" /\ v.remote_seq = t.remote_seq
      /\ v.local_seq = t.local_seq /\ v.acked = t.acked /\ v.sent = t.sent
      /\ v.received = t.received /\ v.forward = t.forward
      /\ v.send_window = t.send_window
  BY <1>1 DEF Session, States, Transfer
<1>8. \/ /\ t.state = "ESTABLISHED" /\ t.forward = << >>
         /\ \E ok \in WriteOk : tcp' = IF ok THEN w ELSE WriteTcp(c, ok)
      \/ t.state = "ESTABLISHED" /\ t.forward # << >> /\ tcp' = v
      \/ /\ t.state = "FIN_WAIT1"
         /\ \E ok \in WriteOk : tcp' = IF ok THEN d ELSE WriteTcp(c, ok)
      \/ tcp' = t
  BY Zenon DEF ReceiveFin
<1> HIDE DEF c, w, d, v
<1>9. \/ tcp' = WriteTcp(c, FALSE)
      \/ tcp' = w /\ t.state = "ESTABLISHED" /\ t.forward = << >>
      \/ tcp' = v /\ t.state = "ESTABLISHED" /\ t.forward # << >>
      \/ tcp' = d /\ t.state = "FIN_WAIT1"
      \/ tcp' = t
  <2>1. \A ok \in WriteOk : ok \/ ok = FALSE
    BY PeerAssumption
  <2>2. QED
    BY <1>8, <2>1
<1>10. CASE tcp' = t
  BY <1>1, <1>3, <1>10
<1>11. CASE tcp' = WriteTcp(c, FALSE)
  <2>1. tcp'.state = "CLOSING" /\ Good(tcp') /\ Agrees(tcp', Told(p))
    BY <1>1, <1>4, <1>11, WriteFails
  <2>2. /\ tcp'.remote_seq = c.remote_seq /\ tcp'.local_seq = c.local_seq
        /\ tcp'.acked = c.acked
    BY <1>4, <1>11, WriteFact
  <2>3. QED
    BY <1>1, <1>4, <2>1, <2>2
<1>12. CASE tcp' = d /\ t.state = "FIN_WAIT1"
  <2>1. d.state \in Shut \cup {"NONE"}
    BY <1>6 DEF Shut
  <2>2. Good(d) /\ Agrees(d, Told(p))
    BY <1>1, <1>6, <2>1, ShutGood
  <2>3. QED
    BY <1>1, <1>6, <1>12, <2>2
<1>13. ASSUME NEW u \in Session, u.state = "CLOSE_WAIT", t.state = "ESTABLISHED",
              u.remote_seq = t.remote_seq + (IF t.forward = << >> THEN 1 ELSE 0),
              u.local_seq = t.local_seq, u.acked = t.acked, u.sent = t.sent,
              u.received = t.received, u.forward = t.forward,
              u.send_window = t.send_window
       PROVE  Good(u) /\ Agrees(u, Told(p))
  <2>1. t.remote_seq = RemoteStart + 1 + t.sent
    BY <1>13 DEF Good, Confirms
  <2>2. Confirms(u)
    <3>1. CASE t.forward = << >>
      BY <1>1, <1>13, <2>1, <3>1 DEF Confirms
    <3>2. CASE t.forward # << >>
      BY <1>1, <1>13, <2>1, <3>2 DEF Confirms
    <3>3. QED
      BY <3>1, <3>2
  <2>3. PartialHead(u)
    <3>1. CASE t.forward = << >>
      BY <1>13, <3>1 DEF PartialHead
    <3>2. CASE t.forward # << >>
      BY <1>1, <1>13, <3>2 DEF Good, PartialHead, LiveSession, Shut
    <3>3. QED
      BY <3>1, <3>2
  <2>4. Delivers(u) /\ Handshaken(u)
    BY <1>13 DEF Good, Delivers, Handshaken, Transfer
  <2>5. Good(u)
    BY <1>1, <1>13, <2>2, <2>3, <2>4 DEF Good
  <2>6. Agrees(u, Told(p))
    BY <1>3, <1>13 DEF Agrees, LiveSession, Transfer, Shut
  <2>7. QED
    BY <2>5, <2>6
<1>14. CASE tcp' = w /\ t.state = "ESTABLISHED" /\ t.forward = << >>
  <2>1. Good(w) /\ Agrees(w, Told(p))
    BY <1>5, <1>13, <1>14
  <2>2. QED
    BY <1>1, <1>5, <1>14, <2>1
<1>15. CASE tcp' = v /\ t.state = "ESTABLISHED" /\ t.forward # << >>
  <2>1. v.remote_seq = t.remote_seq + (IF t.forward = << >> THEN 1 ELSE 0)
    BY <1>1, <1>7, <1>15
  <2>2. Good(v) /\ Agrees(v, Told(p))
    BY <1>7, <1>13, <1>15, <2>1
  <2>3. QED
    BY <1>1, <1>7, <1>15, <2>2
<1>16. QED
  BY <1>9, <1>10, <1>11, <1>12, <1>14, <1>15

\* An acknowledgement of all that was sent keeps the invariant.
LEMMA ReceiveAckStep ==
    ASSUME IInv, Live, NEW p \in Arriving, NEW t, Good(t),
           t.state = tcp.state, t.remote_seq = tcp.remote_seq,
           t.local_seq = tcp.local_seq, t.acked = tcp.acked, t.send_window = p.window,
           ReceiveAck(p, t)
    PROVE  /\ Good(tcp') /\ Agrees(tcp', Told(p))
           /\ \/ tcp'.state = tcp.state \/ tcp'.state = "CLOSING"
              \/ tcp.state = "SYN_RECV" /\ tcp'.state = "ESTABLISHED"
           /\ tcp'.remote_seq >= tcp.remote_seq
           /\ tcp'.local_seq >= tcp.local_seq
           /\ tcp'.acked >= tcp.acked
<1> DEFINE st == IF t.state = "SYN_RECV" THEN "ESTABLISHED"
                 ELSE IF t.state = "LAST_ACK" THEN "CLOSING" ELSE t.state
<1>1. /\ t \in Session /\ Ordered(t.forward)
      /\ t.remote_seq \in Nat /\ t.local_seq \in Nat /\ t.acked \in Nat
      /\ t.state \in States /\ t.acked <= t.local_seq /\ p.window \in Nat
  BY PacketFact DEF Good, Session, Live, LiveSession
<1>2. p.flag = "ACK" /\ p.ack_seq = tcp.local_seq
  BY DEF ReceiveAck, InOrder
<1>3. tcp' = [t EXCEPT !.acked = p.ack_seq, !.state = st]
  BY DEF ReceiveAck
<1>4. /\ st \in States
      /\ \/ st = "ESTABLISHED" /\ t.state = "SYN_RECV"
         \/ st = "CLOSING" /\ t.state = "LAST_ACK"
         \/ st = t.state /\ t.state # "SYN_RECV"
  BY <1>1 DEF States, Transfer, Shut
<1> HIDE DEF st
<1>5. /\ tcp' \in Session /\ tcp'.state = st /\ tcp'.acked = t.local_seq
      /\ tcp'.socks5 = t.socks5 /\ tcp'.remote_seq = t.remote_seq
      /\ tcp'.local_seq = t.local_seq /\ tcp'.sent = t.sent
      /\ tcp'.received = t.received /\ tcp'.forward = t.forward
      /\ tcp'.send_window = t.send_window
  BY <1>1, <1>2, <1>3, <1>4 DEF Session
<1>6. Agrees(t, Told(p))
  BY <1>1, <1>2, TakenAgrees
<1>7. /\ Told(p).open /\ Told(p).ack = t.local_seq
      /\ Told(p).edge = t.local_seq + p.window
  BY <1>1, <1>2, ToldFact
<1>8. CASE st = "CLOSING"
  <2>1. tcp'.state \in Shut \cup {"NONE"}
    BY <1>5, <1>8 DEF Shut
  <2>2. Good(tcp') /\ Agrees(tcp', Told(p))
    BY <1>1, <1>5, <2>1, ShutGood
  <2>3. QED
    BY <1>1, <1>5, <1>8, <2>2
<1>9. CASE st # "CLOSING"
  <2>1. PartialHead(tcp') /\ Confirms(tcp') /\ Delivers(tcp') /\ Handshaken(tcp')
    BY <1>1, <1>4, <1>5, <1>9
       DEF Good, PartialHead, Confirms, Delivers, Handshaken, LiveSession, Transfer, Shut
  <2>2. tcp'.acked <= tcp'.local_seq
    BY <1>1, <1>5
  <2>3. Good(tcp')
    BY <1>1, <1>5, <2>1, <2>2 DEF Good
  <2>4. Agrees(tcp', Told(p))
    BY <1>1, <1>5, <1>7 DEF Agrees
  <2>5. QED
    BY <1>1, <1>4, <1>5, <1>9, <2>3, <2>4
<1>10. QED
  BY <1>8, <1>9

\* A SYN that opens a session establishes the invariant for it.
LEMMA NewSessionStep ==
    ASSUME IInv, NEW p \in Arriving, NewSession(p), phase = "dispatch",
           UNCHANGED <<ready, phase>>
    PROVE  IInv' /\ Steady
<1> DEFINE queue == IF p.len = 0 THEN << >>
                    ELSE <<[seq |-> p.seq, len |-> p.len, sent |-> 0]>>
           t == [NoSession EXCEPT !.state = "LISTEN", !.send_window = p.window,
                                  !.remote_seq = p.seq, !.local_seq = LocalStart,
                                  !.forward = queue]
<1>1. /\ p.seq = RemoteStart /\ p.window \in Nat /\ p.len \in Nat
      /\ RemoteStart \in Nat /\ LocalStart \in Nat
  BY PacketFact, StreamAssumption DEF NewSession
<1>2. PICK room \in Rooms : tcp' = [t EXCEPT !.recv_open = WindowOpens(t, room)]
  BY Zenon DEF NewSession
<1>3. /\ queue \in Seq(Queued) /\ Ordered(queue)
      /\ queue # << >> => queue[1].sent = 0
  <2>1. CASE p.len = 0
    BY <2>1 DEF Ordered
  <2>2. CASE p.len # 0
    <3> DEFINE e == [seq |-> p.seq, len |-> p.len, sent |-> 0]
    <3>1. e \in Queued /\ e.sent = 0 /\ e.sent < e.len
      BY <1>1, <2>2 DEF Queued
    <3>2. queue = <<e>>
      BY <2>2
    <3> HIDE DEF e, queue
    <3>3. /\ queue \in Seq(Queued) /\ Len(queue) = 1 /\ queue[1] = e
      BY <3>1, <3>2
    <3>4. QED
      BY <3>1, <3>3 DEF Ordered
  <2>3. QED
    BY <2>1, <2>2
<1> HIDE DEF queue
<1>4. /\ t \in Session /\ t.state = "LISTEN" /\ t.socks5 = "NONE"
      /\ t.remote_seq = RemoteStart /\ t.local_seq = LocalStart /\ t.acked = 0
      /\ t.sent = 0 /\ t.received = 0 /\ t.forward = queue
  BY <1>1, <1>3 DEF NoSession, Session, States, Socks5
<1>5. WindowOpens(t, room) \in BOOLEAN
  BY WindowOpensType
<1> HIDE DEF t
<1>6. /\ tcp' \in Session /\ tcp'.state = "LISTEN" /\ tcp'.socks5 = "NONE"
      /\ tcp'.remote_seq = RemoteStart /\ tcp'.local_seq = LocalStart
      /\ tcp'.acked = 0 /\ tcp'.sent = 0 /\ tcp'.received = 0
      /\ tcp'.forward = queue
  BY <1>2, <1>4, <1>5 DEF Session
<1>7. Good(tcp')
  <2>1. PartialHead(tcp')
    BY <1>3, <1>6 DEF PartialHead
  <2>2. Confirms(tcp') /\ Delivers(tcp') /\ Handshaken(tcp')
    BY <1>6 DEF Confirms, Delivers, Handshaken, Transfer
  <2>3. QED
    BY <1>1, <1>3, <1>6, <2>1, <2>2 DEF Good
<1>8. Agrees(tcp', app')
  BY <1>6 DEF Agrees, Transfer
<1>9. socket' = TRUE /\ interest' \in {{"OUT", "ERR"}, {}} /\ app' = NoApp /\ tcp.state = "NONE"
  BY DEF NewSession
<1>10. TypeOK' /\ SocketMatchesState'
  BY <1>6, <1>9 DEF IInv, TypeOK, SocketMatchesState, Transfer, NoApp
<1>11. ReadyHasSocket' /\ Steady
  BY <1>6, <1>9 DEF IInv, ReadyHasSocket, Steady, Live
<1>12. QED
  BY <1>7, <1>8, <1>10, <1>11 DEF IInv

\* A reset sent in answer to a packet keeps the invariant.
LEMMA RefusedStep ==
    ASSUME IInv, NEW p \in Arriving, Refused(p), UNCHANGED <<ready, phase>>
    PROVE  IInv' /\ Steady
<1>1. /\ tcp.state \in Shut \cup {"NONE"} /\ app' = NoApp
      /\ UNCHANGED <<tcp, socket, interest>>
  BY DEF Refused
<1>2. Good(tcp') /\ Agrees(tcp', app')
  BY <1>1, ShutGood, Typing
<1>3. TypeOK' /\ SocketMatchesState' /\ ReadyHasSocket'
  BY <1>1 DEF IInv, TypeOK, SocketMatchesState, ReadyHasSocket, NoApp
<1>4. Steady
  BY <1>1 DEF Steady, Live
<1>5. QED
  BY <1>2, <1>3, <1>4 DEF IInv

\* A reset of a live session.
LEMMA ResetStep ==
    ASSUME IInv, Live, NEW p \in Arriving, app' = Told(p),
           UNCHANGED <<socket, interest, ready, phase>>, phase = "dispatch",
           NEW t \in Session, Ordered(t.forward),
           t.state = tcp.state, t.remote_seq = tcp.remote_seq,
           t.local_seq = tcp.local_seq, t.acked = tcp.acked,
           tcp' = write_rst(t) \/ tcp' = [t EXCEPT !.state = "CLOSING"]
    PROVE  IInv' /\ Steady
<1>1. tcp' = [t EXCEPT !.state = "CLOSING"]
  BY DEF write_rst, Live, Shut
<1>2. /\ tcp' \in Session /\ tcp'.state = "CLOSING" /\ tcp'.forward = t.forward
      /\ tcp'.remote_seq = t.remote_seq /\ tcp'.local_seq = t.local_seq
      /\ tcp'.acked = t.acked
  BY <1>1 DEF Session, States, Shut
<1>3. Good(tcp') /\ Agrees(tcp', app')
  <2>1. tcp'.state \in Shut \cup {"NONE"}
    BY <1>2 DEF Shut
  <2>2. QED
    BY <1>2, <2>1, ShutGood
<1>4. IInv'
  BY <1>2, <1>3, ReceiveTo
<1>5. QED
  BY <1>2, <1>4, Typing DEF Steady

\* A packet of a session that is found (handle_tcp) keeps the invariant.
LEMMA ReceiveStep ==
    ASSUME IInv, NEW p \in Arriving, Receive(p), app' = Told(p),
           UNCHANGED <<socket, interest, ready, phase>>, phase = "dispatch"
    PROVE  IInv' /\ Steady
<1>1. Accepts(p) /\ Live
  BY DEF Receive, Accepts
<1>2. PICK n \in 0..Len(tcp.forward) :
         /\ InsertionPoint(tcp.forward, p.seq, n)
         /\ LET t == Taken(p, n)
            IN  \/ ReceiveReset(p, t)
                \/ RepeatedSyn(p, t)
                \/ ReceiveFin(p, t)
                \/ ReceiveAck(p, t)
                \/ ReceiveOldAck(p, t)
                \/ ReceiveFutureAck(p, t)
  BY DEF Receive
<1> DEFINE t == Taken(p, n)
<1>3. /\ Good(t)
      /\ t.state = tcp.state /\ t.remote_seq = tcp.remote_seq
      /\ t.local_seq = tcp.local_seq /\ t.acked = tcp.acked
      /\ t.send_window = p.window
  BY <1>1, <1>2, TakenGood
<1> HIDE DEF t
<1>4. /\ t \in Session /\ Ordered(t.forward)
      /\ t.remote_seq \in Nat /\ t.local_seq \in Nat /\ t.acked \in Nat
      /\ t.acked <= t.local_seq
  BY <1>1, <1>3 DEF Good, Session, Live, LiveSession
<1>5. CASE ReceiveReset(p, t)
  BY <1>1, <1>3, <1>4, <1>5, ResetStep DEF ReceiveReset
<1>6. CASE ReceiveFutureAck(p, t)
  BY <1>1, <1>3, <1>4, <1>6, ResetStep DEF ReceiveFutureAck
<1>7. CASE RepeatedSyn(p, t)
  <2>1. p.flag = "SYN" /\ tcp' = t
    BY <1>7 DEF RepeatedSyn
  <2>2. Agrees(tcp', app')
    BY <1>1, <1>3, <2>1, TakenAgrees
  <2>3. IInv'
    BY <1>1, <1>3, <2>1, <2>2, ReceiveTo
  <2>4. QED
    BY <1>3, <1>4, <2>1, <2>3 DEF Steady
<1>8. CASE ReceiveFin(p, t)
  <2>1. /\ Good(tcp') /\ Agrees(tcp', Told(p))
        /\ \/ tcp'.state = tcp.state \/ tcp'.state = "CLOSING"
           \/ tcp.state = "ESTABLISHED" /\ tcp'.state = "CLOSE_WAIT"
           \/ tcp.state = "FIN_WAIT1" /\ tcp'.state = "CLOSE"
        /\ tcp'.remote_seq >= tcp.remote_seq
        /\ tcp'.local_seq >= tcp.local_seq
        /\ tcp'.acked >= tcp.acked
    BY <1>1, <1>3, <1>8, ReceiveFinStep
  <2>2. IInv'
    BY <1>1, <2>1, ReceiveTo
  <2>3. QED
    BY <2>1, <2>2 DEF Steady
<1>9. CASE ReceiveAck(p, t)
  <2>1. /\ Good(tcp') /\ Agrees(tcp', Told(p))
        /\ \/ tcp'.state = tcp.state \/ tcp'.state = "CLOSING"
           \/ tcp.state = "SYN_RECV" /\ tcp'.state = "ESTABLISHED"
        /\ tcp'.remote_seq >= tcp.remote_seq
        /\ tcp'.local_seq >= tcp.local_seq
        /\ tcp'.acked >= tcp.acked
    BY <1>1, <1>3, <1>9, ReceiveAckStep
  <2>2. IInv'
    BY <1>1, <2>1, ReceiveTo
  <2>3. QED
    BY <2>1, <2>2 DEF Steady
<1>10. CASE ReceiveOldAck(p, t)
  <2>1. /\ p.flag \in {"ACK", "FIN"} /\ p.ack_seq < tcp.local_seq
        /\ tcp' = IF p.ack_seq + 1 # tcp.local_seq /\ p.ack_seq > t.acked
                  THEN [t EXCEPT !.acked = p.ack_seq] ELSE t
    BY <1>10 DEF ReceiveOldAck
  <2>2. /\ p.ack_seq \in Nat /\ app.ack <= p.ack_seq
        /\ p.ack_seq <= tcp.local_seq
    BY <1>3, <1>4, <2>1, PacketFact
  <2>3. Agrees(t, Told(p))
    BY <1>1, <1>3, <2>1, <2>2, TakenAgrees
  <2>4. CASE tcp' = t
    <3>1. IInv'
      BY <1>1, <1>3, <2>3, <2>4, ReceiveTo
    <3>2. QED
      BY <1>3, <1>4, <2>4, <3>1 DEF Steady
  <2>5. CASE tcp' = [t EXCEPT !.acked = p.ack_seq] /\ p.ack_seq > t.acked
    <3>1. /\ tcp' \in Session /\ tcp'.acked = p.ack_seq
          /\ tcp'.state = t.state /\ tcp'.socks5 = t.socks5
          /\ tcp'.remote_seq = t.remote_seq /\ tcp'.local_seq = t.local_seq
          /\ tcp'.sent = t.sent /\ tcp'.received = t.received
          /\ tcp'.forward = t.forward /\ tcp'.send_window = t.send_window
      BY <1>4, <2>2, <2>5 DEF Session
    <3>2. Good(tcp')
      BY <1>3, <2>2, <3>1
         DEF Good, PartialHead, Confirms, Delivers, Handshaken, LiveSession
    <3>3. /\ Told(p).ack = p.ack_seq /\ Told(p).edge = p.ack_seq + p.window
      BY <2>1, <2>2, ToldFact
    <3>4. Agrees(tcp', Told(p))
      <4>1. p.window \in Nat
        BY PacketFact
      <4>2. QED
        BY <1>3, <2>2, <2>3, <3>1, <3>3, <4>1 DEF Agrees, LiveSession
    <3>5. IInv'
      BY <1>1, <1>3, <3>1, <3>2, <3>4, ReceiveTo
    <3>6. QED
      BY <1>3, <1>4, <2>2, <2>5, <3>1, <3>5 DEF Steady
  <2>6. QED
    BY <2>1, <2>4, <2>5
<1>11. QED
  BY <1>2, <1>5, <1>6, <1>7, <1>8, <1>9, <1>10 DEF t

\* Any packet read from the tun device keeps the invariant.
LEMMA TunPacketStep ==
    ASSUME IInv, TunPacket
    PROVE  IInv' /\ Steady
<1>1. PICK p \in Arriving :
         \/ NewSession(p)
         \/ Refused(p)
         \/ RefuseData(p) /\ app' = Told(p) /\ UNCHANGED <<socket, interest>>
         \/ Receive(p) /\ app' = Told(p) /\ UNCHANGED <<socket, interest>>
  BY DEF TunPacket
<1>2. phase = "dispatch" /\ UNCHANGED <<ready, phase>>
  BY DEF TunPacket
<1>3. CASE NewSession(p)
  BY <1>2, <1>3, NewSessionStep
<1>4. CASE Refused(p)
  BY <1>2, <1>4, RefusedStep
<1>5. CASE RefuseData(p) /\ app' = Told(p) /\ UNCHANGED <<socket, interest>>
  <2>1. Live /\ tcp' = write_rst(Seen(p))
    BY <1>5 DEF RefuseData
  <2>2. /\ Seen(p) \in Session /\ Ordered(Seen(p).forward)
        /\ Seen(p).state = tcp.state /\ Seen(p).remote_seq = tcp.remote_seq
        /\ Seen(p).local_seq = tcp.local_seq /\ Seen(p).acked = tcp.acked
    BY Typing, PacketFact DEF Seen, Session
  <2>3. QED
    BY <1>2, <1>5, <2>1, <2>2, ResetStep
<1>6. CASE Receive(p) /\ app' = Told(p) /\ UNCHANGED <<socket, interest>>
  BY <1>2, <1>6, ReceiveStep
<1>7. QED
  BY <1>1, <1>3, <1>4, <1>5, <1>6

\* Every step keeps the invariant and takes back nothing that was confirmed.
LEMMA Inductive ==
    ASSUME IInv, [Next]_vars
    PROVE  IInv' /\ Steady
<1>1. CASE MonitorSession
  BY <1>1, MonitorStep
<1>2. CASE SkipMonitor
  BY <1>2, IdleStep DEF SkipMonitor, IInv, TypeOK, ReadyHasSocket
<1>3. CASE SkipCheck
  BY <1>3, IdleStep DEF SkipCheck, IInv, TypeOK, ReadyHasSocket
<1>4. CASE CheckSession
  BY <1>4, CheckStep
<1>5. CASE Tick
  BY <1>5, TickStep
<1>6. CASE EpollWait
  <2>1. ready' \in SUBSET {"IN", "OUT", "ERR", "HUP"} /\ (ready' # {} => socket)
    BY <1>6 DEF EpollWait, IInv, TypeOK
  <2>2. QED
    BY <1>6, <2>1, IdleStep DEF EpollWait
<1>7. CASE SocketError
  BY <1>7, SocketErrorStep
<1>8. CASE SocketConnect
  BY <1>8, SocketConnectStep
<1>9. CASE SocketRelay
  BY <1>9, SocketRelayStep
<1>10. CASE TunPacket
  BY <1>10, TunPacketStep
<1>11. CASE EndBatch
  BY <1>11, IdleStep DEF EndBatch
<1>12. CASE UNCHANGED vars
  BY <1>12, IdleStep DEF vars, IInv, TypeOK, ReadyHasSocket
<1>13. QED
  BY <1>1, <1>2, <1>3, <1>4, <1>5, <1>6, <1>7, <1>8, <1>9, <1>10, <1>11, <1>12 DEF Next

\* Only SocketConnect answers the SYN.
LEMMA ListenStep ==
    ASSUME IInv, [Next]_vars, ~SocketConnect, tcp.state = "LISTEN"
    PROVE  tcp'.state # "SYN_RECV"
<1>1. tcp \in Session
  BY Typing
<1>2. CASE MonitorSession
  <2>1. tcp.state \notin Transfer
    BY DEF Transfer
  <2>2. tcp' = tcp \/ tcp' = [tcp EXCEPT !.state = "CLOSING"]
    BY <1>2, <2>1 DEF MonitorSession
  <2>3. QED
    BY <1>1, <2>2 DEF Session
<1>3. CASE CheckSession
  <2> DEFINE closed == [tcp EXCEPT !.state = "CLOSE", !.age = 0]
             settled == [closed EXCEPT !.sent = 0, !.received = 0]
  <2>1. closed.state = "CLOSE"
    BY <1>1 DEF Session
  <2>2. tcp' \in {tcp, settled, NoSession}
    BY <1>3, <2>1 DEF CheckSession
  <2>3. settled.state = "CLOSE"
    BY <1>1 DEF Session
  <2>4. NoSession.state = "NONE"
    BY DEF NoSession
  <2> HIDE DEF settled
  <2>5. QED
    BY <2>2, <2>3, <2>4
<1>4. CASE Tick
  BY <1>1, <1>4 DEF Tick, Session
<1>5. CASE SocketError
  <2> DEFINE r == [tcp EXCEPT !.age = 0]
  <2>1. r \in Session /\ r.state = "LISTEN" /\ tcp' = write_rst(r)
    BY <1>1, <1>5 DEF SocketError, Session
  <2> HIDE DEF r
  <2>2. QED
    BY <2>1 DEF write_rst, Session
<1>6. CASE SocketRelay
  BY <1>6 DEF SocketRelay
<1>7. CASE TunPacket
  <2>1. PICK p \in Arriving : RefuseData(p) \/ Receive(p)
    BY <1>7 DEF TunPacket, NewSession, Refused, Shut
  <2>2. CASE RefuseData(p)
    <3>1. Seen(p) \in Session /\ Seen(p).state = "LISTEN"
      BY <1>1, PacketFact DEF Seen, Session
    <3>2. QED
      BY <2>2, <3>1 DEF RefuseData, write_rst, Session
  <2>3. CASE Receive(p)
    <3>1. PICK n \in 0..Len(tcp.forward) :
             /\ InsertionPoint(tcp.forward, p.seq, n)
             /\ LET t == Taken(p, n)
                IN  \/ ReceiveReset(p, t)
                    \/ RepeatedSyn(p, t)
                    \/ ReceiveFin(p, t)
                    \/ ReceiveAck(p, t)
                    \/ ReceiveOldAck(p, t)
                    \/ ReceiveFutureAck(p, t)
      BY <2>3 DEF Receive
    <3> DEFINE t == Taken(p, n)
    <3>2. Good(t) /\ t.state = tcp.state
      BY <2>3, <3>1, TakenGood DEF Receive
    <3> HIDE DEF t
    <3>3. t \in Session /\ t.state = "LISTEN"
      BY <3>2 DEF Good
    <3>4. \/ tcp' = t
          \/ tcp' = [t EXCEPT !.state = "CLOSING"]
          \/ tcp' = [t EXCEPT !.acked = p.ack_seq]
          \/ ReceiveAck(p, t)
      BY <3>1, <3>3 DEF t, ReceiveReset, RepeatedSyn, ReceiveFin, ReceiveOldAck,
                        ReceiveFutureAck, write_rst
    <3>5. CASE ReceiveAck(p, t)
      BY <3>3, <3>5 DEF ReceiveAck, Session
    <3>6. QED
      BY <3>3, <3>4, <3>5 DEF Session
  <2>4. QED
    BY <2>1, <2>2, <2>3
<1>8. QED
  BY <1>2, <1>3, <1>4, <1>5, <1>6, <1>7
     DEF Next, SkipMonitor, SkipCheck, EpollWait, EndBatch, vars

-----------------------------------------------------------------------------
(* The theorems.                                                           *)

\* The inductive invariant holds in every state of every behaviour.
THEOREM Invariance == Spec => []IInv
<1>1. Init => IInv
  BY InitGood
<1>2. IInv /\ [Next]_vars => IInv'
  BY Inductive
<1>3. QED
  BY <1>1, <1>2, PTL DEF Spec

\* Every field of the session and of its environment has its type; above all
\* the C code's unsigned differences of sequence numbers never go below zero.
THEOREM TypeCorrect == Spec => []TypeOK
<1>1. IInv => TypeOK
  BY DEF IInv
<1>2. QED
  BY <1>1, Invariance, PTL

\* The socket of a session is open exactly while its state needs it, so that
\* no descriptor is left behind when clear_tcp_data drops the session.
THEOREM SocketsClosed == Spec => []SocketMatchesState
<1>1. IInv => SocketMatchesState
  BY DEF IInv
<1>2. QED
  BY <1>1, Invariance, PTL

\* An event of a batch never finds its session or its socket gone.
THEOREM EventsHaveSocket == Spec => []ReadyHasSocket
<1>1. IInv => ReadyHasSocket
  BY DEF IInv
<1>2. QED
  BY <1>1, Invariance, PTL

\* The app is told of exactly the bytes that were written to the server.
THEOREM AcksCorrect == Spec => []AcksOnlyForwarded
<1>1. IInv => AcksOnlyForwarded
  BY DEF IInv, Good, Confirms, AcksOnlyForwarded
<1>2. QED
  BY <1>1, Invariance, PTL

\* Every byte read from the server was written to the app.
THEOREM ReadsCorrect == Spec => []ReadIsDelivered
<1>1. IInv => ReadIsDelivered
  BY DEF IInv, Good, Delivers, ReadIsDelivered
<1>2. QED
  BY <1>1, Invariance, PTL

\* The app is never sent a byte beyond the window it offered.
THEOREM WindowCorrect == Spec => []WindowRespected
<1>1. IInv => WindowRespected
  BY DEF IInv, Agrees, WindowRespected
<1>2. QED
  BY <1>1, Invariance, PTL

\* The queue stays in the order of the stream, whatever order the app's
\* segments come in.
THEOREM QueueCorrect == Spec => []QueueSorted
<1>1. IInv => QueueSorted
  BY DEF IInv, Good, QueueSorted
<1>2. QED
  BY <1>1, Invariance, PTL

\* Nothing that either side was told is taken back.
THEOREM Progressive == Spec => NeverBackwards
<1>1. IInv /\ [Next]_vars
         => [Live /\ tcp'.state # "NONE"
               => /\ tcp'.remote_seq >= tcp.remote_seq
                  /\ tcp'.local_seq >= tcp.local_seq
                  /\ tcp'.acked >= tcp.acked]_vars
  BY Inductive DEF Steady
<1>2. QED
  BY <1>1, Invariance, PTL DEF Spec, NeverBackwards

\* The app gets its SYN-ACK only when the server, or the proxy, confirmed.
THEOREM ConnectsFirst == Spec => ConnectedFirst
<1>1. IInv /\ [Next]_vars
         => [tcp.state = "LISTEN" /\ tcp'.state = "SYN_RECV"
               => /\ "ERR" \notin ready
                  /\ IF Proxy THEN tcp.socks5 = "CONNECT" /\ "IN" \in ready
                              ELSE tcp.socks5 = "NONE" /\ "OUT" \in ready]_vars
  BY SocketConnectStep, ListenStep DEF Connects
<1>2. QED
  BY <1>1, Invariance, PTL DEF Spec, ConnectedFirst

=============================================================================
