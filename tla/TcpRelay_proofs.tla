--------------------------- MODULE TcpRelay_proofs ---------------------------
(***************************************************************************)
(* TcpSession implements Relay, for every value of the constants: whatever *)
(* the app, the server, the clock and the losses do, the queue and the     *)
(* sequence numbers of a session make two streams of bytes.                *)
(***************************************************************************)
EXTENDS TcpStream_proofs, TcpSessionLife_proofs, TcpSessionRelay, WellFoundedInduction

-----------------------------------------------------------------------------
(* Numbers.                                                                *)

\* A set of numbers that is not empty has a smallest one.
LEMMA Smallest ==
    ASSUME NEW S \in SUBSET Nat, S # {}
    PROVE  \E n \in S : \A m \in S : n <= m
<1> DEFINE R == OpToRel(<, Nat)
<1>1. IsWellFoundedOn(R, Nat)
  BY NatLessThanWellFounded
<1>2. \A a, b \in Nat : a < b => <<a, b>> \in R
  BY DEF OpToRel
<1> HIDE DEF R
<1>3. PICK n \in S : \A m \in S : ~ (<<m, n>> \in R)
  BY <1>1, WFMin
<1>4. ASSUME NEW m \in S
      PROVE  n <= m
  <2>1. m \in Nat /\ n \in Nat /\ ~(m < n)
    BY <1>2, <1>3
  <2>2. QED
    BY <2>1
<1>5. QED
  BY <1>4

-----------------------------------------------------------------------------
(* The streams of a session.                                               *)

RelayStates == {"SYN_RECV", "ESTABLISHED", "CLOSE_WAIT", "FIN_WAIT1", "LAST_ACK"}

\* The streams of a session t in one of these states.
UpOf(t) == [held |-> Held(t), passed |-> t.sent, told |-> t.sent,
            fin |-> AppFinished(t), confirmed |-> FinConfirmed(t)]

DownOf(t) == [read |-> t.received, given |-> t.received, fin |-> ServerFinished(t)]

\* What the app is told is what the server was sent, and what it is given is
\* what was read, whatever SYN and FIN add to the sequence numbers.
LEMMA Counts ==
    ASSUME NEW t, Good(t), t.state \in RelayStates
    PROVE  /\ t.remote_seq - (RemoteStart + 1) - (IF FinConfirmed(t) THEN 1 ELSE 0) = t.sent
           /\ t.local_seq - (LocalStart + 1) - (IF ServerFinished(t) THEN 1 ELSE 0)
                = t.received
<1>1. t.sent \in Nat /\ t.received \in Nat /\ RemoteStart \in Nat /\ LocalStart \in Nat
  BY StreamAssumption DEF Good, Session
<1>2. t.remote_seq = RemoteStart + 1 + t.sent + (IF FinConfirmed(t) THEN 1 ELSE 0)
  BY <1>1 DEF Good, Confirms, FinConfirmed, AppFinished, RelayStates
<1>3. t.local_seq = LocalStart + 1 + t.received + (IF ServerFinished(t) THEN 1 ELSE 0)
  BY <1>1 DEF Good, Delivers, ServerFinished, RelayStates, Transfer
<1>4. QED
  BY <1>1, <1>2, <1>3

\* A live session relays or waits for the server.
LEMMA RelayingFact ==
    ASSUME NEW t, t.state \in States
    PROVE  t.state \notin {"NONE", "LISTEN"} \cup Shut <=> t.state \in RelayStates
  BY DEF States, Transfer, Shut, RelayStates

LEMMA ViewFact ==
    ASSUME IInv
    PROVE  /\ tcp.state \in RelayStates
                 => UpStream = UpOf(tcp) /\ DownStream = DownOf(tcp)
           /\ tcp.state \notin RelayStates
                 => UpStream = NoUp /\ DownStream = NoDown
<1>1. Good(tcp) /\ (Relaying <=> tcp.state \in RelayStates)
  BY Typing, RelayingFact DEF IInv, Relaying
<1>2. QED
  BY <1>1, Counts DEF UpStream, DownStream, UpOf, DownOf

LEMMA ViewNextFact ==
    ASSUME IInv'
    PROVE  /\ tcp'.state \in RelayStates
                 => UpStream' = UpOf(tcp') /\ DownStream' = DownOf(tcp')
           /\ tcp'.state \notin RelayStates
                 => UpStream' = NoUp /\ DownStream' = NoDown
<1>1. tcp'.state \in States /\ Good(tcp')
  BY DEF IInv, Good, Session
<1>2. Relaying' <=> tcp'.state \in RelayStates
  BY <1>1, RelayingFact DEF Relaying
<1>3. QED
  BY <1>1, <1>2, Counts DEF UpStream, DownStream, UpOf, DownOf

\* The stages.
LEMMA RelayStageFact ==
    ASSUME IInv
    PROVE  /\ RelayStage = "none" <=> tcp.state = "NONE"
           /\ RelayStage = "opening" <=> tcp.state = "LISTEN"
           /\ RelayStage = "over" <=> tcp.state \in Shut
           /\ RelayStage = "open" <=> tcp.state \in RelayStates
           /\ RelayStage \in {"none", "opening", "over", "open"}
<1>1. tcp.state \in States
  BY Typing
<1>2. QED
  BY <1>1 DEF RelayStage, States, Transfer, Shut, RelayStates

LEMMA RelayStageNextFact ==
    ASSUME IInv'
    PROVE  /\ RelayStage' = "none" <=> tcp'.state = "NONE"
           /\ RelayStage' = "opening" <=> tcp'.state = "LISTEN"
           /\ RelayStage' = "over" <=> tcp'.state \in Shut
           /\ RelayStage' = "open" <=> tcp'.state \in RelayStates
           /\ RelayStage' \in {"none", "opening", "over", "open"}
<1>1. tcp'.state \in States
  BY DEF IInv, Good, Session
<1>2. QED
  BY <1>1 DEF RelayStage, States, Transfer, Shut, RelayStates

-----------------------------------------------------------------------------
(* The bytes in the queue.                                                 *)

\* The byte b is of the queue q.
Holds(q, b) ==
    \E i \in 1..Len(q) : /\ q[i].seq + q[i].sent <= b + RemoteStart
                         /\ b + RemoteStart < SegmentEnd(q[i])

LEMMA HeldFact ==
    ASSUME NEW t, t.forward \in Seq(Queued), Ordered(t.forward), t.sent \in Nat
    PROVE  /\ \A b : b \in Held(t) <=> b \in Nat /\ b > t.sent /\ Holds(t.forward, b)
           /\ t.forward = << >> => Held(t) = {}
<1> DEFINE q == t.forward
           lo(i) == q[i].seq + q[i].sent - RemoteStart
           hi(i) == SegmentEnd(q[i]) - 1 - RemoteStart
<1>1. \A i \in 1..Len(q) : /\ q[i].seq \in Nat /\ q[i].sent \in Nat
                           /\ SegmentEnd(q[i]) \in Nat
  BY QueueTypes
<1>2. RemoteStart \in Nat
  BY StreamAssumption
<1>3. Held(t) = {b \in UNION {lo(i)..hi(i) : i \in 1..Len(q)} : b > t.sent}
  BY DEF Held
<1>4. \A b : b \in Held(t) <=> b > t.sent /\ \E i \in 1..Len(q) : b \in lo(i)..hi(i)
  BY <1>3
<1>5. \A i \in 1..Len(q) : lo(i) \in Int /\ hi(i) \in Int
  BY <1>1, <1>2, SMTT(20)
<1>6. ASSUME NEW b, NEW i \in 1..Len(q)
      PROVE  b \in lo(i)..hi(i) <=> /\ b \in Int
                                    /\ q[i].seq + q[i].sent <= b + RemoteStart
                                    /\ b + RemoteStart < SegmentEnd(q[i])
  <2>1. /\ q[i].seq \in Nat /\ q[i].sent \in Nat /\ SegmentEnd(q[i]) \in Nat
    BY <1>1
  <2> DEFINE first == q[i].seq + q[i].sent
             end == SegmentEnd(q[i])
  <2>2. first \in Nat /\ end \in Nat
    BY <2>1
  <2>3. lo(i) = first - RemoteStart /\ hi(i) = end - 1 - RemoteStart
    BY <1>2, <2>1
  <2>4. b \in lo(i)..hi(i) <=> /\ b \in Int /\ first <= b + RemoteStart
                              /\ b + RemoteStart < end
    BY <1>2, <2>2, <2>3
  <2>5. QED
    BY <2>4 DEF first, end
<1> HIDE DEF lo, hi
<1>7. ASSUME NEW b
      PROVE  b \in Held(t) <=> b \in Nat /\ b > t.sent /\ Holds(q, b)
  <2>1. CASE b \in Held(t)
    <3>1. b > t.sent
      BY <1>4, <2>1
    <3>2. PICK i \in 1..Len(q) : b \in lo(i)..hi(i)
      BY <1>4, <2>1
    <3>3. /\ b \in Int /\ q[i].seq + q[i].sent <= b + RemoteStart
          /\ b + RemoteStart < SegmentEnd(q[i])
      BY <1>6, <3>2
    <3>4. b \in Nat
      BY <3>1, <3>3
    <3>5. QED
      BY <2>1, <3>1, <3>3, <3>4 DEF Holds
  <2>2. CASE b \in Nat /\ b > t.sent /\ Holds(q, b)
    <3>1. PICK i \in 1..Len(q) : /\ q[i].seq + q[i].sent <= b + RemoteStart
                                 /\ b + RemoteStart < SegmentEnd(q[i])
      BY <2>2 DEF Holds
    <3>2. b \in Int
      BY <2>2
    <3>3. b \in lo(i)..hi(i)
      BY <1>6, <3>1, <3>2
    <3>4. QED
      BY <1>4, <2>2, <3>3
  <2>3. QED
    BY <2>1, <2>2
<1>8. q = << >> => Held(t) = {}
  <2>1. q = << >> => 1..Len(q) = {}
    OBVIOUS
  <2>2. QED
    BY <1>4, <2>1
<1>9. QED
  BY <1>7, <1>8

\* An insertion keeps the bytes that are held.
LEMMA InsertHolds ==
    ASSUME NEW q \in Seq(Queued), NEW v, NEW n \in 0..Len(q), NEW e,
           Inserted(q, v, n, e), NEW b, Holds(q, b)
    PROVE  Holds(v, b)
<1>1. PICK i \in 1..Len(q) : /\ q[i].seq + q[i].sent <= b + RemoteStart
                             /\ b + RemoteStart < SegmentEnd(q[i])
  BY DEF Holds
<1>2. Len(v) = Len(q) + 1 /\ Len(q) \in Nat
  BY DEF Inserted
<1>3. \A m \in 1..(Len(q) + 1) :
         v[m] = IF m <= n THEN q[m] ELSE IF m = n + 1 THEN e ELSE q[m - 1]
  BY DEF Inserted
<1>4. \E m \in 1..Len(v) : v[m] = q[i]
  <2>1. CASE i <= n
    <3>1. i \in 1..(Len(q) + 1) /\ i \in 1..Len(v)
      BY <1>2
    <3>2. v[i] = q[i]
      BY <1>3, <2>1, <3>1
    <3>3. QED
      BY <3>1, <3>2
  <2>2. CASE ~(i <= n)
    <3>1. /\ i + 1 \in 1..(Len(q) + 1) /\ i + 1 \in 1..Len(v)
          /\ ~(i + 1 <= n) /\ i + 1 # n + 1 /\ (i + 1) - 1 = i
      BY <1>2, <2>2
    <3>2. v[i + 1] = q[i]
      BY <1>3, <3>1
    <3>3. QED
      BY <3>1, <3>2
  <2>3. QED
    BY <2>1, <2>2
<1>5. PICK m \in 1..Len(v) : v[m] = q[i]
  BY <1>4
<1>6. QED
  BY <1>1, <1>5 DEF Holds

\* The first j segments of q follow the byte r without a hole, and so do k bytes
\* of the next one.
Follows(q, r, j, k) ==
    LET start == IF j = 0 THEN r ELSE SegmentEnd(q[j])
    IN  /\ \A i \in 1..j : q[i].seq + q[i].sent = IF i = 1 THEN r ELSE SegmentEnd(q[i - 1])
        /\ k > 0 => /\ j < Len(q)
                    /\ q[j + 1].seq + q[j + 1].sent = start
                    /\ k < q[j + 1].len - q[j + 1].sent

\* Where they end.
Reached(q, r, j, k) == (IF j = 0 THEN r ELSE SegmentEnd(q[j])) + k

\* None of the bytes between r and this end is missing.
LEMMA NoHole ==
    ASSUME NEW q \in Seq(Queued), Ordered(q), NEW r \in Nat,
           NEW j \in 0..Len(q), NEW k \in Nat, Follows(q, r, j, k),
           NEW b \in Nat, r <= b + RemoteStart, b + RemoteStart < Reached(q, r, j, k)
    PROVE  Holds(q, b)
<1> DEFINE x == b + RemoteStart
           start == IF j = 0 THEN r ELSE SegmentEnd(q[j])
           S == {i \in 1..j : x < SegmentEnd(q[i])}
<1>1. x \in Nat
  BY StreamAssumption
<1>2. \A i \in 1..Len(q) : /\ q[i].seq \in Nat /\ q[i].sent \in Nat /\ q[i].len \in Nat
                           /\ SegmentEnd(q[i]) \in Nat
  BY QueueTypes
<1>3. Len(q) \in Nat
  OBVIOUS
<1>4. r <= x /\ x < start + k
  BY DEF Reached
<1>5. k > 0 => /\ j < Len(q)
               /\ q[j + 1].seq + q[j + 1].sent = start
               /\ k < q[j + 1].len - q[j + 1].sent
  BY DEF Follows
<1>6. \A i \in 1..j : q[i].seq + q[i].sent = IF i = 1 THEN r ELSE SegmentEnd(q[i - 1])
  BY DEF Follows
<1> SUFFICES \E i \in 1..Len(q) : q[i].seq + q[i].sent <= x /\ x < SegmentEnd(q[i])
  BY DEF Holds
<1> HIDE DEF x
<1>7. CASE S = {}
  <2>1. start \in Nat /\ start <= x
    <3>1. CASE j = 0
      BY <1>4, <3>1
    <3>2. CASE j # 0
      <4>1. j \in 1..j /\ j \in 1..Len(q)
        BY <3>2
      <4>2. ~(x < SegmentEnd(q[j])) /\ SegmentEnd(q[j]) \in Nat
        BY <1>2, <1>7, <4>1
      <4>3. QED
        BY <1>1, <3>2, <4>2
    <3>3. QED
      BY <3>1, <3>2
  <2> HIDE DEF start
  <2>2. k > 0
    BY <1>1, <1>4, <2>1
  <2>3. j + 1 \in 1..Len(q)
    BY <1>3, <1>5, <2>2
  <2>4. /\ q[j + 1].seq \in Nat /\ q[j + 1].sent \in Nat /\ q[j + 1].len \in Nat
        /\ SegmentEnd(q[j + 1]) = q[j + 1].seq + q[j + 1].len
    BY <1>2, <2>3 DEF SegmentEnd
  <2>5. q[j + 1].seq + q[j + 1].sent <= x
    BY <1>5, <2>1, <2>2
  <2>6. x < SegmentEnd(q[j + 1])
    <3>1. /\ q[j + 1].seq + q[j + 1].sent = start
          /\ k < q[j + 1].len - q[j + 1].sent
      BY <1>5, <2>2
    <3> HIDE DEF S
    <3>2. start + k < SegmentEnd(q[j + 1])
      BY <2>1, <2>4, <3>1, SMTT(30)
    <3>3. QED
      BY <1>1, <1>4, <2>1, <2>4, <3>2
  <2>7. QED
    BY <2>3, <2>5, <2>6
<1>8. CASE S # {}
  <2>1. PICK i \in S : \A m \in S : i <= m
    <3>1. S \in SUBSET Nat
      OBVIOUS
    <3> HIDE DEF S
    <3>2. QED
      BY <1>8, <3>1, Smallest
  <2>2. i \in 1..j /\ i \in 1..Len(q) /\ x < SegmentEnd(q[i])
    OBVIOUS
  <2>3. q[i].seq + q[i].sent <= x
    <3>1. CASE i = 1
      BY <1>4, <1>6, <2>2, <3>1
    <3>2. CASE i # 1
      <4>1. i - 1 \in 1..j /\ i - 1 \in 1..Len(q) /\ ~(i <= i - 1)
        BY <2>2, <3>2
      <4>2. ~(x < SegmentEnd(q[i - 1]))
        BY <2>1, <4>1
      <4>3. SegmentEnd(q[i - 1]) \in Nat
        BY <1>2, <4>1
      <4>4. q[i].seq + q[i].sent = SegmentEnd(q[i - 1])
        BY <1>6, <2>2, <3>2
      <4>5. QED
        BY <1>1, <4>2, <4>3, <4>4
    <3>3. QED
      BY <3>1, <3>2
  <2>4. QED
    BY <2>2, <2>3
<1>9. QED
  BY <1>7, <1>8

\* The end is not before r, and no segment sent whole goes beyond it.
LEMMA ReachedFact ==
    ASSUME NEW q \in Seq(Queued), Ordered(q), NEW r \in Nat,
           NEW j \in 0..Len(q), NEW k \in Nat, Follows(q, r, j, k)
    PROVE  /\ Reached(q, r, j, k) \in Nat
           /\ r <= Reached(q, r, j, k)
           /\ \A m \in 1..j : SegmentEnd(q[m]) <= Reached(q, r, j, k)
<1>1. \A i \in 1..Len(q) : /\ q[i].seq \in Nat /\ q[i].sent \in Nat
                           /\ SegmentEnd(q[i]) \in Nat
                           /\ q[i].seq + q[i].sent < SegmentEnd(q[i])
                           /\ i > 1 => q[i].sent = 0
  BY QueueTypes
<1>2. \A i \in 1..j : q[i].seq + q[i].sent = IF i = 1 THEN r ELSE SegmentEnd(q[i - 1])
  BY DEF Follows
<1>3. \A i, m \in 1..Len(q) : i < m => q[i].seq < q[m].seq
  BY DEF Ordered
<1>4. CASE j = 0
  BY <1>4 DEF Reached
<1>5. CASE j # 0
  <2> DEFINE e == SegmentEnd(q[j])
  <2>1. j \in 1..Len(q) /\ 1 \in 1..j /\ 1 \in 1..Len(q)
    BY <1>5
  <2>2. e \in Nat /\ q[j].seq < e /\ q[j].seq \in Nat
    <3>1. q[j].seq \in Nat /\ q[j].sent \in Nat /\ e \in Nat /\ q[j].seq + q[j].sent < e
      BY <1>1, <2>1
    <3> HIDE DEF e
    <3>2. QED
      BY <3>1
  <2>3. Reached(q, r, j, k) = e + k
    BY <1>5 DEF Reached
  <2> HIDE DEF e
  <2>4. ASSUME NEW m \in 1..j
        PROVE  SegmentEnd(q[m]) <= e
    <3>1. CASE m = j
      BY <2>2, <3>1 DEF e
    <3>2. CASE m # j
      <4>1. /\ m + 1 \in 1..j /\ m + 1 \in 1..Len(q) /\ m + 1 > 1 /\ (m + 1) - 1 = m
            /\ m \in 1..Len(q)
        BY <2>1, <3>2
      <4>2. q[m + 1].seq + q[m + 1].sent = SegmentEnd(q[m])
        BY <1>2, <4>1
      <4>3. q[m + 1].sent = 0 /\ q[m + 1].seq \in Nat
        BY <1>1, <4>1
      <4>4. q[m + 1].seq <= q[j].seq
        <5>1. m + 1 = j \/ m + 1 < j
          BY <4>1
        <5>2. QED
          BY <1>3, <2>1, <2>2, <4>1, <4>3, <5>1
      <4>5. QED
        BY <2>2, <4>2, <4>3, <4>4
    <3>3. QED
      BY <3>1, <3>2
  <2>5. r <= e
    <3>1. q[1].seq + q[1].sent = r /\ q[1].seq + q[1].sent < SegmentEnd(q[1])
      BY <1>1, <1>2, <2>1
    <3>2. SegmentEnd(q[1]) <= e /\ SegmentEnd(q[1]) \in Nat
      BY <1>1, <2>1, <2>4
    <3>3. QED
      BY <2>2, <3>1, <3>2
  <2>6. \A m \in 1..j : SegmentEnd(q[m]) \in Nat
    BY <1>1, <2>1
  <2>7. QED
    BY <2>2, <2>3, <2>4, <2>5, <2>6
<1>6. QED
  BY <1>4, <1>5

\* What is left of the queue holds the bytes from the end on, and no others.
LEMMA RestHolds ==
    ASSUME NEW q \in Seq(Queued), Ordered(q), NEW v \in Seq(Queued), NEW r \in Nat,
           NEW j \in 0..Len(q), NEW k \in Nat, Follows(q, r, j, k),
           Advances(q, v, j, k), NEW b \in Nat
    PROVE  /\ Holds(v, b) => Holds(q, b)
           /\ Holds(q, b) /\ Reached(q, r, j, k) <= b + RemoteStart => Holds(v, b)
<1> DEFINE x == b + RemoteStart
           e == Reached(q, r, j, k)
<1>1. x \in Nat
  BY StreamAssumption
<1>2. \A i \in 1..Len(q) : q[i].seq \in Nat /\ q[i].sent \in Nat /\ SegmentEnd(q[i]) \in Nat
  BY QueueTypes
<1>3. e \in Nat /\ \A m \in 1..j : SegmentEnd(q[m]) <= e
  BY ReachedFact
<1>4. Len(v) = Len(q) - j /\ Len(q) \in Nat
  BY DEF Advances
<1>5. ASSUME NEW i \in 1..Len(v)
      PROVE  /\ j + i \in 1..Len(q)
             /\ v[i].seq = q[j + i].seq /\ SegmentEnd(v[i]) = SegmentEnd(q[j + i])
             /\ v[i].sent = q[j + i].sent + (IF i = 1 THEN k ELSE 0)
  BY <1>4 DEF Advances, SegmentEnd
<1> HIDE DEF x, e
<1>6. ASSUME Holds(v, b)
      PROVE  Holds(q, b)
  <2>1. PICK i \in 1..Len(v) : v[i].seq + v[i].sent <= x /\ x < SegmentEnd(v[i])
    BY <1>6 DEF Holds, x
  <2>2. /\ j + i \in 1..Len(q) /\ x < SegmentEnd(q[j + i])
        /\ v[i].seq = q[j + i].seq
        /\ v[i].sent = q[j + i].sent + (IF i = 1 THEN k ELSE 0)
    BY <1>5, <2>1
  <2>3. q[j + i].seq \in Nat /\ q[j + i].sent \in Nat
    BY <1>2, <2>2
  <2>4. q[j + i].seq + q[j + i].sent <= x
    BY <1>1, <2>1, <2>2, <2>3, SMTT(20)
  <2>5. QED
    BY <2>2, <2>4 DEF Holds, x
<1>7. ASSUME Holds(q, b), e <= x
      PROVE  Holds(v, b)
  <2>1. PICK m \in 1..Len(q) : q[m].seq + q[m].sent <= x /\ x < SegmentEnd(q[m])
    BY <1>7 DEF Holds, x
  <2>2. ~(m <= j)
    <3>1. m <= j => SegmentEnd(q[m]) <= e
      BY <1>3
    <3>2. SegmentEnd(q[m]) \in Nat
      BY <1>2
    <3>3. QED
      BY <1>1, <1>3, <1>7, <2>1, <3>1, <3>2
  <2> DEFINE i == m - j
  <2>3. i \in 1..Len(v) /\ j + i = m
    BY <1>4, <2>2
  <2>4. q[m].seq \in Nat /\ q[m].sent \in Nat
    BY <1>2
  <2> HIDE DEF i
  <2>5. /\ v[i].seq = q[m].seq /\ SegmentEnd(v[i]) = SegmentEnd(q[m])
        /\ v[i].sent = q[m].sent + (IF i = 1 THEN k ELSE 0)
    BY <1>5, <2>3
  <2>6. v[i].seq + v[i].sent <= x
    <3>1. CASE i = 1 /\ k > 0
      <4>1. q[j + 1].seq + q[j + 1].sent = IF j = 0 THEN r ELSE SegmentEnd(q[j])
        BY <3>1 DEF Follows
      <4>2. e = (q[j + 1].seq + q[j + 1].sent) + k
        BY <4>1 DEF e, Reached
      <4>3. e = (q[m].seq + q[m].sent) + k
        BY <2>3, <3>1, <4>2
      <4>4. v[i].sent = q[m].sent + k
        BY <2>5, <3>1
      <4>5. QED
        BY <1>7, <2>4, <2>5, <4>3, <4>4
    <3>2. CASE ~(i = 1 /\ k > 0)
      <4>1. v[i].sent = q[m].sent
        BY <2>4, <2>5, <3>2
      <4>2. QED
        BY <2>1, <2>5, <4>1
    <3>3. QED
      BY <3>1, <3>2
  <2>7. x < SegmentEnd(v[i])
    BY <2>1, <2>5
  <2>8. QED
    BY <2>3, <2>6, <2>7 DEF Holds, x
<1>8. QED
  BY <1>6, <1>7 DEF x, e

-----------------------------------------------------------------------------
(* The steps.                                                              *)

\* What is seen of the session as a relay.
RelayView == <<RelayStage, UpStream, DownStream>>

\* A step of the session is one of the relay's, or none.
RelayStep == Streams!Next \/ UNCHANGED RelayView

\* What TcpLife says of the states.
LEMMA StageSteps ==
    ASSUME IInv, [Next]_vars
    PROVE  /\ tcp'.state = "NONE" => tcp.state \in {"NONE"} \cup Shut
           /\ tcp.state = "NONE" => tcp'.state \notin Shut
<1>1. LifeStep
  BY StepLives
<1>2. /\ Viewed.stage = "ACTIVE" => Viewed'.stage # "NONE"
      /\ Viewed.stage = "NONE" => Viewed'.stage \in {"NONE", "ACTIVE"}
  <2>1. /\ Viewed = [stage |-> Stage, socket |-> socket]
        /\ Viewed.stage = "NONE" => ~Viewed.socket
    BY ViewedFact, StageFact DEF IInv, SocketMatchesState
  <2>2. CASE UNCHANGED Viewed
    BY <2>2
  <2>3. CASE Life!Monitor
    BY <2>1, <2>3, Actions DEF Life!MonitorSteps, Life!Reset
  <2>4. CASE Life!Check
    BY <2>1, <2>4, Actions DEF Life!CheckSteps, Life!Closed, Life!Absent, Life!At
  <2>5. CASE Life!Event
    <3>1. Viewed.socket /\ Viewed' \in Life!EventSteps(Viewed)
      BY <2>5, Actions
    <3>2. Viewed.stage # "NONE"
      BY <2>1, <3>1
    <3>3. Viewed.stage = "ACTIVE" => Viewed'.stage \in {"ACTIVE", "ENDING"}
      BY <3>1 DEF Life!EventSteps, Life!At
    <3>4. QED
      BY <3>2, <3>3
  <2>6. CASE Life!Packet
    BY <2>1, <2>6, Actions DEF Life!PacketSteps, Life!At, Life!Reset, Life!Closed
  <2>7. QED
    BY <1>1, <2>2, <2>3, <2>4, <2>5, <2>6 DEF LifeStep, Life!Next
<1>3. QED
  BY <1>2, ViewedFact, StageFact, StageNextFact DEF Shut


\* A step that is not of an open stream and leaves the stage alone.
LEMMA Unheard ==
    ASSUME IInv, IInv', RelayStage' = RelayStage, RelayStage # "open"
    PROVE  RelayStep
<1>1. tcp.state \notin RelayStates /\ tcp'.state \notin RelayStates
  BY RelayStageFact, RelayStageNextFact
<1>2. UpStream = NoUp /\ UpStream' = NoUp /\ DownStream = NoDown /\ DownStream' = NoDown
  BY <1>1, ViewFact, ViewNextFact
<1>3. QED
  BY <1>2 DEF RelayStep, RelayView

\* The constants of Relay.
LEMMA NothingFact == Streams!NoUp = NoUp /\ Streams!NoDown = NoDown
  BY DEF Streams!NoUp, NoUp, Streams!NoDown, NoDown

\* A teardown or a removal.
LEMMA DownRelay ==
    ASSUME IInv, IInv', [Next]_vars, Down
    PROVE  RelayStep
<1>1. /\ tcp'.state = "NONE" => tcp.state \in {"NONE"} \cup Shut
      /\ tcp.state = "NONE" => tcp'.state \notin Shut
  BY StageSteps
<1>2. tcp'.state \in Shut \cup {"NONE"} /\ tcp'.state \notin RelayStates
  BY DEF Down, Shut, RelayStates
<1>3. UpStream' = NoUp /\ DownStream' = NoDown
  BY <1>2, ViewNextFact
<1>4. CASE tcp.state = "NONE"
  <2>1. RelayStage' = "none" /\ RelayStage = "none"
    BY <1>1, <1>2, <1>4, RelayStageFact, RelayStageNextFact
  <2>2. QED
    BY <2>1, Unheard
<1>5. CASE tcp.state \in Shut
  <2>1. RelayStage = "over" /\ RelayStage' \in {"over", "none"}
    BY <1>2, <1>5, RelayStageFact, RelayStageNextFact
  <2>2. CASE RelayStage' = "over"
    BY <2>1, <2>2, Unheard
  <2>3. CASE RelayStage' = "none"
    <3>1. tcp.state \notin RelayStates
      BY <1>5 DEF Shut, RelayStates
    <3>2. UpStream' = UpStream /\ DownStream' = DownStream
      BY <1>3, <3>1, ViewFact
    <3>3. Streams!Forget
      BY <2>1, <2>3, <3>2 DEF Streams!Forget
    <3>4. QED
      BY <3>3 DEF RelayStep, Streams!Next
  <2>4. QED
    BY <2>1, <2>2, <2>3
<1>6. CASE tcp.state \notin {"NONE"} \cup Shut
  <2>1. RelayStage \in {"opening", "open"}
    BY <1>6, RelayStageFact
  <2>2. RelayStage' = "over"
    BY <1>1, <1>2, <1>6, RelayStageNextFact
  <2>3. Streams!End
    BY <1>3, <2>1, <2>2, NothingFact DEF Streams!End
  <2>4. QED
    BY <2>3 DEF RelayStep, Streams!Next
<1>7. QED
  BY <1>4, <1>5, <1>6

\* A SYN that opens a session.
LEMMA OpenedRelay ==
    ASSUME IInv, IInv', Opened
    PROVE  RelayStep
<1>1. /\ tcp.state = "NONE" /\ tcp'.state = "LISTEN"
      /\ tcp.state \notin RelayStates /\ tcp'.state \notin RelayStates
  BY DEF Opened, RelayStates
<1>2. RelayStage = "none" /\ RelayStage' = "opening"
  BY <1>1, RelayStageFact, RelayStageNextFact
<1>3. UpStream' = UpStream /\ DownStream' = DownStream
  BY <1>1, ViewFact, ViewNextFact
<1>4. Streams!Begin
  BY <1>2, <1>3 DEF Streams!Begin
<1>5. QED
  BY <1>4 DEF RelayStep, Streams!Next

\* The streams depend on these fields only.
LEMMA SameHeld ==
    ASSUME tcp'.forward = tcp.forward, tcp'.sent = tcp.sent
    PROVE  Held(tcp') = Held(tcp)
  BY DEF Held

\* A step that is not about the streams.
LEMMA SameRelay ==
    ASSUME IInv, IInv', tcp'.forward = tcp.forward, tcp'.sent = tcp.sent,
           tcp'.received = tcp.received, tcp'.state = tcp.state
    PROVE  RelayStep
<1>1. RelayStage' = RelayStage
  BY DEF RelayStage
<1>2. CASE RelayStage # "open"
  BY <1>1, <1>2, Unheard
<1>3. CASE RelayStage = "open"
  <2>1. tcp.state \in RelayStates /\ tcp'.state \in RelayStates
    BY <1>3, RelayStageFact
  <2>2. /\ UpStream = UpOf(tcp) /\ DownStream = DownOf(tcp)
        /\ UpStream' = UpOf(tcp') /\ DownStream' = DownOf(tcp')
    BY <2>1, ViewFact, ViewNextFact
  <2>3. UpOf(tcp') = UpOf(tcp) /\ DownOf(tcp') = DownOf(tcp)
    BY SameHeld DEF UpOf, DownOf, AppFinished, FinConfirmed, ServerFinished
  <2>4. QED
    BY <1>1, <2>2, <2>3 DEF RelayStep, RelayView
<1>4. QED
  BY <1>2, <1>3

\* The app's streams, and those that differ in some fields.
UpType == [held : SUBSET Nat, passed : Nat, told : Nat, fin : BOOLEAN, confirmed : BOOLEAN]

LEMMA UpTypeFact ==
    ASSUME NEW t, Good(t)
    PROVE  UpOf(t) \in UpType
<1>1. t.forward \in Seq(Queued) /\ Ordered(t.forward) /\ t.sent \in Nat
  BY DEF Good, Session
<1>2. Held(t) \in SUBSET Nat
  BY <1>1, HeldFact
<1>3. AppFinished(t) \in BOOLEAN /\ FinConfirmed(t) \in BOOLEAN
  BY DEF AppFinished, FinConfirmed
<1>4. QED
  BY <1>1, <1>2, <1>3 DEF UpOf, UpType

LEMMA OnlyHeld ==
    ASSUME NEW u \in UpType,
           u.passed = 0, u.told = 0, u.fin = FALSE, u.confirmed = FALSE
    PROVE  u = [NoUp EXCEPT !.held = u.held]
<1>1. NoUp \in UpType
  BY DEF NoUp, UpType
<1>2. NoUp.passed = 0 /\ NoUp.told = 0 /\ NoUp.fin = FALSE /\ NoUp.confirmed = FALSE
  BY DEF NoUp
<1> HIDE DEF NoUp
<1>3. QED
  BY <1>1, <1>2 DEF UpType

LEMMA OnlyTaken ==
    ASSUME NEW u \in UpType, NEW v \in UpType, v.passed = u.passed, v.told = u.told
    PROVE  v = [u EXCEPT !.held = v.held, !.fin = v.fin, !.confirmed = v.confirmed]
  BY DEF UpType

LEMMA OnlyPassed ==
    ASSUME NEW u \in UpType, NEW v \in UpType, v.fin = u.fin, v.told = v.passed,
           v.held = {b \in u.held : b > v.passed}
    PROVE  v = [u EXCEPT !.held = {b \in @ : b > v.passed}, !.passed = v.passed,
                         !.told = v.passed, !.confirmed = v.confirmed]
<1>1. v = [u EXCEPT !.held = v.held, !.passed = v.passed,
                    !.told = v.passed, !.confirmed = v.confirmed]
  BY DEF UpType
<1>2. QED
  BY <1>1, Zenon

\* The app gets its SYN-ACK.
LEMMA ConnectedRelay ==
    ASSUME IInv, IInv', Connected
    PROVE  RelayStep
<1>1. /\ tcp.state = "LISTEN" /\ tcp'.state = "SYN_RECV"
      /\ tcp.state \notin RelayStates /\ tcp'.state \in RelayStates
  BY DEF Connected, RelayStates
<1>2. RelayStage = "opening" /\ RelayStage' = "open"
  BY <1>1, RelayStageFact, RelayStageNextFact
<1>3. DownStream = NoDown /\ UpStream' = UpOf(tcp') /\ DownStream' = DownOf(tcp')
  BY <1>1, ViewFact, ViewNextFact
<1>4. tcp'.sent = 0 /\ tcp'.received = 0
  BY <1>1 DEF Connected, IInv, Good, Confirms, Delivers
<1>5. /\ AppFinished(tcp') = FALSE /\ FinConfirmed(tcp') = FALSE
      /\ ServerFinished(tcp') = FALSE
  BY <1>1 DEF AppFinished, FinConfirmed, ServerFinished
<1>6. /\ UpStream' = [held |-> Held(tcp'), passed |-> 0, told |-> 0,
                      fin |-> FALSE, confirmed |-> FALSE]
      /\ DownStream' = NoDown
  BY <1>3, <1>4, <1>5 DEF UpOf, DownOf, NoDown
<1>7. \A b \in Held(tcp') : b \in Nat /\ b > 0
  <2>1. tcp'.forward \in Seq(Queued) /\ Ordered(tcp'.forward) /\ tcp'.sent \in Nat
    BY DEF IInv, Good, Session
  <2>2. QED
    BY <1>4, <2>1, HeldFact
<1>8. UpStream' = [NoUp EXCEPT !.held = UpStream'.held]
  <2>1. UpStream' \in UpType
    BY <1>3, UpTypeFact DEF IInv
  <2>2. /\ UpStream'.passed = 0 /\ UpStream'.told = 0
        /\ UpStream'.fin = FALSE /\ UpStream'.confirmed = FALSE
    BY <1>6
  <2>3. QED
    BY <2>1, <2>2, OnlyHeld
<1>9. UpStream'.held = Held(tcp')
  BY <1>6
<1>10. Streams!Connect
  BY <1>2, <1>3, <1>6, <1>7, <1>8, <1>9, NothingFact DEF Streams!Connect
<1>11. QED
  BY <1>10 DEF RelayStep, Streams!Next

\* A packet of the app.
LEMMA TakesRelay ==
    ASSUME IInv, IInv', NEW p \in Arriving, Takes(p)
    PROVE  RelayStep
<1>1. /\ tcp'.sent = tcp.sent /\ tcp'.received = tcp.received
      /\ Live /\ (p.len > 0 => socket /\ tcp.state # "CLOSE_WAIT")
  BY DEF Takes, Accepts
<1>2. \/ tcp'.state = tcp.state
      \/ tcp.state \in {"SYN_RECV", "ESTABLISHED"}
         /\ tcp'.state \in {"ESTABLISHED", "CLOSE_WAIT"}
  BY DEF Takes
<1>3. PICK n \in 0..Len(tcp.forward) : Grown(p, n)
  BY TakesQueue
<1>4. tcp.state \in {"LISTEN"} \cup RelayStates
  BY <1>1, Typing DEF Live, States, Transfer, Shut, RelayStates
<1>5. CASE tcp.state = "LISTEN"
  <2>1. tcp'.state = "LISTEN"
    BY <1>2, <1>5
  <2>2. RelayStage = "opening" /\ RelayStage' = "opening"
    BY <1>5, <2>1, RelayStageFact, RelayStageNextFact
  <2>3. QED
    BY <2>2, Unheard
<1>6. CASE tcp.state \in {"CLOSE_WAIT", "FIN_WAIT1", "LAST_ACK"}
  <2>1. ~(p.len > 0) /\ p.len \in Nat
    BY <1>1, <1>6, PacketFact DEF IInv, SocketMatchesState
  <2>2. tcp'.forward = tcp.forward
    BY <1>3, <2>1 DEF Grown, Known
  <2>3. tcp'.state = tcp.state
    BY <1>2, <1>6
  <2>4. QED
    BY <1>1, <2>2, <2>3, SameRelay
<1>7. CASE tcp.state \in {"SYN_RECV", "ESTABLISHED"}
  <2>1. /\ tcp.state \in RelayStates /\ tcp'.state \in RelayStates
        /\ AppFinished(tcp) = FALSE /\ FinConfirmed(tcp) = FALSE
        /\ ServerFinished(tcp) = FALSE /\ ServerFinished(tcp') = FALSE
    BY <1>2, <1>7 DEF RelayStates, AppFinished, ServerFinished, FinConfirmed
  <2>2. RelayStage = "open" /\ RelayStage' = "open"
    BY <2>1, RelayStageFact, RelayStageNextFact
  <2>3. /\ UpStream = UpOf(tcp) /\ DownStream = DownOf(tcp)
        /\ UpStream' = UpOf(tcp') /\ DownStream' = DownOf(tcp')
    BY <2>1, ViewFact, ViewNextFact
  <2>4. DownStream' = DownStream /\ DownStream.fin = FALSE
    BY <1>1, <2>1, <2>3 DEF DownOf
  <2>5. /\ tcp.forward \in Seq(Queued) /\ Ordered(tcp.forward) /\ tcp.sent \in Nat
        /\ tcp'.forward \in Seq(Queued) /\ Ordered(tcp'.forward) /\ tcp'.sent \in Nat
    BY DEF IInv, Good, Session
  <2>6. Held(tcp) \subseteq Held(tcp')
    <3>1. CASE Known(p, n)
      BY <1>1, <1>3, <3>1, SameHeld DEF Grown
    <3>2. CASE ~Known(p, n)
      <4> DEFINE e == [seq |-> p.seq, len |-> p.len, sent |-> 0]
      <4>1. Inserted(tcp.forward, tcp'.forward, n, e)
        BY <1>3, <3>2 DEF Grown
      <4> HIDE DEF e
      <4>2. \A b : Holds(tcp.forward, b) => Holds(tcp'.forward, b)
        BY <2>5, <4>1, InsertHolds
      <4>3. QED
        BY <1>1, <2>5, <4>2, HeldFact
    <3>3. QED
      BY <3>1, <3>2
  <2>7. \A b \in Held(tcp') : b > tcp.sent
    BY <1>1, <2>5, HeldFact
  <2>8. FinConfirmed(tcp') \in {FALSE, AppFinished(tcp') /\ Held(tcp') = {}}
    <3>1. CASE tcp'.forward = << >>
      <4>1. Held(tcp') = {}
        BY <2>5, <3>1, HeldFact
      <4>2. QED
        BY <3>1, <4>1 DEF FinConfirmed
    <3>2. CASE tcp'.forward # << >>
      BY <3>2 DEF FinConfirmed
    <3>3. QED
      BY <3>1, <3>2
  <2>9. AppFinished(tcp') \in BOOLEAN
    BY DEF AppFinished
  <2>10. UpStream' = [UpStream EXCEPT !.held = UpStream'.held, !.fin = UpStream'.fin,
                                      !.confirmed = UpStream'.confirmed]
    <3>1. UpStream \in UpType /\ UpStream' \in UpType
      BY <2>3, UpTypeFact DEF IInv
    <3>2. UpStream'.passed = UpStream.passed /\ UpStream'.told = UpStream.told
      BY <1>1, <2>3 DEF UpOf
    <3>3. QED
      BY <3>1, <3>2, OnlyTaken
  <2>11. /\ UpStream.held = Held(tcp) /\ UpStream'.held = Held(tcp')
         /\ UpStream.passed = tcp.sent /\ UpStream.fin = FALSE
         /\ UpStream'.fin = AppFinished(tcp')
         /\ UpStream'.confirmed = FinConfirmed(tcp')
    BY <1>1, <2>1, <2>3 DEF UpOf
  <2>12. Streams!Take
    BY <2>2, <2>4, <2>6, <2>7, <2>8, <2>9, <2>10, <2>11 DEF Streams!Take
  <2>13. QED
    BY <2>12 DEF RelayStep, Streams!Next
<1>8. QED
  BY <1>4, <1>5, <1>6, <1>7 DEF RelayStates

\* What was sent follows what was sent before.
LEMMA SentFollows ==
    ASSUME IInv, NEW room, NEW j \in 0..Len(tcp.forward), NEW k \in Nat,
           NEW failed \in BOOLEAN, Forwards(room, j, k, failed)
    PROVE  Follows(tcp.forward, tcp.remote_seq, j, k)
<1> DEFINE q == tcp.forward
           r == tcp.remote_seq
           start == IF j = 0 THEN r ELSE SegmentEnd(q[j])
<1>1. Sendable(tcp, room, j)
  BY DEF Forwards, ForwardLoop
<1>2. \A i \in 1..j : q[i].seq + q[i].sent = IF i = 1 THEN r ELSE SegmentEnd(q[i - 1])
  BY <1>1 DEF Sendable
<1>3. k > 0 => j < Len(q) /\ q[j + 1].seq + q[j + 1].sent = start
  BY ForwardShape DEF Sent
<1>4. k > 0 => k < q[j + 1].len - q[j + 1].sent
  BY DEF Forwards, ForwardLoop
<1> HIDE DEF q, r
<1>5. Follows(q, r, j, k)
  BY <1>2, <1>3, <1>4 DEF Follows
<1>6. QED
  BY <1>5 DEF q, r

\* What a relay step does to the bytes of the app.
LEMMA RelaysBytes ==
    ASSUME IInv, IInv', Relays
    PROVE  /\ tcp'.sent >= tcp.sent
           /\ \A b \in (tcp.sent + 1)..tcp'.sent : b \in Held(tcp)
           /\ Held(tcp') = {b \in Held(tcp) : b > tcp'.sent}
           /\ tcp.forward = << >> => tcp'.forward = << >>
<1> DEFINE q == tcp.forward
           v == tcp'.forward
           r == tcp.remote_seq
<1>1. PICK room : \E j \in 0..Len(tcp.forward), k \in Nat, failed \in BOOLEAN :
                     Forwards(room, j, k, failed)
  BY DEF Relays
<1>2. PICK j \in 0..Len(tcp.forward), k \in Nat, failed \in BOOLEAN :
              Forwards(room, j, k, failed)
  BY <1>1
<1> DEFINE e == Reached(q, r, j, k)
<1>3. /\ q \in Seq(Queued) /\ Ordered(q) /\ tcp.sent \in Nat /\ r \in Nat
      /\ v \in Seq(Queued) /\ Ordered(v) /\ tcp'.sent \in Nat
      /\ RemoteStart \in Nat
  BY StreamAssumption DEF IInv, Good, Session
<1>4. Follows(q, r, j, k)
  BY <1>2, SentFollows
<1>5. Advances(q, v, j, k) /\ tcp'.sent = tcp.sent + (e - r)
  BY <1>2, ForwardShape DEF Sent, Reached
<1>6. e \in Nat /\ r <= e
  BY <1>3, <1>4, ReachedFact
<1>7. q # << >> => r = RemoteStart + 1 + tcp.sent
  BY <1>3 DEF Relays, IInv, Good, Confirms, Transfer
<1>8. q = << >> => v = << >> /\ e = r
  <2> SUFFICES ASSUME q = << >>
               PROVE  v = << >> /\ e = r
    OBVIOUS
  <2>1. j = 0 /\ Len(q) = 0
    BY <1>2
  <2>2. k = 0
    <3>1. k > 0 => j < Len(q)
      BY <1>4 DEF Follows
    <3>2. QED
      BY <1>2, <2>1, <3>1
  <2>3. Len(v) = 0
    BY <1>5, <2>1 DEF Advances
  <2>4. e = r
    BY <1>3, <2>1, <2>2 DEF Reached
  <2>5. QED
    BY <1>3, <2>3, <2>4
<1>9. /\ \A b : b \in Held(tcp) <=> b \in Nat /\ b > tcp.sent /\ Holds(q, b)
      /\ \A b : b \in Held(tcp') <=> b \in Nat /\ b > tcp'.sent /\ Holds(v, b)
      /\ q = << >> => Held(tcp) = {}
      /\ v = << >> => Held(tcp') = {}
  BY <1>3, HeldFact
<1>10. \A b \in Nat : /\ r <= b + RemoteStart /\ b + RemoteStart < e => Holds(q, b)
                      /\ Holds(v, b) => Holds(q, b)
                      /\ Holds(q, b) /\ e <= b + RemoteStart => Holds(v, b)
  BY <1>3, <1>4, <1>5, NoHole, RestHolds
<1> HIDE DEF q, v, r, e
<1>11. CASE q = << >>
  <2>1. tcp'.sent = tcp.sent
    BY <1>3, <1>5, <1>8, <1>11
  <2>2. Held(tcp) = {} /\ Held(tcp') = {} /\ v = << >>
    BY <1>8, <1>9, <1>11
  <2>3. (tcp.sent + 1)..tcp'.sent = {}
    BY <1>3, <2>1
  <2>4. QED
    BY <1>3, <2>1, <2>2, <2>3 DEF v
<1>12. CASE q # << >>
  <2>1. e = RemoteStart + 1 + tcp'.sent /\ tcp'.sent >= tcp.sent
    BY <1>3, <1>5, <1>6, <1>7, <1>12
  <2>2. ASSUME NEW b \in (tcp.sent + 1)..tcp'.sent
        PROVE  b \in Held(tcp)
    <3>1. b \in Nat /\ b > tcp.sent /\ r <= b + RemoteStart /\ b + RemoteStart < e
      <4>1. tcp.sent \in Nat /\ tcp'.sent \in Nat /\ RemoteStart \in Nat
        BY <1>3
      <4>2. b \in Nat /\ b > tcp.sent /\ tcp.sent + 1 <= b /\ b <= tcp'.sent
        BY <4>1
      <4>3. r = RemoteStart + 1 + tcp.sent /\ e = RemoteStart + 1 + tcp'.sent
        BY <1>7, <1>12, <2>1
      <4>4. QED
        BY <4>1, <4>2, <4>3, SMTT(20)
    <3>2. Holds(q, b)
      BY <1>10, <3>1
    <3>3. QED
      BY <1>9, <3>1, <3>2
  <2>3. ASSUME NEW b
        PROVE  b \in Held(tcp') <=> b \in Held(tcp) /\ b > tcp'.sent
    <3>1. CASE b \in Held(tcp')
      <4>1. b \in Nat /\ b > tcp'.sent /\ Holds(q, b)
        BY <1>9, <1>10, <3>1
      <4>2. b > tcp.sent
        BY <1>3, <2>1, <4>1
      <4>3. QED
        BY <1>9, <3>1, <4>1, <4>2
    <3>2. CASE b \in Held(tcp) /\ b > tcp'.sent
      <4>1. b \in Nat /\ Holds(q, b)
        BY <1>9, <3>2
      <4>2. e <= b + RemoteStart
        BY <1>3, <2>1, <3>2, <4>1
      <4>3. QED
        BY <1>9, <1>10, <3>2, <4>1, <4>2
    <3>3. QED
      BY <3>1, <3>2
  <2>4. QED
    BY <1>12, <2>1, <2>2, <2>3 DEF q
<1>13. QED
  BY <1>11, <1>12

\* Forwarding, acknowledging and reading.
LEMMA RelaysRelay ==
    ASSUME IInv, IInv', Relays
    PROVE  RelayStep
<1>1. /\ tcp.state \in {"SYN_RECV", "ESTABLISHED", "CLOSE_WAIT"}
      /\ tcp'.state \in {"SYN_RECV", "ESTABLISHED", "CLOSE_WAIT", "FIN_WAIT1", "LAST_ACK"}
      /\ tcp'.state # tcp.state => tcp'.forward = << >>
      /\ AppFinished(tcp') = AppFinished(tcp)
      /\ tcp'.received >= tcp.received
  BY DEF Relays, Transfer, AppFinished
<1>2. tcp.state \in RelayStates /\ tcp'.state \in RelayStates
  BY <1>1 DEF RelayStates
<1>3. RelayStage = "open" /\ RelayStage' = "open"
  BY <1>2, RelayStageFact, RelayStageNextFact
<1>4. /\ UpStream = UpOf(tcp) /\ DownStream = DownOf(tcp)
      /\ UpStream' = UpOf(tcp') /\ DownStream' = DownOf(tcp')
  BY <1>2, ViewFact, ViewNextFact
<1>5. /\ tcp'.sent >= tcp.sent
      /\ \A b \in (tcp.sent + 1)..tcp'.sent : b \in Held(tcp)
      /\ Held(tcp') = {b \in Held(tcp) : b > tcp'.sent}
      /\ tcp.forward = << >> => tcp'.forward = << >>
  BY RelaysBytes
<1>6. tcp'.forward = << >> => Held(tcp') = {}
  <2>1. tcp'.forward \in Seq(Queued) /\ Ordered(tcp'.forward) /\ tcp'.sent \in Nat
    BY DEF IInv, Good, Session
  <2>2. QED
    BY <2>1, HeldFact
<1>7. /\ UpStream.held = Held(tcp) /\ UpStream'.held = Held(tcp')
      /\ UpStream.passed = tcp.sent /\ UpStream'.passed = tcp'.sent
      /\ UpStream'.told = tcp'.sent
      /\ UpStream.fin = AppFinished(tcp) /\ UpStream'.fin = AppFinished(tcp')
      /\ UpStream.confirmed = FinConfirmed(tcp)
      /\ UpStream'.confirmed = FinConfirmed(tcp')
  BY <1>4 DEF UpOf
<1>8. UpStream' = [UpStream EXCEPT !.held = {b \in @ : b > UpStream'.passed},
                                   !.passed = UpStream'.passed, !.told = UpStream'.passed,
                                   !.confirmed = UpStream'.confirmed]
  <2>1. UpStream \in UpType /\ UpStream' \in UpType
    BY <1>4, UpTypeFact DEF IInv
  <2>2. /\ UpStream'.fin = UpStream.fin /\ UpStream'.told = UpStream'.passed
        /\ UpStream'.held = {b \in UpStream.held : b > UpStream'.passed}
    BY <1>1, <1>5, <1>7
  <2>3. QED
    BY <2>1, <2>2, OnlyPassed
<1>9. FinConfirmed(tcp') \in {FinConfirmed(tcp), AppFinished(tcp) /\ Held(tcp') = {}}
  <2>1. CASE tcp'.forward = << >>
    BY <1>1, <1>6, <2>1 DEF FinConfirmed
  <2>2. CASE tcp'.forward # << >>
    BY <1>5, <2>2 DEF FinConfirmed
  <2>3. QED
    BY <2>1, <2>2
<1>10. Streams!PassUp
  BY <1>5, <1>7, <1>8, <1>9 DEF Streams!PassUp
<1>11. /\ DownStream' = [read |-> tcp'.received, given |-> tcp'.received,
                         fin |-> ServerFinished(tcp')]
       /\ DownStream'.read = tcp'.received /\ DownStream.read = tcp.received
       /\ DownStream'.fin = ServerFinished(tcp')
       /\ DownStream.fin = FALSE
       /\ ServerFinished(tcp') \in BOOLEAN
       /\ ServerFinished(tcp') => tcp'.state # tcp.state
  <2>1. /\ ServerFinished(tcp) = FALSE
        /\ ServerFinished(tcp') \in BOOLEAN
        /\ ServerFinished(tcp') => tcp'.state # tcp.state
    BY <1>1 DEF ServerFinished
  <2>2. QED
    BY <1>4, <2>1 DEF DownOf
<1>12. Streams!PassDown
  BY <1>1, <1>11 DEF Streams!PassDown
<1>13. DownStream'.fin => UpStream'.held = {}
  BY <1>1, <1>6, <1>7, <1>11
<1>14. Streams!Pass
  BY <1>3, <1>10, <1>11, <1>12, <1>13 DEF Streams!Pass
<1>15. QED
  BY <1>14 DEF RelayStep, Streams!Next

\* Every step of the session is one of the relay, or none.
LEMMA StepRelays ==
    ASSUME IInv, [Next]_vars
    PROVE  RelayStep
<1>1. IInv' /\ StreamStep
  BY Inductive, StepStream
<1>2. CASE Down
  BY <1>1, <1>2, DownRelay
<1>3. CASE Stays
  BY <1>1, <1>3, SameRelay DEF Stays
<1>4. CASE Opened
  BY <1>1, <1>4, OpenedRelay
<1>5. CASE Connected
  BY <1>1, <1>5, ConnectedRelay
<1>6. CASE Relays
  BY <1>1, <1>6, RelaysRelay
<1>7. CASE \E p \in Arriving : Takes(p)
  BY <1>1, <1>7, TakesRelay
<1>8. QED
  BY <1>1, <1>2, <1>3, <1>4, <1>5, <1>6, <1>7 DEF StreamStep

\* Whatever the app sends, in whatever order and however its data is cut, lost
\* or repeated, the server gets its bytes in order, without a hole and none
\* twice; nothing taken is dropped while the session lives, the app is told of
\* what was sent and of nothing else, and each stream ends once.
THEOREM RelaysStreams == Spec => ImplementsRelay
<1>1. Init => Streams!Init
  <2> SUFFICES ASSUME Init PROVE Streams!Init
    OBVIOUS
  <2>1. tcp.state = "NONE" /\ ~Relaying
    BY DEF Init, NoSession, Relaying
  <2>2. RelayStage = "none" /\ UpStream = NoUp /\ DownStream = NoDown
    BY <2>1 DEF RelayStage, UpStream, DownStream
  <2>3. QED
    BY <2>2, NothingFact DEF Streams!Init
<1>2. IInv /\ [Next]_vars => [Streams!Next]_<<RelayStage, UpStream, DownStream>>
  BY StepRelays DEF RelayStep, RelayView
<1>3. QED
  BY <1>1, <1>2, Invariance, PTL DEF Spec, ImplementsRelay, Streams!Spec, Streams!vars
=============================================================================
