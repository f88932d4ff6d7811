------------------------ MODULE SerialNumbers_proofs ------------------------
(* Where compare_u32 follows RFC 1982 and where it does not, for every width; *)
(* and what follows for a session whose numbers stay below Half.             *)
EXTENDS SerialNumbers, TLAPS

LEMMA ModSmall ==
    ASSUME NEW m \in Nat, NEW a \in Nat, a < m
    PROVE  a % m = a
  BY SMT

\* Two numbers in the same half are compared as RFC 1982 has it, and as
\* integers, unless they are Half - 1 apart, the furthest they can be.
THEOREM CompareWithinHalf ==
    ASSUME Half \in Nat \ {0}, NEW s1 \in UInt32, NEW s2 \in UInt32,
           s1 < Half <=> s2 < Half,
           s2 - s1 # Half - 1
    PROVE  /\ compare_u32(s1, s2) = -1 <=> Rfc1982Less(s1, s2)
           /\ compare_u32(s1, s2) = -1 <=> s1 < s2
  BY SMT DEF UInt32, compare_u32, Before, Int32, Minus, Rfc1982Less

\* The wrap of the numbers themselves does no harm: one of the upper half is
\* before one of the lower half that follows it.
THEOREM CompareAcrossZero ==
    ASSUME Half \in Nat \ {0}, NEW s1 \in UInt32, NEW s2 \in UInt32,
           s1 >= Half, s2 < Half, s1 - s2 > Half + 1
    PROVE  /\ Rfc1982Less(s1, s2)
           /\ compare_u32(s1, s2) = -1
           /\ compare_u32(s2, s1) = 1
  BY SMT DEF UInt32, compare_u32, Before, Int32, Minus, Rfc1982Less

\* Between the halves compare_u32 is wrong for every pair: a number of the
\* lower half is never before one of the upper half, as its second test, for
\* a signed difference of more than the largest signed number, never holds.
THEOREM CompareAcrossHalf ==
    ASSUME Half \in Nat \ {0}, NEW s1 \in UInt32, NEW s2 \in UInt32,
           s1 < Half, s2 >= Half, s2 - s1 < Half
    PROVE  /\ Rfc1982Less(s1, s2)
           /\ compare_u32(s1, s2) = 1
  BY SMT DEF UInt32, compare_u32, Before, Int32, Minus, Rfc1982Less
-----------------------------------------------------------------------------
(* A session whose numbers have not reached Half.                          *)

BelowHalf == start + sent < Half - 1

\* The inductive invariant: as integers, start, acked and local_seq are in
\* the order of the stream, and what was seen is what was sent.
BelowInv ==
    /\ start \in 0 .. Half - 1
    /\ sent \in Nat
    /\ seen \in 0 .. sent
    /\ acked \in start .. start + seen
    /\ ~reset

LEMMA NumberBelowHalf ==
    ASSUME Half \in Nat \ {0}, BelowInv, BelowHalf, NEW n \in 0 .. sent
    PROVE  /\ Number(n) = start + n
           /\ Behind(Number(n)) = sent - n
<1>1. \A k \in 0 .. sent : start + k \in Nat /\ start + k < 2 * Half
  BY DEF BelowInv, BelowHalf
<1>2. \A k \in 0 .. sent : Number(k) = start + k
  BY <1>1, ModSmall DEF Number
<1>3. local_seq = start + sent
  BY <1>2 DEF local_seq, BelowInv
<1>4. sent - n \in Nat /\ sent - n < 2 * Half /\ local_seq - Number(n) = sent - n
  BY <1>1, <1>2, <1>3 DEF BelowInv, BelowHalf
<1>5. Behind(Number(n)) = sent - n
  BY <1>4, ModSmall DEF Behind
<1> QED
  BY <1>2, <1>5

\* The ACK of what was sent is never taken as one of the future.
LEMMA AckBelowHalf ==
    ASSUME Half \in Nat \ {0}, BelowInv, BelowHalf,
           NEW n \in 0 .. sent, Behind(Number(n)) > 1
    PROVE  compare_u32(Number(n), local_seq) < 0
<1>1. Number(n) = start + n /\ local_seq = start + sent /\ n < sent
  BY NumberBelowHalf DEF local_seq, BelowInv
<1>2. /\ Number(n) \in UInt32 /\ local_seq \in UInt32
      /\ Number(n) < Half /\ local_seq < Half
      /\ local_seq - Number(n) # Half - 1
      /\ Number(n) < local_seq
  BY <1>1 DEF BelowInv, BelowHalf, UInt32
<1> QED
  BY <1>2, CompareWithinHalf

\* As long as its numbers stay below Half, a session is never reset by an
\* acknowledgement of what it sent, whatever the width and the window.
THEOREM NoFutureAckBelowHalf ==
    ASSUME Half \in Nat \ {0}, SendWindow \in Nat, MaxSent \in Nat
    PROVE  Spec /\ []BelowHalf => []NoFutureAck
<1>1. Init => BelowInv
  BY DEF Init, BelowInv
<1>2. BelowInv /\ BelowHalf /\ [Next]_vars => BelowInv'
  <2> SUFFICES ASSUME BelowInv, BelowHalf, [Next]_vars PROVE BelowInv'
    OBVIOUS
  <2>1. ASSUME NEW n \in 1 .. SendWindow, Relay(n) PROVE BelowInv'
    BY <2>1 DEF Relay, BelowInv
  <2>2. ASSUME NEW n \in 0 .. MaxSent, TakeAck(n) PROVE BelowInv'
    <3>1. n \in seen .. sent /\ n \in 0 .. sent
      BY <2>2 DEF TakeAck, BelowInv
    <3>2. Number(n) \in start .. start + n
      BY <3>1, NumberBelowHalf DEF BelowInv
    <3>3. ~(Behind(Number(n)) > 1 /\ compare_u32(Number(n), local_seq) >= 0)
      <4>1. compare_u32(Number(n), local_seq) \in {-1, 0, 1}
        BY DEF compare_u32
      <4> QED
        BY <3>1, <4>1, AckBelowHalf
    <3>4. acked' \in {acked, Number(n)} /\ ~reset'
      BY <2>2, <3>3 DEF TakeAck, BelowInv
    <3>5. UNCHANGED <<start, sent>> /\ seen' = n
      BY <2>2 DEF TakeAck
    <3> QED
      BY <3>1, <3>2, <3>4, <3>5 DEF BelowInv
  <2>3. CASE UNCHANGED vars
    BY <2>3 DEF vars, BelowInv
  <2> QED
    BY <2>1, <2>2, <2>3 DEF Next
<1>3. BelowInv => NoFutureAck
  BY DEF BelowInv, NoFutureAck
<1> QED
  BY <1>1, <1>2, <1>3, PTL DEF Spec
=============================================================================
