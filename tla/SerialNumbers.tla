--------------------------- MODULE SerialNumbers ---------------------------
(***************************************************************************)
(* The arithmetic of TCP's sequence numbers, which TcpSession leaves out:  *)
(* compare_u32 (util.c) and those who decide by it, here for the data that *)
(* a session sends to the app and the app acknowledges (tcp.c).            *)
(*                                                                         *)
(* Numbers are modulo 2 * Half; in the code Half is 2^31.  The model counts *)
(* the bytes sent and acknowledged without end, and the code sees where    *)
(* they are modulo 2 * Half.  A session begins at a number of rand(),      *)
(* which is below Half.                                                    *)
(***************************************************************************)
EXTENDS Integers

CONSTANTS
    Half,
    SendWindow,     \* of the app, which keeps it
    MaxSent         \* how much is sent

VARIABLES
    start,      \* local_seq after the SYN
    sent,       \* how many bytes the session sent to the app since
    seen,       \* how many of them the last ACK of the app acknowledged
    acked,      \* the number that the session took from an ACK
    reset       \* whether an ACK made it reset the connection

vars == <<start, sent, seen, acked, reset>>

-----------------------------------------------------------------------------
(* util.c.                                                                 *)

UInt32 == 0 .. 2 * Half - 1

\* A number as a signed one: the upper half is negative.
Int32(s) == IF s < Half THEN s ELSE s - 2 * Half

\* The difference of two signed numbers, which wraps around.
Minus(i, j) ==
    LET d == i - j
    IN  IF d >= Half THEN d - 2 * Half ELSE IF d < -Half THEN d + 2 * Half ELSE d

Before(i, j) ==
    \/ i < j /\ Minus(j, i) < Half - 1
    \/ i > j /\ Minus(i, j) > Half - 1

compare_u32(s1, s2) ==
    IF s1 = s2 THEN 0 ELSE IF Before(Int32(s1), Int32(s2)) THEN -1 ELSE 1

\* What the comment in compare_u32 refers to: section 3.2 of RFC 1982, with
\* SERIAL_BITS such that 2 ^ SERIAL_BITS = 2 * Half.
Rfc1982Less(s1, s2) ==
    \/ s1 < s2 /\ s2 - s1 < Half
    \/ s1 > s2 /\ s1 - s2 > Half

-----------------------------------------------------------------------------
(* tcp.c.                                                                  *)

Number(n) == (start + n) % (2 * Half)
local_seq == Number(sent)

\* How far a number is behind local_seq, in unsigned arithmetic.
Behind(number) == (local_seq - number) % (2 * Half)

get_send_window ==
    LET behind == IF compare_u32(acked, local_seq) <= 0 THEN Behind(acked) ELSE acked
    IN  IF behind < SendWindow THEN SendWindow - behind ELSE 0

\* The app's ACK that ends the handshake is the first that is taken.
Init ==
    /\ start \in 0 .. Half - 1
    /\ sent = 0
    /\ seen = 0
    /\ acked = start
    /\ reset = FALSE

\* Data from the socket, as much as the window lets through.
Relay(n) ==
    /\ ~reset
    /\ n <= get_send_window
    /\ sent + n <= MaxSent
    /\ sent' = sent + n
    /\ UNCHANGED <<start, seen, acked, reset>>

\* The app acknowledges the first n bytes.  It never acknowledges less than
\* before, and nothing it did not get; when the ACK is read from the tun
\* device, more data may be on its way.
TakeAck(n) ==
    LET ack == Number(n)
    IN  /\ ~reset
        /\ n \in seen .. sent
        /\ seen' = n
        /\ \/ /\ ack = local_seq
              /\ acked' = ack
              /\ UNCHANGED reset
           \/ /\ ack # local_seq
              /\ Behind(ack) = 1        \* a keep alive
              /\ UNCHANGED <<acked, reset>>
           \/ /\ Behind(ack) > 1
              /\ compare_u32(ack, local_seq) < 0
              /\ acked' = IF compare_u32(ack, acked) <= 0 THEN acked ELSE ack
              /\ UNCHANGED reset
           \/ /\ Behind(ack) > 1
              /\ compare_u32(ack, local_seq) >= 0
              /\ reset' = TRUE
              /\ UNCHANGED acked
        /\ UNCHANGED <<start, sent>>

Next ==
    \/ \E n \in 1 .. SendWindow : Relay(n)
    \/ \E n \in 0 .. MaxSent : TakeAck(n)

Spec == Init /\ [][Next]_vars

-----------------------------------------------------------------------------
(* Properties.                                                             *)

\* "future ACK" (tcp.c): an ACK resets the connection when it acknowledges
\* what was not sent; this app sends none like that.
NoFutureAck == ~reset
=============================================================================
