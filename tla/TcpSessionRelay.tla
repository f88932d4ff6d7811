--------------------------- MODULE TcpSessionRelay ---------------------------
(* TcpSession implements Relay: the queue, the sequence numbers and the    *)
(* states of a session make two streams of bytes.                          *)
EXTENDS TcpSession

Relaying == tcp.state \notin {"NONE", "LISTEN"} \cup Shut

RelayStage == IF tcp.state = "NONE" THEN "none"
              ELSE IF tcp.state = "LISTEN" THEN "opening"
              ELSE IF tcp.state \in Shut THEN "over"
              ELSE "open"

\* The numbers of the bytes that the queue of t holds for the server.
Held(t) ==
    {b \in UNION {(t.forward[i].seq + t.forward[i].sent - RemoteStart)
                      ..(SegmentEnd(t.forward[i]) - 1 - RemoteStart)
                  : i \in 1..Len(t.forward)} : b > t.sent}

\* The app sent its FIN; it was confirmed.
AppFinished(t)  == t.state \in {"CLOSE_WAIT", "LAST_ACK"}
FinConfirmed(t) == AppFinished(t) /\ t.forward = << >>

\* The app was sent a FIN.
ServerFinished(t) == t.state \in {"FIN_WAIT1", "LAST_ACK"}

NoUp   == [held |-> {}, passed |-> 0, told |-> 0, fin |-> FALSE, confirmed |-> FALSE]
NoDown == [read |-> 0, given |-> 0, fin |-> FALSE]

\* The app is told by remote_seq, which counts its SYN and its FIN as well.
UpStream == IF Relaying
      THEN [held      |-> Held(tcp),
            passed    |-> tcp.sent,
            told      |-> tcp.remote_seq - (RemoteStart + 1)
                             - (IF FinConfirmed(tcp) THEN 1 ELSE 0),
            fin       |-> AppFinished(tcp),
            confirmed |-> FinConfirmed(tcp)]
      ELSE NoUp

\* The app is given bytes by local_seq, which counts SYN and FIN as well.
DownStream == IF Relaying
        THEN [read  |-> tcp.received,
              given |-> tcp.local_seq - (LocalStart + 1)
                           - (IF ServerFinished(tcp) THEN 1 ELSE 0),
              fin   |-> ServerFinished(tcp)]
        ELSE NoDown

Streams == INSTANCE Relay WITH stage <- RelayStage, up <- UpStream, down <- DownStream

\* The server gets the app's bytes in order, without a hole and none twice, and
\* only those it got are confirmed; nothing taken is dropped while the session
\* lives; each side's FIN closes its stream for good and the app's is confirmed
\* only after all that was taken; the app gets all that is read.
ImplementsRelay == Streams!Spec
=============================================================================
