---------------------------- MODULE TcpSessionLife ----------------------------
(* TcpSession implements TcpLife: all that the session table assumes of a  *)
(* TCP session is true of the detailed one.                                *)
EXTENDS TcpSession

\* What the session table sees of the session.
Stage == IF tcp.state = "NONE" THEN "NONE"
         ELSE IF tcp.state = "CLOSING" THEN "ENDING"
         ELSE IF tcp.state = "CLOSE" THEN "CLOSED"
         ELSE "ACTIVE"

Life == INSTANCE TcpLife WITH life <- [stage |-> Stage, socket |-> socket]

\* A session leaves the list only through ENDING and CLOSED and with its socket
\* closed; it is closed behind the check's back only after the server closed;
\* nothing revives a session that ends.
ImplementsLife == Life!Spec
=============================================================================
