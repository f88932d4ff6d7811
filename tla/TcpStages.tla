------------------------------ MODULE TcpStages ------------------------------
(***************************************************************************)
(* What the event loop's list of sessions has to know of a TCP session:    *)
(* how far it is from its removal, and whether its socket is open.         *)
(* The operators give, for each kind of handler, the lives a session may   *)
(* have after it.  SessionTable is built from them; that the handlers of   *)
(* TcpSession do no more is the refinement in TcpSessionLife.              *)
(***************************************************************************)

\* ENDING stands for TCP_CLOSING, CLOSED for TCP_CLOSE, ACTIVE for the rest.
Stages == {"NONE", "ACTIVE", "ENDING", "CLOSED"}
Lives  == [stage : Stages, socket : BOOLEAN]

At(stage, socket) == [stage |-> stage, socket |-> socket]

Absent == At("NONE", FALSE)
Closed == At("CLOSED", FALSE)

\* A session that is being reset keeps its socket until it is checked.
Reset(l) == [l EXCEPT !.stage = "ENDING"]

\* monitor_tcp_session, of a session with a socket.
MonitorSteps(l) == {l, Reset(l)}

\* check_tcp_session: timeout, closing, removal.  A session is never removed
\* by the check that closes it.
CheckSteps(l) ==
    IF l.stage = "ACTIVE" THEN {l, Closed}
    ELSE IF l.stage = "ENDING" THEN {Closed}
    ELSE {l, Absent}

\* check_tcp_socket, of a session with a socket: at the end of the server's
\* stream the socket is closed while the session goes on.
EventSteps(l) ==
    IF l.stage = "ACTIVE"
    THEN {l, At("ACTIVE", FALSE), At("ENDING", TRUE), At("ENDING", FALSE)}
    ELSE {l}

\* handle_tcp: a SYN may open a session; the app's FIN ends one that the
\* server closed before.
PacketSteps(l) ==
    IF l.stage = "NONE" THEN {l, At("ACTIVE", TRUE)}
    ELSE IF l.stage = "ACTIVE" THEN {l, Reset(l)} \cup {c \in {Closed} : ~l.socket}
    ELSE {l}
=============================================================================
