--------------------------- MODULE MCSessionTable ---------------------------
(* Small instances of SessionTable for TLC.                                *)
EXTENDS SessionTable, TLC

CONSTANTS t, u, k, i, a1, a2, a3, fd1, fd2, fd3

\* Addresses and descriptors are interchangeable.
Interchangeable == Permutations(Address) \cup Permutations(Fd)

\* One flow at a time may be forbidden.
OneForbidden == {{}, {t}, {u}, {i}}

\* A TCP session has a short timeout in some states and a long one in others.
FlowTimeouts == [f \in Flow |-> IF f \in TcpFlows THEN {0, 1} ELSE {1}]

\* The rules may forbid the UDP flows.
UdpForbidden == {{}, UdpFlows}

\* A session is overdue when it was silent for a second.
NoTimeouts == [f \in Flow |-> {0}]
=============================================================================
