---------------------------- MODULE MCTcpSession ----------------------------
(* Small instances of TcpSession for TLC.                                  *)
EXTENDS TcpSessionLife, TcpSessionRelay

\* A stream of three bytes in two segments, after the SYN with number 0.
TwoSegments == {[seq |-> 1, len |-> 2], [seq |-> 3, len |-> 1]}

\* The stream of TwoSegments and a retransmission that merges both segments.
MergedSegments == TwoSegments \cup {[seq |-> 1, len |-> 3]}
=============================================================================
