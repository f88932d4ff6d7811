------------------------------- MODULE TcpLife -------------------------------
(* The life of one TCP session as the event loop sees it, with the steps   *)
(* of TcpStages.                                                           *)
EXTENDS TcpStages

VARIABLE life

Init == life = Absent

Monitor == life.socket /\ life' \in MonitorSteps(life)
Check   == life' \in CheckSteps(life)
Event   == life.socket /\ life' \in EventSteps(life)
Packet  == life' \in PacketSteps(life)

Next == Monitor \/ Check \/ Event \/ Packet

Spec == Init /\ [][Next]_life
=============================================================================
