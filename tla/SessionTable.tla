---------------------------- MODULE SessionTable ----------------------------
(***************************************************************************)
(* The list of sessions (ng_session) and the event loop that owns it:      *)
(* session.c, the dispatch of the app's packets in ip.c, the UDP and the   *)
(* ICMP sessions, and the TCP sessions as TcpLife describes them.          *)
(*                                                                         *)
(* A session is at an address of the heap.  The order of the list matters  *)
(* only between two sessions with the same key, of which a search may find *)
(* either.  A flow is what a packet's session is searched by: protocol,    *)
(* addresses and ports, for ICMP the addresses only.                       *)
(*                                                                         *)
(* The rules, which Java consults for each new flow, change at any time;   *)
(* so does the request to stop, a byte in the pipe.                        *)
(***************************************************************************)
EXTENDS Integers, FiniteSets, TcpStages

CONSTANTS
    TcpFlows, UdpFlows, IcmpFlows,
    DnsFlows,           \* UDP flows to port 53
    DhcpFlows,          \* UDP flows from port 68 or to port 67
    DhcpKey,            \* the flow of the address that check_dhcp writes
    Address,            \* where sessions can be allocated
    Fd,                 \* descriptors
    NoFlow, NoSocket,   \* of no session
    Tun, Pipe,          \* what else epoll watches
    Events,             \* EPOLL_EVENTS
    Rules,              \* the sets of flows that the rules may forbid
    Timeouts,           \* of each flow, unscaled; one of several for TCP
    UdpKeep, TcpKeep,   \* how long a closed session stays in the list
    MaxAge,             \* ages are not counted beyond this one
    MaxSessions,
    MaxPackets          \* how many packets the app sends in one batch

Flow == TcpFlows \cup UdpFlows \cup IcmpFlows

ASSUME FlowAssumption ==
    /\ TcpFlows \cap UdpFlows = {}
    /\ TcpFlows \cap IcmpFlows = {}
    /\ UdpFlows \cap IcmpFlows = {}
    /\ DnsFlows \subseteq UdpFlows
    /\ DhcpFlows \subseteq UdpFlows
    /\ DhcpFlows # {} => DhcpKey \in UdpFlows
    /\ NoFlow \notin Flow
    /\ Rules \subseteq SUBSET Flow

ASSUME HeapAssumption ==
    /\ NoSocket \notin Fd
    /\ Tun \notin Address
    /\ Pipe \notin Address
    /\ Tun # Pipe
    /\ Events \in Nat
    /\ IsFiniteSet(Address)

ASSUME NumberAssumption ==
    /\ Timeouts \in [Flow -> SUBSET Nat]
    /\ UdpKeep \in Nat
    /\ TcpKeep \in Nat
    /\ MaxAge \in Nat
    /\ MaxSessions \in Nat \ {0}
    /\ MaxPackets \in Nat

VARIABLES
    session,    \* struct ng_session at each address, NoSession where there is none
    open,       \* the sockets the process has open
    count,      \* the sessions the loop counted, which it hands to every handler
    phase,      \* where the event loop is
    batch,      \* what epoll_wait reported and the loop has not served yet
    failed,     \* what of it has EPOLLERR
    served,     \* how many packets were read from the tun device in this batch
    stop,       \* whether there is a byte in the pipe
    blocked,    \* the flows the rules forbid
    forgotten   \* for the properties only: the sockets whose opening failed

vars == <<session, open, count, phase, batch, failed, served, stop, blocked, forgotten>>

-----------------------------------------------------------------------------
(* Sessions.                                                               *)

Session == [flow : Flow \cup {NoFlow}, stage : Stages \cup {"BLOCKED"},
            socket : Fd \cup {NoSocket}, age : Nat]

NoSession == [flow |-> NoFlow, stage |-> "NONE", socket |-> NoSocket, age |-> 0]

IsTcp(s)  == s.flow \in TcpFlows
IsUdp(s)  == s.flow \in UdpFlows
IsIcmp(s) == s.flow \in IcmpFlows

\* What the loop counts as a session: ACTIVE is UDP_ACTIVE, an ICMP session
\* that is not stopped, a TCP session neither in TCP_CLOSING nor in TCP_CLOSE.
Active(a) == session[a].stage = "ACTIVE"
Ending(s) == [s EXCEPT !.stage = "ENDING"]
Used      == {a \in Address : session[a] # NoSession}
Free      == Address \ Used

\* Mutant: a session that lingers in the list is not found.
MatchesActive(f) == {a \in Used : session[a].flow = f /\ session[a].stage = "ACTIVE"}

\* The sessions that a packet's session is searched in.
Matches(f) == {a \in Used : /\ session[a].flow = f
                            /\ f \in IcmpFlows => session[a].stage # "ENDING"}

Init ==
    /\ session = [a \in Address |-> NoSession]
    /\ open = {}
    /\ count = 0
    /\ phase = "monitor"
    /\ batch = {}
    /\ failed = {}
    /\ served = 0
    /\ stop = FALSE
    /\ blocked \in Rules
    /\ forgotten = {}

\* A TCP session as TcpStages sees it, and what becomes of it in a step to l.
LifeOf(s) == At(s.stage, s.socket # NoSocket)
Lived(s, l) ==
    IF l.stage = "NONE" THEN NoSession
    ELSE [s EXCEPT !.stage = l.stage, !.socket = IF l.socket THEN @ ELSE NoSocket]

\* The sockets of a table t of sessions.
Sockets(t) == {t[a].socket : a \in Address} \ {NoSocket}

\* Mutant: the sockets of sessions that go are not closed.
ReplaceOpen(t) ==
    /\ session' = t
    /\ open' = open

\* A table of sessions replaces the present one; sockets that it no longer
\* has are closed.
Replace(t) ==
    /\ session' = t
    /\ open' = open \ (Sockets(session) \ Sockets(t))

-----------------------------------------------------------------------------
(* The loop: count and monitor, check, wait.                               *)

\* The sessions are counted; a TCP session may have to be reset because its
\* socket cannot be watched or its keep alive cannot be written.
Monitor ==
    /\ phase = "monitor"
    /\ count' = Cardinality({a \in Address : Active(a)})
    /\ \E reset \in SUBSET {a \in Used : /\ IsTcp(session[a])
                                         /\ session[a].socket # NoSocket} :
          session' = [a \in Address |->
              IF a \in reset THEN Lived(session[a], Reset(LifeOf(session[a])))
                             ELSE session[a]]
    /\ phase' = "check"
    /\ UNCHANGED <<open, batch, failed, served, stop, blocked, forgotten>>

\* C division truncates towards zero.
CDiv(a, b) == IF a < 0 THEN -((-a) \div b) ELSE a \div b

\* get_icmp_timeout, get_udp_timeout, get_tcp_timeout: the fuller the table the
\* shorter the timeouts, which are negative beyond the limit.
Scaled(timeout) == CDiv(timeout * (100 - (count * 100) \div MaxSessions), 100)

\* Mutant: a timeout is over when it is reached.
OverdueEarly(s) == \E t \in Timeouts[s.flow] : s.age >= Scaled(t)

\* A session was silent for longer than its timeout, or was not: which of the
\* timeouts of a TCP session applies depends on its state.
Overdue(s) == \E t \in Timeouts[s.flow] : s.age > Scaled(t)
NotOverdue(s) == \E t \in Timeouts[s.flow] : s.age <= Scaled(t)

\* check_icmp_session: a session that is stopped is closed and removed at once.
CheckIcmp(s, idle) == IF idle \/ s.stage = "ENDING" THEN NoSession ELSE s

\* Mutant: a closed session keeps the number of its descriptor.
CheckUdpStale(s, idle) ==
    IF idle \/ s.stage = "ENDING" THEN [s EXCEPT !.stage = "CLOSED", !.age = 0]
    ELSE IF s.stage \in {"CLOSED", "BLOCKED"} /\ s.age > UdpKeep THEN NoSession
    ELSE s

\* check_udp_session: a finished session is closed and stays, without a socket,
\* as long as a blocked one.
CheckUdp(s, idle) ==
    IF idle \/ s.stage = "ENDING"
    THEN [s EXCEPT !.stage = "CLOSED", !.socket = NoSocket, !.age = 0]
    ELSE IF s.stage \in {"CLOSED", "BLOCKED"} /\ s.age > UdpKeep THEN NoSession
    ELSE s

\* check_tcp_session.
CheckTcp(s, idle) ==
    IF idle \/ s.stage = "ENDING" THEN [Lived(s, Closed) EXCEPT !.age = 0]
    ELSE IF s.stage = "CLOSED" /\ s.age > TcpKeep THEN NoSession
    ELSE s

Checked(s, idle) ==
    CASE IsIcmp(s) -> CheckIcmp(s, idle)
      [] IsUdp(s)  -> CheckUdp(s, idle)
      [] IsTcp(s)  -> CheckTcp(s, idle)
      [] OTHER     -> s

CheckSessions ==
    /\ phase = "check"
    /\ \E idle \in SUBSET {a \in Address : Active(a)} :
          /\ \A a \in Address : Active(a) =>
                IF a \in idle THEN Overdue(session[a]) ELSE NotOverdue(session[a])
          /\ Replace([a \in Address |-> Checked(session[a], a \in idle)])
    /\ phase' = "wait"
    /\ UNCHANGED <<count, batch, failed, served, stop, blocked, forgotten>>

\* The checks are skipped when the last ones are less than 100 ms ago.
SkipChecks ==
    /\ phase = "check"
    /\ phase' = "wait"
    /\ UNCHANGED <<session, open, count, batch, failed, served, stop, blocked, forgotten>>

\* epoll_wait returns at most Events of what is ready; a byte in the pipe is
\* reported as soon as it fits.
EpollWait ==
    /\ phase = "wait"
    /\ \E ready \in SUBSET ({a \in Used : session[a].socket # NoSocket}
                                \cup {Tun} \cup {p \in {Pipe} : stop}) :
          /\ Cardinality(ready) <= Events
          /\ stop /\ Cardinality(ready) < Events => Pipe \in ready
          /\ batch' = ready
          /\ failed' \in SUBSET (ready \ {Pipe})
    /\ phase' = "dispatch"
    /\ UNCHANGED <<session, open, count, served, stop, blocked, forgotten>>

\* epoll_wait fails: the loop ends by itself.
EpollFails ==
    /\ phase = "wait"
    /\ phase' = "dead"
    /\ UNCHANGED <<session, open, count, batch, failed, served, stop, blocked, forgotten>>

\* A second passes while the loop waits.
Tick ==
    /\ phase = "wait"
    /\ session' = [a \in Address |->
          IF session[a].stage # "NONE" /\ session[a].age < MaxAge
          THEN [session[a] EXCEPT !.age = @ + 1] ELSE session[a]]
    /\ UNCHANGED <<open, count, phase, batch, failed, served, stop, blocked, forgotten>>

-----------------------------------------------------------------------------
(* Dispatch: the events of the batch, in any order.                        *)

\* Once the tun device is read it is read until it is empty.
Turn(e) ==
    /\ phase = "dispatch"
    /\ e \in batch
    /\ served > 0 /\ Tun \in batch => e = Tun

\* Mutant: an event that was served keeps its error.
ServeError(e) ==
    /\ batch' = batch \ {e}
    /\ failed' = failed

Serve(e) ==
    /\ batch' = batch \ {e}
    /\ failed' = failed \ {e}

\* Mutant: only the batch is left, not the loop.
ServePipeBreak ==
    /\ Turn(Pipe)
    /\ phase' = "monitor"
    /\ batch' = {}
    /\ failed' = {}
    /\ stop' = FALSE
    /\ UNCHANGED <<session, open, count, served, blocked, forgotten>>

\* The byte in the pipe is read, and the rest of the batch is forgotten.
ServePipe ==
    /\ Turn(Pipe)
    /\ phase' = "stopped"
    /\ batch' = {}
    /\ failed' = {}
    /\ stop' = FALSE
    /\ UNCHANGED <<session, open, count, served, blocked, forgotten>>

\* check_icmp_socket: an error, or a reply that cannot be read or delivered,
\* stops the session.
IcmpEvent(s, error) ==
    LET seen == [s EXCEPT !.age = 0]
    IN  IF error THEN {Ending(seen)} ELSE {s, seen, Ending(seen)}

\* check_udp_socket is called only for events without an error.  A reply that
\* cannot be read or delivered ends the session, any reply ends one of DNS.
UdpEvent(s, error) ==
    LET seen == [s EXCEPT !.age = 0]
    IN  IF error THEN {s} ELSE {s, seen, Ending(seen)}

\* check_tcp_socket; the age is not always reset.
TcpEvent(s, error) ==
    IF error THEN {[Ending(s) EXCEPT !.age = 0]}
    ELSE {[Lived(s, l) EXCEPT !.age = age] : l \in EventSteps(LifeOf(s)), age \in {0, s.age}}

Event(s, error) ==
    CASE IsIcmp(s) -> IcmpEvent(s, error)
      [] IsUdp(s)  -> UdpEvent(s, error)
      [] OTHER     -> TcpEvent(s, error)

ServeSocket(a) ==
    /\ Turn(a)
    /\ \E s \in Event(session[a], a \in failed) :
          Replace([session EXCEPT ![a] = s])
    /\ Serve(a)
    /\ UNCHANGED <<count, phase, served, stop, blocked, forgotten>>

\* check_tun fails: the tun device has an error, cannot be read, or is closed.
\* The loop ends by itself.
TunFails ==
    /\ Turn(Tun)
    /\ phase' = "dead"
    /\ batch' = {}
    /\ failed' = {}
    /\ UNCHANGED <<session, open, count, served, stop, blocked, forgotten>>

TunEmpty ==
    /\ Turn(Tun)
    /\ Serve(Tun)
    /\ UNCHANGED <<session, open, count, phase, served, stop, blocked, forgotten>>

EndBatch ==
    /\ phase = "dispatch"
    /\ batch = {}
    /\ phase' = "monitor"
    /\ served' = 0
    /\ UNCHANGED <<session, open, count, batch, failed, stop, blocked, forgotten>>

-----------------------------------------------------------------------------
(* handle_ip: a packet of the app.                                         *)

\* Mutant: DNS is let through as it is without forwarding of port 53.
BeginsButDns(f, syn) ==
    \/ f \in IcmpFlows
    \/ f \in UdpFlows \ DnsFlows /\ Matches(f) = {}
    \/ f \in TcpFlows /\ syn

\* The packet may begin a flow: it is subject to the limit and to the rules.
\* The packets of a UDP session pass whatever its state ("could be a lingering/
\* blocked session"), those of TCP without SYN always.
Begins(f, syn) ==
    \/ f \in IcmpFlows
    \/ f \in UdpFlows /\ Matches(f) = {}
    \/ f \in TcpFlows /\ syn

\* Mutant: one session too many.
LimitedLate == count > MaxSessions

\* The count is the one taken before the batch.
Limited == count >= MaxSessions

\* handle_icmp, with a session.
IcmpPacket(s) ==
    LET seen == [s EXCEPT !.age = 0] IN {seen, Ending(seen)}

\* Mutant: a datagram that cannot be sent closes the session at once.
UdpPacketCloses(s) ==
    IF s.stage # "ACTIVE" THEN {s}
    ELSE {[s EXCEPT !.age = 0], [s EXCEPT !.stage = "CLOSED", !.socket = NoSocket]}

\* Mutant: a packet that is ignored counts as activity.
UdpPacketSeen(s) ==
    LET seen == [s EXCEPT !.age = 0]
    IN  {seen} \cup {Ending(x) : x \in {y \in {seen} : y.stage = "ACTIVE"}}

\* handle_udp, with a session: check_dhcp overwrites the address it is found by,
\* and the rest is sent.
UdpPacket(s) ==
    LET seen     == [s EXCEPT !.age = 0]
        answered == IF s.flow \in DhcpFlows THEN {s, [s EXCEPT !.flow = DhcpKey]} ELSE {}
    IN  IF s.stage # "ACTIVE" THEN {s}
        ELSE {seen, Ending(seen)} \cup answered

\* handle_tcp, with a session: one that ends is left alone, and so is any by a
\* packet with URG.
TcpPacket(s) ==
    IF s.stage # "ACTIVE" THEN {s}
    ELSE {s} \cup {[Lived(s, l) EXCEPT !.age = 0] : l \in PacketSteps(LifeOf(s))}

Packet(s) ==
    CASE IsIcmp(s) -> IcmpPacket(s)
      [] IsUdp(s)  -> UdpPacket(s)
      [] OTHER     -> TcpPacket(s)

\* The packet is dropped, or answered by a reset that changes no session.
Refuse(f, syn) ==
    /\ \/ Begins(f, syn) /\ Limited
       \/ Begins(f, syn) /\ f \in blocked \ UdpFlows
       \/ f \in TcpFlows /\ ~syn /\ Matches(f) = {}
    /\ UNCHANGED <<session, open, forgotten>>

\* block_udp: the flow is remembered, without a socket.
BlockUdp(f) ==
    /\ f \in UdpFlows \cap blocked
    /\ Begins(f, FALSE)
    /\ ~Limited
    /\ \E a \in Free :
          session' = [session EXCEPT ![a] =
                         [flow |-> f, stage |-> "BLOCKED", socket |-> NoSocket, age |-> 0]]
    /\ UNCHANGED <<open, forgotten>>

Admitted(f, syn) == Begins(f, syn) => ~Limited /\ f \notin blocked

UseSession(f, syn) ==
    /\ Admitted(f, syn)
    /\ \E a \in Matches(f) : \E s \in Packet(session[a]) :
          session' = [session EXCEPT ![a] = s]
    /\ UNCHANGED <<open, forgotten>>

\* The first packet of a flow opens the socket and is served at once.
OpenSession(f, syn) ==
    /\ Admitted(f, syn)
    /\ Matches(f) = {}
    /\ f \in TcpFlows => syn
    /\ \E a \in Free, fd \in Fd \ open :
          LET new == [flow |-> f, stage |-> "ACTIVE", socket |-> fd, age |-> 0]
          IN  /\ \E s \in IF IsTcp(new) THEN {new} ELSE Packet(new) :
                    session' = [session EXCEPT ![a] = s]
              /\ open' = open \cup {fd}
    /\ UNCHANGED forgotten

\* open_icmp_socket, open_udp_socket, open_tcp_socket fail.  A socket that
\* cannot be protected, made non-blocking or connected is forgotten, not closed.
OpenFails(f, syn) ==
    /\ Admitted(f, syn)
    /\ Matches(f) = {}
    /\ f \in TcpFlows => syn
    /\ \/ UNCHANGED <<open, forgotten>>
       \/ \E fd \in Fd \ open :
             /\ open' = open \cup {fd}
             /\ forgotten' = forgotten \cup {fd}
    /\ UNCHANGED session

TunPacket ==
    /\ Turn(Tun)
    /\ Tun \notin failed
    /\ served < MaxPackets
    /\ \E f \in Flow, syn \in BOOLEAN :
          \/ Refuse(f, syn)
          \/ BlockUdp(f)
          \/ UseSession(f, syn)
          \/ OpenSession(f, syn)
          \/ OpenFails(f, syn)
    /\ served' = served + 1
    /\ UNCHANGED <<count, phase, batch, failed, stop, blocked>>

\* handle_udp asks Java about the name in a DNS query.  FireWallVPNService has no
\* isDomainBlocked: the call of the missing method ends the process.
DomainQuery ==
    /\ Turn(Tun)
    /\ Tun \notin failed
    /\ \E f \in DnsFlows : Admitted(f, FALSE) /\ (Matches(f) = {} \/ \E a \in Matches(f) : Active(a))
    /\ phase' = "dead"
    /\ batch' = {}
    /\ failed' = {}
    /\ UNCHANGED <<session, open, count, served, stop, blocked, forgotten>>

-----------------------------------------------------------------------------
(* What Java does meanwhile.                                               *)

Running == phase \in {"monitor", "check", "wait", "dispatch"}

ChangeRules ==
    /\ Running
    /\ blocked' \in Rules \ {blocked}
    /\ UNCHANGED <<session, open, count, phase, batch, failed, served, stop, forgotten>>

\* jni_stop writes to the pipe if the thread is alive ...
RequestStop ==
    /\ Running
    /\ ~stop
    /\ stop' = TRUE
    /\ UNCHANGED <<session, open, count, phase, batch, failed, served, blocked, forgotten>>

\* ... waits for its end, and clears the list.
Clear ==
    /\ phase = "stopped"
    /\ Replace([a \in Address |-> NoSession])
    /\ phase' = "cleared"
    /\ UNCHANGED <<count, batch, failed, served, stop, blocked, forgotten>>

-----------------------------------------------------------------------------

Next ==
    \/ Monitor \/ CheckSessions \/ SkipChecks
    \/ EpollWait \/ EpollFails \/ Tick
    \/ ServePipe \/ (\E a \in Address : ServeSocket(a))
    \/ TunPacket \/ DomainQuery \/ TunFails \/ TunEmpty \/ EndBatch
    \/ ChangeRules \/ RequestStop \/ Clear

Spec == Init /\ [][Next]_vars

(* Fairness.  The thread takes its next step, the tun device runs empty now *)
(* and then (TunEmpty), time passes and checks are not skipped for ever.   *)
(* The kernel reports what is ready in turn, hence the pipe too, however   *)
(* much else is ready.  jni_stop waits in pthread_join and then clears.    *)
LoopStep == \/ Monitor \/ SkipChecks \/ EpollWait \/ ServePipe
            \/ (\E a \in Address : ServeSocket(a)) \/ TunEmpty \/ EndBatch

Fairness ==
    /\ WF_vars(LoopStep)
    /\ WF_vars(Clear)
    /\ SF_vars(CheckSessions)
    /\ SF_vars(Tick)
    /\ SF_vars(EpollWait /\ Pipe \in batch')

FairSpec == Spec /\ Fairness

-----------------------------------------------------------------------------
(* Properties.                                                             *)

TypeOK ==
    /\ session \in [Address -> Session]
    /\ open \subseteq Fd
    /\ count \in Nat
    /\ phase \in {"monitor", "check", "wait", "dispatch", "stopped", "cleared", "dead"}
    /\ batch \subseteq Address \cup {Tun, Pipe}
    /\ failed \subseteq batch
    /\ served \in Nat
    /\ stop \in BOOLEAN
    /\ blocked \in Rules
    /\ forgotten \subseteq Fd

\* No descriptor is used after it was closed or by two sessions: a session's
\* socket is open and its own, whatever was closed and reused meanwhile, and a
\* closed or blocked session has none.
DescriptorsOwned ==
    \A a \in Address :
        /\ session[a].socket # NoSocket =>
              /\ session[a].socket \in open
              /\ \A b \in Address \ {a} : session[b].socket # session[a].socket
        /\ session[a].stage \in {"NONE", "CLOSED", "BLOCKED"} => session[a].socket = NoSocket

\* No descriptor is left open without a session, also after a stop, but those
\* whose opening failed: whatever ends, expires, is blocked or reset later, its
\* socket is closed.
NoLeak == open \subseteq Sockets(session) \cup forgotten

\* "Prevent too many open files" (udp.c:125): each open socket has a session.
SocketsOwned == open \subseteq Sockets(session)

\* The pointer in an event that is still to be served is to a session that was
\* not removed, and its socket is still open, whatever the events and packets
\* served before it did.
EventsOwned ==
    \A a \in batch \cap Address : session[a] # NoSession /\ session[a].socket # NoSocket

\* Two sessions of one flow would share its packets: there are none, but for
\* ICMP sessions that are stopped and DHCP sessions, whose key is overwritten.
OneSessionPerFlow ==
    \A a, b \in Used : a # b /\ session[a].flow = session[b].flow =>
        \/ IsIcmp(session[a]) /\ "ENDING" \in {session[a].stage, session[b].stage}
        \/ IsUdp(session[a]) /\ session[a].flow = DhcpKey

\* "Limit number of sessions" (ip.c:258) with a count that is as old as the
\* batch: a full table admits nobody, any other at most the batch's packets.
LimitHolds ==
    phase = "dispatch" =>
        Cardinality({a \in Address : Active(a)})
            <= count + (IF count >= MaxSessions THEN 0 ELSE served)

\* While the count is within the limit, a session that was active within the
\* last second survives the check, however short its timeout is scaled.
FreshSurvives ==
    [][phase = "check" /\ count <= MaxSessions =>
          \A a \in Address : Active(a) /\ session[a].age = 0
                                => session'[a] = session[a]]_vars

\* No socket is opened for a flow that the rules forbid at that moment, even if
\* an earlier session of the flow still lingers.
RulesObeyed ==
    [][\A a \in Address :
          session'[a].socket \notin {NoSocket, session[a].socket}
              => session'[a].flow \notin blocked]_vars

\* What ends is removed, however long the app goes on sending.
EndedRemoved ==
    \A a \in Address :
        session[a].stage \in {"ENDING", "CLOSED", "BLOCKED"}
            ~> session[a].stage \in {"NONE", "ACTIVE"} \/ ~Running

\* What the service sees of the loop.
LoopStage == IF Running THEN "on"
             ELSE IF phase = "stopped" THEN "done"
             ELSE IF phase = "cleared" THEN "off"
             ELSE "dead"
LoopAsked == stop /\ Running
LoopList  == IF phase = "dead" THEN {} ELSE Sockets(session)

Loop == INSTANCE LoopLife WITH loop <- LoopStage, asked <- LoopAsked, list <- LoopList

\* A loop that is asked to stop does so, with the sessions as they are, and
\* unasked it leaves only with the process; what is left is cleared, all of it.
ImplementsLoop == Loop!Spec

\* A request to stop ends the loop and, unless it fails first, closes all.
StopClears == stop ~> phase \in {"cleared", "dead"}
=============================================================================
