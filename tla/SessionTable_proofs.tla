------------------------- MODULE SessionTable_proofs -------------------------
(* The safety properties of SessionTable, for any flows, rules, timeouts and *)
(* limits, and any number of addresses, descriptors and events.              *)
EXTENDS SessionTable, FiniteSetTheorems, TLAPS

\* A record of the list, or none.
WellFormed(s) ==
    /\ s = NoSession <=> s.flow = NoFlow
    /\ s = NoSession <=> s.stage = "NONE"
    /\ s.stage \in {"NONE", "CLOSED", "BLOCKED"} => s.socket = NoSocket

\* What a handler may make of a session s: it never gets another socket, nor
\* another flow but for check_dhcp, and what has ended does not begin again.
Becomes(s, t) ==
    /\ t \in Session /\ WellFormed(t)
    /\ t.socket \in {s.socket, NoSocket}
    /\ t.stage = "ACTIVE" => s.stage = "ACTIVE"
    /\ t # NoSession => s # NoSession
    /\ t # NoSession /\ t.flow # s.flow => DhcpFlows # {} /\ t.flow = DhcpKey
    /\ t # NoSession /\ IsIcmp(s) /\ s.stage = "ENDING" => t.stage = "ENDING"

Formed == \A a \in Address : WellFormed(session[a])

ActiveSet == {a \in Address : Active(a)}

\* Events wait only while the loop serves them; the pipe's is for a byte that
\* is still in it.
BatchServed ==
    /\ batch # {} => phase = "dispatch"
    /\ Pipe \in batch => stop

\* The count is that of the table, but for what this batch's packets opened.
Counted ==
    /\ phase \in {"monitor", "check", "wait"} => served = 0
    /\ phase \in {"check", "wait", "dispatch"} =>
          Cardinality(ActiveSet) <= count + (IF count >= MaxSessions THEN 0 ELSE served)

IInv ==
    /\ TypeOK /\ Formed /\ DescriptorsOwned /\ BatchServed /\ EventsOwned
    /\ OneSessionPerFlow /\ Counted /\ NoLeak

\* A new socket is for a flow that is allowed, or for the key of check_dhcp.
OpensAllowed ==
    \A a \in Address :
        session'[a].socket \notin {NoSocket, session[a].socket} =>
            session'[a].flow \notin blocked \/ session'[a].flow = DhcpKey

USE FlowAssumption, HeapAssumption, NumberAssumption
USE DEF Flow, IsTcp, IsUdp, IsIcmp, Active, ActiveSet

-----------------------------------------------------------------------------
(* Sessions.                                                               *)

LEMMA NoSessionFormed == NoSession \in Session /\ WellFormed(NoSession)
                         /\ NoSession.socket = NoSocket /\ NoSession.stage = "NONE"
                         /\ NoSession.flow = NoFlow
  BY DEF NoSession, Session, Stages, WellFormed

\* Changes of one part of a session.
LEMMA Aged ==
  ASSUME NEW s \in Session, NEW age \in Nat, NEW t, t = [s EXCEPT !.age = age]
  PROVE  t \in Session /\ t.flow = s.flow /\ t.stage = s.stage /\ t.socket = s.socket
  BY DEF Session

LEMMA Ended ==
  ASSUME NEW s \in Session, NEW t, t = Ending(s)
  PROVE  t \in Session /\ t.flow = s.flow /\ t.stage = "ENDING" /\ t.socket = s.socket
  BY DEF Session, Ending, Stages

\* A session that exists and goes on with the same socket.
LEMMA StaysFormed ==
  ASSUME NEW s \in Session, WellFormed(s), s # NoSession, NEW t \in Session,
         t.flow = s.flow \/ (DhcpFlows # {} /\ t.flow = DhcpKey),
         t.stage = s.stage \/ t.stage = "ENDING", t.socket = s.socket
  PROVE  Becomes(s, t) /\ t # NoSession
<1>1. t.stage # "NONE" /\ t.flow # NoFlow
  BY DEF WellFormed, Session
<1>2. t # NoSession
  BY <1>1, NoSessionFormed
<1> QED BY <1>1, <1>2 DEF Becomes, WellFormed

\* Lived gives a TCP session its life l.
LEMMA LivedIs ==
  ASSUME NEW s \in Session, NEW l \in Lives, l.stage # "NONE", NEW t, t = Lived(s, l)
  PROVE  /\ t \in Session
         /\ t.flow = s.flow /\ t.stage = l.stage /\ t.age = s.age
         /\ t.socket = IF l.socket THEN s.socket ELSE NoSocket
  BY DEF Session, Lives, Lived

LEMMA LifeIs ==
  ASSUME NEW s \in Session, WellFormed(s), s # NoSession, IsTcp(s), s.stage # "BLOCKED"
  PROVE  /\ LifeOf(s) \in Lives
         /\ LifeOf(s).stage = s.stage /\ LifeOf(s).socket = (s.socket # NoSocket)
  BY DEF Session, LifeOf, At, Lives

\* A session that a TCP handler leaves in life l, at age age.
LEMMA LivedBecomes ==
  ASSUME NEW s \in Session, WellFormed(s), s # NoSession,
         NEW l \in Lives, l.stage # "NONE", l.stage = "CLOSED" => ~l.socket,
         l.stage = "ACTIVE" => s.stage = "ACTIVE", ~IsIcmp(s),
         NEW t \in Session,
         t.flow = s.flow, t.stage = l.stage, t.socket = IF l.socket THEN s.socket ELSE NoSocket
  PROVE  Becomes(s, t) /\ t # NoSession
<1>1. t.stage \notin {"NONE", "BLOCKED"} /\ t.flow # NoFlow
  BY DEF WellFormed, Lives, Stages
<1>2. t # NoSession
  BY <1>1, NoSessionFormed
<1> QED BY <1>1, <1>2 DEF Becomes, WellFormed

LEMMA CloseIs ==
  ASSUME NEW s \in Session, NEW t,
         t = [s EXCEPT !.stage = "CLOSED", !.socket = NoSocket, !.age = 0]
  PROVE  t \in Session /\ t.flow = s.flow /\ t.stage = "CLOSED" /\ t.socket = NoSocket
<1>1. "CLOSED" \in Stages \cup {"BLOCKED"} /\ NoSocket \in Fd \cup {NoSocket} /\ 0 \in Nat
  BY DEF Stages
<1> QED BY <1>1 DEF Session

\* The lives after a packet and after an event.
LEMMA PacketLives ==
  ASSUME NEW k \in Lives, k.stage = "ACTIVE", NEW l \in PacketSteps(k)
  PROVE  /\ l \in Lives /\ l.stage \in {"ACTIVE", "ENDING", "CLOSED"}
         /\ l.socket = k.socket /\ (l.stage = "CLOSED" => ~l.socket)
<1>1. l \in {k, Reset(k)} \/ (l = Closed /\ ~k.socket)
  BY DEF PacketSteps
<1>2. CASE l = k
  BY <1>2
<1>3. CASE l = Reset(k)
  BY <1>3 DEF Reset, Lives, Stages
<1>4. CASE l = Closed /\ ~k.socket
  <2>1. l \in Lives /\ l.stage = "CLOSED" /\ l.socket = FALSE
    BY <1>4 DEF Closed, At, Lives, Stages
  <2>2. k.socket = FALSE
    BY <1>4 DEF Lives
  <2> QED BY <2>1, <2>2
<1> QED BY <1>1, <1>2, <1>3, <1>4

LEMMA EventLives ==
  ASSUME NEW k \in Lives, k.stage \in {"ACTIVE", "ENDING"}, NEW l \in EventSteps(k)
  PROVE  /\ l \in Lives /\ l.stage \in {"ACTIVE", "ENDING"}
         /\ l.stage = "ACTIVE" => k.stage = "ACTIVE"
<1>1. \/ l = k
      \/ k.stage = "ACTIVE" /\ l \in {At("ACTIVE", FALSE), At("ENDING", TRUE), At("ENDING", FALSE)}
  BY DEF EventSteps
<1>2. CASE l = k
  BY <1>2
<1>3. CASE /\ k.stage = "ACTIVE"
           /\ l \in {At("ACTIVE", FALSE), At("ENDING", TRUE), At("ENDING", FALSE)}
  <2>1. PICK stage \in {"ACTIVE", "ENDING"}, socket \in BOOLEAN :
          l = [stage |-> stage, socket |-> socket]
    BY <1>3 DEF At
  <2> QED BY <1>3, <2>1 DEF Lives, Stages
<1> QED BY <1>1, <1>2, <1>3

\* A packet that is served leaves the session its socket.
LEMMA PacketBecomes ==
  ASSUME NEW s \in Session, WellFormed(s), s # NoSession, NEW t \in Packet(s)
  PROVE  Becomes(s, t) /\ t # NoSession /\ t.socket = s.socket
<1> DEFINE seen == [s EXCEPT !.age = 0]
<1>1. s.flow \in Flow
  BY DEF WellFormed, Session
<1>2. /\ seen \in Session /\ seen.flow = s.flow /\ seen.stage = s.stage /\ seen.socket = s.socket
      /\ Ending(seen) \in Session /\ Ending(seen).flow = s.flow
      /\ Ending(seen).stage = "ENDING" /\ Ending(seen).socket = s.socket
      /\ Ending(s) \in Session /\ Ending(s).flow = s.flow
      /\ Ending(s).stage = "ENDING" /\ Ending(s).socket = s.socket
  <2>1. seen \in Session /\ seen.flow = s.flow /\ seen.stage = s.stage /\ seen.socket = s.socket
    BY Aged
  <2> QED BY <2>1, Ended
<1> HIDE DEF seen
<1>3. CASE IsIcmp(s)
  <2>1. t \in {seen, Ending(seen)}
    BY <1>3 DEF Packet, IcmpPacket, seen
  <2> QED BY <1>2, <2>1, StaysFormed
<1>4. CASE IsUdp(s)
  <2>1. Packet(s) = UdpPacket(s)
    BY <1>4 DEF Packet
  <2>2. CASE t = [s EXCEPT !.flow = DhcpKey] /\ s.flow \in DhcpFlows
    <3>1. /\ t \in Session /\ t.flow = DhcpKey /\ t.stage = s.stage /\ t.socket = s.socket
          /\ DhcpFlows # {}
      BY <2>2 DEF Session
    <3> QED BY <3>1, StaysFormed
  <2>3. CASE t \in {s, seen, Ending(seen), Ending(s)}
    BY <1>2, <2>3, StaysFormed
  <2> QED BY <2>1, <2>2, <2>3 DEF UdpPacket, seen
<1>5. CASE IsTcp(s)
  <2>1. Packet(s) = TcpPacket(s)
    BY <1>5 DEF Packet
  <2>2. CASE t = s
    BY <2>2, StaysFormed
  <2>3. CASE t # s
    <3>1. PICK l \in PacketSteps(LifeOf(s)) : t = [Lived(s, l) EXCEPT !.age = 0]
      BY <2>1, <2>3 DEF TcpPacket
    <3>2. s.stage = "ACTIVE"
      BY <2>1, <2>3 DEF TcpPacket
    <3>3. /\ LifeOf(s) \in Lives
          /\ LifeOf(s).stage = "ACTIVE" /\ LifeOf(s).socket = (s.socket # NoSocket)
      BY <1>5, <3>2, LifeIs
    <3>4. /\ l \in Lives /\ l.stage \in {"ACTIVE", "ENDING", "CLOSED"}
          /\ l.socket = (s.socket # NoSocket) /\ (l.stage = "CLOSED" => ~l.socket)
      BY <3>1, <3>3, PacketLives
    <3>5. /\ t \in Session /\ t.flow = s.flow /\ t.stage = l.stage
          /\ t.socket = IF l.socket THEN s.socket ELSE NoSocket
      <4>1. /\ Lived(s, l) \in Session /\ Lived(s, l).flow = s.flow /\ Lived(s, l).stage = l.stage
            /\ Lived(s, l).socket = IF l.socket THEN s.socket ELSE NoSocket
        BY <3>4, LivedIs
      <4> QED BY <3>1, <4>1, Aged
    <3> QED BY <1>5, <3>2, <3>4, <3>5, LivedBecomes
  <2> QED BY <2>2, <2>3
<1> QED BY <1>1, <1>3, <1>4, <1>5

\* An event is for a session with a socket.
LEMMA EventBecomes ==
  ASSUME NEW s \in Session, WellFormed(s), s # NoSession, s.socket # NoSocket,
         NEW error, NEW t \in Event(s, error)
  PROVE  Becomes(s, t)
<1> DEFINE seen == [s EXCEPT !.age = 0]
<1>1. s.flow \in Flow
  BY DEF WellFormed, Session
<1>2. /\ seen \in Session /\ seen.flow = s.flow /\ seen.stage = s.stage /\ seen.socket = s.socket
      /\ Ending(seen) \in Session /\ Ending(seen).flow = s.flow
      /\ Ending(seen).stage = "ENDING" /\ Ending(seen).socket = s.socket
  <2>1. seen \in Session /\ seen.flow = s.flow /\ seen.stage = s.stage /\ seen.socket = s.socket
    BY Aged
  <2> QED BY <2>1, Ended
<1> HIDE DEF seen
<1>3. CASE IsIcmp(s) \/ IsUdp(s)
  <2>1. t \in {s, seen, Ending(seen)}
    BY <1>3 DEF Event, IcmpEvent, UdpEvent, seen
  <2> QED BY <1>2, <2>1, StaysFormed
<1>4. CASE IsTcp(s)
  <2>1. Event(s, error) = TcpEvent(s, error)
    BY <1>4 DEF Event
  <2>2. CASE error
    <3>1. t = [Ending(s) EXCEPT !.age = 0]
      BY <2>1, <2>2 DEF TcpEvent
    <3>2. t \in Session /\ t.flow = s.flow /\ t.stage = "ENDING" /\ t.socket = s.socket
      BY <3>1, Ended, Aged
    <3> QED BY <3>2, StaysFormed
  <2>3. CASE ~error
    <3>1. PICK l \in EventSteps(LifeOf(s)), age \in {0, s.age} :
            t = [Lived(s, l) EXCEPT !.age = age]
      BY <2>1, <2>3 DEF TcpEvent
    <3>2. s.stage \in {"ACTIVE", "ENDING"} /\ s.age \in Nat
      BY DEF WellFormed, Session, Stages
    <3>3. LifeOf(s) \in Lives /\ LifeOf(s).stage = s.stage /\ LifeOf(s).socket
      BY <1>4, <3>2, LifeIs
    <3>4. /\ l \in Lives /\ l.stage \in {"ACTIVE", "ENDING"}
          /\ l.stage = "ACTIVE" => s.stage = "ACTIVE"
      BY <3>1, <3>2, <3>3, EventLives
    <3>5. /\ t \in Session /\ t.flow = s.flow /\ t.stage = l.stage
          /\ t.socket = IF l.socket THEN s.socket ELSE NoSocket
      <4>1. /\ Lived(s, l) \in Session /\ Lived(s, l).flow = s.flow /\ Lived(s, l).stage = l.stage
            /\ Lived(s, l).socket = IF l.socket THEN s.socket ELSE NoSocket
        BY <3>4, LivedIs
      <4> QED BY <3>1, <3>2, <4>1, Aged
    <3> QED BY <1>4, <3>4, <3>5, LivedBecomes
  <2> QED BY <2>2, <2>3
<1> QED BY <1>1, <1>3, <1>4

\* The check closes what has ended and removes what was closed.
LEMMA CheckBecomes ==
  ASSUME NEW s \in Session, WellFormed(s), NEW idle \in BOOLEAN
  PROVE  Becomes(s, Checked(s, idle))
<1>1. CASE s = NoSession
  BY <1>1, NoSessionFormed DEF Checked, Becomes
<1>2. CASE s # NoSession /\ Checked(s, idle) = s
  BY <1>2, StaysFormed
<1>3. CASE Checked(s, idle) = NoSession
  BY <1>3, NoSessionFormed DEF Becomes
<1>4. CASE s # NoSession /\ Checked(s, idle) \notin {s, NoSession}
  <2> DEFINE t == Checked(s, idle)
  <2>1. s.flow \in Flow /\ (idle \/ s.stage = "ENDING") /\ ~IsIcmp(s)
    BY <1>4 DEF Checked, CheckIcmp, CheckUdp, CheckTcp, WellFormed, Session
  <2>2. /\ t \in Session /\ t.flow = s.flow /\ t.stage = "CLOSED" /\ t.socket = NoSocket
    <3>1. CASE IsUdp(s)
      <4>1. t = [s EXCEPT !.stage = "CLOSED", !.socket = NoSocket, !.age = 0]
        BY <2>1, <3>1 DEF Checked, CheckUdp
      <4> QED BY <4>1, CloseIs
    <3>2. CASE IsTcp(s)
      <4>1. t = [Lived(s, Closed) EXCEPT !.age = 0]
        BY <2>1, <3>2 DEF Checked, CheckTcp
      <4>2. Closed \in Lives /\ Closed.stage = "CLOSED" /\ ~Closed.socket
        BY DEF Closed, At, Lives, Stages
      <4>3. /\ Lived(s, Closed) \in Session /\ Lived(s, Closed).flow = s.flow
            /\ Lived(s, Closed).stage = "CLOSED" /\ Lived(s, Closed).socket = NoSocket
        BY <4>2, LivedIs
      <4> QED BY <4>1, <4>3, Aged
    <3> QED BY <2>1, <3>1, <3>2
  <2>3. Closed \in Lives /\ Closed.stage = "CLOSED" /\ ~Closed.socket
    BY DEF Closed, At, Lives, Stages
  <2> QED BY <1>4, <2>1, <2>2, <2>3, LivedBecomes
<1> QED BY <1>1, <1>2, <1>3, <1>4

-----------------------------------------------------------------------------
(* Tables of sessions.                                                     *)

LEMMA StaysSame ==
  ASSUME NEW s \in Session, WellFormed(s)
  PROVE  Becomes(s, s)
  BY DEF Becomes

\* Fewer active sessions are no more than there were.
LEMMA FewerActive ==
  ASSUME NEW less, less \subseteq ActiveSet
  PROVE  Cardinality(less) \in Nat /\ Cardinality(ActiveSet) \in Nat
         /\ Cardinality(less) <= Cardinality(ActiveSet)
<1>1. IsFiniteSet(ActiveSet)
  BY FS_Subset
<1>2. IsFiniteSet(less)
  BY <1>1, FS_Subset
<1> QED BY <1>1, <1>2, FS_Subset, FS_CardinalityType

\* A table t of sessions of which each is what the present one becomes.
LEMMA TableBecomes ==
  ASSUME IInv, NEW t \in [Address -> Session],
         \A a \in Address : Becomes(session[a], t[a]), session' = t
  PROVE  /\ Formed' /\ OneSessionPerFlow'
         /\ ActiveSet' \subseteq ActiveSet /\ OpensAllowed
         /\ \A a \in Address :
               t[a].stage \in {"NONE", "CLOSED", "BLOCKED"} => t[a].socket = NoSocket
         /\ \A a, b \in Address : a # b /\ t[a].socket # NoSocket => t[a].socket # t[b].socket
<1>1. Formed'
  BY DEF Formed, Becomes
<1>2. ActiveSet' \subseteq ActiveSet
  BY DEF Becomes
<1>3. ASSUME NEW a \in Address, t[a].stage \in {"NONE", "CLOSED", "BLOCKED"}
      PROVE  t[a].socket = NoSocket
  BY <1>3 DEF Becomes, WellFormed
<1>4. ASSUME NEW a \in Address, NEW b \in Address, a # b, t[a].socket # NoSocket
      PROVE  t[a].socket # t[b].socket
  BY <1>4 DEF Becomes, IInv, DescriptorsOwned
<1>5. ASSUME NEW a \in Address, NEW b \in Address, a # b, t[a] # NoSession, t[b] # NoSession,
             t[a].flow = t[b].flow
      PROVE  \/ t[a].flow \in IcmpFlows /\ "ENDING" \in {t[a].stage, t[b].stage}
             \/ t[a].flow \in UdpFlows /\ t[a].flow = DhcpKey
  <2>1. CASE t[a].flow = session[a].flow /\ t[b].flow = session[b].flow
    <3>1. session[a] # NoSession /\ session[b] # NoSession /\ session[a].flow = session[b].flow
      BY <1>5, <2>1 DEF Becomes
    <3>2. \/ IsIcmp(session[a]) /\ "ENDING" \in {session[a].stage, session[b].stage}
          \/ IsUdp(session[a]) /\ session[a].flow = DhcpKey
      BY <1>5, <3>1 DEF IInv, OneSessionPerFlow, Used
    <3> QED BY <1>5, <2>1, <3>1, <3>2 DEF Becomes
  <2>2. CASE t[a].flow # session[a].flow \/ t[b].flow # session[b].flow
    BY <1>5, <2>2 DEF Becomes
  <2> QED BY <2>1, <2>2
<1>6. OneSessionPerFlow'
  BY <1>5 DEF OneSessionPerFlow, Used
<1>7. OpensAllowed
  BY DEF OpensAllowed, Becomes
<1> QED BY <1>1, <1>2, <1>3, <1>4, <1>6, <1>7

\* Replace closes the sockets that no session has any more, and no other ones.
LEMMA ReplaceOwns ==
  ASSUME IInv, NEW t \in [Address -> Session],
         \A a \in Address : Becomes(session[a], t[a]), Replace(t),
         forgotten' = forgotten
  PROVE  /\ session' = t /\ open' \subseteq open /\ DescriptorsOwned'
         /\ NoLeak'
<1>1. session' = t /\ open' = open \ (Sockets(session) \ Sockets(t))
  BY DEF Replace
<1>2. \A a \in Address : t[a].socket # NoSocket => t[a].socket \in open'
  BY <1>1 DEF Sockets, Becomes, IInv, DescriptorsOwned
<1>3. DescriptorsOwned'
  BY <1>1, <1>2, TableBecomes DEF DescriptorsOwned
<1> QED BY <1>1, <1>3 DEF IInv, NoLeak

\* Sessions that keep their sockets.
LEMMA SocketsKept ==
  ASSUME IInv, NEW t \in [Address -> Session],
         \A a \in Address : Becomes(session[a], t[a]) /\ t[a].socket = session[a].socket,
         session' = t, UNCHANGED <<open, forgotten>>
  PROVE  DescriptorsOwned' /\ NoLeak'
<1>1. DescriptorsOwned'
  BY TableBecomes DEF IInv, DescriptorsOwned
<1>2. Sockets(t) = Sockets(session)
  BY DEF Sockets
<1> QED BY <1>1, <1>2 DEF IInv, NoLeak

\* Steps that leave the table, the sockets and the packets read alone.
LEMMA TableKept ==
  ASSUME IInv, UNCHANGED <<session, open, forgotten>>
  PROVE  Formed' /\ DescriptorsOwned' /\ OneSessionPerFlow' /\ NoLeak'
         /\ ActiveSet' = ActiveSet /\ OpensAllowed
<1>1. Formed' /\ DescriptorsOwned' /\ ActiveSet' = ActiveSet
  BY DEF IInv, Formed, DescriptorsOwned
<1>2. OneSessionPerFlow'
  BY DEF IInv, OneSessionPerFlow, Used
<1>3. NoLeak'
  BY DEF IInv, NoLeak, Sockets
<1>4. OpensAllowed
  BY DEF OpensAllowed
<1> QED BY <1>1, <1>2, <1>3, <1>4

-----------------------------------------------------------------------------
(* The steps.                                                              *)

LEMMA InitIInv == Init => IInv
<1> SUFFICES ASSUME Init PROVE IInv
  OBVIOUS
<1>1. session = [a \in Address |-> NoSession]
  BY DEF Init
<1>2. TypeOK
  <2>1. session \in [Address -> Session]
    BY <1>1, NoSessionFormed
  <2> QED BY <2>1 DEF Init, TypeOK
<1>3. Formed /\ DescriptorsOwned /\ OneSessionPerFlow
  BY <1>1, NoSessionFormed DEF Formed, DescriptorsOwned, OneSessionPerFlow, Used
<1>4. BatchServed /\ EventsOwned /\ Counted
  BY DEF Init, BatchServed, EventsOwned, Counted
<1>5. NoLeak
  BY DEF Init, NoLeak
<1> QED BY <1>2, <1>3, <1>4, <1>5 DEF IInv

LEMMA MonitorIInv ==
  ASSUME IInv, Monitor
  PROVE  IInv' /\ OpensAllowed
<1>1. PICK reset \in SUBSET {a \in Used : IsTcp(session[a]) /\ session[a].socket # NoSocket} :
        session' = [a \in Address |->
            IF a \in reset THEN Lived(session[a], Reset(LifeOf(session[a]))) ELSE session[a]]
  BY DEF Monitor
<1> DEFINE t == [a \in Address |->
            IF a \in reset THEN Lived(session[a], Reset(LifeOf(session[a]))) ELSE session[a]]
<1>2. ASSUME NEW a \in Address
      PROVE  t[a] \in Session /\ Becomes(session[a], t[a]) /\ t[a].socket = session[a].socket
  <2>1. session[a] \in Session /\ WellFormed(session[a])
    BY DEF IInv, TypeOK, Formed
  <2>2. CASE a \in reset
    <3> DEFINE s == session[a]
               l == Reset(LifeOf(s))
    <3>1. s # NoSession /\ IsTcp(s) /\ s.socket # NoSocket
      BY <2>2 DEF Used
    <3>2. s.stage # "BLOCKED"
      BY <2>1, <3>1 DEF WellFormed
    <3>3. l \in Lives /\ l.stage = "ENDING" /\ l.socket
      <4>1. LifeOf(s) \in Lives /\ LifeOf(s).socket
        BY <2>1, <3>1, <3>2, LifeIs
      <4> QED BY <4>1 DEF Reset, Lives, Stages
    <3>4. t[a] = Lived(s, l)
      BY <2>2
    <3>5. t[a] \in Session /\ t[a].flow = s.flow /\ t[a].stage = "ENDING" /\ t[a].socket = s.socket
      BY <2>1, <3>3, <3>4, LivedIs
    <3> QED BY <2>1, <3>1, <3>5, StaysFormed
  <2>3. CASE a \notin reset
    BY <2>1, <2>3, StaysSame
  <2> QED BY <2>2, <2>3
<1>3. t \in [Address -> Session] /\ session' = t
  BY <1>1, <1>2
<1>4. /\ phase = "monitor" /\ phase' = "check" /\ count' = Cardinality(ActiveSet)
      /\ UNCHANGED <<open, batch, failed, served, stop, blocked, forgotten>>
  BY DEF Monitor
<1> HIDE DEF t
<1>5. Formed' /\ OneSessionPerFlow' /\ ActiveSet' \subseteq ActiveSet /\ OpensAllowed
  BY <1>2, <1>3, TableBecomes
<1>6. DescriptorsOwned' /\ NoLeak'
  BY <1>2, <1>3, <1>4, SocketsKept
<1>7. Cardinality(ActiveSet') \in Nat /\ count' \in Nat /\ Cardinality(ActiveSet') <= count'
  BY <1>4, <1>5, FewerActive
<1>8. TypeOK'
  BY <1>3, <1>4, <1>7 DEF IInv, TypeOK
<1>9. batch = {} /\ served = 0
  BY <1>4 DEF IInv, BatchServed, Counted
<1>10. BatchServed' /\ EventsOwned' /\ Counted'
  BY <1>4, <1>7, <1>9 DEF BatchServed, EventsOwned, Counted
<1> QED BY <1>5, <1>6, <1>8, <1>10 DEF IInv

LEMMA CheckSessionsIInv ==
  ASSUME IInv, CheckSessions
  PROVE  IInv' /\ OpensAllowed
<1>1. PICK idle \in SUBSET {a \in Address : Active(a)} :
        Replace([a \in Address |-> Checked(session[a], a \in idle)])
  BY DEF CheckSessions
<1> DEFINE t == [a \in Address |-> Checked(session[a], a \in idle)]
<1>2. \A a \in Address : t[a] \in Session /\ Becomes(session[a], t[a])
  <2>1. TAKE a \in Address
  <2>2. session[a] \in Session /\ WellFormed(session[a]) /\ (a \in idle) \in BOOLEAN
    BY DEF IInv, TypeOK, Formed
  <2>3. t[a] = Checked(session[a], a \in idle)
    OBVIOUS
  <2>4. Becomes(session[a], t[a])
    BY <2>2, <2>3, CheckBecomes
  <2> QED BY <2>4 DEF Becomes
<1>3. t \in [Address -> Session] /\ Replace(t)
  BY <1>1, <1>2
<1>4. /\ phase = "check" /\ phase' = "wait"
      /\ UNCHANGED <<count, batch, failed, served, stop, blocked, forgotten>>
  BY DEF CheckSessions
<1> HIDE DEF t
<1>5. session' = t /\ open' \subseteq open /\ DescriptorsOwned' /\ NoLeak'
  BY <1>2, <1>3, <1>4, ReplaceOwns
<1>6. Formed' /\ OneSessionPerFlow' /\ ActiveSet' \subseteq ActiveSet /\ OpensAllowed
  BY <1>2, <1>3, <1>5, TableBecomes
<1>7. /\ Cardinality(ActiveSet) \in Nat /\ Cardinality(ActiveSet') \in Nat
      /\ Cardinality(ActiveSet') <= Cardinality(ActiveSet)
  BY <1>6, FewerActive
<1>8. TypeOK'
  BY <1>3, <1>4, <1>5 DEF IInv, TypeOK
<1>9. batch = {} /\ served = 0
  BY <1>4 DEF IInv, BatchServed, Counted
<1>10. BatchServed' /\ EventsOwned' /\ Counted'
  BY <1>4, <1>7, <1>9 DEF IInv, TypeOK, BatchServed, EventsOwned, Counted
<1> QED BY <1>5, <1>6, <1>8, <1>10 DEF IInv

LEMMA SkipChecksIInv ==
  ASSUME IInv, SkipChecks
  PROVE  IInv' /\ OpensAllowed
<1>1. /\ phase = "check" /\ phase' = "wait"
      /\ UNCHANGED <<session, open, count, batch, failed, served, stop, blocked, forgotten>>
  BY DEF SkipChecks
<1>2. TypeOK' /\ BatchServed' /\ EventsOwned'
  BY <1>1 DEF IInv, TypeOK, BatchServed, EventsOwned
<1>3. Counted'
  BY <1>1, TableKept DEF IInv, Counted
<1> QED BY <1>1, <1>2, <1>3, TableKept DEF IInv

LEMMA EpollWaitIInv ==
  ASSUME IInv, EpollWait
  PROVE  IInv' /\ OpensAllowed
<1>1. /\ phase = "wait" /\ phase' = "dispatch"
      /\ UNCHANGED <<session, open, count, served, stop, blocked, forgotten>>
      /\ batch' \subseteq {a \in Used : session[a].socket # NoSocket} \cup {Tun, Pipe}
      /\ failed' \subseteq batch'
  BY DEF EpollWait
<1>2. TypeOK'
  BY <1>1 DEF IInv, TypeOK, Used
<1>3. BatchServed' /\ EventsOwned'
  <2>1. Pipe \in batch' => stop'
    BY <1>1 DEF EpollWait, Used
  <2> QED BY <1>1, <2>1 DEF BatchServed, EventsOwned, Used
<1>4. Counted'
  BY <1>1, TableKept DEF IInv, Counted
<1> QED BY <1>1, <1>2, <1>3, <1>4, TableKept DEF IInv

\* The steps in which the loop ends.
LEMMA LoopEndsIInv ==
  ASSUME IInv, EpollFails \/ TunFails \/ ServePipe \/ DomainQuery
  PROVE  IInv' /\ OpensAllowed
<1>1. /\ phase' \in {"dead", "stopped"}
      /\ UNCHANGED <<session, open, count, served, blocked, forgotten>>
  BY DEF EpollFails, TunFails, ServePipe, DomainQuery
<1>2. batch' = {} /\ failed' = {} /\ stop' \in BOOLEAN
  <2>1. CASE EpollFails
    BY <2>1 DEF IInv, TypeOK, BatchServed, EpollFails
  <2>2. CASE TunFails \/ ServePipe \/ DomainQuery
    BY <2>2 DEF IInv, TypeOK, TunFails, ServePipe, DomainQuery
  <2> QED BY <2>1, <2>2
<1>3. TypeOK'
  BY <1>1, <1>2 DEF IInv, TypeOK
<1>4. BatchServed' /\ EventsOwned' /\ Counted'
  BY <1>1, <1>2 DEF BatchServed, EventsOwned, Counted
<1> QED BY <1>1, <1>3, <1>4, TableKept DEF IInv

LEMMA TickIInv ==
  ASSUME IInv, Tick
  PROVE  IInv' /\ OpensAllowed
<1> DEFINE t == [a \in Address |->
          IF session[a].stage # "NONE" /\ session[a].age < MaxAge
          THEN [session[a] EXCEPT !.age = @ + 1] ELSE session[a]]
<1>1. ASSUME NEW a \in Address
      PROVE  t[a] \in Session /\ Becomes(session[a], t[a]) /\ t[a].socket = session[a].socket
  <2>1. session[a] \in Session /\ WellFormed(session[a]) /\ session[a].age + 1 \in Nat
    BY DEF IInv, TypeOK, Formed, Session
  <2>2. CASE t[a] = session[a]
    BY <2>1, <2>2, StaysSame
  <2>3. CASE t[a] # session[a]
    <3>1. t[a] = [session[a] EXCEPT !.age = session[a].age + 1] /\ session[a].stage # "NONE"
      BY <2>3
    <3>2. session[a] # NoSession
      BY <3>1, NoSessionFormed
    <3>3. /\ t[a] \in Session /\ t[a].flow = session[a].flow /\ t[a].stage = session[a].stage
          /\ t[a].socket = session[a].socket
      BY <2>1, <3>1, Aged
    <3> QED BY <2>1, <3>2, <3>3, StaysFormed
  <2> QED BY <2>2, <2>3
<1>2. t \in [Address -> Session]
  BY <1>1
<1>3. /\ phase = "wait" /\ session' = t
      /\ UNCHANGED <<open, count, phase, batch, failed, served, stop, blocked, forgotten>>
  BY DEF Tick
<1> HIDE DEF t
<1>4. Formed' /\ OneSessionPerFlow' /\ ActiveSet' \subseteq ActiveSet /\ OpensAllowed
  BY <1>1, <1>2, <1>3, TableBecomes
<1>5. DescriptorsOwned' /\ NoLeak'
  BY <1>1, <1>2, <1>3, SocketsKept
<1>6. /\ Cardinality(ActiveSet) \in Nat /\ Cardinality(ActiveSet') \in Nat
      /\ Cardinality(ActiveSet') <= Cardinality(ActiveSet)
  BY <1>4, FewerActive
<1>7. TypeOK'
  BY <1>2, <1>3 DEF IInv, TypeOK
<1>8. batch = {} /\ served = 0
  BY <1>3 DEF IInv, BatchServed, Counted
<1>9. BatchServed' /\ EventsOwned' /\ Counted'
  BY <1>3, <1>6, <1>8 DEF IInv, TypeOK, BatchServed, EventsOwned, Counted
<1> QED BY <1>4, <1>5, <1>7, <1>9 DEF IInv

LEMMA ServeSocketIInv ==
  ASSUME IInv, NEW a \in Address, ServeSocket(a)
  PROVE  IInv' /\ OpensAllowed
<1>1. PICK s \in Event(session[a], a \in failed) : Replace([session EXCEPT ![a] = s])
  BY DEF ServeSocket
<1> DEFINE t == [session EXCEPT ![a] = s]
<1>2. /\ phase = "dispatch" /\ a \in batch
      /\ batch' = batch \ {a} /\ failed' = failed \ {a}
      /\ UNCHANGED <<count, phase, served, stop, blocked, forgotten>>
  BY DEF ServeSocket, Turn, Serve
<1>3. Becomes(session[a], s) /\ s \in Session
  BY <1>2, EventBecomes DEF IInv, TypeOK, Formed, EventsOwned, Becomes
<1>4. t \in [Address -> Session] /\ Replace(t) /\ t[a] = s
      /\ \A b \in Address : Becomes(session[b], t[b]) /\ (b # a => t[b] = session[b])
  BY <1>1, <1>3, StaysSame DEF IInv, TypeOK, Formed
<1> HIDE DEF t
<1>5. session' = t /\ open' \subseteq open /\ DescriptorsOwned' /\ NoLeak'
  BY <1>2, <1>4, ReplaceOwns
<1>6. Formed' /\ OneSessionPerFlow' /\ ActiveSet' \subseteq ActiveSet /\ OpensAllowed
  BY <1>4, <1>5, TableBecomes
<1>7. /\ Cardinality(ActiveSet) \in Nat /\ Cardinality(ActiveSet') \in Nat
      /\ Cardinality(ActiveSet') <= Cardinality(ActiveSet)
  BY <1>6, FewerActive
<1>8. TypeOK'
  BY <1>2, <1>4, <1>5 DEF IInv, TypeOK
<1>9. BatchServed' /\ EventsOwned'
  BY <1>2, <1>4, <1>5 DEF IInv, BatchServed, EventsOwned
<1>10. Counted'
  BY <1>2, <1>7 DEF IInv, TypeOK, Counted
<1> QED BY <1>5, <1>6, <1>8, <1>9, <1>10 DEF IInv

\* The steps of the tun device, the batch and Java that change no session.
LEMMA OtherStepsIInv ==
  ASSUME IInv, TunEmpty \/ EndBatch \/ ChangeRules \/ RequestStop
  PROVE  IInv' /\ OpensAllowed
<1>1. /\ UNCHANGED <<session, open, count, forgotten>>
      /\ batch' \subseteq batch /\ failed' \subseteq batch'
      /\ stop' \in BOOLEAN /\ (stop => stop') /\ blocked' \in Rules
      /\ \/ UNCHANGED <<phase, served>>
         \/ phase = "dispatch" /\ phase' = "monitor" /\ served' = 0 /\ batch' = {}
  BY DEF TunEmpty, Serve, Turn, EndBatch, ChangeRules, RequestStop, IInv, TypeOK
<1>2. TypeOK'
  BY <1>1 DEF IInv, TypeOK
<1>3. BatchServed' /\ EventsOwned'
  BY <1>1 DEF IInv, BatchServed, EventsOwned
<1>4. Counted'
  BY <1>1, TableKept DEF IInv, Counted
<1> QED BY <1>1, <1>2, <1>3, <1>4, TableKept DEF IInv

LEMMA ClearIInv ==
  ASSUME IInv, Clear
  PROVE  IInv' /\ OpensAllowed
<1> DEFINE t == [a \in Address |-> NoSession]
<1>1. t \in [Address -> Session] /\ \A a \in Address : Becomes(session[a], t[a])
  BY NoSessionFormed DEF Becomes
<1>2. /\ Replace(t) /\ phase = "stopped" /\ phase' = "cleared"
      /\ UNCHANGED <<count, batch, failed, served, stop, blocked, forgotten>>
  BY DEF Clear
<1> HIDE DEF t
<1>3. session' = t /\ open' \subseteq open /\ DescriptorsOwned' /\ NoLeak'
  BY <1>1, <1>2, ReplaceOwns
<1>4. Formed' /\ OneSessionPerFlow' /\ OpensAllowed
  BY <1>1, <1>3, TableBecomes
<1>5. TypeOK'
  BY <1>1, <1>2, <1>3 DEF IInv, TypeOK
<1>6. BatchServed' /\ EventsOwned' /\ Counted'
  BY <1>2 DEF IInv, BatchServed, EventsOwned, Counted
<1> QED BY <1>3, <1>4, <1>5, <1>6 DEF IInv

\* A session s at an address where there was none, of a flow that has no other.
LEMMA SessionAdded ==
  ASSUME IInv, NEW a \in Free, NEW s \in Session, WellFormed(s), s # NoSession,
         NEW f \in Flow, Matches(f) = {},
         s.flow = f \/ (DhcpFlows # {} /\ s.flow = DhcpKey),
         s.socket \notin open, session' = [session EXCEPT ![a] = s]
  PROVE  /\ session' \in [Address -> Session]
         /\ session'[a] = s /\ session[a] = NoSession /\ a \in Address
         /\ \A b \in Address \ {a} : session'[b] = session[b]
         /\ Formed' /\ OneSessionPerFlow'
         /\ \A b \in Address \ {a} : s.socket # NoSocket => session[b].socket # s.socket
         /\ ActiveSet' \subseteq ActiveSet \cup {a}
         /\ Sockets(session) \subseteq Sockets(session')
<1>1. /\ session' \in [Address -> Session]
      /\ session'[a] = s /\ session[a] = NoSession /\ a \in Address
      /\ \A b \in Address \ {a} : session'[b] = session[b]
  BY DEF IInv, TypeOK, Free, Used
<1>2. Formed'
  BY <1>1 DEF IInv, Formed
<1>3. ASSUME NEW b \in Address \ {a}, session[b] # NoSession, session[b].flow = s.flow
      PROVE  \/ IsIcmp(session[b]) /\ session[b].stage = "ENDING"
             \/ IsUdp(session[b]) /\ session[b].flow = DhcpKey
  BY <1>3 DEF Matches, Used
<1>4. OneSessionPerFlow'
  <2>1. ASSUME NEW b \in Address, NEW c \in Address, b # c, session'[b] # NoSession,
               session'[c] # NoSession, session'[b].flow = session'[c].flow
        PROVE  \/ IsIcmp(session'[b]) /\ "ENDING" \in {session'[b].stage, session'[c].stage}
               \/ IsUdp(session'[b]) /\ session'[b].flow = DhcpKey
    <3>1. CASE b = a
      BY <1>1, <1>3, <2>1, <3>1
    <3>2. CASE c = a
      BY <1>1, <1>3, <2>1, <3>2
    <3>3. CASE b # a /\ c # a
      BY <1>1, <2>1, <3>3 DEF IInv, OneSessionPerFlow, Used
    <3> QED BY <3>1, <3>2, <3>3
  <2> QED BY <2>1 DEF OneSessionPerFlow, Used
<1>5. \A b \in Address \ {a} : s.socket # NoSocket => session[b].socket # s.socket
  BY DEF IInv, DescriptorsOwned
<1>6. ActiveSet' \subseteq ActiveSet \cup {a}
  BY <1>1
<1>7. Sockets(session) \subseteq Sockets(session')
  BY <1>1, NoSessionFormed DEF Sockets
<1> QED BY <1>1, <1>2, <1>4, <1>5, <1>6, <1>7

\* The count allows for one more session by each packet of the batch.
LEMMA OneMoreCounted ==
  ASSUME IInv, phase = "dispatch", UNCHANGED <<phase, count>>, served' = served + 1,
         NEW a, ActiveSet' \subseteq ActiveSet \cup {a},
         Limited => ActiveSet' \subseteq ActiveSet
  PROVE  Counted'
<1>1. IsFiniteSet(ActiveSet) /\ Cardinality(ActiveSet) \in Nat
  BY FS_Subset, FS_CardinalityType
<1> HIDE DEF ActiveSet
<1>2. IsFiniteSet(ActiveSet \cup {a}) /\ Cardinality(ActiveSet \cup {a}) \in Nat
      /\ Cardinality(ActiveSet \cup {a}) <= Cardinality(ActiveSet) + 1
  <2>1. Cardinality(ActiveSet \cup {a}) \in {Cardinality(ActiveSet), Cardinality(ActiveSet) + 1}
    BY <1>1, FS_AddElement
  <2>2. IsFiniteSet(ActiveSet \cup {a})
    BY <1>1, FS_AddElement
  <2> QED BY <1>1, <2>1, <2>2
<1>3. IsFiniteSet(ActiveSet') /\ Cardinality(ActiveSet') \in Nat
      /\ Cardinality(ActiveSet') <= Cardinality(ActiveSet \cup {a})
      /\ (Limited => Cardinality(ActiveSet') <= Cardinality(ActiveSet))
  BY <1>1, <1>2, FS_Subset, FS_CardinalityType
<1>4. /\ count \in Nat /\ served \in Nat
      /\ Cardinality(ActiveSet) <= count + (IF count >= MaxSessions THEN 0 ELSE served)
  BY DEF IInv, TypeOK, Counted
<1>5. Cardinality(ActiveSet') <= count + (IF count >= MaxSessions THEN 0 ELSE served + 1)
  <2>1. CASE count >= MaxSessions
    BY <1>1, <1>3, <1>4, <2>1 DEF Limited
  <2>2. CASE ~(count >= MaxSessions)
    BY <1>1, <1>2, <1>3, <1>4, <2>2
  <2> QED BY <2>1, <2>2
<1> QED BY <1>5 DEF Counted

LEMMA TunPacketIInv ==
  ASSUME IInv, TunPacket
  PROVE  IInv' /\ OpensAllowed
<1>1. /\ phase = "dispatch" /\ served' = served + 1
      /\ UNCHANGED <<count, phase, batch, failed, stop, blocked>>
  BY DEF TunPacket, Turn
<1>2. PICK f \in Flow, syn \in BOOLEAN :
        \/ Refuse(f, syn) \/ BlockUdp(f)
        \/ UseSession(f, syn) \/ OpenSession(f, syn) \/ OpenFails(f, syn)
  BY DEF TunPacket
<1>3. SUFFICES /\ session' \in [Address -> Session] /\ open' \subseteq Fd
               /\ forgotten' \subseteq Fd
               /\ Formed' /\ DescriptorsOwned' /\ EventsOwned' /\ OneSessionPerFlow'
               /\ NoLeak' /\ OpensAllowed
               /\ \E a : ActiveSet' \subseteq ActiveSet \cup {a}
               /\ Limited => ActiveSet' \subseteq ActiveSet
  <2>1. TypeOK' /\ BatchServed'
    BY <1>1, <1>3 DEF IInv, TypeOK, BatchServed
  <2>2. Counted'
    BY <1>1, <1>3, OneMoreCounted
  <2> QED BY <1>3, <2>1, <2>2 DEF IInv
<1>4. CASE Refuse(f, syn)
  <2>1. UNCHANGED <<session, open, forgotten>>
    BY <1>4 DEF Refuse
  <2> QED BY <1>1, <2>1, TableKept DEF IInv, TypeOK, EventsOwned
<1>5. CASE OpenFails(f, syn)
  <2>1. /\ session' = session /\ open \subseteq open' /\ open' \subseteq Fd
        /\ forgotten \subseteq forgotten' /\ forgotten' \subseteq Fd
        /\ open' \ open \subseteq forgotten'
    BY <1>5 DEF OpenFails, IInv, TypeOK
  <2>2. Formed' /\ ActiveSet' = ActiveSet /\ DescriptorsOwned' /\ EventsOwned'
    BY <1>1, <2>1 DEF IInv, Formed, DescriptorsOwned, EventsOwned
  <2>3. OneSessionPerFlow' /\ OpensAllowed
    BY <2>1 DEF IInv, OneSessionPerFlow, Used, OpensAllowed
  <2>4. NoLeak'
    BY <2>1 DEF IInv, NoLeak, Sockets
  <2> QED BY <2>1, <2>2, <2>3, <2>4 DEF IInv, TypeOK
<1>6. CASE BlockUdp(f)
  <2>1. f \in UdpFlows /\ Matches(f) = {} /\ ~Limited /\ UNCHANGED <<open, forgotten>>
    BY <1>6 DEF BlockUdp, Begins
  <2> DEFINE new == [flow |-> f, stage |-> "BLOCKED", socket |-> NoSocket, age |-> 0]
  <2>2. PICK a \in Free : session' = [session EXCEPT ![a] = new]
    BY <1>6 DEF BlockUdp
  <2>3. /\ new \in Session /\ WellFormed(new) /\ new # NoSession
        /\ new.flow = f /\ new.socket = NoSocket /\ NoSocket \notin open
    BY DEF IInv, TypeOK, Session, WellFormed, NoSession
  <2> HIDE DEF new
  <2>4. /\ session' \in [Address -> Session] /\ a \in Address
        /\ session'[a] = new /\ session[a] = NoSession
        /\ \A b \in Address \ {a} : session'[b] = session[b]
        /\ Formed' /\ OneSessionPerFlow'
        /\ ActiveSet' \subseteq ActiveSet \cup {a}
        /\ Sockets(session) \subseteq Sockets(session')
    BY <2>1, <2>2, <2>3, SessionAdded, ZenonT(40)
  <2>5. DescriptorsOwned' /\ EventsOwned'
    BY <1>1, <2>1, <2>3, <2>4, NoSessionFormed DEF IInv, DescriptorsOwned, EventsOwned
  <2>6. NoLeak' /\ OpensAllowed
    BY <2>1, <2>3, <2>4 DEF IInv, NoLeak, OpensAllowed
  <2> QED BY <2>1, <2>4, <2>5, <2>6 DEF IInv, TypeOK
<1>7. CASE UseSession(f, syn)
  <2>1. PICK a \in Matches(f) : \E s \in Packet(session[a]) : session' = [session EXCEPT ![a] = s]
    BY <1>7 DEF UseSession
  <2>2. PICK s \in Packet(session[a]) : session' = [session EXCEPT ![a] = s]
    BY <2>1
  <2> DEFINE t == [session EXCEPT ![a] = s]
  <2>3. a \in Address /\ session[a] # NoSession /\ session[a] \in Session /\ WellFormed(session[a])
    BY DEF Matches, Used, IInv, TypeOK, Formed
  <2>4. Becomes(session[a], s) /\ s # NoSession /\ s.socket = session[a].socket /\ s \in Session
    BY <2>3, PacketBecomes DEF Becomes
  <2>5. t \in [Address -> Session] /\ session' = t /\ UNCHANGED <<open, forgotten>>
        /\ \A b \in Address : /\ Becomes(session[b], t[b]) /\ t[b].socket = session[b].socket
                              /\ t[b] = NoSession => session[b] = NoSession
    BY <1>7, <2>2, <2>3, <2>4, StaysSame, ZenonT(40) DEF UseSession, IInv, TypeOK, Formed
  <2> HIDE DEF t
  <2>6. DescriptorsOwned' /\ NoLeak'
    BY <2>5, SocketsKept
  <2>7. Formed' /\ OneSessionPerFlow' /\ ActiveSet' \subseteq ActiveSet /\ OpensAllowed
    BY <2>5, TableBecomes
  <2>8. EventsOwned'
    BY <1>1, <2>5 DEF IInv, EventsOwned
  <2> QED BY <2>5, <2>6, <2>7, <2>8 DEF IInv, TypeOK
<1>8. CASE OpenSession(f, syn)
  <2>1. Matches(f) = {} /\ ~Limited /\ f \notin blocked /\ forgotten' = forgotten
    BY <1>8 DEF OpenSession, Admitted, Begins
  <2>2. PICK a \in Free, fd \in Fd \ open :
          LET new == [flow |-> f, stage |-> "ACTIVE", socket |-> fd, age |-> 0]
          IN  /\ \E s \in IF IsTcp(new) THEN {new} ELSE Packet(new) :
                    session' = [session EXCEPT ![a] = s]
              /\ open' = open \cup {fd}
    BY <1>8 DEF OpenSession
  <2> DEFINE new == [flow |-> f, stage |-> "ACTIVE", socket |-> fd, age |-> 0]
  <2>3. PICK s \in IF IsTcp(new) THEN {new} ELSE Packet(new) : session' = [session EXCEPT ![a] = s]
    BY <2>2
  <2>4. new \in Session /\ WellFormed(new) /\ new # NoSession /\ new.flow = f /\ new.socket = fd
    BY DEF Session, WellFormed, NoSession, Stages
  <2>5. open' = open \cup {fd} /\ fd # NoSocket /\ fd \notin open /\ open' \subseteq Fd
    BY <2>2 DEF IInv, TypeOK
  <2> HIDE DEF new
  <2>6. /\ s \in Session /\ WellFormed(s) /\ s # NoSession /\ s.socket = fd
        /\ s.flow = f \/ (DhcpFlows # {} /\ s.flow = DhcpKey)
    <3>1. CASE s = new
      BY <2>4, <3>1
    <3>2. CASE s # new
      <4>1. s \in Packet(new)
        BY <2>3, <3>2
      <4>2. Becomes(new, s) /\ s # NoSession /\ s.socket = new.socket
        BY <2>4, <4>1, PacketBecomes
      <4> QED BY <2>4, <4>2 DEF Becomes
    <3> QED BY <3>1, <3>2
  <2>7. /\ session' \in [Address -> Session] /\ a \in Address
        /\ session'[a] = s /\ session[a] = NoSession
        /\ \A b \in Address \ {a} : session'[b] = session[b]
        /\ Formed' /\ OneSessionPerFlow'
        /\ \A b \in Address \ {a} : session[b].socket # fd
        /\ ActiveSet' \subseteq ActiveSet \cup {a}
        /\ Sockets(session) \subseteq Sockets(session')
    BY <2>1, <2>3, <2>5, <2>6, SessionAdded, ZenonT(40)
  <2>8. DescriptorsOwned'
    BY <2>5, <2>6, <2>7 DEF IInv, DescriptorsOwned, WellFormed
  <2>9. EventsOwned'
    BY <1>1, <2>5, <2>6, <2>7 DEF IInv, EventsOwned
  <2>10. NoLeak'
    BY <2>1, <2>5, <2>6, <2>7 DEF IInv, NoLeak, Sockets
  <2>11. OpensAllowed
    BY <2>1, <2>6, <2>7 DEF OpensAllowed
  <2> QED BY <2>1, <2>5, <2>7, <2>8, <2>9, <2>10, <2>11 DEF IInv, TypeOK
<1> QED BY <1>2, <1>4, <1>5, <1>6, <1>7, <1>8

-----------------------------------------------------------------------------
(* The theorems.                                                           *)

LEMMA NextIInv ==
  ASSUME IInv, [Next]_vars
  PROVE  IInv' /\ OpensAllowed
<1>1. CASE UNCHANGED vars
  <2>1. UNCHANGED <<session, open, count, phase, batch, failed, served, stop, blocked, forgotten>>
    BY <1>1 DEF vars
  <2>2. TypeOK' /\ BatchServed' /\ EventsOwned'
    BY <2>1 DEF IInv, TypeOK, BatchServed, EventsOwned
  <2>3. Counted'
    BY <2>1, TableKept DEF IInv, Counted
  <2> QED BY <2>1, <2>2, <2>3, TableKept DEF IInv
<1>2. CASE Next
  BY <1>2, MonitorIInv, CheckSessionsIInv, SkipChecksIInv, EpollWaitIInv, LoopEndsIInv, TickIInv,
     ServeSocketIInv, TunPacketIInv, OtherStepsIInv, ClearIInv DEF Next
<1> QED BY <1>1, <1>2

\* The list, the descriptors, the batch and the count fit together after every
\* step of the loop, of the app and of Java.
THEOREM Invariance == Spec => []IInv
<1> QED BY InitIInv, NextIInv, PTL DEF Spec

\* Every variable has its type, for any flows, limits and numbers of addresses.
THEOREM TypeCorrect == Spec => []TypeOK
<1>1. IInv => TypeOK
  BY DEF IInv
<1> QED BY <1>1, Invariance, PTL

\* A session's socket is open and its own, although numbers of descriptors and
\* addresses are used again (check_udp_session, check_tcp_session, clear).
THEOREM DescriptorsCorrect == Spec => []DescriptorsOwned
<1>1. IInv => DescriptorsOwned
  BY DEF IInv
<1> QED BY <1>1, Invariance, PTL

\* A socket that was opened for a session is closed with it, in every error
\* path and by a stop: what is left open without a session is what open_tcp_socket,
\* open_udp_socket and open_icmp_socket gave up before there was one.
THEOREM NoSocketLeaks == Spec => []NoLeak
<1>1. IInv => NoLeak
  BY DEF IInv
<1> QED BY <1>1, Invariance, PTL

\* The pointer in an event is to a session that is still in the list, with a
\* socket (ev[i].data.ptr, session.c), however many events a batch has.
THEOREM EventsCorrect == Spec => []EventsOwned
<1>1. IInv => EventsOwned
  BY DEF IInv
<1> QED BY <1>1, Invariance, PTL

\* No two sessions share the packets of a flow (the searches of handle_icmp,
\* handle_udp and handle_tcp).
THEOREM FlowsSeparate == Spec => []OneSessionPerFlow
<1>1. IInv => OneSessionPerFlow
  BY DEF IInv
<1> QED BY <1>1, Invariance, PTL

\* A batch admits no session beyond a full table, and at most one per packet
\* below it (handle_ip, with the count of handle_events).
THEOREM LimitKept == Spec => []LimitHolds
<1>1. IInv => LimitHolds
  BY DEF IInv, Counted, LimitHolds
<1> QED BY <1>1, Invariance, PTL

\* Within the limit no timeout is scaled below zero.
LEMMA ScaledIsNat ==
  ASSUME count \in Nat, count <= MaxSessions, NEW t \in Nat
  PROVE  Scaled(t) \in Nat
<1> DEFINE part == (count * 100) \div MaxSessions
           share == t * (100 - part)
<1>1. part \in Int /\ part <= 100
  OBVIOUS
<1> HIDE DEF part
<1>2. share \in Int /\ share >= 0
  BY <1>1
<1> HIDE DEF share
<1>3. share \div 100 >= 0
  BY <1>2
<1> QED BY <1>2, <1>3 DEF Scaled, CDiv, part, share

\* While the table is not overfull, a session that was active within the last
\* second survives the check (get_icmp_timeout, get_udp_timeout, get_tcp_timeout).
THEOREM FreshKept == Spec => FreshSurvives
<1>1. ASSUME IInv, [Next]_vars, phase = "check", count <= MaxSessions,
             NEW a \in Address, Active(a), session[a].age = 0
      PROVE  session'[a] = session[a]
  <2>1. CASE session' = session
    BY <2>1
  <2>2. CASE CheckSessions
    <3>1. PICK idle \in SUBSET {b \in Address : Active(b)} :
            /\ a \in idle => Overdue(session[a])
            /\ session' = [b \in Address |-> Checked(session[b], b \in idle)]
      BY <1>1, <2>2 DEF CheckSessions, Replace
    <3>2. session[a].flow \in Flow
      BY <1>1 DEF IInv, TypeOK, Formed, WellFormed, Session
    <3>3. \A t \in Timeouts[session[a].flow] : Scaled(t) \in Nat
      BY <1>1, <3>2, ScaledIsNat DEF IInv, TypeOK
    <3>4. ~Overdue(session[a])
      BY <1>1, <3>3, SMTT(20) DEF Overdue
    <3>5. Checked(session[a], a \in idle) = session[a]
      BY <1>1, <3>1, <3>2, <3>4 DEF Checked, CheckIcmp, CheckUdp, CheckTcp
    <3> QED BY <3>1, <3>5
  <2> QED
    BY <1>1, <2>1, <2>2 DEF Next, vars, Monitor, SkipChecks, EpollWait, EpollFails, Tick, ServePipe,
       ServeSocket, TunPacket, DomainQuery, TunFails, TunEmpty, EndBatch, ChangeRules, RequestStop, Clear, Turn
<1>2. IInv /\ [Next]_vars => [phase = "check" /\ count <= MaxSessions =>
          \A a \in Address : Active(a) /\ session[a].age = 0 => session'[a] = session[a]]_vars
  BY <1>1
<1> QED BY <1>2, Invariance, PTL DEF Spec, FreshSurvives

\* No socket is opened for a flow that is forbidden at that moment (handle_ip,
\* isAddressAllowed).  The address that check_dhcp writes into a key was never
\* asked about, so it must not be one of a rule.
THEOREM RulesEnforced ==
  ASSUME \A r \in Rules : DhcpKey \notin r PROVE Spec => RulesObeyed
<1>1. ASSUME IInv, [Next]_vars, NEW a \in Address,
             session'[a].socket \notin {NoSocket, session[a].socket}
      PROVE  session'[a].flow \notin blocked
  <2>1. session'[a].flow \notin blocked \/ session'[a].flow = DhcpKey
    BY <1>1, NextIInv DEF OpensAllowed
  <2> QED BY <1>1, <2>1 DEF IInv, TypeOK
<1>2. IInv /\ [Next]_vars => [\A a \in Address :
          session'[a].socket \notin {NoSocket, session[a].socket}
              => session'[a].flow \notin blocked]_vars
  BY <1>1
<1> QED BY <1>2, Invariance, PTL DEF Spec, RulesObeyed

-----------------------------------------------------------------------------
(* The loop implements LoopLife.                                           *)

LEMMA WorkLoop == ASSUME Running, Running', stop' = stop PROVE Loop!Work
<1>1. LoopStage = "on" /\ LoopStage' = "on"
  BY DEF LoopStage
<1>2. LoopAsked' = LoopAsked
  BY DEF LoopAsked
<1> QED BY <1>1, <1>2 DEF Loop!Work

\* The loop fails, and the process with it.
LEMMA DieLoop == ASSUME Running, phase' = "dead" PROVE Loop!Die
<1>1. LoopStage = "on" /\ LoopStage' = "dead"
  BY DEF LoopStage, Running
<1>2. LoopAsked' = FALSE /\ LoopList' = {}
  BY DEF LoopAsked, LoopList, Running
<1> QED BY <1>1, <1>2 DEF Loop!Die

LEMMA AskLoop == ASSUME IInv, RequestStop PROVE Loop!Ask
<1>1. Running /\ Running' /\ stop = FALSE /\ stop' = TRUE /\ UNCHANGED <<session, phase>>
  BY DEF RequestStop, Running, IInv, TypeOK
<1>2. LoopStage = "on" /\ LoopStage' = "on" /\ LoopAsked = FALSE /\ LoopAsked' = TRUE
  BY <1>1 DEF LoopStage, LoopAsked
<1>3. LoopList' = LoopList
  BY <1>1 DEF LoopList, Sockets
<1> QED BY <1>2, <1>3 DEF Loop!Ask

\* The pipe is reported only for a byte that jni_stop wrote.
LEMMA FinishLoop == ASSUME IInv, ServePipe PROVE Loop!Finish
<1>1. /\ phase = "dispatch" /\ phase' = "stopped" /\ session' = session
      /\ stop = TRUE
  BY DEF ServePipe, Turn, IInv, TypeOK, BatchServed
<1>2. LoopStage = "on" /\ LoopStage' = "done" /\ LoopAsked = TRUE /\ LoopAsked' = FALSE
  BY <1>1 DEF LoopStage, LoopAsked, Running
<1>3. LoopList' = LoopList
  BY <1>1 DEF LoopList, Sockets
<1> QED BY <1>2, <1>3 DEF Loop!Finish

LEMMA ClearLoop == ASSUME IInv, Clear PROVE Loop!Clear
<1>1. /\ phase = "stopped" /\ phase' = "cleared"
      /\ session' = [a \in Address |-> NoSession]
  BY DEF Clear, Replace
<1>2. LoopStage = "done" /\ LoopStage' = "off" /\ LoopAsked = FALSE /\ LoopAsked' = FALSE
  BY <1>1 DEF LoopStage, LoopAsked, Running
<1>3. LoopList' = {}
  BY <1>1, NoSessionFormed DEF LoopList, Sockets
<1> QED BY <1>2, <1>3 DEF Loop!Clear

\* Every step of the loop, of the app and of Java is one of LoopLife.
LEMMA NextLoop == ASSUME IInv, [Next]_vars PROVE [Loop!Next]_(Loop!vars)
<1>1. CASE UNCHANGED vars
  BY <1>1 DEF vars, Loop!vars, LoopStage, LoopAsked, LoopList, Running, Sockets
<1>2. CASE EpollFails \/ TunFails \/ DomainQuery
  <2>1. Running /\ phase' = "dead"
    BY <1>2 DEF EpollFails, TunFails, DomainQuery, Turn, Running
  <2> QED BY <2>1, DieLoop DEF Loop!Next
<1>3. CASE \/ Monitor \/ CheckSessions \/ SkipChecks \/ EpollWait \/ Tick
           \/ (\E a \in Address : ServeSocket(a))
           \/ TunPacket \/ TunEmpty \/ EndBatch \/ ChangeRules
  <2>1. Running /\ Running' /\ stop' = stop
    BY <1>3 DEF Monitor, CheckSessions, SkipChecks, EpollWait, Tick, ServeSocket, TunPacket,
       TunEmpty, EndBatch, ChangeRules, Turn, Running
  <2> QED BY <2>1, WorkLoop DEF Loop!Next
<1> QED BY <1>1, <1>2, <1>3, AskLoop, FinishLoop, ClearLoop DEF Next, Loop!Next

\* The loop keeps the protocol of LoopLife, whatever the table and its limits:
\* it ends with the process or because it was asked, and what it leaves in the
\* list is cleared, all of it.
THEOREM LoopEndsInOrder == Spec => ImplementsLoop
<1>1. Init => Loop!Init
  <2> SUFFICES ASSUME Init PROVE Loop!Init
    OBVIOUS
  <2>1. phase = "monitor" /\ stop = FALSE /\ session = [a \in Address |-> NoSession]
    BY DEF Init
  <2>2. LoopStage = "on" /\ LoopAsked = FALSE
    BY <2>1 DEF LoopStage, LoopAsked, Running
  <2>3. LoopList = {}
    BY <2>1, NoSessionFormed DEF LoopList, Sockets
  <2> QED BY <2>2, <2>3 DEF Loop!Init
<1> QED BY <1>1, NextLoop, Invariance, PTL DEF Spec, ImplementsLoop, Loop!Spec
=============================================================================
