SPECIFICATION FairSpec
CHECK_DEADLOCK FALSE
CONSTANTS
    t = t
    u = u
    k = k
    i = i
    a1 = a1
    a2 = a2
    a3 = a3
    fd1 = fd1
    fd2 = fd2
    fd3 = fd3
    TcpFlows = {t}
    UdpFlows = {u}
    IcmpFlows = {i}
    DnsFlows = {u}
    DhcpFlows = {}
    DhcpKey = k
    Address = {a1, a2}
    Fd = {fd1, fd2}
    NoFlow = NoFlow
    NoSocket = NoSocket
    Tun = Tun
    Pipe = Pipe
    Events = 2
    Rules <- UdpForbidden
    Timeouts <- NoTimeouts
    UdpKeep = 0
    TcpKeep = 0
    MaxAge = 1
    MaxSessions = 1
    MaxPackets = 1
PROPERTIES
    EndedRemoved
    StopClears
