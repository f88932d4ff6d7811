SPECIFICATION Spec
CHECK_DEADLOCK FALSE
SYMMETRY Interchangeable
CONSTANTS
    t = t
    u = u
    k = k
    i = i
    a1 = a1
    a2 = a2
    a3 = a3
    fd1 = fd1
    fd2 = fd2
    fd3 = fd3
    TcpFlows = {t}
    UdpFlows = {u, k}
    IcmpFlows = {i}
    DnsFlows = {u}
    DhcpFlows = {u}
    DhcpKey = k
    Address = {a1, a2}
    Fd = {fd1, fd2}
    NoFlow = NoFlow
    NoSocket = NoSocket
    Tun = Tun
    Pipe = Pipe
    Events = 3
    Rules <- OneForbidden
    Timeouts <- FlowTimeouts
    UdpKeep = 0
    TcpKeep = 1
    MaxAge = 2
    MaxSessions = 1
    MaxPackets = 2
INVARIANTS
    TypeOK
    DescriptorsOwned
    NoLeak
    EventsOwned
    OneSessionPerFlow
    LimitHolds
PROPERTIES
    FreshSurvives
    RulesObeyed
    ImplementsLoop
