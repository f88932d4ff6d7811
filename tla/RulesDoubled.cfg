SPECIFICATION Spec
SYMMETRY Interchangeable
CONSTANTS
    ip1 = ip1
    ip2 = ip2
    app1 = app1
    app2 = app2
    Addrs = {ip1, ip2}
    Apps = {app1}
    NoApp = NoApp
    MaxConn = 2
    MaxPairs = 2
    MaxCovered = 0
CONSTRAINT OneMishap
INVARIANTS
    AllowedIsOpen
