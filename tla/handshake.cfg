SPECIFICATION Spec
CONSTANTS
    Name = {n1, n2}
    Signature = {s1, s2}
    Protocol = {p1, p2}
    ThisProtocol = p1
    Clients <- MCClients
    Servers <- MCServers
INVARIANTS
    EstablishedIffCompatible
    CallsReachTheirMethods
    PeerCallsReachTheirMethods
