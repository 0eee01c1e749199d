CONSTANTS
    s = s
    c = c
    n = n
    Addrs <- MCAddrs
    Ports <- MCPorts
    Packets <- MCPackets
    Requests <- MCRequestsMixed
    MaxRequests = 4
    Empty = Empty
    Bcast = Bcast
    NoOp = NoOp
    NoConn = NoConn
SPECIFICATION FairSpec
INVARIANT TypeOK
INVARIANT SuspendedSessionBlocked
PROPERTY UdpSuspendServed
PROPERTY GatewayImplementsProtocol
