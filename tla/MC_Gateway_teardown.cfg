CONSTANTS
    s = s
    c = c
    n = n
    Addrs <- MCAddrs
    Ports <- MCPorts
    Packets <- MCPackets
    Requests <- MCRequests1
    MaxRequests = 3
    Empty = Empty
    Bcast = Bcast
    NoOp = NoOp
    NoConn = NoConn
SPECIFICATION Spec
INVARIANT TeardownRemovesBlocks
