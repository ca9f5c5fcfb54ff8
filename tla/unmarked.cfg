\* The truncation comment of run_udp: whatever is cut has the TC flag.
SPECIFICATION Spec
CONSTANTS
    c1 = c1
    c2 = c2
    c3 = c3
    Peers <- MCPeers
    Tasks = {t1}
    Kinds <- MCKinds
    MaxFds = 2
    MaxSends <- MCMaxSends
    UdpLimit = 512
    FrameLimit = 65535
    RefusalSize = 40
    Nothing = Nothing
    Fails = Fails
INVARIANT CutIsMarked
CHECK_DEADLOCK FALSE
