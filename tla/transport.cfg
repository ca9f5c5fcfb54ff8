\* The sockets: descriptors, truncation and framing.
SPECIFICATION FairSpec
CONSTANTS
    c1 = c1
    c2 = c2
    c3 = c3
    Peers <- MCPeers
    Tasks = {t1}
    Kinds <- MCKinds
    MaxFds = 2
    MaxSends <- MCMaxSends
    UdpLimit = 512
    FrameLimit = 65535
    RefusalSize = 40
    Nothing = Nothing
    Fails = Fails
INVARIANTS TypeOK NoLeak RepliesFit OneReplyEach AnsweredInFull
PROPERTY ExchangeEnds
CHECK_DEADLOCK FALSE
