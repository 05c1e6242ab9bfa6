\* One call at each end, without timeouts, and a stream that breaks.
CONSTANTS
    a = a
    b = b
    a1 = a1
    a2 = a2
    b1 = b1
    Ends <- MCEnds
    Peer <- MCPeer
    Calls <- TwoCalls
    Caller <- TwoCallers
    Timed = {}
    NoCall = NoCall
    RsCap = 1
    ConnCap = 1
    ClientCap = 1
    WireCap = 1
SPECIFICATION FairSpec
PROPERTIES AckOrFailure
CHECK_DEADLOCK FALSE
