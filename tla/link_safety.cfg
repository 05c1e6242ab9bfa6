\* Two calls at one end and one at the other, over a stream that may break.
CONSTANTS
    a = a
    b = b
    a1 = a1
    a2 = a2
    b1 = b1
    Ends <- MCEnds
    Peer <- MCPeer
    Calls <- ThreeCalls
    Caller <- ThreeCallers
    Timed = {a1, b1}
    NoCall = NoCall
    RsCap = 1
    ConnCap = 2
    ClientCap = 1
    WireCap = 2
SPECIFICATION FairSpec
INVARIANTS TypeOK OkMeansDelivered ReceivedInOrder PendingIsTracked NoCircularWait
PROPERTIES Implements CallsAnswered SentReachesClient
CHECK_DEADLOCK FALSE
