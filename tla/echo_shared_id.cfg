\* Three calls that share one message id, over two ids, a channel of one place.
CONSTANTS
    Ids = {n1, n2}
    Mids = {m1}
    Requests = {r1, r2, r3}
    NoRequest = NoRequest
    ChannelCap = 1
SPECIFICATION FairSpec
INVARIANTS TypeOK OkMeansAllEchoed NoLostCaller DroppedOnlyIfReplaced WaiterTracked
PROPERTIES EchosMonotone EveryCallTaken
CHECK_DEADLOCK FALSE
