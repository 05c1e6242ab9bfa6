\* One call, one other id: an echo that arrives while the message is sent.
CONSTANTS
    Ids = {n1, n2}
    Mids = {m1}
    Requests = {r1}
    NoRequest = NoRequest
    ChannelCap = 2
SPECIFICATION Spec
INVARIANTS WaiterMissesAnEcho
CHECK_DEADLOCK FALSE
