\* Two calls with one message id and different members.
CONSTANTS
    Ids = {n1, n2}
    Mids = {m1}
    Requests = {r1, r2}
    NoRequest = NoRequest
    ChannelCap = 2
SPECIFICATION Spec
INVARIANTS WaitsOnlyForItsMembers
CHECK_DEADLOCK FALSE
