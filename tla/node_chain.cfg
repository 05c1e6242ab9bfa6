\* j joins the seed and k joins j.
CONSTANTS
    s = s
    j = j
    k = k
    NoNode = NoNode
    Slow = {j}
    Nodes <- Star
    Seeds <- ChainSeeds
SPECIFICATION Spec
INVARIANTS BroadcastReachedMembers
CHECK_DEADLOCK FALSE
