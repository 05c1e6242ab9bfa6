\* One node joins the seed.
CONSTANTS
    s = s
    j = j
    k = k
    NoNode = NoNode
    Slow <- Pair
    Nodes <- Pair
    Seeds <- PairSeeds
SPECIFICATION Spec
INVARIANTS EchoActorsLive
CHECK_DEADLOCK FALSE
