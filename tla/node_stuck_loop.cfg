\* One node joins the seed.
CONSTANTS
    s = s
    j = j
    k = k
    NoNode = NoNode
    Slow <- Pair
    Nodes <- Pair
    Seeds <- PairSeeds
SPECIFICATION FairSpec
PROPERTIES EventLoopReturns
CHECK_DEADLOCK FALSE
