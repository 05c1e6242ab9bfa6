\* Two nodes join the same seed.
CONSTANTS
    s = s
    j = j
    k = k
    NoNode = NoNode
    Slow <- Star
    Nodes <- Star
    Seeds <- StarSeeds
SPECIFICATION FairSpec
PROPERTIES EveryJoinerWelcomed
INVARIANTS TypeOK SeedNeverPanics HeloBeforeMembership NoEchoStorm
CHECK_DEADLOCK FALSE
