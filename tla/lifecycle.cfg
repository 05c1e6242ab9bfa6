\* Two peers and a silent one join a node, from any configuration file.
CONSTANTS
    Peers = {p1, p2, p3}
    Silent = {p3}
    NoPeer = NoPeer
    Files <- AllFiles
    Taken <- DefaultTaken
SPECIFICATION FairSpec
INVARIANTS TypeOK NoiseInStep EndsOnlyBeforeJoin NoSpin
PROPERTIES BacklogServed
CHECK_DEADLOCK FALSE
