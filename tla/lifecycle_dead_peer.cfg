\* One peer joins, and its stream breaks.
CONSTANTS
    Peers = {p1}
    Silent = {}
    NoPeer = NoPeer
    Files <- OneFile
    Taken <- DefaultTaken
SPECIFICATION FairSpec
PROPERTIES DeadPeerForgotten
CHECK_DEADLOCK FALSE
