-------------------------- MODULE MCReliableSender --------------------------
(* Model of ReliableSender for TLC: the ends a and b of one link.          *)
EXTENDS ReliableSender

CONSTANTS a, b, a1, a2, b1

MCEnds == {a, b}
MCPeer == [e \in MCEnds |-> IF e = a THEN b ELSE a]

(* Two calls at one end, one at the other.                                 *)
ThreeCalls == {a1, a2, b1}
ThreeCallers == [c \in ThreeCalls |-> IF c \in {a1, a2} THEN a ELSE b]

(* One call at each end.                                                   *)
TwoCalls == {a1, b1}
TwoCallers == [c \in TwoCalls |-> IF c = a1 THEN a ELSE b]
=============================================================================
