------------------------------- MODULE MCNode -------------------------------
(* Models of Node for TLC: a seed s and nodes that join it.                *)
EXTENDS Node

CONSTANTS s, j, k

(* One node joins the seed.                                                *)
Pair == {s, j}
PairSeeds == [n \in Pair |-> IF n = s THEN <<>> ELSE <<s>>]

(* Two nodes join the same seed.                                           *)
Star == {s, j, k}
StarSeeds == [n \in Star |-> IF n = s THEN <<>> ELSE <<s>>]

(* j joins the seed, and k joins j.                                        *)
ChainSeeds ==
    [n \in Star |-> CASE n = s -> <<>> [] n = j -> <<s>> [] n = k -> <<j>>]
=============================================================================
