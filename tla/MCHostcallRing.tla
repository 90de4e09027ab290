--------------------------- MODULE MCHostcallRing ---------------------------
(* Small instances of HostcallRing: one or two slots, tickets that come    *)
(* round within the run, as many or more waves than resident places.       *)
EXTENDS HostcallRing, TLC

CONSTANTS w1, w2, w3, r1, r2, v1, v2

RingSymmetry == Permutations(Waves) \union Permutations(Requests)
=============================================================================
