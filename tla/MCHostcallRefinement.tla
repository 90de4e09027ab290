------------------------ MODULE MCHostcallRefinement ------------------------
EXTENDS HostcallRefinement

CONSTANTS w1, w2, w3, r1, r2, v1, v2
=============================================================================
