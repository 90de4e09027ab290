--------------------------- MODULE MCPerWaveBuffers ---------------------------
EXTENDS PerWaveBuffers

CONSTANTS t1, t2, b1, b2

Dim(a, b, c) == [x |-> a, y |-> b, z |-> c]
Full(g, b) == [grid |-> g, block |-> b, work |-> g.x * b.x]

(* Wavefronts of two lanes: two blocks in a row whose last wavefront is    *)
(* not full, and two in a column, of two and of one dimension.             *)
MCShapes == {Full(Dim(2, 1, 1), Dim(3, 1, 1))}
MCNDRuns == {Full(Dim(1, 1, 2), Dim(1, 2, 1)), Full(Dim(1, 2, 1), Dim(1, 1, 3))}
MCTwoShapes == {Full(Dim(1, 1, 1), Dim(2, 1, 1)), Full(Dim(2, 1, 1), Dim(2, 1, 1))}

(* launcher.cpp with one workgroup, as large as the grid or, by            *)
(* HOSTCALL_WG, larger.                                                    *)
MCRuns == {[n |-> 3, group |-> 0], [n |-> 3, group |-> 4]}

(* With two: of one full wavefront each, and of one and a half.            *)
MCSplitRuns == {[n |-> 4, group |-> 2]}
MCOddRuns == {[n |-> 4, group |-> 3]}
===============================================================================
